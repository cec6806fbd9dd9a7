---------------------------- MODULE MassaRunner ----------------------------
(***************************************************************************)
(* The mass execution: the motor that takes a queue of commands to many    *)
(* machines (runner.Executar, rodarHost, perguntar) and the tab that       *)
(* drives it (massaTab: executar, Close, the Abortar button and the one    *)
(* slot "pausa" through which the motor's goroutines ask the operator).    *)
(*                                                                         *)
(* Processes: 0 is the goroutine of Executar, which runs the canary        *)
(* itself; 1..Pool are the goroutines of phase 2.  The rest is the user    *)
(* interface, one step per click.                                          *)
(*                                                                         *)
(* Abstractions.  Hosts are taken in order, so they are 1..NHosts; a       *)
(* result keeps its status and how many commands it holds; connecting and  *)
(* elevating are one step with one outcome; the calibrated timeouts are    *)
(* TimeoutExec's business.  massaTab.corrente is set and cleared with      *)
(* rodando, in the same handlers, and is that variable.                    *)
(***************************************************************************)
EXTENDS Integers, FiniteSets

CONSTANTS
  NHosts,        \* the machines of the tab
  NCmds,         \* the commands of the queue
  Canario,       \* Config.TamCanario
  Workers,       \* Config.Workers
  MaxFalhas,     \* bound: commands that fail, in all
  MaxExecucoes   \* bound: clicks on Executar

ASSUME MassaAssumption ==
  /\ NHosts \in Nat /\ NCmds \in Nat \ {0}
  /\ Canario \in Nat /\ Workers \in Nat
  /\ MaxFalhas \in Nat /\ MaxExecucoes \in Nat

VARIABLES
  main,       \* where Executar is
  prox,       \* hosts taken from the list so far
  faz,        \* where each goroutine is
  host,       \* the host it is on
  cmd,        \* len(res.Comandos)
  ctx,        \* the context is cancelled
  tudo,       \* continuarTudo
  quantas,    \* results registered, by host
  anotado,    \* the last of them
  rodando,    \* the tab is executing
  fechada,    \* the tab was closed
  paralelo,   \* the choice "1 por vez" / "paralelo"
  pausa,      \* whose question the tab shows
  resp,       \* what is in the answer channel of each question
  aprovou,    \* history: the operator let this execution pass the canary
  abortou,    \* history: the operator asked to stop this execution
  depois,     \* history: commands finished after the context was cancelled
  falhas,     \* commands that failed
  execucoes   \* clicks on Executar

motor    == <<main, prox, ctx, tudo>>
filas    == <<faz, host, cmd>>
saidas   == <<quantas, anotado>>
aba      == <<rodando, fechada, paralelo>>
conversa == <<pausa, resp>>
conta    == <<aprovou, abortou, depois, falhas, execucoes>>
vars == <<motor, filas, saidas, aba, conversa, conta>>

Hosts == 1..NHosts

Menor(a, b) == IF a < b THEN a ELSE b

Maior(a, b) == IF a < b THEN b ELSE a

\* How many hosts the canary takes.
NCanario == Menor(Maior(1, Canario), NHosts)

\* How many goroutines phase 2 starts.
Pool == Menor(Maior(1, Workers), NHosts - NCanario)

Procs == 0..Pool

Ninguem == -1

Decisoes == {"continuar", "pular", "tudo", "abortar"}

Respostas == {"nada", "seguir", "parar"} \cup Decisoes

Status == {"nenhum", "ok", "ruim", "pulado"}

\* On a host, from the connection to the registration of its result.
NoHost == {"conectar", "conferir", "rodando", "perguntar", "registrar"}

\* Asking the operator: about to, waiting, answered.
Perguntando == {"abrir", "espera", "decidiu"}

Passos == {"fora", "livre", "recebeu"} \cup NoHost \cup Perguntando

-----------------------------------------------------------------------------
Init ==
  /\ main = "parada" /\ prox = 0 /\ ctx = FALSE /\ tudo = FALSE
  /\ faz = [p \in Procs |-> "fora"]
  /\ host = [p \in Procs |-> 0]
  /\ cmd = [p \in Procs |-> 0]
  /\ quantas = [h \in Hosts |-> 0]
  /\ anotado = [h \in Hosts |-> [st |-> "nenhum", cmds |-> 0]]
  /\ rodando = FALSE /\ fechada = FALSE /\ paralelo = FALSE
  /\ pausa = Ninguem
  /\ resp = [p \in Procs |-> "nada"]
  /\ aprovou = FALSE /\ abortou = FALSE
  /\ depois = [p \in Procs |-> 0]
  /\ falhas = 0 /\ execucoes = 0

Ir(p, f) == faz' = [faz EXCEPT ![p] = f]

-----------------------------------------------------------------------------
(* Executar.                                                               *)

\* massaTab.executar: the click, up to "go r.Executar()".
Executar ==
  /\ ~fechada /\ ~rodando /\ execucoes < MaxExecucoes
  /\ rodando' = TRUE
  /\ main' = "partindo"
  /\ abortou' = FALSE
  /\ execucoes' = execucoes + 1
  /\ UNCHANGED <<prox, ctx, tudo, filas, saidas, fechada, paralelo, conversa, aprovou, depois,
                 falhas>>

\* The goroutine starts: only now is there something Abortar can cancel.
Comecar ==
  /\ main = "partindo"
  /\ main' = IF NHosts = 0 THEN "fim" ELSE "canario"
  /\ ctx' = FALSE /\ tudo' = FALSE /\ prox' = 0
  /\ quantas' = [h \in Hosts |-> 0]
  /\ anotado' = [h \in Hosts |-> [st |-> "nenhum", cmds |-> 0]]
  /\ Ir(0, IF NHosts = 0 THEN "fora" ELSE "livre")
  /\ aprovou' = FALSE
  /\ depois' = [p \in Procs |-> 0]
  /\ UNCHANGED <<host, cmd, aba, conversa, abortou, falhas, execucoes>>

\* A goroutine takes the next host of the list.
Tomar(p, f) ==
  /\ prox' = prox + 1
  /\ host' = [host EXCEPT ![p] = prox + 1]
  /\ cmd' = [cmd EXCEPT ![p] = 0]
  /\ Ir(p, f)

ProximoCanario ==
  /\ main = "canario" /\ faz[0] = "livre"
  /\ ~ctx /\ prox < NCanario
  /\ Tomar(0, "conectar")
  /\ UNCHANGED <<main, ctx, tudo, saidas, aba, conversa, conta>>

\* Variant: phase 2 starts without the operator.
FimDoCanarioDireto ==
  /\ main = "canario" /\ faz[0] = "livre"
  /\ ctx \/ prox >= NCanario
  /\ IF ctx \/ NHosts <= NCanario
     THEN main' = "fim" /\ Ir(0, "fora")
     ELSE main' = "despacho" /\ faz' = [p \in Procs |-> IF p = 0 THEN "fora" ELSE "livre"]
  /\ UNCHANGED <<prox, ctx, tudo, host, cmd, saidas, aba, conversa, conta>>

\* The canary is over; who has hosts left asks the operator.
FimDoCanario ==
  /\ main = "canario" /\ faz[0] = "livre"
  /\ ctx \/ prox >= NCanario
  /\ IF ctx \/ NHosts <= NCanario
     THEN main' = "fim" /\ Ir(0, "fora")
     ELSE main' = "pergunta" /\ Ir(0, "abrir")
  /\ UNCHANGED <<prox, ctx, tudo, host, cmd, saidas, aba, conversa, conta>>

\* Variant: the list has no end.
DespacharAlem(p) ==
  /\ main = "despacho"
  /\ p # 0 /\ faz[p] = "livre"
  /\ Tomar(p, "recebeu")
  /\ UNCHANGED <<main, ctx, tudo, saidas, aba, conversa, conta>>

\* The hand-over of a host on the unbuffered channel fila.
Despachar(p) ==
  /\ main = "despacho" /\ prox < NHosts
  /\ p # 0 /\ faz[p] = "livre"
  /\ Tomar(p, "recebeu")
  /\ UNCHANGED <<main, ctx, tudo, saidas, aba, conversa, conta>>

\* The list is over, or the select took ctx.Done(): close(fila).
FimDoDespacho ==
  /\ main = "despacho"
  /\ ctx \/ prox = NHosts
  /\ main' = "juntar"
  /\ UNCHANGED <<prox, ctx, tudo, filas, saidas, aba, conversa, conta>>

\* The goroutine looks at the context before it touches the host.
ConferirHost(p) ==
  /\ faz[p] = "recebeu"
  /\ Ir(p, IF ctx THEN "fora" ELSE "conectar")
  /\ UNCHANGED <<motor, host, cmd, saidas, aba, conversa, conta>>

\* Variant: leaving the dispatch because of the context, fila stays open.
SairDaFilaAberta(p) ==
  /\ p # 0 /\ main = "juntar" /\ faz[p] = "livre" /\ ~ctx
  /\ Ir(p, "fora")
  /\ UNCHANGED <<motor, host, cmd, saidas, aba, conversa, conta>>

\* The range over the closed channel ends.
SairDaFila(p) ==
  /\ p # 0 /\ main = "juntar" /\ faz[p] = "livre"
  /\ Ir(p, "fora")
  /\ UNCHANGED <<motor, host, cmd, saidas, aba, conversa, conta>>

\* Variant: nobody waits for the goroutines.
JuntarSemEsperar ==
  /\ main = "juntar"
  /\ main' = "fim"
  /\ UNCHANGED <<prox, ctx, tudo, filas, saidas, aba, conversa, conta>>

\* wg.Wait returns.
Juntar ==
  /\ main = "juntar"
  /\ \A p \in Procs : faz[p] = "fora"
  /\ main' = "fim"
  /\ UNCHANGED <<prox, ctx, tudo, filas, saidas, aba, conversa, conta>>

\* r.fim and OnFim.
Terminar ==
  /\ main = "fim"
  /\ main' = "parada"
  /\ rodando' = FALSE
  /\ UNCHANGED <<prox, ctx, tudo, filas, saidas, fechada, paralelo, conversa, conta>>

-----------------------------------------------------------------------------
(* rodarHost.                                                              *)

\* The result of p's host is ready, with its status.
Encerrar(p, s) ==
  /\ Ir(p, "registrar")
  /\ anotado' = [anotado EXCEPT ![host[p]] = [st |-> s, cmds |-> cmd[p]]]

\* The connection and, where it is asked for, the elevation.
Conectar(p) ==
  /\ faz[p] = "conectar"
  /\ Ir(p, "conferir")
  /\ UNCHANGED <<motor, host, cmd, saidas, aba, conversa, conta>>

\* They fail: no question is asked.
FalharConexao(p) ==
  /\ faz[p] = "conectar"
  /\ Encerrar(p, "ruim")
  /\ UNCHANGED <<motor, host, cmd, quantas, aba, conversa, conta>>

\* Variant: the loop is left by a break, and its end calls it OK.
ConferirComBreak(p) ==
  /\ faz[p] = "conferir"
  /\ \/ (cmd[p] = NCmds \/ ctx) /\ Encerrar(p, "ok")
     \/ cmd[p] < NCmds /\ ~ctx /\ Ir(p, "rodando") /\ UNCHANGED anotado
  /\ UNCHANGED <<motor, host, cmd, quantas, aba, conversa, conta>>

\* Variant: the loop does not look at the context.
ConferirSemContexto(p) ==
  /\ faz[p] = "conferir"
  /\ \/ cmd[p] = NCmds /\ Encerrar(p, "ok")
     \/ cmd[p] < NCmds /\ Ir(p, "rodando") /\ UNCHANGED anotado
  /\ UNCHANGED <<motor, host, cmd, quantas, aba, conversa, conta>>

\* The head of the loop over the commands, and its end.
Conferir(p) ==
  /\ faz[p] = "conferir"
  /\ \/ cmd[p] = NCmds /\ Encerrar(p, "ok")
     \/ cmd[p] < NCmds /\ ctx /\ Encerrar(p, "pulado")
     \/ cmd[p] < NCmds /\ ~ctx /\ Ir(p, "rodando") /\ UNCHANGED anotado
  /\ UNCHANGED <<motor, host, cmd, quantas, aba, conversa, conta>>

\* Rodar returns: one more command in the result.
Voltar(p) ==
  /\ faz[p] = "rodando"
  /\ cmd' = [cmd EXCEPT ![p] = @ + 1]
  /\ depois' = [depois EXCEPT ![p] = IF ctx THEN @ + 1 ELSE @]

ComandoBom(p) ==
  /\ Voltar(p)
  /\ Ir(p, "conferir")
  /\ UNCHANGED <<motor, host, saidas, aba, conversa, aprovou, abortou, falhas, execucoes>>

\* The session died with the command.
PerderSessao(p) ==
  /\ Voltar(p)
  /\ Ir(p, "registrar")
  /\ anotado' = [anotado EXCEPT ![host[p]] = [st |-> "ruim", cmds |-> cmd[p] + 1]]
  /\ UNCHANGED <<motor, host, quantas, aba, conversa, aprovou, abortou, falhas, execucoes>>

\* A bad exit code, a timeout or silence.
ComandoRuim(p) ==
  /\ Voltar(p)
  /\ falhas < MaxFalhas /\ falhas' = falhas + 1
  /\ Ir(p, "perguntar")
  /\ UNCHANGED <<motor, host, saidas, aba, conversa, aprovou, abortou, execucoes>>

\* Variant: every failure is asked about.
PerguntarSempre(p) ==
  /\ faz[p] = "perguntar"
  /\ Ir(p, "abrir")
  /\ UNCHANGED <<motor, host, cmd, saidas, aba, conversa, conta>>

\* perguntar: continuarTudo is read and its lock released.
Perguntar(p) ==
  /\ faz[p] = "perguntar"
  /\ Ir(p, IF tudo THEN "conferir" ELSE "abrir")
  /\ UNCHANGED <<motor, host, cmd, saidas, aba, conversa, conta>>

\* registrar, and the goroutine is back for another host.
Registrar(p) ==
  /\ faz[p] = "registrar"
  /\ quantas' = [quantas EXCEPT ![host[p]] = @ + 1]
  /\ Ir(p, "livre")
  /\ UNCHANGED <<motor, host, cmd, anotado, aba, conversa, conta>>

-----------------------------------------------------------------------------
(* The question and its answer: esperarErro and esperarCanario.            *)

\* A new question, with its own channel, takes the slot.
AbrirPausa(p) ==
  /\ faz[p] = "abrir"
  /\ pausa' = p
  /\ resp' = [resp EXCEPT ![p] = "nada"]
  /\ Ir(p, "espera")
  /\ UNCHANGED <<motor, host, cmd, saidas, aba, conta>>

\* The answer arrives.
Receber(p) ==
  /\ faz[p] = "espera" /\ resp[p] # "nada"
  /\ Ir(p, "decidiu")
  /\ UNCHANGED <<motor, host, cmd, saidas, aba, conversa, conta>>

\* Variant: an abort returns before the slot is cleared.
LimparSeSegue(p) ==
  /\ faz[p] = "decidiu"
  /\ pausa' = IF resp[p] = "abortar" THEN pausa ELSE Ninguem

\* definirPausa(nil): whatever question is in the slot.
LimparPausa(p) ==
  /\ faz[p] = "decidiu"
  /\ pausa' = Ninguem

\* Variant: phase 2 ranges over hosts, not hosts[n:].
DecidirCanarioDoInicio ==
  /\ main = "pergunta" /\ LimparPausa(0)
  /\ IF resp[0] = "seguir"
     THEN /\ main' = "despacho" /\ aprovou' = TRUE /\ prox' = 0
          /\ faz' = [p \in Procs |-> IF p = 0 THEN "fora" ELSE "livre"]
     ELSE /\ main' = "fim" /\ Ir(0, "fora") /\ UNCHANGED <<aprovou, prox>>
  /\ UNCHANGED <<ctx, tudo, host, cmd, saidas, aba, resp, abortou, depois, falhas, execucoes>>

\* The answer to the canary's question.
DecidirCanario ==
  /\ main = "pergunta" /\ LimparPausa(0)
  /\ IF resp[0] = "seguir"
     THEN /\ main' = "despacho" /\ aprovou' = TRUE
          /\ faz' = [p \in Procs |-> IF p = 0 THEN "fora" ELSE "livre"]
     ELSE /\ main' = "fim" /\ Ir(0, "fora") /\ UNCHANGED aprovou
  /\ UNCHANGED <<prox, ctx, tudo, host, cmd, saidas, aba, resp, abortou, depois, falhas,
                 execucoes>>

\* The answer to the question about a failed command.
DecidirErro(p) ==
  /\ main # "pergunta" /\ LimparPausa(p)
  /\ \/ resp[p] \in {"continuar", "tudo"} /\ Ir(p, "conferir") /\ UNCHANGED anotado
     \/ resp[p] = "pular" /\ Encerrar(p, "pulado")
     \/ resp[p] = "abortar" /\ Encerrar(p, "ruim")
  /\ tudo' = (tudo \/ resp[p] = "tudo")
  /\ ctx' = (ctx \/ resp[p] = "abortar")
  /\ UNCHANGED <<main, prox, host, cmd, quantas, aba, resp, conta>>

\* What the question in the slot can be answered with.
Opcoes == IF main = "pergunta" THEN {"seguir", "parar"} ELSE Decisoes

\* The operator clicks on an answer of the question shown.
Responder ==
  \E p \in Procs, d \in Opcoes :
    /\ ~fechada
    /\ pausa = p /\ faz[p] = "espera" /\ resp[p] = "nada"
    /\ resp' = [resp EXCEPT ![p] = d]
    /\ UNCHANGED <<motor, filas, saidas, aba, pausa, conta>>

-----------------------------------------------------------------------------
(* The tab.                                                                *)

\* runner.Abortar from the interface: nothing to cancel before Comecar.
Cancelar ==
  /\ ctx' = IF main \in {"parada", "partindo"} THEN ctx ELSE TRUE
  /\ abortou' = TRUE

Abortar ==
  /\ ~fechada /\ rodando
  /\ Cancelar
  /\ UNCHANGED <<main, prox, tudo, filas, saidas, aba, conversa, aprovou, depois, falhas,
                 execucoes>>

Close ==
  /\ ~fechada /\ fechada' = TRUE
  /\ IF rodando THEN Cancelar ELSE UNCHANGED <<ctx, abortou>>
  /\ UNCHANGED <<main, prox, tudo, filas, saidas, rodando, paralelo, conversa, aprovou,
                 depois, falhas, execucoes>>

\* The two buttons of the rhythm.
EscolherRitmo ==
  /\ ~fechada /\ paralelo' = ~paralelo
  /\ UNCHANGED <<motor, filas, saidas, rodando, fechada, conversa, conta>>

-----------------------------------------------------------------------------
Executando == Comecar \/ ProximoCanario \/ FimDoCanario \/ FimDoDespacho \/ Juntar
              \/ Terminar \/ DecidirCanario

\* What the machine has to answer: Conectar clears the deadline of the
\* connection before NewSession, RequestPty and Shell, and Rodar writes its
\* lines without one; none of them looks at the context.
Rede(p) ==
  \/ Conectar(p) \/ FalharConexao(p)
  \/ ComandoBom(p) \/ PerderSessao(p) \/ ComandoRuim(p)

\* The rest of the goroutine depends on nobody outside.
Seguir(p) ==
  \/ Despachar(p) \/ ConferirHost(p) \/ SairDaFila(p) \/ Conferir(p)
  \/ Perguntar(p) \/ Registrar(p) \/ AbrirPausa(p) \/ Receber(p) \/ DecidirErro(p)

Andar(p) == Rede(p) \/ Seguir(p)

Next ==
  \/ Executar \/ Executando \/ Responder \/ Abortar \/ Close \/ EscolherRitmo
  \/ \E p \in Procs : Andar(p)

\* Goroutines are scheduled, and the operator answers the question in front
\* of him.  Nothing is assumed of the network.
Fairness ==
  /\ WF_vars(Executando)
  /\ WF_vars(Responder)
  /\ \A p \in Procs : WF_vars(Seguir(p))

Spec == Init /\ [][Next]_vars /\ Fairness

-----------------------------------------------------------------------------
(* What the motor promises.                                                *)

\* The range of every variable.
TypeOK ==
  /\ main \in {"parada", "partindo", "canario", "pergunta", "despacho", "juntar", "fim"}
  /\ prox \in 0..NHosts
  /\ faz \in [Procs -> Passos]
  /\ host \in [Procs -> 0..NHosts]
  /\ cmd \in [Procs -> 0..NCmds]
  /\ ctx \in BOOLEAN /\ tudo \in BOOLEAN
  /\ quantas \in [Hosts -> Nat]
  /\ anotado \in [Hosts -> [st : Status, cmds : 0..NCmds]]
  /\ rodando \in BOOLEAN /\ fechada \in BOOLEAN /\ paralelo \in BOOLEAN
  /\ pausa \in Procs \cup {Ninguem}
  /\ resp \in [Procs -> Respostas]
  /\ aprovou \in BOOLEAN /\ abortou \in BOOLEAN
  /\ depois \in [Procs -> Nat]
  /\ falhas \in Nat /\ execucoes \in Nat

\* No machine has two results: the canary and the goroutines of phase 2
\* never take the same host (Executar, hosts[:n], hosts[n:] and fila).
UmResultado == \A h \in Hosts : quantas[h] <= 1

\* An execution that nobody stopped ends with a result for every machine
\* (Executar: despacho, close(fila), wg.Wait, fim).
TodosNoFim ==
  main = "fim" /\ ~ctx /\ (aprovou \/ NHosts <= NCanario) =>
    \A h \in Hosts : quantas[h] = 1

\* A machine is recorded OK only if the whole queue ran on it: an abort or a
\* lost session in the middle is never an OK (rodarHost).
OkSoCompleto ==
  \A h \in Hosts : anotado[h].st = "ok" => anotado[h].cmds = NCmds

\* After the cancellation each goroutine finishes at most the command it was
\* in: no other starts, on that machine or on another (rodarHost and the
\* goroutines of Executar).
AbortarPara == \A p \in Procs : depois[p] <= 1

\* The lock of the canary: no machine beyond it is touched before the
\* operator let the execution go on, having a result of every canary.
TravaDoCanario ==
  prox > NCanario => aprovou /\ \A h \in 1..NCanario : quantas[h] = 1

\* The question on the screen has a goroutine behind it, which waits or has
\* just had its answer, and it is the canary's exactly in the pause between
\* the phases: however many goroutines open and close questions over the one
\* slot, no click answers for nobody and no question outlives its execution
\* (esperarErro, esperarCanario and definirPausa).
PausaTemDono ==
  pausa # Ninguem =>
    /\ faz[pausa] \in {"espera", "decidiu"}
    /\ main \in IF pausa = 0 THEN {"canario", "pergunta"} ELSE {"despacho", "juntar"}

\* The goroutines past the reading of continuarTudo.
AFalar == {p \in Procs : faz[p] = "abrir"}

\* After "continue without asking" no other failure is asked about: the
\* questions that still come are of goroutines that had read continuarTudo
\* before (perguntar), at most one of each.  The canary's own still comes.
NaoPerguntaMais ==
  [][tudo /\ tudo' /\ "pergunta" \notin {main, main'} =>
       AFalar' \subseteq AFalar /\ pausa' \in {pausa, Ninguem} \cup AFalar]_vars

\* A machine that stops answering holds its goroutine, with no deadline.
MaquinaMuda == \E p \in Procs : <>[](faz[p] \in {"conectar", "rodando"})

\* Every execution ends, and the tab can run another one, unless a machine
\* goes mute.  (In a closed tab nobody is there to answer: CloseLibera.)
ExecucaoTermina == MaquinaMuda \/ (rodando ~> (~rodando \/ fechada))

\* A question that left the screen without an answer: another goroutine
\* wrote over it or cleared it.
PerguntaPerdida ==
  \E p \in Procs : <>[](faz[p] = "espera" /\ resp[p] = "nada" /\ pausa # p)

\* The slot is all that can hold an execution, and only a question lost in it
\* does: the queue closed by the context, the hand-over on an unbuffered
\* channel, wg.Wait and the other questions never do (Executar, rodarHost).
SoAPausaPrende == PerguntaPerdida \/ ExecucaoTermina

-----------------------------------------------------------------------------
(* The inductive invariant.                                                *)

\* p has a host: between taking it and registering its result.
Ativa(p) == main # "pergunta" /\ faz[p] \notin {"fora", "livre"}

\* Which goroutines there are in each phase of Executar.
Protocolo ==
  /\ main = "parada" <=> ~rodando
  /\ main \in {"parada", "partindo", "fim"} => \A p \in Procs : faz[p] = "fora"
  /\ main \in {"canario", "pergunta"} => \A p \in Procs \ {0} : faz[p] = "fora"
  /\ main = "canario" => faz[0] \notin {"fora", "recebeu"}
  /\ main = "pergunta" => faz[0] \in Perguntando
  /\ main \in {"despacho", "juntar"} => faz[0] = "fora"

\* A command runs only within the queue, and began before the cancellation.
EmCurso ==
  \A p \in Procs :
    /\ faz[p] = "rodando" => cmd[p] < NCmds /\ depois[p] = 0
    /\ depois[p] # 0 => ctx

\* How far the list is in each phase of Executar.
Marcas ==
  /\ main = "canario" => prox <= NCanario /\ ~aprovou
  /\ main \in {"pergunta", "despacho", "juntar"} =>
       NCanario < NHosts /\ \A h \in 1..NCanario : quantas[h] = 1
  /\ main = "pergunta" => prox = NCanario /\ ~aprovou
  /\ main \in {"despacho", "juntar"} => aprovou
  /\ main = "juntar" /\ ~ctx => prox = NHosts
  /\ main = "fim" /\ ~ctx /\ (aprovou \/ NHosts <= NCanario) => prox = NHosts

\* A host has one goroutine at most, and then no result yet.
Unicos ==
  /\ \A p \in Procs : Ativa(p) => host[p] \in 1..prox /\ quantas[host[p]] = 0
  /\ \A p, q \in Procs : Ativa(p) /\ Ativa(q) /\ host[p] = host[q] => p = q
  /\ \A h \in Hosts : h > prox => quantas[h] = 0

\* A host that was taken has its result or a goroutine, or was dropped by
\* the cancellation.
Contado ==
  \A h \in 1..prox :
    quantas[h] = 1 \/ ctx \/ \E p \in Procs : Ativa(p) /\ host[p] = h

IInv ==
  /\ TypeOK /\ Protocolo /\ EmCurso /\ Marcas /\ Unicos /\ Contado
  /\ UmResultado /\ OkSoCompleto /\ AbortarPara /\ TravaDoCanario

-----------------------------------------------------------------------------
(* What the comments say and the code does not do.                         *)

\* "nao pergunta mais nada" (runner.go:20): none at all.
NuncaPergunta ==
  [][tudo /\ tudo' /\ "pergunta" \notin {main, main'} => pausa' \in {pausa, Ninguem}]_vars

\* tab.go: Close frees the connection and any goroutine of the tab.
CloseLibera == fechada ~> ~rodando

\* The choice "1 por vez" runs one machine at a time.
UmPorVez ==
  ~paralelo => \A p, q \in Procs : faz[p] = "rodando" /\ faz[q] = "rodando" => p = q

\* Abortar cancels the execution under way.
AbortarCancela == rodando /\ abortou => ctx

\* After a failed command the queue of that machine stops, always.
FilaDoHostPara ==
  [][\A p \in Procs : faz[p] \in {"perguntar", "decidiu"} => faz'[p] # "conferir"]_vars
=============================================================================
