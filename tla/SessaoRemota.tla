--------------------------- MODULE SessaoRemota ---------------------------
(***************************************************************************)
(* The life of the remote sessions of the application: the reconnection    *)
(* loop of each tab (gerenciarSessaoRemota), one attempt of a VNC or RDP   *)
(* session with its child process and its watcher goroutine                *)
(* (rodarSessaoRemota), one attempt of an SSH session (sshTab.sessao), and *)
(* the count of live children that guards the machine (reservar, devolver, *)
(* Encerrar).                                                              *)
(*                                                                         *)
(* Actors: the manager goroutine of each tab; the watcher ("vigia") of the *)
(* attempt under way, and those of past attempts that have not reached     *)
(* their select; the operator, who clicks Reconectar, flips the automatic  *)
(* reconnection and closes the tab; the child and the server.              *)
(*                                                                         *)
(* Abstractions. Waits have no length, so the backoff schedule is "some    *)
(* time"; what a session shows is BombaTela's business; the flag caiu and  *)
(* the splash only colour the tab.                                         *)
(***************************************************************************)
EXTENDS Integers, FiniteSets

CONSTANTS
  Abas,         \* the tabs
  Ssh,          \* those that are SSH: no child process
  MaxSessoes,   \* telaproc.MaxSessoes
  MaxFalhas,    \* bound: attempts the outside world makes fail, all tabs
  MaxCliques    \* bound: clicks on Reconectar, per tab

ASSUME AbasAssumption == IsFiniteSet(Abas) /\ Ssh \subseteq Abas
ASSUME LimitesAssumption ==
  MaxSessoes \in Nat /\ MaxFalhas \in Nat /\ MaxCliques \in Nat

VARIABLES
  fase,      \* where the manager of each tab is
  fim,       \* what rodar() returned
  pedido,    \* the atomic the watcher writes
  vigia,     \* the watcher of the attempt under way
  velhas,    \* watchers of past attempts that have not reached their select
  religar,   \* the slot of chan religar
  stop,      \* chan stop is closed
  fechado,   \* the channel to the child (or the SSH client) is closed
  filho,     \* the child process is alive
  auto,      \* automatic reconnection
  vivas,     \* telaproc.vivas
  falhas,    \* attempts the outside world made fail
  cliques,   \* clicks on Reconectar
  recusas,   \* refusals of the credential
  depois,    \* attempts begun after the tab was closed
  esperando  \* a click during a session: no attempt has followed it yet

gerente == <<fase, fim>>
vigias  == <<pedido, vigia, velhas>>
conta   == <<falhas, cliques, recusas, depois, esperando>>
vars == <<gerente, vigias, religar, stop, fechado, filho, auto, vivas, conta>>

Fim == {"parar", "religar", "caiu", "falhou"}

Vigias == {"nenhuma", "nasce", "espreita", "anotaParar", "anotaReligar", "fecha", "foi"}

Fases == {"conferir", "contar", "nascer", "discar", "perguntar", "ligada", "falhou",
          "desligar", "encerrar", "matar", "terminar", "aguardar", "espera", "fim"}

\* The first phase of an attempt.
Inicio(a) == IF a \in Ssh THEN "discar" ELSE "conferir"

-----------------------------------------------------------------------------
Init ==
  /\ fase = [a \in Abas |-> Inicio(a)]
  /\ fim = [a \in Abas |-> "caiu"]
  /\ pedido = [a \in Abas |-> "caiu"]
  /\ vigia = [a \in Abas |-> "nenhuma"]
  /\ velhas = [a \in Abas |-> 0]
  /\ religar = [a \in Abas |-> FALSE]
  /\ stop = [a \in Abas |-> FALSE]
  /\ fechado = [a \in Abas |-> FALSE]
  /\ filho = [a \in Abas |-> FALSE]
  /\ auto \in [Abas -> BOOLEAN]
  /\ vivas = 0
  /\ falhas = 0
  /\ cliques = [a \in Abas |-> 0]
  /\ recusas = [a \in Abas |-> 0]
  /\ depois = [a \in Abas |-> 0]
  /\ esperando = [a \in Abas |-> FALSE]

Ir(a, f) == fase' = [fase EXCEPT ![a] = f]

\* A new attempt begins.
Recomecar(a) ==
  /\ Ir(a, Inicio(a))
  /\ depois' = [depois EXCEPT ![a] = IF stop[a] THEN @ + 1 ELSE @]
  /\ esperando' = [esperando EXCEPT ![a] = FALSE]

\* rodar() returns f without having had a session.
Devolver(a, f) ==
  /\ Ir(a, "terminar")
  /\ fim' = [fim EXCEPT ![a] = f]

\* The outside world makes something fail; the bound of the model.
Falhar == falhas < MaxFalhas /\ falhas' = falhas + 1

\* The server refuses the credential.
Recusar(a) == recusas' = [recusas EXCEPT ![a] = @ + 1]

-----------------------------------------------------------------------------
(* reservar and iniciar.                                                   *)

\* The first critical section: only the count is looked at.
Conferir(a) ==
  /\ fase[a] = "conferir"
  /\ IF vivas + 1 > MaxSessoes
     THEN Devolver(a, "caiu")
     ELSE Ir(a, "contar") /\ UNCHANGED fim
  /\ UNCHANGED <<vigias, religar, stop, fechado, filho, auto, vivas, conta>>

\* The machine has no memory to spare.
FaltarMemoria(a) ==
  /\ fase[a] = "contar" /\ Falhar
  /\ Devolver(a, "caiu")
  /\ UNCHANGED <<vigias, religar, stop, fechado, filho, auto, vivas, cliques, recusas,
                 depois, esperando>>

\* The second critical section.
Contar(a) ==
  /\ fase[a] = "contar"
  /\ vivas' = vivas + 1
  /\ Ir(a, "nascer")
  /\ UNCHANGED <<fim, vigias, religar, stop, fechado, filho, auto, conta>>

\* rodarSessaoRemota from the child's birth to the watcher's.
LigarVigia(a) ==
  /\ Ir(a, "ligada")
  /\ vigia' = [vigia EXCEPT ![a] = "nasce"]
  /\ pedido' = [pedido EXCEPT ![a] = "caiu"]
  /\ fechado' = [fechado EXCEPT ![a] = FALSE]

Nascer(a) ==
  /\ fase[a] = "nascer"
  /\ LigarVigia(a)
  /\ filho' = [filho EXCEPT ![a] = TRUE]
  /\ UNCHANGED <<fim, velhas, religar, stop, auto, vivas, conta>>

\* Variant: a child that could not be started keeps its place in the count.
FalharNascerSemDevolver(a) ==
  /\ fase[a] = "nascer" /\ Falhar
  /\ Devolver(a, "caiu")
  /\ UNCHANGED <<vigias, religar, stop, fechado, filho, auto, vivas, cliques, recusas,
                 depois, esperando>>

\* iniciar failed (fork, handshake): devolver.
FalharNascer(a) ==
  /\ fase[a] = "nascer" /\ Falhar
  /\ vivas' = vivas - 1
  /\ Devolver(a, "caiu")
  /\ UNCHANGED <<vigias, religar, stop, fechado, filho, auto, cliques, recusas, depois,
                 esperando>>

-----------------------------------------------------------------------------
(* One attempt of an SSH session, up to its watcher.                       *)

\* Dial, session, PTY and pipes are fine; the tab may have been closed.
Discar(a) ==
  /\ fase[a] = "discar"
  /\ IF stop[a]
     THEN Devolver(a, "parar") /\ UNCHANGED <<vigia, pedido, fechado>>
     ELSE LigarVigia(a) /\ UNCHANGED fim
  /\ UNCHANGED <<velhas, religar, stop, filho, auto, vivas, conta>>

FalharDiscar(a) ==
  /\ fase[a] = "discar" /\ Falhar
  /\ \/ Devolver(a, "caiu") /\ UNCHANGED recusas
     \/ Devolver(a, "falhou") /\ Recusar(a)
     \/ Ir(a, "perguntar") /\ UNCHANGED <<fim, recusas>>
  /\ UNCHANGED <<vigias, religar, stop, fechado, filho, auto, vivas, cliques, depois,
                 esperando>>

\* The operator accepts the host key: sessao() calls itself.
AceitarChave(a) ==
  /\ fase[a] = "perguntar"
  /\ Ir(a, "discar")
  /\ UNCHANGED <<fim, vigias, religar, stop, fechado, filho, auto, vivas, conta>>

DesistirDaChave(a) ==
  /\ fase[a] = "perguntar" /\ stop[a]
  /\ Devolver(a, "parar")
  /\ UNCHANGED <<vigias, religar, stop, fechado, filho, auto, vivas, conta>>

-----------------------------------------------------------------------------
(* The session and its watcher.                                            *)

\* Its select: what is ready is taken, any of them; else it blocks, and
\* then it is the click or the close that comes first that it takes.
VigiaOlha(a) ==
  /\ vigia[a] = "nasce"
  /\ \/ /\ stop[a]
        /\ vigia' = [vigia EXCEPT ![a] = "anotaParar"]
        /\ UNCHANGED religar
     \/ /\ religar[a]
        /\ vigia' = [vigia EXCEPT ![a] = "anotaReligar"]
        /\ religar' = [religar EXCEPT ![a] = FALSE]
     \/ /\ ~stop[a] /\ ~religar[a]
        /\ vigia' = [vigia EXCEPT ![a] = "espreita"]
        /\ UNCHANGED religar
  /\ UNCHANGED <<gerente, pedido, velhas, stop, fechado, filho, auto, vivas, conta>>

VigiaAnota(a) ==
  /\ vigia[a] \in {"anotaParar", "anotaReligar"}
  /\ pedido' = [pedido EXCEPT ![a] = IF vigia[a] = "anotaParar" THEN "parar" ELSE "religar"]
  /\ vigia' = [vigia EXCEPT ![a] = "fecha"]
  /\ UNCHANGED <<gerente, velhas, religar, stop, fechado, filho, auto, vivas, conta>>

VigiaFecha(a) ==
  /\ vigia[a] = "fecha"
  /\ fechado' = [fechado EXCEPT ![a] = TRUE]
  /\ vigia' = [vigia EXCEPT ![a] = "foi"]
  /\ UNCHANGED <<gerente, pedido, velhas, religar, stop, filho, auto, vivas, conta>>

\* A watcher that had not reached its select when the attempt ended: saiu
\* is closed, but the select may pick any channel that is ready.
VelhaSai(a) ==
  /\ velhas[a] > 0
  /\ velhas' = [velhas EXCEPT ![a] = @ - 1]
  /\ \/ UNCHANGED religar
     \/ religar[a] /\ religar' = [religar EXCEPT ![a] = FALSE]
  /\ UNCHANGED <<gerente, pedido, vigia, stop, fechado, filho, auto, vivas, conta>>

\* What rodarSessaoRemota returns: a refusal wins over what the watcher
\* noted, except closing the tab.
Resultado(a, falhou) == IF falhou /\ pedido[a] /= "parar" THEN "falhou" ELSE pedido[a]

\* lacoEventos read an error: the channel is closed or the child died.
LerErro(a) ==
  /\ fase[a] = "ligada" /\ fechado[a]
  /\ Ir(a, "desligar")
  /\ fim' = [fim EXCEPT ![a] = Resultado(a, FALSE)]
  /\ UNCHANGED <<vigias, religar, stop, fechado, filho, auto, vivas, conta>>

\* EvtDesconectado, EvtFalha of the network, a bad frame, the shell's end.
Cair(a) ==
  /\ fase[a] = "ligada" /\ Falhar
  /\ Ir(a, "desligar")
  /\ fim' = [fim EXCEPT ![a] = Resultado(a, FALSE)]
  /\ UNCHANGED <<vigias, religar, stop, fechado, filho, auto, vivas, cliques, recusas,
                 depois, esperando>>

\* EvtFalha of the credential; it may have been read before the close.
SerRecusada(a) ==
  /\ fase[a] = "ligada" /\ a \notin Ssh /\ Falhar
  /\ Ir(a, "falhou")
  /\ Recusar(a)
  /\ UNCHANGED <<fim, vigias, religar, stop, fechado, filho, auto, vivas, cliques, depois,
                 esperando>>

\* The two loads of pedido after a refusal: only "parar" counts.
ConferirPedido(a) ==
  /\ fase[a] = "falhou"
  /\ Ir(a, "desligar")
  /\ fim' = [fim EXCEPT ![a] = Resultado(a, TRUE)]
  /\ esperando' = [esperando EXCEPT ![a] = FALSE]
  /\ UNCHANGED <<vigias, religar, stop, fechado, filho, auto, vivas, falhas, cliques,
                 recusas, depois>>

\* The child crashes: its end of the socket closes.
Morrer(a) ==
  /\ filho[a] /\ fase[a] = "ligada" /\ Falhar
  /\ filho' = [filho EXCEPT ![a] = FALSE]
  /\ fechado' = [fechado EXCEPT ![a] = TRUE]
  /\ UNCHANGED <<gerente, vigias, religar, stop, auto, vivas, cliques, recusas, depois,
                 esperando>>

\* close(saiu): the blocked watcher leaves; one that has not reached its
\* select becomes an old one; whatever another still writes, nobody reads.
Desligar(a) ==
  /\ fase[a] = "desligar"
  /\ Ir(a, IF a \in Ssh THEN "terminar" ELSE "encerrar")
  /\ velhas' = [velhas EXCEPT ![a] = IF vigia[a] = "nasce" THEN @ + 1 ELSE @]
  /\ vigia' = [vigia EXCEPT ![a] = "nenhuma"]
  /\ UNCHANGED <<fim, pedido, religar, stop, fechado, filho, auto, vivas, conta>>

\* Variant: without baixaUma, a second Encerrar gives the place back again.
EncerrarDuasVezes(a) ==
  /\ fase[a] = "encerrar"
  /\ vivas' = vivas - 2
  /\ fechado' = [fechado EXCEPT ![a] = TRUE]
  /\ Ir(a, "matar")
  /\ UNCHANGED <<fim, vigias, religar, stop, filho, auto, conta>>

\* Encerrar, first half: devolver and Fechar.
Encerrar(a) ==
  /\ fase[a] = "encerrar"
  /\ vivas' = vivas - 1
  /\ fechado' = [fechado EXCEPT ![a] = TRUE]
  /\ Ir(a, "matar")
  /\ UNCHANGED <<fim, vigias, religar, stop, filho, auto, conta>>

\* Variant: Encerrar does not wait for the child.
MatarSemEsperar(a) ==
  /\ fase[a] = "matar"
  /\ Ir(a, "terminar")
  /\ UNCHANGED <<fim, vigias, religar, stop, fechado, filho, auto, vivas, conta>>

\* Encerrar, second half: the child saw the end, or was killed.
Matar(a) ==
  /\ fase[a] = "matar"
  /\ filho' = [filho EXCEPT ![a] = FALSE]
  /\ Ir(a, "terminar")
  /\ UNCHANGED <<fim, vigias, religar, stop, fechado, auto, vivas, conta>>

-----------------------------------------------------------------------------
(* gerenciarSessaoRemota.                                                  *)

\* Variant: a refusal goes to the backoff like any fall.
TerminarSemRecusa(a) ==
  /\ fase[a] = "terminar"
  /\ CASE fim[a] = "parar"   -> Ir(a, "fim") /\ UNCHANGED <<depois, esperando>>
       [] fim[a] = "religar" -> Recomecar(a)
       [] OTHER -> /\ Ir(a, IF auto[a] THEN "espera" ELSE "aguardar")
                   /\ UNCHANGED <<depois, esperando>>
  /\ UNCHANGED <<fim, vigias, religar, stop, fechado, filho, auto, vivas, falhas, cliques,
                 recusas>>

\* The switch on what rodar() returned.
Terminar(a) ==
  /\ fase[a] = "terminar"
  /\ CASE fim[a] = "parar"   -> Ir(a, "fim") /\ UNCHANGED <<depois, esperando>>
       [] fim[a] = "religar" -> Recomecar(a)
       [] fim[a] = "falhou"  -> Ir(a, "aguardar") /\ UNCHANGED <<depois, esperando>>
       [] OTHER -> /\ Ir(a, IF auto[a] THEN "espera" ELSE "aguardar")
                   /\ UNCHANGED <<depois, esperando>>
  /\ UNCHANGED <<fim, vigias, religar, stop, fechado, filho, auto, vivas, falhas, cliques,
                 recusas>>

\* Both waits end with a click.
PegarClique(a) ==
  /\ fase[a] \in {"aguardar", "espera"} /\ religar[a]
  /\ religar' = [religar EXCEPT ![a] = FALSE]
  /\ Recomecar(a)
  /\ UNCHANGED <<fim, vigias, stop, fechado, filho, auto, vivas, falhas, cliques, recusas>>

\* Variant: the backoff is a plain sleep.
VencerEsperaSurda(a) ==
  /\ fase[a] = "espera"
  /\ Recomecar(a)
  /\ UNCHANGED <<fim, vigias, religar, stop, fechado, filho, auto, vivas, falhas, cliques,
                 recusas>>

\* The backoff is over. A select entered with stop closed takes stop (the
\* timer has not fired yet), and one that is blocked takes what comes first.
VencerEspera(a) ==
  /\ ~stop[a]
  /\ VencerEsperaSurda(a)

\* Variant: the wait for a click does not look at stop.
PararSoNoBackoff(a) ==
  /\ fase[a] = "espera" /\ stop[a]
  /\ Ir(a, "fim")
  /\ UNCHANGED <<fim, vigias, religar, stop, fechado, filho, auto, vivas, conta>>

\* Both waits end when the tab is closed.
PararEsperando(a) ==
  /\ fase[a] \in {"aguardar", "espera"} /\ stop[a]
  /\ Ir(a, "fim")
  /\ UNCHANGED <<fim, vigias, religar, stop, fechado, filho, auto, vivas, conta>>

-----------------------------------------------------------------------------
(* The operator.                                                           *)

\* Reconectar: the blocked watcher is handed the click; else it takes the
\* slot, and when one is already there it adds nothing.
Reconectar(a) ==
  /\ ~stop[a] /\ cliques[a] < MaxCliques
  /\ cliques' = [cliques EXCEPT ![a] = @ + 1]
  /\ IF vigia[a] = "espreita"
     THEN vigia' = [vigia EXCEPT ![a] = "anotaReligar"] /\ UNCHANGED religar
     ELSE religar' = [religar EXCEPT ![a] = TRUE] /\ UNCHANGED vigia
  /\ esperando' = [esperando EXCEPT ![a] = @ \/ fase[a] = "ligada"]
  /\ UNCHANGED <<gerente, pedido, velhas, stop, fechado, filho, auto, vivas, falhas,
                 recusas, depois>>

AlternarAuto(a) ==
  /\ ~stop[a]
  /\ auto' = [auto EXCEPT ![a] = ~@]
  /\ UNCHANGED <<gerente, vigias, religar, stop, fechado, filho, vivas, conta>>

Close(a) ==
  /\ ~stop[a]
  /\ stop' = [stop EXCEPT ![a] = TRUE]
  /\ vigia' = [vigia EXCEPT ![a] = IF @ = "espreita" THEN "anotaParar" ELSE @]
  /\ UNCHANGED <<gerente, pedido, velhas, religar, fechado, filho, auto, vivas, conta>>

-----------------------------------------------------------------------------
Reserva(a) == Conferir(a) \/ FaltarMemoria(a) \/ Contar(a) \/ Nascer(a) \/ FalharNascer(a)

Conexao(a) == Discar(a) \/ FalharDiscar(a) \/ AceitarChave(a) \/ DesistirDaChave(a)

Vigia(a) == VigiaOlha(a) \/ VigiaAnota(a) \/ VigiaFecha(a)

Sessao(a) == LerErro(a) \/ Cair(a) \/ SerRecusada(a) \/ Morrer(a)

Saida(a) == ConferirPedido(a) \/ Desligar(a) \/ Encerrar(a) \/ Matar(a)

Gerencia(a) == Terminar(a) \/ PegarClique(a) \/ VencerEspera(a) \/ PararEsperando(a)

Operador(a) == Reconectar(a) \/ AlternarAuto(a) \/ Close(a)

Next == \E a \in Abas :
          \/ Reserva(a) \/ Conexao(a) \/ Vigia(a) \/ VelhaSai(a)
          \/ Sessao(a) \/ Saida(a) \/ Gerencia(a) \/ Operador(a)

\* Every goroutine runs and every wait with a deadline ends (the child's
\* handshake, the backoff, Encerrar). Nothing is assumed of the operator, nor
\* of the server: a live session may last for ever, and so may the attempt of
\* an SSH session, since ClientConfig.Timeout bounds only the TCP connection
\* and the handshake, NewSession and RequestPty wait for a mute server.
Justica == \A a \in Abas :
  /\ WF_vars(Reserva(a)) /\ WF_vars(DesistirDaChave(a))
  /\ WF_vars(Vigia(a)) /\ WF_vars(VelhaSai(a)) /\ WF_vars(LerErro(a))
  /\ WF_vars(Saida(a)) /\ WF_vars(Gerencia(a))

Spec == Init /\ [][Next]_vars /\ Justica
-----------------------------------------------------------------------------
(* Properties.                                                             *)

\* Every variable keeps its type.
TypeOK ==
  /\ fase \in [Abas -> Fases]
  /\ fim \in [Abas -> Fim]
  /\ pedido \in [Abas -> {"parar", "religar", "caiu"}]
  /\ vigia \in [Abas -> Vigias]
  /\ velhas \in [Abas -> Nat]
  /\ religar \in [Abas -> BOOLEAN] /\ stop \in [Abas -> BOOLEAN]
  /\ fechado \in [Abas -> BOOLEAN] /\ filho \in [Abas -> BOOLEAN]
  /\ auto \in [Abas -> BOOLEAN] /\ esperando \in [Abas -> BOOLEAN]
  /\ vivas \in Nat
  /\ falhas \in Nat
  /\ cliques \in [Abas -> Nat] /\ recusas \in [Abas -> Nat] /\ depois \in [Abas -> Nat]

\* The tabs that hold a place in the count.
Reservadas == {a \in Abas : fase[a] \in {"nascer", "ligada", "falhou", "desligar", "encerrar"}
                            /\ a \notin Ssh}

\* Every place taken by reservar is given back exactly once, whatever way
\* the attempt ends (devolver, baixaUma): a leak would close the door for
\* good, a second return would open it too wide.
ContaCerta == vivas = Cardinality(Reservadas)

\* After the server refuses a credential nothing but a click makes another
\* attempt: the refusals of a tab are at most one more than its clicks, so
\* the application by itself never locks an account (fimFalhou).
RecusaSoComClique == \A a \in Abas : recusas[a] <= 1 + cliques[a]

\* A child lives only while its attempt does: the manager never begins
\* another attempt, nor returns, with the child of the last one still up
\* (rodarSessaoRemota's two defers, Encerrar's wait).
SemOrfao ==
  \A a \in Abas :
    filho[a] => fase[a] \in {"ligada", "falhou", "desligar", "encerrar", "matar"}

\* A closed tab does not insist: whatever the selects choose, at most two
\* attempts begin after Close, one for the click its watcher had taken and
\* one for the click in the slot of religar (gerenciarSessaoRemota).
FechadaNaoInsiste == \A a \in Abas : depois[a] <= 2

-----------------------------------------------------------------------------
(* The inductive invariant behind the safety properties.                   *)

\* Only a tab with a child passes through the birth and the end of one.
Protocolo(a) ==
  IF a \in Ssh
  THEN fase[a] \notin {"conferir", "contar", "nascer", "encerrar", "matar"} /\ ~filho[a]
  ELSE fase[a] \notin {"discar", "perguntar"}

\* There is a watcher only while there is a session, and "religar" is noted
\* only by the watcher that took the click.
Vigiada(a) ==
  /\ vigia[a] /= "nenhuma" => fase[a] \in {"ligada", "falhou", "desligar"}
  /\ fase[a] \in {"ligada", "falhou"} /\ pedido[a] = "religar" => vigia[a] \in {"fecha", "foi"}

\* The manager is between two attempts of a session.
Saindo(a) == fase[a] \in {"desligar", "encerrar", "matar", "terminar"}

Um(b) == IF b THEN 1 ELSE 0

\* The application may still be refused without another click: an attempt
\* is under way, or one may begin by itself.
PodeSerRecusada(a) ==
  ~ \/ fase[a] \in {"falhou", "fim"}
    \/ (Saindo(a) \/ fase[a] = "aguardar") /\ fim[a] \in {"falhou", "parar"}

\* Refusals that happened, or that can with the clicks made so far.
RecusasContidas(a) == recusas[a] + Um(PodeSerRecusada(a)) + Um(religar[a]) <= 1 + cliques[a]

\* The watcher, or what rodar() returned, holds a click.
CliqueNaMao(a) ==
  \/ vigia[a] = "anotaReligar"
  \/ vigia[a] \in {"fecha", "foi"} /\ pedido[a] = "religar"
  \/ Saindo(a) /\ fim[a] = "religar"

\* Attempts that began after Close, or that a click still in flight begins.
InsistenciasContidas(a) ==
  IF stop[a] THEN depois[a] + Um(religar[a]) + Um(CliqueNaMao(a)) <= 2 ELSE depois[a] = 0

IInv ==
  /\ TypeOK /\ ContaCerta /\ SemOrfao
  /\ \A a \in Abas :
       Protocolo(a) /\ Vigiada(a) /\ RecusasContidas(a) /\ InsistenciasContidas(a)

-----------------------------------------------------------------------------
(* Liveness, and what the code's comments say.                             *)

\* A server that accepts the TCP connection of the tab and says no more.
ServidorMudo(a) == a \in Ssh /\ <>[](fase[a] = "discar")

\* A closed tab ends: its manager returns, wherever Close found it. Only an
\* SSH server that goes mute before there is a watcher to hear the Close can
\* hold it (sshtab.go:329-395): no other phase may.
FecharTermina == \A a \in Abas : ServidorMudo(a) \/ (stop[a] ~> fase[a] = "fim")

\* "Reconectar derruba a sessao viva e recomeca na hora" (vnctab.go): a
\* click during a session is followed by an attempt, unless the tab is
\* closed or the server refuses the credential.
CliqueAtendido == \A a \in Abas : esperando[a] ~> ~esperando[a] \/ stop[a]

\* "SessoesVivas e quantos filhos estao de pe agora": every child alive is
\* counted.
FilhosContados == Cardinality({a \in Abas : filho[a]}) <= vivas
=============================================================================
