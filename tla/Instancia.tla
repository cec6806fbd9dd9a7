------------------------------- MODULE Instancia -------------------------------
(***************************************************************************)
(* One window and one service: the Unix socket, the service that owns it   *)
(* and the windows that present themselves to it (cmd/acessos/instancia.go,*)
(* instancia_linux.go, servico_linux.go).  A connection is the pair of an  *)
(* app and the service it reached; filaIn is what the service wrote to it. *)
(***************************************************************************)
EXTENDS Naturals, Sequences, FiniteSets, SequencesExt

CONSTANTS
  Servicos,   \* processes that may run as the service
  Apps,       \* processes that may run as the window
  Versoes,    \* the versions of the binaries that the apps may run
  TeclasIn,     \* what the system may bind; "" is no key
  CapMsgs,    \* capacity of cli.Msgs (8)
  MaxTrocas,  \* bound: news of the key
  MaxMortes,  \* bound: services killed
  MaxFechos,  \* bound: windows closed
  MaxBuscas,  \* bound: choices in the service's search box
  MaxAcasosIn \* bound: the four of them together

Ninguem == "ninguem"

\* A process is told from nobody, and a window from the names of the other pushers.
ASSUME InstanciaAssumption ==
  /\ Versoes \subseteq [Apps -> Nat] /\ CapMsgs \in Nat \ {0}
  /\ {MaxTrocas, MaxMortes, MaxFechos, MaxBuscas, MaxAcasosIn} \subseteq Nat
  /\ Ninguem \notin Apps \union Servicos /\ Apps \cap {"atalho", "busca"} = {}

VARIABLES
  sockIn,   \* the file of the socket: who bound it last, or Ninguem
  svcIn,    \* servico: phase, version, the place of the window, the key
  empIn,    \* goroutines in mandarParaApp: the shortcut's, the box's, the conversations'
  appIn,    \* the windows: phase of ligarNoServico, connection, what they know
  filaIn,   \* messages written to each app and not read
  pedidoIn, \* what became of each request to open
  contaIn   \* the bounded events

varsIn == <<sockIn, svcIn, empIn, appIn, filaIn, pedidoIn, contaIn>>

\* Who pushes: manterAtalho, the search box, the conversation of a second instance.
Quem == {"atalho", "busca"} \union Apps
ParadoIn == [fase |-> "fora", alvo |-> Ninguem, tecla |-> ""]
SvcFora == [fase |-> "fora", versao |-> 0, vaga |-> Ninguem, pronto |-> FALSE, prontos |-> {},
            aperto |-> "nao", conta |-> "", contar |-> FALSE,
            gatilho |-> "", sabido |-> FALSE, chegou |-> FALSE]

InitIn ==
  /\ sockIn = Ninguem
  /\ svcIn = [s \in Servicos |-> SvcFora]
  /\ empIn = [s \in Servicos |-> [q \in Quem |-> ParadoIn]]
  /\ \E v \in Versoes :
       appIn = [a \in Apps |-> [fase |-> "fora", versao |-> v[a], volta |-> FALSE, con |-> Ninguem,
                                sabido |-> FALSE, tecla |-> "", msgs |-> <<>>]]
  /\ filaIn = [a \in Apps |-> <<>>]
  /\ pedidoIn = [q \in Quem |-> "nada"]
  /\ contaIn = [trocas |-> 0, mortes |-> 0, fechos |-> 0, buscas |-> 0]

HaAcasoIn == contaIn.trocas + contaIn.mortes + contaIn.fechos + contaIn.buscas < MaxAcasosIn
Vive(s) == s \in Servicos /\ svcIn[s].fase = "vive"
Msg(tipo, tecla, de) == [tipo |-> tipo, tecla |-> tecla, de |-> de]
Ligado(a) == appIn[a].con # Ninguem /\ Vive(appIn[a].con) /\ appIn[a].fase # "saiu"
Fase(a, f) == appIn' = [appIn EXCEPT ![a].fase = f]

(***************************************************************************)
(* escutarServico.                                                         *)
(***************************************************************************)
Escutar(s) ==
  /\ svcIn[s].fase = "escuta"
  /\ IF sockIn = Ninguem
     THEN sockIn' = s /\ svcIn' = [svcIn EXCEPT ![s].fase = "vive"]
     ELSE svcIn' = [svcIn EXCEPT ![s].fase = "disca"] /\ UNCHANGED sockIn
  /\ UNCHANGED <<empIn, appIn, filaIn, pedidoIn, contaIn>>

\* Somebody answers: this service was not needed.
ConferirOrfao(s) ==
  /\ svcIn[s].fase = "disca"
  /\ svcIn' = [svcIn EXCEPT ![s].fase = IF Vive(sockIn) THEN "morto" ELSE "remove"]
  /\ UNCHANGED <<sockIn, empIn, appIn, filaIn, pedidoIn, contaIn>>

\* os.Remove takes the name away, whoever bound it meanwhile.
RemoverOrfao(s) ==
  /\ svcIn[s].fase = "remove"
  /\ sockIn' = Ninguem
  /\ svcIn' = [svcIn EXCEPT ![s].fase = IF sockIn = Ninguem THEN "morto" ELSE "denovo"]
  /\ UNCHANGED <<empIn, appIn, filaIn, pedidoIn, contaIn>>

EscutarDeNovo(s) ==
  /\ svcIn[s].fase = "denovo"
  /\ sockIn' = IF sockIn = Ninguem THEN s ELSE sockIn
  /\ svcIn' = [svcIn EXCEPT ![s].fase = IF sockIn = Ninguem THEN "vive" ELSE "morto"]
  /\ UNCHANGED <<empIn, appIn, filaIn, pedidoIn, contaIn>>

\* The end of a service: its goroutines go with it, the file stays.
Acabar(s) ==
  /\ svcIn' = [svcIn EXCEPT ![s] = [SvcFora EXCEPT !.fase = "morto"]]
  /\ empIn' = [empIn EXCEPT ![s] = [q \in Quem |-> ParadoIn]]
  /\ pedidoIn' = [q \in Quem |-> IF empIn[s][q].fase # "fora" /\ pedidoIn[q] = "pedido"
                                 THEN "morreu" ELSE pedidoIn[q]]

Morrer(s) ==
  /\ Vive(s) /\ HaAcasoIn /\ contaIn.mortes < MaxMortes
  /\ Acabar(s)
  /\ contaIn' = [contaIn EXCEPT !.mortes = @ + 1]
  /\ UNCHANGED <<sockIn, appIn, filaIn>>

(***************************************************************************)
(* ligarNoServico.                                                         *)
(***************************************************************************)
Partir(a) ==
  /\ appIn[a].fase = "fora"
  /\ Fase(a, "conecta")
  /\ UNCHANGED <<sockIn, svcIn, empIn, filaIn, pedidoIn, contaIn>>

ConectarServico(a) ==
  /\ appIn[a].fase = "conecta"
  /\ appIn' = [appIn EXCEPT ![a].fase = IF Vive(sockIn) THEN "ping" ELSE "sobe",
                            ![a].con = IF Vive(sockIn) THEN sockIn ELSE Ninguem]
  /\ UNCHANGED <<sockIn, svcIn, empIn, filaIn, pedidoIn, contaIn>>

\* subirServico: the process starts with the version of the one who starts it.  Those
\* that did not start yet are all alike.
Proximo(s) == svcIn[s].fase = "fora" /\ s = CHOOSE r \in Servicos : svcIn[r].fase = "fora"
SubirServico(a, s) ==
  /\ appIn[a].fase = "sobe" /\ Proximo(s)
  /\ svcIn' = [svcIn EXCEPT ![s].fase = "escuta", ![s].versao = appIn[a].versao]
  /\ Fase(a, "aguarda")
  /\ UNCHANGED <<sockIn, empIn, filaIn, pedidoIn, contaIn>>

\* The process did not start, or nobody answered within the two seconds.
NaoSubiu(a) ==
  /\ \/ appIn[a].fase = "sobe"
     \/ appIn[a].fase = "aguarda" /\ ~Vive(sockIn)
  /\ Fase(a, "sozinha")
  /\ UNCHANGED <<sockIn, svcIn, empIn, filaIn, pedidoIn, contaIn>>

Aguardar(a) ==
  /\ appIn[a].fase = "aguarda" /\ Vive(sockIn)
  /\ appIn' = [appIn EXCEPT ![a].con = sockIn, ![a].fase = IF appIn[a].volta THEN "ola" ELSE "ping"]
  /\ UNCHANGED <<sockIn, svcIn, empIn, filaIn, pedidoIn, contaIn>>

\* The ping: another version is asked to leave, once.
PedirPing(a) ==
  LET s == appIn[a].con IN
  /\ appIn[a].fase = "ping"
  /\ IF Vive(s) /\ svcIn[s].versao # appIn[a].versao
     THEN /\ Acabar(s)
          /\ appIn' = [appIn EXCEPT ![a].fase = "sobe", ![a].volta = TRUE, ![a].con = Ninguem]
     ELSE Fase(a, "ola") /\ UNCHANGED <<svcIn, empIn, pedidoIn>>
  /\ UNCHANGED <<sockIn, filaIn, contaIn>>

\* msgOlaApp arrives: the place is taken here, the answer comes after.
TomarVaga(a) ==
  LET s == appIn[a].con IN
  /\ appIn[a].fase = "ola" /\ Vive(s)
  /\ Fase(a, "espera")
  /\ IF svcIn[s].vaga = Ninguem
     THEN /\ svcIn' = [svcIn EXCEPT ![s].vaga = a, ![s].pronto = FALSE, ![s].aperto = "tomou"]
          /\ UNCHANGED filaIn
     ELSE /\ filaIn' = [filaIn EXCEPT ![a] = Append(@, Msg("ocupado", "", Ninguem))]
          /\ UNCHANGED svcIn
  /\ UNCHANGED <<sockIn, empIn, pedidoIn, contaIn>>

\* pedirResposta reads exactly one message, and only msgOcupado is told from the rest;
\* the second instance forwards what it was asked and leaves.
LerResposta(a) ==
  LET s == appIn[a].con IN
  /\ appIn[a].fase = "espera" /\ filaIn[a] # <<>>
  /\ filaIn' = [filaIn EXCEPT ![a] = Tail(@)]
  /\ IF Head(filaIn[a]).tipo = "ocupado"
     THEN /\ Fase(a, "saiu")
          /\ pedidoIn' = [pedidoIn EXCEPT ![a] = IF Vive(s) THEN "pedido" ELSE "morreu"]
          /\ empIn' = IF Vive(s) THEN [empIn EXCEPT ![s][a].fase = "tenta"] ELSE empIn
     ELSE Fase(a, "janela") /\ UNCHANGED <<empIn, pedidoIn>>
  /\ UNCHANGED <<sockIn, svcIn, contaIn>>

SemResposta(a) ==
  /\ appIn[a].fase \in {"ola", "espera"} /\ filaIn[a] = <<>> /\ ~Vive(appIn[a].con)
  /\ Fase(a, "sozinha")
  /\ UNCHANGED <<sockIn, svcIn, empIn, filaIn, pedidoIn, contaIn>>

(***************************************************************************)
(* The window: cli.ler, the loop of main.go that drains it, and its end.   *)
(***************************************************************************)
Descarta(a) == Len(appIn[a].msgs) >= CapMsgs
LerIn(a) ==
  LET m == Head(filaIn[a]) IN
  /\ appIn[a].fase = "janela" /\ filaIn[a] # <<>>
  /\ filaIn' = [filaIn EXCEPT ![a] = Tail(@)]
  /\ CASE m.tipo = "gatilho" ->
            /\ appIn' = [appIn EXCEPT ![a].sabido = TRUE, ![a].tecla = m.tecla]
            /\ UNCHANGED pedidoIn
       [] m.tipo = "abrir" ->
            /\ appIn' = IF Descarta(a) THEN appIn ELSE [appIn EXCEPT ![a].msgs = Append(@, m)]
            /\ pedidoIn' = [pedidoIn EXCEPT ![m.de] = IF Descarta(a) THEN "descartado" ELSE @]
       [] OTHER -> UNCHANGED <<appIn, pedidoIn>>
  /\ UNCHANGED <<sockIn, svcIn, empIn, contaIn>>

Drenar(a) ==
  /\ appIn[a].fase = "janela" /\ appIn[a].msgs # <<>>
  /\ pedidoIn' = [pedidoIn EXCEPT ![Head(appIn[a].msgs).de] = "aberto"]
  /\ appIn' = [appIn EXCEPT ![a].msgs = Tail(@)]
  /\ UNCHANGED <<sockIn, svcIn, empIn, filaIn, contaIn>>

\* A request of q is in the socket of the window, or in cli.Msgs.
Traz(a, q) ==
  \E m \in ToSet(filaIn[a]) \union ToSet(appIn[a].msgs) : m.tipo = "abrir" /\ m.de = q
FecharJanela(a) ==
  /\ appIn[a].fase \in {"janela", "sozinha", "espera"} /\ HaAcasoIn /\ contaIn.fechos < MaxFechos
  /\ Fase(a, "saiu")
  /\ filaIn' = [filaIn EXCEPT ![a] = <<>>]
  /\ pedidoIn' = [q \in Quem |-> IF Traz(a, q) THEN "fechou" ELSE pedidoIn[q]]
  /\ contaIn' = [contaIn EXCEPT !.fechos = @ + 1]
  /\ UNCHANGED <<sockIn, svcIn, empIn>>

(***************************************************************************)
(* conversa: the rest of the handshake, in the goroutine of the window's   *)
(* connection.                                                             *)
(***************************************************************************)
ResponderOk(s) ==
  LET a == svcIn[s].vaga IN
  /\ Vive(s) /\ svcIn[s].aperto = "tomou" /\ appIn[a].fase # "saiu"
  /\ filaIn' = [filaIn EXCEPT ![a] = Append(@, Msg("ok", "", Ninguem))]
  /\ svcIn' = [svcIn EXCEPT ![s].aperto = "respondeu"]
  /\ UNCHANGED <<sockIn, empIn, appIn, pedidoIn, contaIn>>

\* Only now may others push; what is known of the key is read under the same lock.
Aprontar(s) ==
  /\ Vive(s) /\ svcIn[s].aperto = "respondeu"
  /\ svcIn' = [svcIn EXCEPT ![s].pronto = TRUE, ![s].prontos = @ \union {svcIn[s].vaga},
                 ![s].aperto = "conta", ![s].contar = svcIn[s].sabido, ![s].conta = svcIn[s].gatilho,
                 ![s].chegou = TRUE]
  /\ UNCHANGED <<sockIn, empIn, appIn, filaIn, pedidoIn, contaIn>>

ContarGatilho(s) ==
  LET a == svcIn[s].vaga IN
  /\ Vive(s) /\ svcIn[s].aperto = "conta" /\ appIn[a].fase # "saiu"
  /\ filaIn' = IF svcIn[s].contar
               THEN [filaIn EXCEPT ![a] = Append(@, Msg("gatilho", svcIn[s].conta, Ninguem))]
               ELSE filaIn
  /\ svcIn' = [svcIn EXCEPT ![s].aperto = "nao", ![s].contar = FALSE, ![s].conta = ""]
  /\ UNCHANGED <<sockIn, empIn, appIn, pedidoIn, contaIn>>

\* The deferred function of conversa, when the window went away.
LiberarVaga(s) ==
  /\ Vive(s) /\ svcIn[s].vaga # Ninguem /\ appIn[svcIn[s].vaga].fase = "saiu"
  /\ svcIn' = [svcIn EXCEPT ![s].vaga = Ninguem, ![s].pronto = FALSE, ![s].aperto = "nao",
                            ![s].contar = FALSE, ![s].conta = ""]
  /\ UNCHANGED <<sockIn, empIn, appIn, filaIn, pedidoIn, contaIn>>

(***************************************************************************)
(* guardarGatilho, the choice in the search box, and mandarParaApp.        *)
(***************************************************************************)
GuardarGatilho(s, t) ==
  /\ Vive(s) /\ empIn[s]["atalho"].fase = "fora" /\ HaAcasoIn /\ contaIn.trocas < MaxTrocas
  /\ svcIn' = [svcIn EXCEPT ![s].gatilho = t, ![s].sabido = TRUE]
  /\ empIn' = [empIn EXCEPT ![s]["atalho"] = [fase |-> "tenta", alvo |-> Ninguem, tecla |-> t]]
  /\ contaIn' = [contaIn EXCEPT !.trocas = @ + 1]
  /\ UNCHANGED <<sockIn, appIn, filaIn, pedidoIn>>

Pronta(s) == svcIn[s].vaga # Ninguem /\ svcIn[s].pronto

\* garantirApp: a window that is there, or one it starts.
Escolher(s) ==
  /\ Vive(s) /\ empIn[s]["busca"].fase = "fora" /\ HaAcasoIn /\ contaIn.buscas < MaxBuscas
  /\ empIn' = [empIn EXCEPT ![s]["busca"].fase = IF Pronta(s) THEN "tenta" ELSE "garante"]
  /\ IF Pronta(s) THEN UNCHANGED appIn
     ELSE \E a \in Apps : appIn[a].fase = "fora" /\ Fase(a, "conecta")
  /\ pedidoIn' = [pedidoIn EXCEPT !["busca"] = "pedido"]
  /\ contaIn' = [contaIn EXCEPT !.buscas = @ + 1]
  /\ UNCHANGED <<sockIn, svcIn, filaIn>>

AppChegou(s) ==
  /\ Vive(s) /\ empIn[s]["busca"].fase = "garante" /\ svcIn[s].chegou
  /\ svcIn' = [svcIn EXCEPT ![s].chegou = FALSE]
  /\ empIn' = [empIn EXCEPT ![s]["busca"].fase = IF svcIn[s].vaga = Ninguem THEN "garante" ELSE "tenta"]
  /\ UNCHANGED <<sockIn, appIn, filaIn, pedidoIn, contaIn>>

\* The twenty seconds, which no start takes: nothing is starting any more.
NaoChegou(s) ==
  /\ Vive(s) /\ empIn[s]["busca"].fase = "garante" /\ ~svcIn[s].chegou
  /\ \A a \in Apps : appIn[a].fase \notin {"conecta", "sobe", "aguarda", "ping", "ola", "espera"}
  /\ LET tem == svcIn[s].vaga # Ninguem IN
     /\ empIn' = [empIn EXCEPT ![s]["busca"].fase = IF tem THEN "tenta" ELSE "fora"]
     /\ pedidoIn' = [pedidoIn EXCEPT !["busca"] = IF tem THEN @ ELSE "semapp"]
  /\ UNCHANGED <<sockIn, svcIn, appIn, filaIn, contaIn>>

Desistir(s, q) ==
  /\ empIn' = [empIn EXCEPT ![s][q] = ParadoIn]
  /\ pedidoIn' = [pedidoIn EXCEPT ![q] = IF @ = "pedido" THEN "perdido" ELSE @]

\* Variant: a message is sent as soon as there is a window, ready or not.
EmpurrarSemPronto(s, q) ==
  /\ Vive(s) /\ empIn[s][q].fase = "tenta"
  /\ IF svcIn[s].vaga = Ninguem THEN Desistir(s, q)
     ELSE /\ empIn' = [empIn EXCEPT ![s][q].alvo = svcIn[s].vaga, ![s][q].fase = "manda"]
          /\ UNCHANGED pedidoIn
  /\ UNCHANGED <<sockIn, svcIn, appIn, filaIn, contaIn>>

\* The place and whether it is ready, read under the lock.
Empurrar(s, q) ==
  /\ Vive(s) /\ empIn[s][q].fase = "tenta"
  /\ IF svcIn[s].vaga = Ninguem THEN Desistir(s, q)
     ELSE /\ empIn' = [empIn EXCEPT ![s][q].alvo = svcIn[s].vaga,
                         ![s][q].fase = IF svcIn[s].pronto THEN "manda" ELSE "espera"]
          /\ UNCHANGED pedidoIn
  /\ UNCHANGED <<sockIn, svcIn, appIn, filaIn, contaIn>>

\* The handshake it waited for ended: both are read again.
Acordar(s, q) ==
  /\ Vive(s) /\ empIn[s][q].fase = "espera" /\ empIn[s][q].alvo \in svcIn[s].prontos
  /\ IF ~Pronta(s) THEN Desistir(s, q)
     ELSE /\ empIn' = [empIn EXCEPT ![s][q].alvo = svcIn[s].vaga, ![s][q].fase = "manda"]
          /\ UNCHANGED pedidoIn
  /\ UNCHANGED <<sockIn, svcIn, appIn, filaIn, contaIn>>

\* The five seconds, which no handshake takes: the window went away in the middle of it.
Vencer(s, q) ==
  /\ Vive(s) /\ empIn[s][q].fase = "espera"
  /\ empIn[s][q].alvo \notin svcIn[s].prontos /\ svcIn[s].vaga # empIn[s][q].alvo
  /\ Desistir(s, q)
  /\ UNCHANGED <<sockIn, svcIn, appIn, filaIn, contaIn>>

Enviar(s, q) ==
  LET e == empIn[s][q] IN
  /\ Vive(s) /\ e.fase = "manda"
  /\ IF appIn[e.alvo].fase = "saiu" THEN Desistir(s, q) /\ UNCHANGED filaIn
     ELSE /\ filaIn' = [filaIn EXCEPT ![e.alvo] =
                          Append(@, Msg(IF q = "atalho" THEN "gatilho" ELSE "abrir", e.tecla, q))]
          /\ empIn' = [empIn EXCEPT ![s][q] = ParadoIn]
          /\ UNCHANGED pedidoIn
  /\ UNCHANGED <<sockIn, svcIn, appIn, contaIn>>

PassoServico(s) ==
  \/ Escutar(s) \/ ConferirOrfao(s) \/ RemoverOrfao(s) \/ EscutarDeNovo(s)
  \/ ResponderOk(s) \/ Aprontar(s) \/ ContarGatilho(s) \/ LiberarVaga(s)
  \/ AppChegou(s) \/ NaoChegou(s)
PassoEmpurra(s, q) == Empurrar(s, q) \/ Acordar(s, q) \/ Vencer(s, q) \/ Enviar(s, q)
PassoApp(a) ==
  \/ ConectarServico(a) \/ (\E s \in Servicos : SubirServico(a, s)) \/ NaoSubiu(a) \/ Aguardar(a)
  \/ PedirPing(a) \/ TomarVaga(a) \/ LerResposta(a) \/ SemResposta(a) \/ LerIn(a) \/ Drenar(a)

NextIn ==
  \/ \E s \in Servicos : PassoServico(s) \/ Morrer(s) \/ Escolher(s)
  \/ \E s \in Servicos, q \in Quem : PassoEmpurra(s, q)
  \/ \E s \in Servicos, t \in TeclasIn : GuardarGatilho(s, t)
  \/ \E a \in Apps : Partir(a) \/ PassoApp(a) \/ FecharJanela(a)

SpecIn == InitIn /\ [][NextIn]_varsIn

(***************************************************************************)
(* Properties.                                                             *)
(***************************************************************************)
TiposIn ==
  /\ sockIn \in Servicos \union {Ninguem}
  /\ \A s \in Servicos : /\ svcIn[s].vaga \in Apps \union {Ninguem}
                         /\ svcIn[s].gatilho \in TeclasIn \union {""}
  /\ \A a \in Apps : appIn[a].con \in Servicos \union {Ninguem} /\ Len(appIn[a].msgs) <= CapMsgs

\* What a window reads as the answer to its handshake is the answer, and never a
\* message somebody pushed in the middle of it (servico_linux.go 41-46, 178-187).
ApertoDeMao ==
  \A a \in Apps : appIn[a].fase = "espera" /\ filaIn[a] # <<>>
                    => Head(filaIn[a]).tipo \in {"ok", "ocupado"}

\* A service has one window, and it is the one it knows of.
UmaPorServico ==
  \A a \in Apps : appIn[a].fase = "janela" /\ Ligado(a) => svcIn[appIn[a].con].vaga = a

\* Whoever asked a second instance, or chose in the box, gets the machine opened, unless
\* the window that had it was closed, the service died, no window started, or its queue
\* was full.  A push that gives up loses it only where some window was closed, this one
\* or one before it: with none closed, the handshake never loses a request.  And none is
\* forgotten: until then a goroutine or a queue of a window that reads has it.
Carrega(q) ==
  \/ \E s \in Servicos : Vive(s) /\ empIn[s][q].fase # "fora"
  \/ \E a \in Apps : appIn[a].fase \in {"espera", "janela"} /\ Traz(a, q)
NadaSePerdeCalado ==
  \A q \in Quem : /\ pedidoIn[q] = "perdido" => contaIn.fechos > 0
                  /\ pedidoIn[q] = "pedido" => Carrega(q)

\* News of the key reaches the window, whichever of the two came first
\* (servico_linux.go 236-239).
Sossego(s, a) ==
  /\ svcIn[s].aperto = "nao" /\ filaIn[a] = <<>> /\ empIn[s]["atalho"].fase = "fora"
NoticiaChega ==
  \A a \in Apps : appIn[a].fase = "janela" /\ Ligado(a) =>
    LET s == appIn[a].con IN Sossego(s, a) /\ svcIn[s].sabido => appIn[a].sabido

InstanciaCerta == ApertoDeMao /\ UmaPorServico /\ NadaSePerdeCalado /\ NoticiaChega

\* ...and the news it has is the last one ("cobre os dois tempos possiveis").
GatilhoEmDia ==
  \A a \in Apps : appIn[a].fase = "janela" /\ Ligado(a) =>
    LET s == appIn[a].con IN
    Sossego(s, a) /\ svcIn[s].sabido => appIn[a].tecla = svcIn[s].gatilho

\* "ele e o unico a registrar o atalho" (instancia.go 20).
UmServico == Cardinality({s \in Servicos : Vive(s)}) <= 1

\* "Nao abrimos uma segunda janela sobre o mesmo inventario" (instancia_linux.go 186-188).
UmaJanela == Cardinality({a \in Apps : appIn[a].fase \in {"janela", "sozinha"}}) <= 1
=============================================================================
