------------------------------- MODULE Painel -------------------------------
(***************************************************************************)
(* The fixed tab "Painel" and the side list: two search fields that        *)
(* mirror each other, the tree of groups drawn twice (cards, side list),   *)
(* the selection for mass execution, the right and middle buttons, and     *)
(* the life probe of the cards being drawn (dashtab.go, sidebar.go, vida). *)
(*                                                                         *)
(* A FRAME is one action: it takes at most one click, and then draws.      *)
(* What the search for a card compares is abstracted to equality with one  *)
(* of its four texts; the order of cards is that of a set.                 *)
(***************************************************************************)
EXTENDS Integers, Sequences, FiniteSetsExt, SequencesExt

CONSTANTS
    Fichas,       \* connections the inventory may hold: records
                  \* [nome, grupo (a path), host, protos, porta]
    Inicial,      \* the inventory at start, a subset of Fichas
    Termos,       \* what may be typed in a search field; "" is in it
    Pingam,       \* hosts that answer an ICMP echo
    Abertas,      \* pairs <<host, port>> that take a TCP connection
    Sondadores,   \* the goroutines of the probe (3 in the code)
    MaxFila,      \* capacity of the queue of the probe (512 in the code)
    MaxGestosPa,  \* bound: clicks and keys of the operator
    MaxRecargas   \* bound: reloads of the inventory

ASSUME PainelAssumption ==
    /\ IsFiniteSet(Fichas) /\ IsFiniteSet(Sondadores)
    /\ Inicial \subseteq Fichas /\ "" \in Termos
    /\ MaxFila \in Nat \ {0} /\ MaxGestosPa \in Nat /\ MaxRecargas \in Nat

NadaPa == "nada"
Protocolos == <<"vnc", "ssh", "rdp", "sftp">>    \* the order of the icons

VARIABLES
    arqPa,    \* the inventory the panel shows
    telaPa,   \* what the window shows: tab, texts, open groups, last frame
    selPa,    \* the selection, the question on screen, the last request
    vidaPa,   \* the probe: answers, queue, workers
    usoPa     \* gestures and reloads used
varsPa == <<arqPa, telaPa, selPa, vidaPa, usoPa>>

Hosts == {cx.host : cx \in Fichas}
Estados == {"desconhecido", "viva", "morta"}
Caminhos(arq) == UNION {{SubSeq(cx.grupo, 1, i) : i \in 1..Len(cx.grupo)} : cx \in arq}

TiposPa ==
    /\ arqPa \subseteq Fichas
    /\ telaPa \in [aba : {"painel", "sessao"}, painel : Termos, lateral : Termos,
                   ultimo : Termos, filtroL : Termos, abertosP : SUBSET Caminhos(Fichas),
                   abertosL : SUBSET Caminhos(Fichas), trava : 0..2, oculta : BOOLEAN,
                   proto : Range(Protocolos), aberta : SUBSET
                       [cx : Fichas, p : Range(Protocolos), foco : BOOLEAN]]
    /\ selPa \in [marcadas : SUBSET Fichas, pergunta : SUBSET Fichas,
                  pedido : SUBSET Fichas]
    /\ vidaPa \in [sabido : [Hosts -> Estados], naFila : SUBSET Hosts,
                   fila : Seq(Fichas), sonda : [Sondadores -> SUBSET Fichas],
                   recente : BOOLEAN, pedido : BOOLEAN, pintado : [Hosts -> Estados]]
    /\ usoPa \in [gestos : 0..MaxGestosPa, recargas : 0..MaxRecargas]

----------------------------------------------------------------------------
(* The tree and the filter.                                                *)

Tem(cx, p) == p \in cx.protos \/ (p = "sftp" /\ "ssh" \in cx.protos)
ChaveCx(cx) == <<cx.grupo, cx.nome>>
NoGrupo(g, cx) == Len(g) <= Len(cx.grupo) /\ SubSeq(cx.grupo, 1, Len(g)) = g

CasaComTermo(cx, t) == t = "" \/ t \in {cx.nome, cx.host, cx.descricao} \cup Range(cx.grupo)
AlgumCasa(lista, t) == \E cx \in lista : CasaComTermo(cx, t)
Filtrar(lista, t) == {cx \in lista : CasaComTermo(cx, t)}
TodasDoGrupo(arq, g) == {cx \in arq : NoGrupo(g, cx)}

\* A group is open when the operator opened it, or when a search is on and
\* something of it matches.
Aberto(arq, g, t, abertos) ==
    IF t = "" THEN g \in abertos ELSE AlgumCasa(TodasDoGrupo(arq, g), t)
\* Cards of the panel, hosts of the side list: the same rule, twice.
CardsDoPainel(arq, t, abertos) ==
    {cx \in Filtrar(arq, t) :
        \A i \in 1..Len(cx.grupo) : Aberto(arq, SubSeq(cx.grupo, 1, i), t, abertos)}

\* Group headers that are drawn: every ancestor open, something under them.
Cabecalhos(arq, t, abertos) ==
    {g \in Caminhos(arq) :
        /\ t # "" => AlgumCasa(TodasDoGrupo(arq, g), t)
        /\ \A i \in 1..(Len(g) - 1) : Aberto(arq, SubSeq(g, 1, i), t, abertos)}

\* What opens without aiming at an icon, and what the side list falls to.
ProtocoloPadrao(cx) ==
    IF Tem(cx, "vnc") THEN "vnc" ELSE IF Tem(cx, "ssh") THEN "ssh"
    ELSE IF Tem(cx, "rdp") THEN "rdp" ELSE NadaPa
ProtoDaLateral(cx, p) ==
    LET tem == {i \in DOMAIN Protocolos : Tem(cx, Protocolos[i])}
    IN  IF Tem(cx, p) THEN p ELSE IF tem = {} THEN NadaPa ELSE Protocolos[Min(tem)]
AbrirEm(tela, cx, p, focar) == [tela EXCEPT !.aberta = {[cx |-> cx, p |-> p, foco |-> focar]},
                                            !.aba = IF focar THEN "sessao" ELSE @]

----------------------------------------------------------------------------
(* The frame.                                                              *)

\* The field that changed is copied to the other; the panel's wins.
SincronizarBusca(tela) ==
    IF tela.painel # tela.ultimo THEN [tela EXCEPT !.ultimo = tela.painel, !.lateral = tela.painel]
    ELSE IF tela.lateral # tela.ultimo THEN [tela EXCEPT !.ultimo = tela.lateral, !.painel = tela.lateral]
    ELSE tela

\* Each drawn card asks for its host; who does not fit stays for the next frame.
EstadoVida(v, cards) ==
    LET novos == {cx \in cards : v.sabido[cx.host] = "desconhecido" /\ cx.host \notin v.naFila}
        um    == {CHOOSE cx \in novos : cx.host = h : h \in {cx.host : cx \in novos}}
        cabem == SubSeq(SetToSeq(um), 1, Min({Cardinality(um), MaxFila - Len(v.fila)}))
    IN  [v EXCEPT !.fila = @ \o cabem, !.naFila = @ \cup {cx.host : cx \in Range(cabem)}]

\* The colour under the host of each card: what was known when it was drawn.
CorDaVida(v, cards) ==
    [v EXCEPT !.pintado = [h \in Hosts |-> IF \E cx \in cards : cx.host = h
                                           THEN v.sabido[h] ELSE @[h]]]

\* The side list is drawn before the content, with the term of the LAST time
\* the panel was drawn; the panel is drawn only while it is the active tab.
LayoutLateral(tela) == IF tela.oculta THEN tela ELSE [tela EXCEPT !.filtroL = tela.ultimo]
LayoutPainel(tela) ==
    IF tela.aba # "painel" THEN tela
    ELSE [SincronizarBusca(tela) EXCEPT !.trava = IF @ > 0 THEN @ - 1 ELSE 0]
Desenhados(tela, arq) ==
    IF tela.aba # "painel" THEN {} ELSE CardsDoPainel(arq, tela.ultimo, tela.abertosP)

\* One frame: Lado is the click on the side list or on the tabs, which come
\* first, Centro the one on the content, and sel the selection it leaves.
Quadro(Lado(_), Centro(_), sel) ==
    LET tela  == LayoutPainel(Lado(LayoutLateral(telaPa)))
        cards == Desenhados(tela, arqPa)
    IN  /\ telaPa' = Centro(tela)
        /\ selPa' = sel
        /\ vidaPa' = CorDaVida(EstadoVida([vidaPa EXCEPT !.pedido = FALSE], cards), cards)
        /\ UNCHANGED arqPa

Gesto == /\ usoPa.gestos < MaxGestosPa /\ selPa.pergunta = {}
         /\ usoPa' = [usoPa EXCEPT !.gestos = @ + 1]
Id(t) == t

\* A frame asked for by Invalidate.
QuadroPedido == vidaPa.pedido /\ Quadro(Id, Id, selPa) /\ UNCHANGED usoPa
\* A frame of its own: the pointer moved, the window was shown.
QuadroAvulso == Gesto /\ Quadro(Id, Id, selPa)

\* What the operator sees to click on: the state of the last frame.
NoPainel == telaPa.aba = "painel"
CardVisivel(cx) == cx \in Desenhados(telaPa, arqPa)
HostVisivel(cx) == ~telaPa.oculta /\ cx \in CardsDoPainel(arqPa, telaPa.filtroL, telaPa.abertosL)
Livre(t) == t.trava = 0    \* no click opens while the right button's gesture lasts

Virar(s, x) == IF x \in s THEN s \ {x} ELSE s \cup {x}

\* Typing: the editor takes the key when it is drawn, after the mirror ran.
CampoFiltro(t) ==
    /\ Gesto /\ NoPainel /\ telaPa.painel # t
    /\ Quadro(Id, LAMBDA x : [x EXCEPT !.painel = t], selPa)
CampoBusca(t) ==
    /\ Gesto /\ ~telaPa.oculta /\ telaPa.lateral # t
    /\ Quadro(LAMBDA x : [x EXCEPT !.lateral = t], Id, selPa)

\* Groups: open and close one; the bar closes or opens all.
ClicarGrupo(g) ==
    /\ Gesto /\ NoPainel /\ g \in Cabecalhos(arqPa, telaPa.ultimo, telaPa.abertosP)
    /\ Quadro(Id, LAMBDA x : [x EXCEPT !.abertosP = Virar(@, g)], selPa)
ClicarRamo(g) ==
    /\ Gesto /\ ~telaPa.oculta /\ g \in Cabecalhos(arqPa, telaPa.filtroL, telaPa.abertosL)
    /\ Quadro(LAMBDA x : [x EXCEPT !.abertosL = Virar(@, g)], Id, selPa)
RecolherTudo == Gesto /\ NoPainel /\ Quadro(Id, LAMBDA x : [x EXCEPT !.abertosP = {}], selPa)
ExpandirTudo ==
    /\ Gesto /\ NoPainel
    /\ Quadro(Id, LAMBDA x : [x EXCEPT !.abertosP = @ \cup Caminhos(arqPa)], selPa)

\* Opening: an icon of a card, a host of the side list, the middle button.
ClicarIcone(cx, p) ==
    /\ Gesto /\ CardVisivel(cx) /\ Tem(cx, p)
    /\ Quadro(Id, LAMBDA x : IF Livre(x) THEN AbrirEm(x, cx, p, TRUE) ELSE x, selPa)
LinhaHost(cx) ==
    /\ Gesto /\ HostVisivel(cx)
    /\ LET p == ProtoDaLateral(cx, telaPa.proto)
       IN Quadro(LAMBDA x : IF p = NadaPa THEN x ELSE AbrirEm(x, cx, p, TRUE), Id, selPa)
TiraProtocolo(p) ==
    /\ Gesto /\ ~telaPa.oculta /\ p # telaPa.proto
    /\ Quadro(LAMBDA x : [x EXCEPT !.proto = p], Id, selPa)
BotaoDoMeio(cx, sob) ==
    /\ Gesto /\ CardVisivel(cx) /\ (sob = NadaPa \/ Tem(cx, sob))
    /\ LET p == IF sob = NadaPa THEN ProtocoloPadrao(cx) ELSE sob
       IN Quadro(Id, LAMBDA x : IF p = NadaPa THEN x ELSE AbrirEm(x, cx, p, FALSE), selPa)
MeioNaLateral(cx) ==
    /\ Gesto /\ HostVisivel(cx) /\ ProtocoloPadrao(cx) # NadaPa
    /\ Quadro(LAMBDA x : AbrirEm(x, cx, ProtocoloPadrao(cx), FALSE), Id, selPa)

\* The right button: no click opens during this frame and the next.
BotaoDireito ==
    Gesto /\ NoPainel /\ Quadro(Id, LAMBDA x : [x EXCEPT !.trava = 2], selPa)

\* The side list hides and shows; another tab comes to the front.
Ciclar == Gesto /\ Quadro(LAMBDA x : [x EXCEPT !.oculta = ~@], Id, selPa)
TrocarAba ==
    /\ Gesto
    /\ Quadro(LAMBDA x : [x EXCEPT !.aba = IF @ = "painel" THEN "sessao" ELSE "painel"], Id, selPa)

----------------------------------------------------------------------------
(* The selection: keyed by group and name, it keeps a COPY of each card.   *)

Selecionada(s, cx) == \E m \in s : ChaveCx(m) = ChaveCx(cx)
SemAs(s, lista) == {m \in s : ~Selecionada(lista, m)}
AlternarSelecao(s, cx) == IF Selecionada(s, cx) THEN SemAs(s, {cx}) ELSE s \cup {cx}
ContarSelecao(s, lista) == Cardinality({cx \in lista : Selecionada(s, cx)})
AlternarGrupo(s, lista) ==
    IF ContarSelecao(s, lista) = Cardinality(lista) THEN SemAs(s, lista)
    ELSE SemAs(s, lista) \cup lista
ListaSelecionada == {cx \in arqPa : Selecionada(selPa.marcadas, cx)}

CaixaSelecao(cx) ==
    /\ Gesto /\ CardVisivel(cx)
    /\ Quadro(Id, Id, [selPa EXCEPT !.marcadas = AlternarSelecao(@, cx)])
CaixaGrupo(g) ==
    /\ Gesto /\ NoPainel /\ g \in Cabecalhos(arqPa, telaPa.ultimo, telaPa.abertosP)
    /\ Quadro(Id, Id, [selPa EXCEPT !.marcadas = AlternarGrupo(@, TodasDoGrupo(arqPa, g))])

\* The bar of the selection: it exists while something is selected.
ComBarra == NoPainel /\ selPa.marcadas # {}
LimparSelecao == Gesto /\ ComBarra /\ Quadro(Id, Id, [selPa EXCEPT !.marcadas = {}])
\* An empty list opens nothing, whatever the bar counts.
ExecutarMassa ==
    /\ Gesto /\ ComBarra
    /\ Quadro(Id, Id, IF ListaSelecionada = {} THEN selPa
                  ELSE [selPa EXCEPT !.pedido = ListaSelecionada])
ExcluirMassa ==
    /\ Gesto /\ ComBarra /\ ListaSelecionada # {}
    /\ Quadro(Id, Id, [selPa EXCEPT !.pergunta = ListaSelecionada])

\* The answer: the machines of the list are removed BY NAME from the file as
\* it is by then, the selection is emptied and the inventory read again.
ConfirmarExclusao ==
    /\ selPa.pergunta # {}
    /\ arqPa' = {cx \in arqPa : \A r \in selPa.pergunta : r.nome # cx.nome}
    /\ selPa' = [selPa EXCEPT !.marcadas = {}, !.pergunta = {}]
    /\ UNCHANGED <<telaPa, vidaPa, usoPa>>
CancelarExclusao ==
    /\ selPa.pergunta # {} /\ selPa' = [selPa EXCEPT !.pergunta = {}]
    /\ UNCHANGED <<arqPa, telaPa, vidaPa, usoPa>>

\* The inventory is read again: a dialog saved, a machine was removed, the
\* detection ended, another file was chosen. Nothing else of the panel moves.
RecarregarCom(novo) ==
    /\ usoPa.recargas < MaxRecargas /\ novo # arqPa
    /\ \A a, b \in novo : a.nome = b.nome => a = b
    /\ arqPa' = novo /\ usoPa' = [usoPa EXCEPT !.recargas = @ + 1]
    /\ UNCHANGED <<telaPa, selPa, vidaPa>>

----------------------------------------------------------------------------
(* The probe.                                                              *)

PortaDaSonda(cx) == IF {"vnc", "ssh"} \cap cx.protos # {} THEN cx.porta ELSE 0
\* ICMP first, the port as a reserve, and both must fail to say "dead".
Checar(host, porta) ==
    IF host \in Pingam \/ (porta > 0 /\ <<host, porta>> \in Abertas) THEN "viva" ELSE "morta"

Pegar(s) ==
    /\ vidaPa.sonda[s] = {} /\ vidaPa.fila # <<>>
    /\ vidaPa' = [vidaPa EXCEPT !.sonda[s] = {Head(vidaPa.fila)}, !.fila = Tail(@)]
    /\ UNCHANGED <<arqPa, telaPa, selPa, usoPa>>

\* The answer is written by HOST; a frame is asked for only if the last one
\* was asked for more than 250 ms ago.
Responder(s) ==
    /\ vidaPa.sonda[s] # {}
    /\ \E cx \in vidaPa.sonda[s] :
          vidaPa' = [vidaPa EXCEPT !.sonda[s] = {},
                                   !.sabido[cx.host] = Checar(cx.host, PortaDaSonda(cx)),
                                   !.naFila = @ \ {cx.host},
                                   !.recente = TRUE,
                                   !.pedido = @ \/ ~vidaPa.recente]
    /\ UNCHANGED <<arqPa, telaPa, selPa, usoPa>>

\* 250 ms go by.
PassarRitmo ==
    /\ vidaPa.recente /\ vidaPa' = [vidaPa EXCEPT !.recente = FALSE]
    /\ UNCHANGED <<arqPa, telaPa, selPa, usoPa>>

----------------------------------------------------------------------------
InitPa ==
    /\ arqPa = Inicial
    /\ telaPa = [aba |-> "painel", painel |-> "", lateral |-> "", ultimo |-> "",
                 filtroL |-> "", abertosP |-> {}, abertosL |-> {}, trava |-> 0,
                 oculta |-> FALSE, proto |-> "vnc", aberta |-> {}]
    /\ selPa = [marcadas |-> {}, pergunta |-> {}, pedido |-> {}]
    /\ vidaPa = [sabido |-> [h \in Hosts |-> "desconhecido"], naFila |-> {}, fila |-> <<>>,
                 sonda |-> [s \in Sondadores |-> {}], recente |-> FALSE,
                 pedido |-> FALSE, pintado |-> [h \in Hosts |-> "desconhecido"]]
    /\ usoPa = [gestos |-> 0, recargas |-> 0]

NextPa ==
    \/ QuadroPedido \/ QuadroAvulso
    \/ \E t \in Termos : CampoFiltro(t) \/ CampoBusca(t)
    \/ \E g \in Caminhos(Fichas) : ClicarGrupo(g) \/ ClicarRamo(g) \/ CaixaGrupo(g)
    \/ RecolherTudo \/ ExpandirTudo \/ BotaoDireito \/ Ciclar \/ TrocarAba
    \/ \E cx \in Fichas, p \in Range(Protocolos) : ClicarIcone(cx, p)
    \/ \E cx \in Fichas : LinhaHost(cx) \/ MeioNaLateral(cx) \/ CaixaSelecao(cx)
    \/ \E p \in Range(Protocolos) : TiraProtocolo(p)
    \/ \E cx \in Fichas, p \in Range(Protocolos) \cup {NadaPa} : BotaoDoMeio(cx, p)
    \/ LimparSelecao \/ ExecutarMassa \/ ExcluirMassa \/ ConfirmarExclusao \/ CancelarExclusao
    \/ \E novo \in SUBSET Fichas : RecarregarCom(novo)
    \/ \E s \in Sondadores : Pegar(s) \/ Responder(s)
    \/ PassarRitmo

\* The goroutines of the probe run, and a dial has a deadline.
JusticaPa == /\ WF_varsPa(\E s \in Sondadores : Responder(s))
                   /\ WF_varsPa(\E s \in Sondadores : Pegar(s))
SpecPa == InitPa /\ [][NextPa]_varsPa /\ JusticaPa

----------------------------------------------------------------------------
(* Properties.                                                             *)

\* A host is asked about once at a time, by one worker, and only while
\* nothing is known of it: the marks in naFila are exactly the hosts in the
\* queue or in the hands of a worker (estadoVida, sondador).
UmaSondaPorHost ==
    LET emMaos == {s \in Sondadores : vidaPa.sonda[s] # {}}
        todos  == vidaPa.fila \o SetToSeq(UNION {vidaPa.sonda[s] : s \in emMaos})
    IN  /\ vidaPa.naFila = {cx.host : cx \in Range(todos)}
        /\ Cardinality(vidaPa.naFila) = Len(vidaPa.fila) + Cardinality(emMaos)
        /\ \A h \in vidaPa.naFila : vidaPa.sabido[h] = "desconhecido"

\* Whatever is clicked, what opens is a protocol the machine has: the side
\* list falls to another, the middle button to the default (linhaHost,
\* rastrearPonteiro, protocoloPadrao).
AbreOQueTem == \A a \in telaPa.aberta : Tem(a.cx, a.p)

PainelCerto == UmaSondaPorHost /\ AbreOQueTem

\* Every host in the queue is answered (three workers and a deadline of 400 ms).
SondaResponde == \A h \in Hosts : h \in vidaPa.naFila ~> vidaPa.sabido[h] # "desconhecido"

\* NOT true: the side list, on the screen, is filtered by what its own field
\* says ("filtrada pelo mesmo termo do campo de busca (o do painel e o da
\* lateral são espelhados)", sidebar.go:346): with another tab in front
\* nothing runs the mirror.
LateralFiltrada ==
    [][usoPa'.gestos # usoPa.gestos /\ ~telaPa.oculta /\ ~telaPa'.oculta
        /\ telaPa'.lateral = telaPa.lateral => telaPa'.filtroL = telaPa.lateral]_varsPa
\* NOT true: the bar counts what mass execution will receive: a machine that
\* left the inventory stays in the selection (barraSelecao, listaSelecionada).
ContadorCerto == Cardinality(ListaSelecionada) = Cardinality(selPa.marcadas)
\* NOT true: an answer reaches the screen: a request for a frame inside the
\* 250 ms of the last one is dropped, and nobody repeats it (sondador).
RespostaAparece ==
    \A cx \in Fichas :
        (CardVisivel(cx) /\ vidaPa.sabido[cx.host] # "desconhecido")
            ~> (~CardVisivel(cx) \/ vidaPa.pintado[cx.host] = vidaPa.sabido[cx.host])
=============================================================================
