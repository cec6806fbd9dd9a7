-------------------------------- MODULE Busca --------------------------------
(***************************************************************************)
(* The search box of the global shortcut and the destinations that are     *)
(* typed and not registered: the box with its own loop, its queue of       *)
(* actions and the goroutine that waits for the activation token           *)
(* (buscapop.go), what the main window does with a choice                  *)
(* (buscapedido.go), how a text becomes a destination (efemera.go) and the *)
(* question for its credentials (efemeradlg.go).                           *)
(*                                                                         *)
(* A text is a record of what interpretarAlvo reads in it, together with   *)
(* the machines its search matches; how strings are cut is left out.       *)
(***************************************************************************)
EXTENDS Integers, Sequences, FiniteSetsExt, SequencesExt

CONSTANTS
    MaquinasBu,   \* names a machine may be registered under
    ProtosDe,     \* [MaquinasBu -> protocols switched on]
    NoDisco,      \* registered names in the order of the file
    Textos,       \* [prefixo, usuario, porta, host, forma, casa]
    MaxLinhasBu,  \* results on screen (buscaMaxLinhas, 1 in the code)
    MaxCaixas,    \* bound: boxes opened
    MaxEntradas,  \* bound: frames with input
    MaxEnter      \* bound: Enter in the search field of the panel

SemTexto == [prefixo |-> "", usuario |-> "", porta |-> 0, host |-> "", forma |-> "",
             casa |-> {}]
ProtosBu == <<"vnc", "ssh", "rdp", "sftp">>
ASSUME BuscaAssumption ==
    /\ NoDisco \in Seq(MaquinasBu) /\ MaquinasBu # {} /\ MaxLinhasBu \in Nat \ {0}
    /\ MaxCaixas \in Nat /\ MaxEntradas \in Nat /\ MaxEnter \in Nat
    /\ SemTexto \notin Textos
    /\ \A t \in Textos : /\ t.host # "" /\ t.porta \in Nat
                          /\ t.prefixo \in {""} \cup Range(ProtosBu)

----------------------------------------------------------------------------
(* A text as a destination.                                                *)

\* Prefix, then port, then user@, then VNC.
PelaPorta(p) == IF p = 22 THEN "ssh" ELSE IF p = 3389 THEN "rdp" ELSE "vnc"
InterpretarAlvo(t) ==
    IF t.prefixo # "" THEN t.prefixo
    ELSE IF t.porta > 0 THEN PelaPorta(t.porta)
    ELSE IF t.usuario # "" THEN "ssh" ELSE "vnc"
PortaPadrao(p) == IF p = "vnc" THEN 5900 ELSE IF p = "rdp" THEN 3389 ELSE 22
PortaDoAlvo(t) == IF t.porta = 0 THEN PortaPadrao(InterpretarAlvo(t)) ELSE t.porta

\* A host name, as opposed to a sentence.
EhNomeDeMaquina(t) == t.forma = "nome"
\* An address by its form, or a bare name when the search found nothing.
EhDestinoPlausivel(t, semResultados) ==
    \/ t.prefixo # "" \/ t.usuario # "" \/ t.porta > 0 \/ t.forma = "endereco"
    \/ semResultados /\ EhNomeDeMaquina(t)
\* The card of a destination: all protocols on; the port that was typed
\* stays with the protocol the text pointed at.
PortaDoRascunho(t, p) == IF InterpretarAlvo(t) = p THEN PortaDoAlvo(t) ELSE PortaPadrao(p)
AlvoRascunho(t) == [nome |-> t.host, avulso |-> TRUE, usuario |-> t.usuario,
    porta |-> [p \in {"vnc", "ssh", "rdp"} |-> PortaDoRascunho(t, p)]]
\* Enter in the panel: the protocol of the text, with the port of the text.
Serve(p) == IF p = "sftp" THEN "ssh" ELSE p
AlvoDireto(t) == [nome |-> t.host, avulso |-> TRUE, usuario |-> t.usuario,
    porta |-> [p \in {"vnc", "ssh", "rdp"} |->
                  IF p = Serve(InterpretarAlvo(t)) THEN PortaDoAlvo(t) ELSE PortaPadrao(p)]]

Registrada(n) == [nome |-> n, avulso |-> FALSE, usuario |-> "",
    porta |-> [p \in {"vnc", "ssh", "rdp"} |-> PortaPadrao(p)]]
TemBu(cx, p) == cx.avulso \/ Serve(p) \in ProtosDe[cx.nome]
\* The first icon of the row that is not SFTP.
ProtocoloPreferido(cx) ==
    LET tem == {i \in DOMAIN ProtosBu : ProtosBu[i] # "sftp" /\ TemBu(cx, ProtosBu[i])}
    IN  IF tem = {} THEN {} ELSE {ProtosBu[Min(tem)]}

----------------------------------------------------------------------------
VARIABLES
    caixaBu,      \* the box on screen
    filaBu,       \* closures the box left in the loop of the main window
    principalBu,  \* the main window: inventory in memory, question, counts
    usoBu

varsBu == <<caixaBu, filaBu, principalBu, usoBu>>

SemCaixa == [viva |-> FALSE, fase |-> "topo", arq |-> <<>>, focou |-> FALSE, campo |-> SemTexto,
             termo |-> SemTexto, achados |-> <<>>, sel |-> 0, total |-> 0, rasc |-> FALSE,
             linhas |-> 0, escolhendo |-> FALSE, fechar |-> FALSE, acoes |-> <<>>,
             prazo |-> FALSE, token |-> "nenhum", enviou |-> 0]
Alvos == {Registrada(n) : n \in MaquinasBu} \cup {AlvoRascunho(t) : t \in Textos}
         \cup {AlvoDireto(t) : t \in Textos}
Pedidos == [tipo : {"abrir", "ativar", "prazo"}, cx : Alvos, p : Range(ProtosBu)]

TiposBu ==
    /\ caixaBu \in [viva : BOOLEAN, fase : {"topo", "espera"}, arq : {<<>>, NoDisco},
                    focou : BOOLEAN, campo : Textos \cup {SemTexto},
                    termo : Textos \cup {SemTexto}, achados : Seq(MaquinasBu), sel : Nat,
                    total : Nat, rasc : BOOLEAN, linhas : Nat, escolhendo : BOOLEAN,
                    fechar : BOOLEAN, acoes : Seq(Pedidos), prazo : BOOLEAN,
                    token : {"nenhum", "pedido", "veio"}, enviou : Nat]
    /\ filaBu \in Seq(Pedidos)
    /\ principalBu \in [arq : SUBSET MaquinasBu, pergunta : SUBSET Pedidos,
                        abertas : SUBSET Pedidos, frente : BOOLEAN]
    /\ usoBu \in [caixas : 0..MaxCaixas, entradas : 0..MaxEntradas, enter : 0..MaxEnter]

UmPedido(tipo, cx, p) == [tipo |-> tipo, cx |-> cx, p |-> p]
Sinal0(tipo) == UmPedido(tipo, Registrada(CHOOSE n \in MaquinasBu : TRUE), "vnc")

----------------------------------------------------------------------------
(* What a frame of the box does, as functions of the box.                  *)

LinhasBu(c) == Len(c.achados) + IF c.rasc THEN 1 ELSE 0
ConexaoDa(c, i) ==
    IF i < Len(c.achados) THEN {Registrada(c.achados[i + 1])}
    ELSE IF c.rasc /\ i = Len(c.achados) THEN {AlvoRascunho(c.termo)} ELSE {}

\* The choice goes to the queue; a second one is ignored while it lasts.
Escolher(c, i, ps) ==
    IF ConexaoDa(c, i) = {} \/ c.escolhendo THEN c
    ELSE LET cx == CHOOSE x \in ConexaoDa(c, i) : TRUE
             p  == IF ps # {} THEN ps ELSE ProtocoloPreferido(cx)
         IN  IF p = {} THEN c
             ELSE [c EXCEPT !.escolhendo = TRUE,
                            !.acoes = Append(@, UmPedido("abrir", cx, CHOOSE x \in p : TRUE))]

\* The machines that match, in the order of the file: the k-th is where the
\* count of those that match reaches k.
Casam(arq, casa) ==
    LET quantas(n) == Cardinality({j \in 1..n : arq[j] \in casa})
    IN  [k \in 1..quantas(Len(arq)) |-> arq[Min({n \in 1..Len(arq) : quantas(n) >= k})]]

\* The list is made again when the text changed.
Buscar(c) ==
    IF c.campo = c.termo THEN c
    ELSE LET todos == Casam(c.arq, c.campo.casa)
         IN  [c EXCEPT !.termo = c.campo, !.sel = 0, !.total = Len(todos),
                       !.achados = SubSeq(todos, 1, Min({Len(todos), MaxLinhasBu})),
                       !.rasc = EhDestinoPlausivel(c.campo, todos = <<>>)]

Setas(c, seta) ==
    [c EXCEPT !.sel = IF seta = "sobe" /\ @ > 0 THEN @ - 1
                      ELSE IF seta = "desce" /\ @ < LinhasBu(c) - 1 THEN @ + 1 ELSE @]
\* The window is as tall as the list that is drawn.
AlturaDesejada(c) == [c EXCEPT !.linhas = LinhasBu(c)]
\* A click inside a row reaches the icon and the row: the icon is read first,
\* and the row's click is thrown away when the icon took it. Only icons of
\* protocols the machine has are drawn.
Cliques(c, i, icone) ==
    IF i >= LinhasBu(c) \/ \E cx \in ConexaoDa(c, i), p \in icone : ~TemBu(cx, p) THEN c
    ELSE [Escolher(c, i, icone) EXCEPT !.sel = i]

----------------------------------------------------------------------------
(* The box: its loop drains the queue, then waits for one event.           *)

AbrirBusca ==
    /\ ~caixaBu.viva /\ usoBu.caixas < MaxCaixas
    /\ caixaBu' = [SemCaixa EXCEPT !.viva = TRUE, !.arq = NoDisco, !.prazo = TRUE]
    /\ usoBu' = [usoBu EXCEPT !.caixas = @ + 1] /\ UNCHANGED <<filaBu, principalBu>>

\* One closure of the queue. "abrir" asks for the token and opens at once;
\* without a token (not Wayland) it raises the window and closes the box.
Executar(c, a, semToken) ==
    CASE a.tipo = "abrir" -> [c EXCEPT !.enviou = @ + 1,
                                       !.token = IF semToken THEN @ ELSE "pedido",
                                       !.fechar = @ \/ semToken]
      [] a.tipo = "ativar" -> [c EXCEPT !.fechar = TRUE]
      [] OTHER -> [c EXCEPT !.fechar = @ \/ ~c.focou]
AvisarPrincipal(a, semToken) ==
    CASE a.tipo = "abrir" -> <<a>> \o IF semToken THEN <<Sinal0("ativar")>> ELSE <<>>
      [] a.tipo = "ativar" -> <<a>>
      [] OTHER -> <<>>
DrenarBusca ==
    /\ caixaBu.viva /\ caixaBu.fase = "topo" /\ caixaBu.acoes # <<>>
    /\ \E semToken \in BOOLEAN :
          LET a == Head(caixaBu.acoes)
          IN  /\ caixaBu' = Executar([caixaBu EXCEPT !.acoes = Tail(@)], a, semToken)
              /\ filaBu' = filaBu \o AvisarPrincipal(a, semToken)
    /\ UNCHANGED <<principalBu, usoBu>>
EsperarEvento ==
    /\ caixaBu.viva /\ caixaBu.fase = "topo" /\ caixaBu.acoes = <<>>
    /\ caixaBu' = [caixaBu EXCEPT !.fase = "espera"] /\ UNCHANGED <<filaBu, principalBu, usoBu>>

Evento(c) == /\ caixaBu.viva /\ caixaBu.fase = "espera"
             /\ caixaBu' = [c EXCEPT !.fase = "topo"]
             /\ UNCHANGED <<filaBu, principalBu>>

\* One frame. The keys of the field come in their order, the Enter among
\* them, and only then is the list made again.
QuadroDaBusca(seta, t, enter, i, icone) ==
    /\ usoBu.entradas < MaxEntradas
    /\ \E c \in {Setas(caixaBu, seta)} :
       \E d \in {IF enter THEN Escolher([c EXCEPT !.campo = t], c.sel, {})
                 ELSE [c EXCEPT !.campo = t]} :
       \E e \in {AlturaDesejada(Buscar(d))} :
          Evento(IF i < 0 THEN e ELSE Cliques(e, i, icone))
    /\ usoBu' = [usoBu EXCEPT !.entradas = @ + 1]
EscFecha ==
    /\ usoBu.entradas < MaxEntradas /\ Evento([caixaBu EXCEPT !.fechar = TRUE])
    /\ usoBu' = [usoBu EXCEPT !.entradas = @ + 1]
GanharFoco == ~caixaBu.focou /\ Evento([caixaBu EXCEPT !.focou = TRUE]) /\ UNCHANGED usoBu
PerderFoco == caixaBu.focou /\ ~caixaBu.fechar
              /\ Evento([caixaBu EXCEPT !.fechar = TRUE]) /\ UNCHANGED usoBu
\* Invalidate by the goroutines: an event with nothing in it.
Acordada == caixaBu.acoes # <<>> /\ Evento(caixaBu) /\ UNCHANGED usoBu
\* The window is gone: what is still in its queue is never run.
Destruida ==
    /\ caixaBu.viva /\ caixaBu.fase = "espera" /\ caixaBu.fechar
    /\ caixaBu' = [caixaBu EXCEPT !.viva = FALSE] /\ UNCHANGED <<filaBu, principalBu, usoBu>>

\* Variant: the deadline is told with a flag nobody reads.
PrazoSemAcao ==
    /\ caixaBu.prazo
    /\ caixaBu' = [caixaBu EXCEPT !.prazo = FALSE]
    /\ UNCHANGED <<filaBu, principalBu, usoBu>>

\* The goroutines that only wait: 3 s for the focus, up to 2 s for the token.
PrazoFoco ==
    /\ caixaBu.prazo
    /\ caixaBu' = [caixaBu EXCEPT !.prazo = FALSE, !.acoes = Append(@, Sinal0("prazo"))]
    /\ UNCHANGED <<filaBu, principalBu, usoBu>>
TokenOuDesiste ==
    /\ caixaBu.token = "pedido"
    /\ caixaBu' = [caixaBu EXCEPT !.token = "veio", !.acoes = Append(@, Sinal0("ativar"))]
    /\ UNCHANGED <<filaBu, principalBu, usoBu>>

----------------------------------------------------------------------------
(* The main window.                                                        *)

\* A registered machine travels by name; one the inventory in memory does not
\* know is treated as a destination that was typed. Raising the window without
\* a token may work or not: it does nothing on Wayland.
ReceberEscolha ==
    /\ filaBu # <<>> /\ Head(filaBu).tipo = "abrir" /\ filaBu' = Tail(filaBu)
    /\ \E sobe \in BOOLEAN :
          LET a == Head(filaBu)
          IN  principalBu' = IF ~a.cx.avulso /\ a.cx.nome \in principalBu.arq
                             THEN [principalBu EXCEPT !.abertas = @ \cup {a}, !.frente = sobe]
                             ELSE [principalBu EXCEPT !.pergunta = {a}, !.frente = sobe]
    /\ UNCHANGED <<caixaBu, usoBu>>
TrazerParaFrente ==
    /\ filaBu # <<>> /\ Head(filaBu).tipo = "ativar" /\ filaBu' = Tail(filaBu)
    /\ principalBu' = [principalBu EXCEPT !.frente = TRUE] /\ UNCHANGED <<caixaBu, usoBu>>

\* Enter in the search field of the Painel: any text that is not exactly a
\* registered name is taken for a destination.
AoEfemera(t) ==
    /\ usoBu.enter < MaxEnter /\ principalBu.pergunta = {} /\ t.host \notin principalBu.arq
    /\ principalBu' = [principalBu EXCEPT !.pergunta =
                          {UmPedido("abrir", AlvoDireto(t), InterpretarAlvo(t))}]
    /\ usoBu' = [usoBu EXCEPT !.enter = @ + 1] /\ UNCHANGED <<caixaBu, filaBu>>
\* The card of the Painel for a text that looks like a destination: the
\* operator picks the icon.
CardRascunho(t, p) ==
    /\ usoBu.enter < MaxEnter /\ principalBu.pergunta = {}
    /\ EhDestinoPlausivel(t, t.casa \cap principalBu.arq = {})
    /\ principalBu' = [principalBu EXCEPT !.pergunta = {UmPedido("abrir", AlvoRascunho(t), p)}]
    /\ usoBu' = [usoBu EXCEPT !.enter = @ + 1] /\ UNCHANGED <<caixaBu, filaBu>>

\* The question: a shell and an RDP need a user; the answer opens the tab.
Confirmar(usuario) ==
    /\ principalBu.pergunta # {}
    /\ \A a \in principalBu.pergunta : usuario # "" \/ a.p = "vnc"
    /\ principalBu' = [principalBu EXCEPT !.abertas = @ \cup principalBu.pergunta, !.pergunta = {}]
    /\ UNCHANGED <<caixaBu, filaBu, usoBu>>
CancelarPergunta ==
    /\ principalBu.pergunta # {} /\ principalBu' = [principalBu EXCEPT !.pergunta = {}]
    /\ UNCHANGED <<caixaBu, filaBu, usoBu>>

----------------------------------------------------------------------------
InitBu ==
    /\ caixaBu = SemCaixa /\ filaBu = <<>>
    /\ principalBu = [arq |-> Range(NoDisco) \ {Last(NoDisco)}, pergunta |-> {},
                      abertas |-> {}, frente |-> FALSE]
    /\ usoBu = [caixas |-> 0, entradas |-> 0, enter |-> 0]

NextBu ==
    \/ AbrirBusca \/ DrenarBusca \/ EsperarEvento
    \/ \E t \in Textos, enter \in BOOLEAN : QuadroDaBusca("nada", t, enter, -1, {})
    \/ \E seta \in {"sobe", "desce"} : QuadroDaBusca(seta, caixaBu.campo, FALSE, -1, {})
    \/ \E i \in 0..MaxLinhasBu, icone \in {{}} \cup {{p} : p \in Range(ProtosBu)} :
          QuadroDaBusca("nada", caixaBu.campo, FALSE, i, icone)
    \/ EscFecha \/ GanharFoco \/ PerderFoco \/ Acordada \/ Destruida
    \/ PrazoFoco \/ TokenOuDesiste \/ ReceberEscolha \/ TrazerParaFrente
    \/ \E t \in Textos : AoEfemera(t) \/ \E p \in Range(ProtosBu) : CardRascunho(t, p)
    \/ \E u \in {"", "u"} : Confirmar(u)
    \/ CancelarPergunta

LacoDaBusca == DrenarBusca \/ EsperarEvento \/ Acordada \/ Destruida
\* The loop of the box and the two goroutines that wait run.
JusticaBu == /\ WF_varsBu(LacoDaBusca) /\ WF_varsBu(PrazoFoco)
                   /\ WF_varsBu(TokenOuDesiste)
SpecBu == InitBu /\ [][NextBu]_varsBu /\ JusticaBu

----------------------------------------------------------------------------
(* Properties.                                                             *)

\* A box opens one machine at most, and a choice that was made is never lost
\* with the box, even when the box goes away first (escolher, drenar).
EscolhaUmaVez ==
    /\ caixaBu.enviou <= 1
    /\ caixaBu.escolhendo =>
          caixaBu.enviou + Cardinality({i \in 1..Len(caixaBu.acoes) :
                                           caixaBu.acoes[i].tipo = "abrir"}) = 1
    /\ ~caixaBu.viva /\ caixaBu.escolhendo => caixaBu.enviou = 1

\* The row Enter takes is on screen, and the window is as tall as the list,
\* between two frames (quadro, alturaDesejada).
SelecaoNaLista ==
    /\ caixaBu.sel < Max({1, LinhasBu(caixaBu)})
    /\ caixaBu.linhas = LinhasBu(caixaBu)

\* What opens is a protocol of that machine.
AbreOQueTemBu == \A a \in principalBu.abertas : TemBu(a.cx, a.p)

BuscaCerta == EscolhaUmaVez /\ SelecaoNaLista /\ AbreOQueTemBu

\* A box that never had the focus does not stay on the screen, whatever is
\* typed elsewhere (buscaPrazoFoco).
SemFocoFecha == (caixaBu.viva /\ ~caixaBu.focou) ~> (~caixaBu.viva \/ caixaBu.focou)

\* NOT true: Enter opens a machine that matches what is written: a letter
\* and Enter in the same frame open the result of the text before it.
EnterAbreOQueSeLe ==
    \A i \in 1..Len(caixaBu.acoes) :
        caixaBu.acoes[i].tipo = "abrir" /\ ~caixaBu.acoes[i].cx.avulso
            => caixaBu.acoes[i].cx.nome \in caixaBu.campo.casa
\* NOT true: the port that was typed is the one the icon opens ("o palpite do
\* texto vira só a porta daquele protocolo", efemera.go:108): with the prefix
\* "sftp" the card goes back to port 22.
PortaDigitada ==
    \A a \in principalBu.abertas \cup principalBu.pergunta :
        \A t \in Textos :
            a.cx = AlvoRascunho(t) /\ a.p = InterpretarAlvo(t)
                => a.cx.porta[Serve(a.p)] = PortaDoAlvo(t)
\* NOT true: the machine chosen is one the main window knows.
EscolhaConhecida == \A a \in principalBu.pergunta : a.cx.avulso
\* NOT true: the window comes to the front after every choice.
VemParaFrente == caixaBu.escolhendo ~> principalBu.frente
=============================================================================
