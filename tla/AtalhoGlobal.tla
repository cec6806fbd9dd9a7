------------------------------ MODULE AtalhoGlobal ------------------------------
(***************************************************************************)
(* The global shortcut: the loop that registers it and keeps it            *)
(* (manterAtalho, servico_linux.go), the session of the portal and the     *)
(* goroutine of its signals (atalhoglobal_linux.go), the attendant of the  *)
(* presses (atalhodisparo.go), the search box, the two boxes of Ajustes    *)
(* and the question of the autostart (autostart_linux.go, ajustesdlg.go).  *)
(* The portal and the desktop are external.                                *)
(***************************************************************************)
EXTENDS Naturals, Sequences, FiniteSets

CONSTANTS
  ModosAg,      \* "servico", and "app" where there is no service (main.go 578)
  TeclasAg,     \* what the system may bind; "" is no key
  MaxFalhas,    \* bound: registrations that fail
  MaxQuedasAg,  \* bound: sessions the portal ends on its own
  MaxTrocasAg,  \* bound: keys changed in the system's preferences
  MaxCliques,   \* bound: clicks on the boxes of Ajustes
  MaxApertos    \* bound: presses of the key

ASSUME AtalhoGlobalAssumption ==
  ModosAg \subseteq {"servico", "app"} /\ {"Activated", "Closed"} \intersect TeclasAg = {} /\
  {MaxFalhas, MaxQuedasAg, MaxTrocasAg, MaxCliques, MaxApertos} \subseteq Nat

VARIABLES
  iniAg,     \* [geral]: atalho_global and atalho_autostart; a change not yet told
  lacoAg,    \* manterAtalho: where it is, the session it holds, atalhoMudou, what it told
  sessaoAg,  \* the portal's session: alive, its key, and the signals not read
  objetoAg,  \* AtalhoGlobal: Mudou, Caiu, parar; its goroutine; the disparador
  caixaAg,   \* the search box, and the box that was read from the ini
  autoAg,    \* who waits for the portal's answer on the autostart, and what the system does
  contaAg    \* the bounded events

varsAg == <<iniAg, lacoAg, sessaoAg, objetoAg, caixaAg, autoAg, contaAg>>

SemSessao == [viva |-> FALSE, tecla |-> "", sinais |-> <<>>]
SemObjeto == [fio |-> FALSE, mudou |-> <<>>, caiu |-> FALSE, parar |-> FALSE,
              pedidos |-> 0, atende |-> FALSE, velhos |-> 0]

InitAg ==
  /\ iniAg = [atalho |-> TRUE, auto |-> "nunca", avisar |-> FALSE]
  /\ \E m \in ModosAg :
       lacoAg = [modo |-> m, fase |-> "topo", mudou |-> m = "app", sabido |-> FALSE, tecla |-> ""]
  /\ sessaoAg = SemSessao
  /\ objetoAg = SemObjeto
  /\ caixaAg = [aberta |-> FALSE, vindas |-> 0]
  /\ autoAg = [servico |-> 0, ajuste |-> FALSE, sistema |-> FALSE, respondeu |-> "nunca"]
  /\ contaAg = [falhas |-> 0, quedas |-> 0, trocas |-> 0, cliques |-> 0, apertos |-> 0]

Conta(c) == contaAg' = [contaAg EXCEPT ![c] = @ + 1]
Servico == lacoAg.modo = "servico"
Guardar(fase, t) == lacoAg' = [lacoAg EXCEPT !.fase = fase, !.sabido = TRUE, !.tecla = t]
Vai(fase) == lacoAg' = [lacoAg EXCEPT !.fase = fase]

(***************************************************************************)
(* manterAtalho.                                                           *)
(***************************************************************************)
\* The preference is read at the top.
LerPreferencia ==
  /\ Servico /\ lacoAg.fase = "topo"
  /\ Vai(IF iniAg.atalho THEN "registra" ELSE "parado")
  /\ UNCHANGED <<iniAg, sessaoAg, objetoAg, caixaAg, autoAg, contaAg>>

\* Off: only a knock on the door wakes it, and it reads the file again.
AcordarParado ==
  /\ Servico /\ lacoAg.fase = "parado" /\ lacoAg.mudou
  /\ lacoAg' = [lacoAg EXCEPT !.mudou = FALSE, !.fase = IF iniAg.atalho THEN "registra" ELSE "parado"]
  /\ UNCHANGED <<iniAg, sessaoAg, objetoAg, caixaAg, autoAg, contaAg>>

\* CreateSession and BindShortcuts answered, and garantirAutostart starts.  A goroutine of
\* the old session that has not left may attend one press more, of either session: it
\* does not look at whose the signal is.
Amarrar(t) ==
  /\ Guardar("vivo", t)
  /\ sessaoAg' = [viva |-> TRUE, tecla |-> t, sinais |-> <<>>]
  /\ \E resta \in IF objetoAg.fio THEN 0..1 ELSE {0} :
       objetoAg' = [SemObjeto EXCEPT !.fio = TRUE,
                     !.velhos = objetoAg.velhos + resta + IF objetoAg.atende THEN 1 ELSE 0]

Registrar(t) ==
  /\ lacoAg.fase = "registra" /\ Amarrar(t)
  /\ autoAg' = IF iniAg.auto = "nunca" THEN [autoAg EXCEPT !.servico = @ + 1] ELSE autoAg
  /\ UNCHANGED <<iniAg, caixaAg, contaAg>>

\* It failed: the window is told there is no key, and it is tried again later.
FalharRegistro ==
  /\ lacoAg.fase = "registra" /\ contaAg.falhas < MaxFalhas
  /\ Guardar("dorme", "") /\ Conta("falhas")
  /\ UNCHANGED <<iniAg, sessaoAg, objetoAg, caixaAg, autoAg>>

Recuar ==
  /\ lacoAg.fase = "dorme"
  /\ Vai("topo")
  /\ UNCHANGED <<iniAg, sessaoAg, objetoAg, caixaAg, autoAg, contaAg>>

\* Variant: the window is not told that the session fell.
VerQuedaCalada ==
  /\ Servico /\ lacoAg.fase = "vivo" /\ objetoAg.caiu
  /\ Vai("topo")
  /\ UNCHANGED <<iniAg, sessaoAg, objetoAg, caixaAg, autoAg, contaAg>>

VerQueda ==
  /\ Servico /\ lacoAg.fase = "vivo" /\ objetoAg.caiu
  /\ Guardar("topo", "")
  /\ UNCHANGED <<iniAg, sessaoAg, objetoAg, caixaAg, autoAg, contaAg>>

VerTroca ==
  /\ lacoAg.fase = "vivo" /\ objetoAg.mudou # <<>> /\ (Servico \/ ~objetoAg.caiu)
  /\ Guardar("vivo", Head(objetoAg.mudou))
  /\ objetoAg' = [objetoAg EXCEPT !.mudou = <<>>]
  /\ UNCHANGED <<iniAg, sessaoAg, caixaAg, autoAg, contaAg>>

\* AtalhoGlobal.Fechar: the key is free, and the goroutine of the signals is told.
Fechar ==
  /\ sessaoAg' = [sessaoAg EXCEPT !.viva = FALSE, !.tecla = ""]
  /\ objetoAg' = [objetoAg EXCEPT !.parar = TRUE]

\* Turned on again before it was noticed: nothing to do.  Turned off: Fechar closes the
\* session, and the loop waits for the goroutine of the signals.
VerAtalhoMudou ==
  /\ Servico /\ lacoAg.fase = "vivo" /\ lacoAg.mudou
  /\ IF iniAg.atalho
     THEN lacoAg' = [lacoAg EXCEPT !.mudou = FALSE] /\ UNCHANGED <<sessaoAg, objetoAg>>
     ELSE /\ lacoAg' = [lacoAg EXCEPT !.mudou = FALSE, !.fase = "solta", !.sabido = TRUE, !.tecla = ""]
          /\ Fechar
  /\ UNCHANGED <<iniAg, caixaAg, autoAg, contaAg>>

\* The goroutine of the signals left, or five seconds passed and it had not: it takes the
\* match rules off the bus, which may not answer.
Soltou ==
  /\ lacoAg.fase = "solta"
  /\ Vai("topo")
  /\ UNCHANGED <<iniAg, sessaoAg, objetoAg, caixaAg, autoAg, contaAg>>

Laco ==
  \/ LerPreferencia \/ AcordarParado \/ (\E t \in TeclasAg \union {""} : Registrar(t))
  \/ FalharRegistro \/ Recuar \/ VerQueda \/ VerTroca \/ VerAtalhoMudou \/ Soltou

(***************************************************************************)
(* Without a service the window registers it (ligarAtalho), at the start   *)
(* and when the box is clicked; its goroutine hears the changes of key and *)
(* leaves when the session ends.                                           *)
(***************************************************************************)
LigarAtalho(t) ==
  /\ ~Servico /\ lacoAg.mudou /\ iniAg.atalho
  /\ IF lacoAg.fase = "vivo" THEN lacoAg' = [lacoAg EXCEPT !.mudou = FALSE] /\ UNCHANGED <<sessaoAg, objetoAg>>
     ELSE \/ lacoAg' = [lacoAg EXCEPT !.mudou = FALSE] /\ UNCHANGED <<sessaoAg, objetoAg>>
          \/ /\ lacoAg' = [lacoAg EXCEPT !.fase = "vivo", !.mudou = FALSE, !.sabido = TRUE, !.tecla = t]
             /\ sessaoAg' = [viva |-> TRUE, tecla |-> t, sinais |-> <<>>]
             /\ objetoAg' = [SemObjeto EXCEPT !.fio = TRUE]
  /\ UNCHANGED <<iniAg, caixaAg, autoAg, contaAg>>

DesligarAtalho ==
  /\ ~Servico /\ lacoAg.mudou /\ ~iniAg.atalho
  /\ lacoAg' = [lacoAg EXCEPT !.mudou = FALSE, !.fase = "topo"]
  /\ IF lacoAg.fase = "vivo" THEN Fechar ELSE UNCHANGED <<sessaoAg, objetoAg>>
  /\ UNCHANGED <<iniAg, caixaAg, autoAg, contaAg>>

(***************************************************************************)
(* The desktop: it ends the session, the key is changed in its             *)
(* preferences, the key is pressed.                                        *)
(***************************************************************************)
Sinal(x) == sessaoAg' = [sessaoAg EXCEPT !.sinais = Append(@, x)]

CairSessao ==
  /\ sessaoAg.viva /\ contaAg.quedas < MaxQuedasAg
  /\ sessaoAg' = [viva |-> FALSE, tecla |-> "", sinais |-> Append(sessaoAg.sinais, "Closed")]
  /\ Conta("quedas")
  /\ UNCHANGED <<iniAg, lacoAg, objetoAg, caixaAg, autoAg>>

Reamarrar(t) ==
  /\ sessaoAg.viva /\ contaAg.trocas < MaxTrocasAg /\ t # sessaoAg.tecla
  /\ sessaoAg' = [sessaoAg EXCEPT !.tecla = t, !.sinais = Append(@, t)]
  /\ Conta("trocas")
  /\ UNCHANGED <<iniAg, lacoAg, objetoAg, caixaAg, autoAg>>

ApertarAg ==
  /\ sessaoAg.viva /\ sessaoAg.tecla # "" /\ contaAg.apertos < MaxApertos
  /\ Sinal("Activated") /\ Conta("apertos")
  /\ UNCHANGED <<iniAg, lacoAg, objetoAg, caixaAg, autoAg>>

(***************************************************************************)
(* The goroutine of the signals, and the disparador.                       *)
(***************************************************************************)
\* One waits, and one is attended; the others are dropped.
DispararAg == [objetoAg EXCEPT !.pedidos = 1]

\* The news not read gives its place to the newer one.
AvisarMudanca(t) == [objetoAg EXCEPT !.mudou = <<t>>]

\* The goroutine leaves: Caiu closes, and the attendant is told to stop, which it may
\* see after the request that waits.
FimDoFio == [objetoAg EXCEPT !.fio = FALSE, !.caiu = TRUE]

LerSinal ==
  LET x == Head(sessaoAg.sinais) IN
  /\ objetoAg.fio /\ sessaoAg.sinais # <<>>
  /\ sessaoAg' = [sessaoAg EXCEPT !.sinais = Tail(@)]
  /\ objetoAg' = CASE x = "Activated" -> DispararAg
                   [] x = "Closed" -> FimDoFio
                   [] OTHER -> AvisarMudanca(x)
  /\ UNCHANGED <<iniAg, lacoAg, caixaAg, autoAg, contaAg>>

PararFio ==
  /\ objetoAg.fio /\ objetoAg.parar
  /\ objetoAg' = FimDoFio
  /\ UNCHANGED <<iniAg, lacoAg, sessaoAg, caixaAg, autoAg, contaAg>>

\* The attendant takes the request; abrirBusca ends with a box on the screen, of this
\* process or of the window, unless there is one already.
Atender ==
  /\ objetoAg.pedidos = 1 /\ ~objetoAg.atende
  /\ objetoAg' = [objetoAg EXCEPT !.pedidos = 0, !.atende = TRUE]
  /\ UNCHANGED <<iniAg, lacoAg, sessaoAg, caixaAg, autoAg, contaAg>>

AbrirBuscaAqui(leu) ==
  /\ \/ objetoAg.atende /\ objetoAg' = [objetoAg EXCEPT !.atende = FALSE]
     \/ objetoAg.velhos > 0 /\ objetoAg' = [objetoAg EXCEPT !.velhos = @ - 1]
  /\ caixaAg' = IF caixaAg.aberta \/ ~leu THEN caixaAg
                ELSE [caixaAg EXCEPT !.aberta = TRUE, !.vindas = @ + 1]
  /\ UNCHANGED <<iniAg, lacoAg, sessaoAg, autoAg, contaAg>>

FecharBusca ==
  /\ caixaAg.aberta
  /\ caixaAg' = [caixaAg EXCEPT !.aberta = FALSE]
  /\ UNCHANGED <<iniAg, lacoAg, sessaoAg, objetoAg, autoAg, contaAg>>

Fio == LerSinal \/ PararFio \/ Atender \/ (\E leu \in BOOLEAN : AbrirBuscaAqui(leu))

(***************************************************************************)
(* Ajustes and the autostart.                                              *)
(***************************************************************************)
\* The file first, then the knock on the service's door.
TrocarAtalhoAg ==
  /\ contaAg.cliques < MaxCliques /\ ~iniAg.avisar
  /\ iniAg' = [iniAg EXCEPT !.atalho = ~@, !.avisar = TRUE]
  /\ Conta("cliques")
  /\ UNCHANGED <<lacoAg, sessaoAg, objetoAg, caixaAg, autoAg>>

AplicarAtalho ==
  /\ iniAg.avisar
  /\ iniAg' = [iniAg EXCEPT !.avisar = FALSE]
  /\ lacoAg' = [lacoAg EXCEPT !.mudou = TRUE]
  /\ UNCHANGED <<sessaoAg, objetoAg, caixaAg, autoAg, contaAg>>

TrocarAutostartAg ==
  /\ Servico /\ contaAg.cliques < MaxCliques /\ ~autoAg.ajuste
  /\ autoAg' = [autoAg EXCEPT !.ajuste = TRUE]
  /\ Conta("cliques")
  /\ UNCHANGED <<iniAg, lacoAg, sessaoAg, objetoAg, caixaAg>>

\* definirAutostart and salvarAutostart: what the desktop decided is what is written;
\* an error writes nothing.
Decidir(ok) == [autoAg EXCEPT !.sistema = ok, !.respondeu = IF ok THEN "sim" ELSE "nao"]
Salvar(ok) == iniAg' = [iniAg EXCEPT !.auto = IF ok THEN "sim" ELSE "nao"]

GarantirAutostart(ok) ==
  /\ autoAg.servico > 0
  /\ autoAg' = [Decidir(ok) EXCEPT !.servico = @ - 1]
  /\ Salvar(ok)
  /\ UNCHANGED <<lacoAg, sessaoAg, objetoAg, caixaAg, contaAg>>

AutostartFalhou ==
  /\ autoAg.servico > 0
  /\ autoAg' = [autoAg EXCEPT !.servico = @ - 1]
  /\ UNCHANGED <<iniAg, lacoAg, sessaoAg, objetoAg, caixaAg, contaAg>>

AjusteRespondido(ok) ==
  /\ autoAg.ajuste
  /\ autoAg' = [Decidir(ok) EXCEPT !.ajuste = FALSE]
  /\ Salvar(ok)
  /\ UNCHANGED <<lacoAg, sessaoAg, objetoAg, caixaAg, contaAg>>

NextAg ==
  \/ Laco \/ (\E t \in TeclasAg : LigarAtalho(t)) \/ DesligarAtalho
  \/ CairSessao \/ (\E t \in TeclasAg \union {""} : Reamarrar(t)) \/ ApertarAg
  \/ Fio \/ FecharBusca \/ TrocarAtalhoAg \/ AplicarAtalho \/ TrocarAutostartAg \/ AutostartFalhou
  \/ \E ok \in BOOLEAN : GarantirAutostart(ok) \/ AjusteRespondido(ok)

SpecAg == InitAg /\ [][NextAg]_varsAg

(***************************************************************************)
(* Properties.                                                             *)
(***************************************************************************)
TiposAg ==
  /\ iniAg.auto \in {"nunca", "sim", "nao"} /\ lacoAg.tecla \in TeclasAg \union {""}
  /\ lacoAg.fase \in {"topo", "parado", "registra", "dorme", "vivo", "solta"}
  /\ Len(objetoAg.mudou) <= 1 /\ objetoAg.pedidos \in 0..1

\* Nothing is under way between the portal and the loop.
Sossegado == /\ sessaoAg.sinais = <<>> /\ objetoAg.mudou = <<>> /\ ~objetoAg.parar
             /\ ~lacoAg.mudou /\ ~(Servico /\ lacoAg.fase = "vivo" /\ objetoAg.caiu)

\* What the window is told is the key that is bound now, and no key when there is no
\* session (atalhogatilho.go 40-48, servico_linux.go 413-431).
TeclaEmDia ==
  /\ lacoAg.fase \in {"parado", "dorme", "solta"} => lacoAg.tecla = "" /\ ~sessaoAg.viva
  /\ lacoAg.fase = "vivo" /\ Sossegado => sessaoAg.viva /\ lacoAg.tecla = sessaoAg.tecla

\* The loop rests off, or holding a session, as the file says, whatever knocks were
\* merged into one (servico_linux.go 70-78).
SegueOArquivo ==
  Servico /\ ~lacoAg.mudou /\ ~iniAg.avisar =>
                   /\ lacoAg.fase = "parado" => ~iniAg.atalho
                   /\ lacoAg.fase = "vivo" => iniAg.atalho

AtalhoCerto == (Servico => TeclaEmDia) /\ SegueOArquivo

\* Where there is no service too: false, nobody registers again (main.go 611-620).
TeclaEmDiaNoApp == ~Servico => TeclaEmDia

\* "A pergunta e feita UMA vez" (autostart_linux.go 19-23).
UmaPergunta == autoAg.servico <= 1
=============================================================================
