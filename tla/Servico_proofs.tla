--------------------------- MODULE Servico_proofs ---------------------------
(***************************************************************************)
(* Proofs about the service: Instancia (the handshake and what is pushed   *)
(* to the window) and AtalhoGlobal (the key it binds), for every set of    *)
(* processes, versions and keys, every capacity of cli.Msgs and every      *)
(* number of windows closed and services killed.                           *)
(***************************************************************************)
EXTENDS AtalhoGlobal, Instancia, SequenceTheorems, TLAPS

(***************************************************************************)
(* Instancia: the inductive invariant.  What a window that waits for its   *)
(* answer may find (Resposta) rests on who knows of a window at all        *)
(* (Conhecidos) and on the order of the handshake (ApertoCerto); the key's *)
(* news on its way (Noticia) rests on who is about to push it (AlvoCerto); *)
(* and that no request is given up while no window was closed rests on     *)
(* the service keeping, until then, the window it has (SemFechos).         *)
(***************************************************************************)
TextosIn == TeclasIn \union {""}
FasesSvc == {"fora", "escuta", "disca", "remove", "denovo", "vive", "morto"}
\* A window before it presents itself, and from then on.
FasesCedo == {"fora", "conecta", "sobe", "aguarda", "ping", "ola"}
FasesTarde == {"espera", "janela", "saiu"}
\* The key's news asks for nothing: what is to be opened comes from the others.
Mensagens ==
  {m \in [tipo : {"ok", "ocupado", "gatilho", "abrir"}, tecla : TextosIn, de : Quem \union {Ninguem}] :
     m.tipo = "abrir" => m.de \in Quem \ {"atalho"}}
Pedidos == {m \in Mensagens : m.tipo = "abrir"}
Processos == [fase : FasesSvc, versao : Nat, vaga : Apps \union {Ninguem}, pronto : BOOLEAN,
              prontos : SUBSET Apps, aperto : {"nao", "tomou", "respondeu", "conta"},
              conta : TextosIn, contar : BOOLEAN, gatilho : TextosIn, sabido : BOOLEAN,
              chegou : BOOLEAN]
Empurroes == [fase : {"fora", "tenta", "garante", "espera", "manda"},
              alvo : Apps \union {Ninguem}, tecla : TextosIn]
Janelas == [fase : FasesCedo \union FasesTarde \union {"sozinha"}, versao : Nat, volta : BOOLEAN,
            con : Servicos \union {Ninguem}, sabido : BOOLEAN, tecla : TextosIn,
            msgs : Seq(Pedidos)]

TipoSvc == svcIn \in [Servicos -> Processos]
TipoEmp == empIn \in [Servicos -> [Quem -> Empurroes]]
TipoApp == appIn \in [Apps -> Janelas]
TipoFila == filaIn \in [Apps -> Seq(Mensagens)]
TipoConta == contaIn \in [trocas : Nat, mortes : Nat, fechos : Nat, buscas : Nat]
TipadoIn ==
  /\ sockIn \in Servicos \union {Ninguem}
  /\ TipoSvc /\ TipoEmp /\ TipoApp /\ TipoFila /\ TipoConta

\* Who does not run keeps nothing.
SoQuemVive ==
  \A s \in Servicos : svcIn[s].fase # "vive" =>
    /\ svcIn[s].vaga = Ninguem /\ ~svcIn[s].pronto /\ svcIn[s].prontos = {}
    /\ svcIn[s].aperto = "nao" /\ ~svcIn[s].sabido
    /\ \A q \in Quem : empIn[s][q].fase = "fora" /\ empIn[s][q].alvo = Ninguem

\* A window reached a service that ran: one that ended never runs again.
Alcancado(a) ==
  appIn[a].con # Ninguem =>
    appIn[a].con \in Servicos /\ svcIn[appIn[a].con].fase \in {"vive", "morto"}
\* Nobody writes to a window before it presents itself.
Cedo(a) ==
  /\ appIn[a].fase \in FasesCedo \union {"sozinha"} => filaIn[a] = <<>>
  /\ appIn[a].fase \in FasesCedo \union {"espera", "sozinha"} => appIn[a].msgs = <<>>
  /\ Len(appIn[a].msgs) <= CapMsgs
JanelasCertas == \A a \in Apps : Alcancado(a) /\ Cedo(a)

\* A service knows of those that presented themselves to it, and of no other.
Tarde(a, s) == appIn[a].con = s /\ appIn[a].fase \in FasesTarde
Conhece(s, a) == svcIn[s].vaga = a \/ a \in svcIn[s].prontos \/ \E q \in Quem : empIn[s][q].alvo = a
Conhecidos == \A s \in Servicos, a \in Apps : Conhece(s, a) => Tarde(a, s)

\* pronto follows the handshake of the window that has the place.
ApertoCerto ==
  \A s \in Servicos :
    /\ svcIn[s].aperto # "nao" => svcIn[s].vaga # Ninguem
    /\ svcIn[s].aperto \in {"tomou", "respondeu"} => ~svcIn[s].pronto
    /\ svcIn[s].aperto = "conta" => svcIn[s].pronto
    /\ svcIn[s].aperto = "nao" /\ svcIn[s].vaga # Ninguem => svcIn[s].pronto
    /\ svcIn[s].pronto => svcIn[s].vaga \in svcIn[s].prontos

\* Who is about to write has somebody to write to, and one whose handshake ended.
AlvoCerto ==
  \A s \in Servicos, q \in Quem :
    /\ empIn[s][q].alvo # Ninguem <=> empIn[s][q].fase \in {"espera", "manda"}
    /\ empIn[s][q].fase = "manda" => empIn[s][q].alvo \in svcIn[s].prontos

\* Who asked through a second instance left: it asks once.
SegundaSaiu == \A s \in Servicos, a \in Apps : empIn[s][a].fase # "fora" => appIn[a].fase = "saiu"

\* A window that waits for the answer has the place and reads nothing yet, or has it and
\* reads it first, or was refused and nobody will write to it again.
DonaDaVaga(a) == Vive(appIn[a].con) => svcIn[appIn[a].con].vaga = a
SemFala(a) ==
  /\ filaIn[a] = <<>> /\ DonaDaVaga(a)
  /\ \A s \in Servicos : a \notin svcIn[s].prontos /\ (svcIn[s].vaga = a => svcIn[s].aperto = "tomou")
Aceito(a) == filaIn[a] # <<>> /\ Head(filaIn[a]).tipo = "ok" /\ DonaDaVaga(a)
Recusado(a) ==
  /\ filaIn[a] = <<Msg("ocupado", "", Ninguem)>>
  /\ \A s \in Servicos : ~Conhece(s, a)
  /\ contaIn.fechos = 0 /\ Vive(appIn[a].con) => svcIn[appIn[a].con].vaga # Ninguem
Resposta == \A a \in Apps : appIn[a].fase = "espera" => SemFala(a) \/ Aceito(a) \/ Recusado(a)

\* The news of the key that a service has: the window knows it, or it is on its way.
AvisoACaminho(s, a) ==
  \/ appIn[a].sabido
  \/ \E m \in ToSet(filaIn[a]) : m.tipo = "gatilho"
  \/ svcIn[s].aperto \in {"tomou", "respondeu"}
  \/ svcIn[s].aperto = "conta" /\ svcIn[s].contar
  \/ empIn[s]["atalho"].fase = "tenta" \/ empIn[s]["atalho"].alvo = a
Noticia ==
  \A s \in Servicos, a \in Apps :
    svcIn[s].vaga = a /\ appIn[a].fase # "saiu" /\ svcIn[s].sabido => AvisoACaminho(s, a)

\* While no window was closed, a service keeps the one it has, and pushes to it.
Fiel(s) ==
  /\ \A a \in Apps : svcIn[s].vaga = a => appIn[a].fase # "saiu"
  /\ \A a \in svcIn[s].prontos : svcIn[s].vaga = a /\ svcIn[s].pronto
  /\ \A q \in Quem : /\ empIn[s][q].alvo # Ninguem => svcIn[s].vaga = empIn[s][q].alvo
                     /\ empIn[s][q].fase = "tenta" /\ q # "atalho" => svcIn[s].vaga # Ninguem
SemFechos == contaIn.fechos = 0 => \A s \in Servicos : Fiel(s)

\* What became of each request.
TipoPedido ==
  /\ pedidoIn \in [Quem -> {"nada", "pedido", "aberto", "descartado", "fechou", "morreu",
                            "perdido", "semapp"}]
  /\ pedidoIn["atalho"] = "nada"

InvInstancia ==
  /\ TipadoIn /\ SoQuemVive /\ JanelasCertas /\ Conhecidos /\ ApertoCerto /\ AlvoCerto
  /\ SegundaSaiu /\ Resposta /\ Noticia /\ SemFechos /\ TipoPedido /\ UmaPorServico /\ NadaSePerdeCalado

-----------------------------------------------------------------------------
\* What a step leaves alone.
OutrosSvc(s) == \A r \in Servicos : r # s => svcIn'[r] = svcIn[r]
OutrasApp(a) == \A b \in Apps : b # a => appIn'[b] = appIn[b]
OutrasFilas(a) == \A b \in Apps : b # a => filaIn'[b] = filaIn[b]
OutrosEmp(s, q) == \A r \in Servicos, p \in Quem : r # s \/ p # q => empIn'[r][p] = empIn[r][p]

\* Nobody knows of this window.
Solta(a) ==
  /\ filaIn[a] = <<>> /\ appIn[a].msgs = <<>> /\ appIn[a].fase \notin {"janela", "saiu"}
  /\ \A s \in Servicos : ~Conhece(s, a)
\* What a service is to its window stays, and who ran runs.
Guarda(s) ==
  /\ svcIn'[s].vaga = svcIn[s].vaga /\ svcIn'[s].pronto = svcIn[s].pronto
  /\ svcIn'[s].prontos = svcIn[s].prontos /\ svcIn'[s].aperto = svcIn[s].aperto
  /\ svcIn'[s].contar = svcIn[s].contar /\ svcIn'[s].sabido = svcIn[s].sabido
  /\ svcIn[s].fase \in {"vive", "morto"} => svcIn'[s].fase = svcIn[s].fase
Comeca(a) ==
  /\ Solta(a) /\ appIn'[a].fase \in FasesCedo \union {"sozinha"} /\ appIn'[a].msgs = <<>>
  /\ \/ appIn'[a].con = appIn[a].con \/ appIn'[a].con = Ninguem
     \/ appIn'[a].con \in Servicos /\ svcIn'[appIn'[a].con].fase = "vive"
\* A step before any window presents itself.
Comeco ==
  /\ \A s \in Servicos : Guarda(s)
  /\ \A a \in Apps : appIn'[a] = appIn[a] \/ Comeca(a)
  /\ UNCHANGED <<empIn, filaIn, pedidoIn, contaIn>>

LEMMA SoltaCedo ==
  ASSUME InvInstancia, NEW a \in Apps, appIn[a].fase \in FasesCedo
  PROVE  Solta(a)
  BY DEF InvInstancia, JanelasCertas, Cedo, Conhecidos, Tarde, Solta, FasesCedo, FasesTarde

LEMMA ComecoGuarda ==
  ASSUME InvInstancia, TipadoIn', Comeco
  PROVE  InvInstancia'
<1>0. /\ TipadoIn /\ SoQuemVive /\ JanelasCertas /\ Conhecidos /\ ApertoCerto /\ AlvoCerto
      /\ SegundaSaiu /\ Resposta /\ Noticia /\ SemFechos /\ TipoPedido /\ UmaPorServico /\ NadaSePerdeCalado
  BY DEF InvInstancia
<1>f1. TipadoIn'
  OBVIOUS
<1>f2. \A s \in Servicos : Guarda(s)
  BY DEF Comeco
<1>f3. \A a \in Apps : appIn'[a] = appIn[a] \/ Comeca(a)
  BY DEF Comeco
<1>f4. UNCHANGED <<empIn, filaIn, pedidoIn, contaIn>>
  BY DEF Comeco
<1>2. SoQuemVive'
  BY <1>0, <1>f1, <1>f2, <1>f3, <1>f4, InstanciaAssumption DEF SoQuemVive, Guarda, Comeca, Solta, FasesCedo
<1>3. JanelasCertas'
  BY <1>0, <1>f1, <1>f2, <1>f3, <1>f4, InstanciaAssumption DEF JanelasCertas, Alcancado, Cedo, Guarda, Comeca, Solta, FasesCedo
<1>4. Conhecidos'
  BY <1>0, <1>f1, <1>f2, <1>f3, <1>f4, InstanciaAssumption DEF Conhecidos, Conhece, Tarde, FasesTarde, Guarda, Comeca, Solta, FasesCedo, Conhece
<1>5. ApertoCerto'
  BY <1>0, <1>f1, <1>f2, <1>f3, <1>f4, InstanciaAssumption, SMTT(40) DEF ApertoCerto, Guarda, Comeca, Solta, FasesCedo
<1>6. AlvoCerto'
  BY <1>0, <1>f1, <1>f2, <1>f3, <1>f4, InstanciaAssumption DEF AlvoCerto, Guarda, Comeca, Solta, FasesCedo
<1>7. SegundaSaiu'
  BY <1>0, <1>f1, <1>f2, <1>f3, <1>f4, InstanciaAssumption DEF SegundaSaiu, Guarda, Comeca, Solta, FasesCedo
<1>8. Resposta'
  <2> SUFFICES ASSUME NEW a \in Apps, appIn'[a].fase = "espera"
               PROVE  SemFala(a)' \/ Aceito(a)' \/ Recusado(a)'
    BY DEF Resposta
  <2>1. appIn'[a] = appIn[a]
    BY <1>f3 DEF Comeca, FasesCedo
  <2>2. Vive(appIn[a].con)' <=> Vive(appIn[a].con)
    BY <1>0, <1>f2, <2>1, InstanciaAssumption DEF JanelasCertas, Alcancado, Vive, Guarda
  <2>3. DonaDaVaga(a)' <=> DonaDaVaga(a)
    BY <1>f2, <2>1, <2>2 DEF DonaDaVaga, Guarda, Vive
  <2>4. CASE SemFala(a)
    BY <1>f2, <1>f4, <2>3, <2>4 DEF SemFala, Guarda
  <2>5. CASE Aceito(a)
    BY <1>f4, <2>3, <2>5 DEF Aceito
  <2>6. CASE Recusado(a)
    BY <1>f2, <1>f4, <2>1, <2>2, <2>6 DEF Recusado, Guarda, Conhece, Vive
  <2> QED
    BY <1>0, <2>1, <2>4, <2>5, <2>6 DEF Resposta
<1>9. Noticia'
  <2> SUFFICES ASSUME NEW s \in Servicos, NEW a \in Apps, svcIn'[s].vaga = a,
                      appIn'[a].fase # "saiu", svcIn'[s].sabido
               PROVE  AvisoACaminho(s, a)'
    BY DEF Noticia
  <2>1. Guarda(s) /\ appIn'[a] = appIn[a]
    BY <1>f2, <1>f3 DEF Comeca, Solta, Conhece, Guarda
  <2>2. AvisoACaminho(s, a)
    BY <1>0, <2>1 DEF Noticia, Guarda
  <2> QED
    BY <1>f4, <2>1, <2>2 DEF AvisoACaminho, Guarda
<1>10. SemFechos'
  BY <1>0, <1>f1, <1>f2, <1>f3, <1>f4, InstanciaAssumption DEF SemFechos, Fiel, Guarda, Comeca, Solta, FasesCedo
<1>11. TipoPedido'
  BY <1>0, <1>f1, <1>f2, <1>f3, <1>f4, InstanciaAssumption DEF TipoPedido, Guarda, Comeca, Solta, FasesCedo
<1>12. UmaPorServico'
  <2> SUFFICES ASSUME NEW a \in Apps, appIn'[a].fase = "janela", Ligado(a)'
               PROVE  svcIn'[appIn'[a].con].vaga = a
    BY DEF UmaPorServico
  <2>1. appIn'[a] = appIn[a]
    BY <1>f3 DEF Comeca, FasesCedo
  <2>2. Vive(appIn[a].con)
    BY <1>0, <1>f2, <2>1, InstanciaAssumption DEF JanelasCertas, Alcancado, Vive, Guarda, Ligado
  <2> QED
    BY <1>0, <1>f2, <2>1, <2>2 DEF UmaPorServico, Ligado, Guarda, Vive
<1>13. NadaSePerdeCalado'
  <2>1. ASSUME NEW q \in Quem, Carrega(q) PROVE Carrega(q)'
    <3>1. CASE \E s \in Servicos : Vive(s) /\ empIn[s][q].fase # "fora"
      BY <1>f2, <1>f4, <3>1 DEF Carrega, Vive, Guarda
    <3>2. CASE \E a \in Apps : appIn[a].fase \in {"espera", "janela"} /\ Traz(a, q)
      <4> PICK a \in Apps : appIn[a].fase \in {"espera", "janela"} /\ Traz(a, q)
        BY <3>2
      <4>1. ~Solta(a)
        BY DEF Solta, Traz, ToSet
      <4>2. appIn'[a] = appIn[a]
        BY <1>f3, <4>1 DEF Comeca
      <4> QED
        BY <1>f4, <4>2 DEF Carrega, Traz
    <3> QED
      BY <2>1, <3>1, <3>2 DEF Carrega
  <2> QED
    BY <1>0, <1>f4, <2>1 DEF NadaSePerdeCalado
<1> QED
  BY <1>f1, <1>f2, <1>f3, <1>f4, <1>2, <1>3, <1>4, <1>5, <1>6, <1>7, <1>8, <1>9, <1>10, <1>11, <1>12, <1>13 DEF InvInstancia

\* What escutarServico does before the service answers is nobody else's concern.
LEMMA ServicoComeca ==
  ASSUME InvInstancia, NEW s \in Servicos,
         Escutar(s) \/ ConferirOrfao(s) \/ RemoverOrfao(s) \/ EscutarDeNovo(s)
  PROVE  InvInstancia'
<1>1. /\ \E f \in FasesSvc : svcIn' = [svcIn EXCEPT ![s].fase = f]
      /\ svcIn[s].fase \in FasesSvc \ {"vive", "morto"}
      /\ sockIn' \in {sockIn, s, Ninguem} /\ UNCHANGED <<empIn, appIn, filaIn, pedidoIn, contaIn>>
  BY DEF Escutar, ConferirOrfao, RemoverOrfao, EscutarDeNovo, FasesSvc
<1>2. PICK f \in FasesSvc : svcIn' = [svcIn EXCEPT ![s].fase = f]
  BY <1>1
<1>3. TipadoIn
  BY DEF InvInstancia
<1>4. TipoSvc'
  BY <1>2, <1>3 DEF TipadoIn, TipoSvc, Processos
<1>5. \A r \in Servicos : Guarda(r)
  BY <1>1, <1>2, <1>3 DEF TipadoIn, TipoSvc, Processos, Guarda
<1>6. TipadoIn'
  BY <1>1, <1>3, <1>4 DEF TipadoIn, TipoEmp, TipoApp, TipoFila, TipoConta
<1>7. Comeco
  BY <1>1, <1>5 DEF Comeco
<1> QED
  BY <1>6, <1>7, ComecoGuarda

\* Nor is what ligarNoServico does before msgOlaApp, or once nobody answers.
LEMMA JanelaComeca ==
  ASSUME InvInstancia, NEW a \in Apps, Solta(a), NEW f \in FasesCedo \union {"sozinha"},
         NEW v \in BOOLEAN, NEW c \in {appIn[a].con, Ninguem} \union {r \in Servicos : Vive(r)},
         appIn' = [appIn EXCEPT ![a].fase = f, ![a].volta = v, ![a].con = c],
         TipoSvc', \A r \in Servicos : Guarda(r),
         UNCHANGED <<sockIn, empIn, filaIn, pedidoIn, contaIn>>
  PROVE  InvInstancia'
<1>1. TipadoIn
  BY DEF InvInstancia
<1>2. c \in Servicos \union {Ninguem}
  BY <1>1 DEF TipadoIn, TipoApp, Janelas
<1>3. TipoApp'
  <2> DEFINE p == [appIn[a] EXCEPT !.fase = f, !.volta = v, !.con = c]
  <2>1. p \in Janelas
    BY <1>1, <1>2 DEF TipadoIn, TipoApp, Janelas
  <2>2. appIn' = [appIn EXCEPT ![a] = p]
    OBVIOUS
  <2> HIDE DEF p
  <2> QED
    BY <1>1, <2>1, <2>2 DEF TipadoIn, TipoApp
<1>4. TipadoIn'
  BY <1>1, <1>3 DEF TipadoIn, TipoEmp, TipoFila, TipoConta
<1>5. /\ appIn'[a].fase = f /\ appIn'[a].con = c /\ appIn'[a].msgs = appIn[a].msgs
      /\ \A b \in Apps : b # a => appIn'[b] = appIn[b]
  BY <1>1 DEF TipadoIn, TipoApp, Janelas
<1>6. Comeca(a)
  BY <1>5 DEF Comeca, Solta, Guarda, Vive
<1>7. Comeco
  BY <1>5, <1>6 DEF Comeco
<1> QED
  BY <1>4, <1>7, ComecoGuarda

LEMMA TudoGuarda ==
  ASSUME svcIn' = svcIn
  PROVE  \A r \in Servicos : Guarda(r)
  BY DEF Guarda

\* The steps of ligarNoServico up to the ping.
LEMMA LigarGuarda ==
  ASSUME InvInstancia, NEW a \in Apps,
         Partir(a) \/ ConectarServico(a) \/ NaoSubiu(a) \/ Aguardar(a) \/ SemResposta(a)
  PROVE  InvInstancia'
<1>1. TipadoIn /\ Conhecidos /\ SoQuemVive
  BY DEF InvInstancia
<1>2. UNCHANGED <<sockIn, svcIn, empIn, filaIn, pedidoIn, contaIn>>
  BY DEF Partir, ConectarServico, NaoSubiu, Aguardar, SemResposta
<1>3. Solta(a)
  <2>1. CASE appIn[a].fase \in FasesCedo
    BY <2>1, SoltaCedo
  <2>2. CASE appIn[a].fase \notin FasesCedo
    <3>1. appIn[a].fase = "espera" /\ filaIn[a] = <<>> /\ ~Vive(appIn[a].con)
      BY <2>2 DEF Partir, ConectarServico, NaoSubiu, Aguardar, SemResposta, FasesCedo
    <3>2. appIn[a].msgs = <<>>
      BY <3>1 DEF InvInstancia, JanelasCertas, Cedo
    <3>3. \A s \in Servicos : ~Conhece(s, a)
      BY <1>1, <3>1, InstanciaAssumption DEF Conhecidos, Conhece, Tarde, Vive, SoQuemVive
    <3> QED
      BY <3>1, <3>2, <3>3 DEF Solta
  <2> QED
    BY <2>1, <2>2
<1>4. \E f \in FasesCedo \union {"sozinha"} :
        \E c \in {appIn[a].con, Ninguem} \union {r \in Servicos : Vive(r)} :
          appIn' = [appIn EXCEPT ![a].fase = f, ![a].volta = appIn[a].volta, ![a].con = c]
  <2>1. CASE Partir(a) \/ NaoSubiu(a) \/ SemResposta(a)
    <3>1. PICK f \in {"conecta", "sozinha"} : appIn' = [appIn EXCEPT ![a].fase = f]
      BY <2>1 DEF Partir, NaoSubiu, SemResposta, Fase
    <3>2. appIn' = [appIn EXCEPT ![a].fase = f, ![a].volta = appIn[a].volta, ![a].con = appIn[a].con]
      BY <1>1, <3>1 DEF TipadoIn, TipoApp, Janelas
    <3> QED
      BY <3>2 DEF FasesCedo
  <2>2. CASE ConectarServico(a)
    <3> DEFINE f == IF Vive(sockIn) THEN "ping" ELSE "sobe"
               c == IF Vive(sockIn) THEN sockIn ELSE Ninguem
    <3>1. appIn' = [appIn EXCEPT ![a].fase = f, ![a].con = c]
      BY <2>2 DEF ConectarServico
    <3>2. f \in FasesCedo /\ c \in {Ninguem} \union {r \in Servicos : Vive(r)}
      BY DEF FasesCedo, Vive
    <3> HIDE DEF f, c
    <3>3. appIn' = [appIn EXCEPT ![a].fase = f, ![a].volta = appIn[a].volta, ![a].con = c]
      BY <1>1, <3>1 DEF TipadoIn, TipoApp, Janelas
    <3> QED
      BY <3>2, <3>3
  <2>3. CASE Aguardar(a)
    <3> DEFINE f == IF appIn[a].volta THEN "ola" ELSE "ping"
    <3>1. appIn' = [appIn EXCEPT ![a].con = sockIn, ![a].fase = f] /\ Vive(sockIn)
      BY <2>3 DEF Aguardar
    <3>2. f \in FasesCedo /\ sockIn \in {r \in Servicos : Vive(r)}
      BY <3>1 DEF FasesCedo, Vive
    <3> HIDE DEF f
    <3>3. appIn' = [appIn EXCEPT ![a].fase = f, ![a].volta = appIn[a].volta, ![a].con = sockIn]
      BY <1>1, <3>1 DEF TipadoIn, TipoApp, Janelas
    <3> QED
      BY <3>2, <3>3
  <2> QED
    BY <2>1, <2>2, <2>3
<1>5. appIn[a].volta \in BOOLEAN
  BY <1>1 DEF TipadoIn, TipoApp, Janelas
<1>6. TipoSvc' /\ \A r \in Servicos : Guarda(r)
  BY <1>1, <1>2, TudoGuarda DEF TipadoIn, TipoSvc
<1> QED
  BY <1>2, <1>3, <1>4, <1>5, <1>6, JanelaComeca

LEMMA SubirGuarda ==
  ASSUME InvInstancia, NEW a \in Apps, NEW s \in Servicos, SubirServico(a, s)
  PROVE  InvInstancia'
<1>1. TipadoIn
  BY DEF InvInstancia
<1>2. /\ svcIn' = [svcIn EXCEPT ![s].fase = "escuta", ![s].versao = appIn[a].versao]
      /\ svcIn[s].fase = "fora" /\ appIn[a].fase = "sobe"
      /\ appIn' = [appIn EXCEPT ![a].fase = "aguarda"]
      /\ UNCHANGED <<sockIn, empIn, filaIn, pedidoIn, contaIn>>
  BY DEF SubirServico, Proximo, Fase
<1>3. appIn[a].versao \in Nat /\ appIn[a].volta \in BOOLEAN
  BY <1>1 DEF TipadoIn, TipoApp, Janelas
<1>4. TipoSvc'
  <2> DEFINE p == [svcIn[s] EXCEPT !.fase = "escuta", !.versao = appIn[a].versao]
  <2>1. p \in Processos
    BY <1>1, <1>3, ZenonT(40) DEF TipadoIn, TipoSvc, Processos, FasesSvc
  <2>2. svcIn' = [svcIn EXCEPT ![s] = p]
    BY <1>2
  <2> HIDE DEF p
  <2> QED
    BY <1>1, <2>1, <2>2 DEF TipadoIn, TipoSvc
<1>5. \A r \in Servicos : Guarda(r)
  BY <1>1, <1>2 DEF TipadoIn, TipoSvc, Processos, Guarda
<1>6. Solta(a)
  BY <1>2, SoltaCedo DEF FasesCedo
<1> DEFINE f == "aguarda"
           v == appIn[a].volta
           c == appIn[a].con
<1>7. appIn' = [appIn EXCEPT ![a].fase = f, ![a].volta = v, ![a].con = c]
  BY <1>1, <1>2 DEF TipadoIn, TipoApp, Janelas
<1>8. f \in FasesCedo \union {"sozinha"} /\ v \in BOOLEAN
      /\ c \in {appIn[a].con, Ninguem} \union {r \in Servicos : Vive(r)}
  BY <1>3 DEF FasesCedo
<1> HIDE DEF f, v, c
<1> QED
  BY <1>2, <1>4, <1>5, <1>6, <1>7, <1>8, JanelaComeca, ZenonT(40)

\* What this step leaves as it was for the window a that waits for its answer.
Alheia(a) ==
  /\ appIn'[a].con = appIn[a].con /\ filaIn'[a] = filaIn[a]
  /\ \A s \in Servicos : /\ svcIn'[s].vaga = a => svcIn[s].vaga = a /\ svcIn'[s].aperto = svcIn[s].aperto
                         /\ a \in svcIn'[s].prontos => a \in svcIn[s].prontos
                         /\ Conhece(s, a)' => Conhece(s, a)
  /\ contaIn'.fechos = 0 => contaIn.fechos = 0
  /\ LET c == appIn[a].con
     IN Vive(c)' => /\ Vive(c) /\ (svcIn[c].vaga = a => svcIn'[c].vaga = a)
                    /\ svcIn[c].vaga # Ninguem /\ contaIn'.fechos = 0 => svcIn'[c].vaga # Ninguem

LEMMA RespostaDe ==
  ASSUME NEW a \in Apps, Alheia(a), SemFala(a) \/ Aceito(a) \/ Recusado(a)
  PROVE  SemFala(a)' \/ Aceito(a)' \/ Recusado(a)'
<1>1. DonaDaVaga(a) => DonaDaVaga(a)'
  BY DEF Alheia, DonaDaVaga
<1>2. CASE SemFala(a)
  BY <1>1, <1>2 DEF SemFala, Alheia
<1>3. CASE Aceito(a)
  BY <1>1, <1>3 DEF Aceito, Alheia
<1>4. CASE Recusado(a)
  BY <1>4 DEF Recusado, Alheia
<1> QED
  BY <1>2, <1>3, <1>4

\* A request that is carried stays carried where nothing that carries it changed.
LEMMA CarregaFica ==
  ASSUME NEW q \in Quem, Carrega(q),
         \A s \in Servicos : Vive(s) /\ empIn[s][q].fase # "fora"
                               => Carrega(q)' \/ (Vive(s)' /\ empIn'[s][q].fase # "fora"),
         \A a \in Apps : appIn[a].fase \in {"espera", "janela"} /\ Traz(a, q)
                           => Carrega(q)' \/ (appIn'[a].fase \in {"espera", "janela"} /\ Traz(a, q)')
  PROVE  Carrega(q)'
  BY DEF Carrega

LEMMA MorteGuarda ==
  ASSUME InvInstancia, NEW s \in Servicos, Vive(s), Acabar(s), TipoApp', TipoConta',
         \A a \in Apps : appIn'[a] = appIn[a] \/ Comeca(a),
         contaIn'.fechos = contaIn.fechos, UNCHANGED <<sockIn, filaIn>>
  PROVE  InvInstancia'
<1>0. /\ TipadoIn /\ SoQuemVive /\ JanelasCertas /\ Conhecidos /\ ApertoCerto /\ AlvoCerto
      /\ SegundaSaiu /\ Resposta /\ Noticia /\ SemFechos /\ TipoPedido /\ UmaPorServico /\ NadaSePerdeCalado
  BY DEF InvInstancia
<1>f1. TipoSvc /\ TipoEmp /\ TipoApp /\ TipoFila /\ TipoConta
  BY <1>0 DEF TipadoIn
<1>f2. /\ svcIn' = [svcIn EXCEPT ![s] = [SvcFora EXCEPT !.fase = "morto"]]
       /\ empIn' = [empIn EXCEPT ![s] = [q \in Quem |-> ParadoIn]]
  BY DEF Acabar
<1>f3. /\ OutrosSvc(s) /\ svcIn'[s].fase = "morto" /\ svcIn'[s].vaga = Ninguem /\ ~svcIn'[s].pronto
       /\ svcIn'[s].prontos = {} /\ svcIn'[s].aperto = "nao" /\ ~svcIn'[s].sabido
  BY <1>f1, <1>f2 DEF OutrosSvc, SvcFora, TipoSvc
<1>f4. /\ \A r \in Servicos : r # s => empIn'[r] = empIn[r]
       /\ \A q \in Quem : empIn'[s][q].fase = "fora" /\ empIn'[s][q].alvo = Ninguem
  BY <1>f1, <1>f2 DEF TipoEmp, ParadoIn
<1>f5. \A a \in Apps : appIn'[a] = appIn[a] \/ Comeca(a)
  OBVIOUS
<1>f6. contaIn'.fechos = contaIn.fechos /\ UNCHANGED <<sockIn, filaIn>>
  OBVIOUS
<1>f7. TipadoIn'
  <2>1. [SvcFora EXCEPT !.fase = "morto"] \in Processos /\ ParadoIn \in Empurroes
    BY DEF SvcFora, Processos, FasesSvc, TextosIn, ParadoIn, Empurroes
  <2>2. TipoSvc' /\ TipoEmp'
    BY <1>f1, <1>f2, <2>1 DEF TipoSvc, TipoEmp
  <2> QED
    BY <1>0, <1>f6, <2>2 DEF TipadoIn, TipoFila
<1>f8. \A q \in Quem : pedidoIn'[q] = IF empIn[s][q].fase # "fora" /\ pedidoIn[q] = "pedido"
                                   THEN "morreu" ELSE pedidoIn[q]
  BY DEF Acabar
<1>2. SoQuemVive'
  BY <1>0, <1>f1, <1>f2, <1>f3, <1>f4, <1>f5, <1>f6, <1>f7, <1>f8, InstanciaAssumption DEF SoQuemVive, OutrosSvc, Comeca, Solta, FasesCedo, Acabar
<1>3. JanelasCertas'
  BY <1>0, <1>f1, <1>f2, <1>f3, <1>f4, <1>f5, <1>f6, <1>f7, <1>f8, InstanciaAssumption DEF JanelasCertas, Alcancado, Cedo, OutrosSvc, Comeca, Solta, FasesCedo, Acabar
<1>4. Conhecidos'
  BY <1>0, <1>f1, <1>f2, <1>f3, <1>f4, <1>f5, <1>f6, <1>f7, <1>f8, InstanciaAssumption DEF Conhecidos, Conhece, Tarde, FasesTarde, OutrosSvc, Comeca, Solta, FasesCedo, Acabar
<1>5. ApertoCerto'
  BY <1>0, <1>f1, <1>f2, <1>f3, <1>f4, <1>f5, <1>f6, <1>f7, <1>f8, InstanciaAssumption DEF ApertoCerto, OutrosSvc, Comeca, Solta, FasesCedo, Acabar
<1>6. AlvoCerto'
  BY <1>0, <1>f1, <1>f2, <1>f3, <1>f4, <1>f5, <1>f6, <1>f7, <1>f8, InstanciaAssumption DEF AlvoCerto, OutrosSvc, Comeca, Solta, FasesCedo, Acabar
<1>7. SegundaSaiu'
  <2> SUFFICES ASSUME NEW r \in Servicos, NEW b \in Apps, empIn'[r][b].fase # "fora"
               PROVE  appIn'[b].fase = "saiu"
    BY DEF SegundaSaiu
  <2>1. b \in Quem
    BY DEF Quem
  <2>2. empIn[r][b].fase # "fora"
    BY <2>1, <1>f4 DEF Quem
  <2>3. appIn[b].fase = "saiu"
    BY <1>0, <2>2 DEF SegundaSaiu
  <2> QED
    BY <1>f5, <2>3 DEF Comeca, Solta
<1>8. Resposta'
  <2> SUFFICES ASSUME NEW a \in Apps, appIn'[a].fase = "espera"
               PROVE  SemFala(a)' \/ Aceito(a)' \/ Recusado(a)'
    BY DEF Resposta
  <2>1. appIn'[a] = appIn[a]
    BY <1>f5 DEF Comeca, FasesCedo
  <2>2. Alheia(a)
    BY <1>f3, <1>f4, <1>f6, <2>1, InstanciaAssumption DEF Alheia, Conhece, OutrosSvc, Vive
  <2> QED
    BY <1>0, <2>1, <2>2, RespostaDe DEF Resposta
<1>9. Noticia'
  <2> SUFFICES ASSUME NEW r \in Servicos, NEW b \in Apps, svcIn'[r].vaga = b,
                      appIn'[b].fase # "saiu", svcIn'[r].sabido
               PROVE  AvisoACaminho(r, b)'
    BY DEF Noticia
  <2>1. r # s /\ svcIn'[r] = svcIn[r] /\ empIn'[r] = empIn[r]
    BY <1>f3, <1>f4 DEF OutrosSvc
  <2>2. appIn'[b] = appIn[b]
    BY <1>f5, <2>1 DEF Comeca, Solta, Conhece
  <2>3. AvisoACaminho(r, b)
    BY <1>0, <2>1, <2>2 DEF Noticia
  <2> QED
    BY <1>f6, <2>1, <2>2, <2>3 DEF AvisoACaminho
<1>10. SemFechos'
  <2> SUFFICES ASSUME contaIn'.fechos = 0, NEW r \in Servicos PROVE Fiel(r)'
    BY DEF SemFechos
  <2>1. CASE r = s
    BY <1>f3, <1>f4, <2>1, InstanciaAssumption DEF Fiel
  <2>2. CASE r # s
    <3>1. svcIn'[r] = svcIn[r] /\ empIn'[r] = empIn[r] /\ Fiel(r)
      BY <1>0, <1>f3, <1>f4, <1>f6, <2>2 DEF OutrosSvc, SemFechos
    <3>2. \A a \in Apps : svcIn[r].vaga = a => appIn'[a] = appIn[a]
      BY <1>f5 DEF Comeca, Solta, Conhece
    <3> QED
      BY <3>1, <3>2 DEF Fiel
  <2> QED
    BY <2>1, <2>2
<1>11. TipoPedido'
  BY <1>0, <1>f8 DEF TipoPedido, Acabar, Quem
<1>12. UmaPorServico'
  <2> SUFFICES ASSUME NEW a \in Apps, appIn'[a].fase = "janela", Ligado(a)'
               PROVE  svcIn'[appIn'[a].con].vaga = a
    BY DEF UmaPorServico
  <2>1. appIn'[a] = appIn[a]
    BY <1>f5 DEF Comeca, FasesCedo
  <2>2. appIn[a].con \in Servicos /\ appIn[a].con # s
    BY <1>f3, <2>1 DEF Ligado, Vive
  <2>3. svcIn'[appIn[a].con] = svcIn[appIn[a].con]
    BY <1>f3, <2>2 DEF OutrosSvc
  <2>4. Ligado(a)
    BY <2>1, <2>3 DEF Ligado, Vive
  <2> QED
    BY <1>0, <2>1, <2>3, <2>4 DEF UmaPorServico
<1>13. NadaSePerdeCalado'
  <2> SUFFICES ASSUME NEW q \in Quem
               PROVE  /\ pedidoIn'[q] = "perdido" => contaIn'.fechos > 0
                      /\ pedidoIn'[q] = "pedido" => Carrega(q)'
    BY DEF NadaSePerdeCalado
  <2>1. pedidoIn'[q] = "perdido" => contaIn'.fechos > 0
    BY <1>0, <1>f6, <1>f8 DEF NadaSePerdeCalado
  <2>2. ASSUME pedidoIn'[q] = "pedido" PROVE Carrega(q)'
    <3>1. pedidoIn[q] = "pedido" /\ empIn[s][q].fase = "fora"
      BY <1>f8, <2>2
    <3>2. Carrega(q)
      BY <1>0, <3>1 DEF NadaSePerdeCalado
    <3>3. \A r \in Servicos : Vive(r) /\ empIn[r][q].fase # "fora" => Vive(r)' /\ empIn'[r][q].fase # "fora"
      BY <1>f3, <1>f4, <3>1 DEF OutrosSvc, Vive
    <3>4. ASSUME NEW a \in Apps, appIn[a].fase \in {"espera", "janela"}, Traz(a, q)
          PROVE  appIn'[a].fase \in {"espera", "janela"} /\ Traz(a, q)'
      <4>1. ~Solta(a)
        BY <3>4 DEF Solta, Traz, ToSet
      <4> QED
        BY <1>f5, <1>f6, <3>4, <4>1 DEF Comeca, Traz
    <3> QED
      BY <3>2, <3>3, <3>4, CarregaFica
  <2> QED
    BY <2>1, <2>2
<1> QED
  BY <1>f1, <1>f2, <1>f3, <1>f4, <1>f5, <1>f6, <1>f7, <1>f8, <1>2, <1>3, <1>4, <1>5, <1>6, <1>7, <1>8, <1>9, <1>10, <1>11, <1>12, <1>13 DEF InvInstancia

\* The death of a service, by itself or asked for by a newer window.
LEMMA MorrerGuarda ==
  ASSUME InvInstancia, NEW s \in Servicos, Morrer(s)
  PROVE  InvInstancia'
<1>1. Vive(s) /\ Acabar(s) /\ UNCHANGED <<sockIn, appIn, filaIn>>
  BY DEF Morrer
<1>2. TipoApp' /\ TipoConta' /\ contaIn'.fechos = contaIn.fechos
  BY <1>1 DEF InvInstancia, TipadoIn, TipoApp, TipoConta, Morrer
<1> QED
  BY <1>1, <1>2, MorteGuarda

LEMMA PingGuarda ==
  ASSUME InvInstancia, NEW a \in Apps, PedirPing(a)
  PROVE  InvInstancia'
<1>1. TipadoIn /\ appIn[a].fase = "ping" /\ Solta(a) /\ UNCHANGED <<sockIn, filaIn, contaIn>>
  BY SoltaCedo DEF InvInstancia, PedirPing, FasesCedo
<1> DEFINE s == appIn[a].con
<1>2. CASE Vive(s) /\ svcIn[s].versao # appIn[a].versao
  <2>1. /\ Acabar(s) /\ s \in Servicos
        /\ appIn' = [appIn EXCEPT ![a].fase = "sobe", ![a].volta = TRUE, ![a].con = Ninguem]
    BY <1>2 DEF PedirPing, Vive
  <2>2. TipoApp'
    <3> DEFINE p == [appIn[a] EXCEPT !.fase = "sobe", !.volta = TRUE, !.con = Ninguem]
    <3>1. p \in Janelas
      BY <1>1 DEF TipadoIn, TipoApp, Janelas, FasesCedo
    <3>2. appIn' = [appIn EXCEPT ![a] = p]
      BY <2>1
    <3> HIDE DEF p
    <3> QED
      BY <1>1, <3>1, <3>2 DEF TipadoIn, TipoApp
  <2>3. /\ appIn'[a].fase = "sobe" /\ appIn'[a].con = Ninguem /\ appIn'[a].msgs = appIn[a].msgs
        /\ \A b \in Apps : b # a => appIn'[b] = appIn[b]
    BY <1>1, <2>1 DEF TipadoIn, TipoApp, Janelas
  <2>4. Comeca(a)
    BY <1>1, <2>3 DEF Comeca, Solta, FasesCedo
  <2>5. TipoConta'
    BY <1>1 DEF TipadoIn, TipoConta
  <2> HIDE DEF s
  <2> QED
    BY <1>1, <1>2, <2>1, <2>2, <2>3, <2>4, <2>5, MorteGuarda
<1>3. CASE ~(Vive(s) /\ svcIn[s].versao # appIn[a].versao)
  <2> DEFINE f == "ola"
             v == appIn[a].volta
             c == appIn[a].con
  <2>1. appIn' = [appIn EXCEPT ![a].fase = "ola"] /\ UNCHANGED <<svcIn, empIn, pedidoIn>>
    BY <1>3 DEF PedirPing, Fase
  <2>2. appIn' = [appIn EXCEPT ![a].fase = f, ![a].volta = v, ![a].con = c]
    BY <1>1, <2>1 DEF TipadoIn, TipoApp, Janelas
  <2>3. f \in FasesCedo \union {"sozinha"} /\ v \in BOOLEAN
        /\ c \in {appIn[a].con, Ninguem} \union {r \in Servicos : Vive(r)}
    BY <1>1 DEF TipadoIn, TipoApp, Janelas, FasesCedo
  <2>4. TipoSvc' /\ \A r \in Servicos : Guarda(r)
    BY <1>1, <2>1, TudoGuarda DEF TipadoIn, TipoSvc
  <2> HIDE DEF f, v, c
  <2> QED
    BY <1>1, <2>1, <2>2, <2>3, <2>4, JanelaComeca
<1> QED
  BY <1>2, <1>3

LEMMA EmpNovo ==
  ASSUME TipoEmp, NEW s \in Servicos, NEW q \in Quem, NEW e, empIn' = [empIn EXCEPT ![s][q] = e]
  PROVE  empIn'[s][q] = e /\ OutrosEmp(s, q)
  BY DEF TipoEmp, OutrosEmp

\* One of those who push takes a step, to e: it knows whom it writes to, the news of the
\* key is not dropped, and a request is given up only where a window was closed.
Empurrao(s, q, e) ==
  /\ Vive(s) /\ empIn' = [empIn EXCEPT ![s][q] = e]
  /\ sockIn' = sockIn /\ filaIn' = filaIn /\ contaIn'.fechos = contaIn.fechos
  /\ \A r \in Servicos : Guarda(r) /\ svcIn'[r].fase = svcIn[r].fase
  /\ \A a \in Apps : appIn'[a] = appIn[a] \/ Comeca(a)
  /\ e.alvo # Ninguem <=> e.fase \in {"espera", "manda"}
  /\ e.fase = "manda" => e.alvo \in svcIn[s].prontos
  /\ e.alvo # Ninguem => Conhece(s, e.alvo)
  /\ q \in Apps /\ e.fase # "fora" => empIn[s][q].fase # "fora"
  /\ q = "atalho" => \A a \in Apps :
       svcIn[s].vaga = a /\ appIn[a].fase # "saiu" /\ svcIn[s].sabido => AvisoACaminho(s, a)'
  /\ contaIn.fechos = 0 =>
       /\ e.alvo # Ninguem => svcIn[s].vaga = e.alvo
       /\ e.fase = "tenta" /\ q # "atalho" => svcIn[s].vaga # Ninguem
  /\ \A p \in Quem : /\ pedidoIn'[p] = "perdido" => contaIn.fechos > 0
                     /\ pedidoIn'[p] = "pedido" =>
                          \/ p = q /\ e.fase # "fora"
                          \/ pedidoIn[p] = "pedido" /\ (p = q => empIn[s][q].fase = "fora")

\* One of those who push takes a step: the service and its window stay as they are.
LEMMA EmpurraGuarda ==
  ASSUME InvInstancia, NEW s \in Servicos, NEW q \in Quem, NEW e \in Empurroes, TipoSvc', TipoApp', TipoConta', TipoPedido',
         Empurrao(s, q, e)
  PROVE  InvInstancia'
<1>0. /\ TipadoIn /\ SoQuemVive /\ JanelasCertas /\ Conhecidos /\ ApertoCerto /\ AlvoCerto
      /\ SegundaSaiu /\ Resposta /\ Noticia /\ SemFechos /\ TipoPedido /\ UmaPorServico /\ NadaSePerdeCalado
  BY DEF InvInstancia
<1>f1. TipoSvc /\ TipoEmp /\ TipoApp /\ TipoFila /\ TipoConta
  BY <1>0 DEF TipadoIn
<1>f2. \A r \in Servicos : Guarda(r) /\ svcIn'[r].fase = svcIn[r].fase
  BY DEF Empurrao
<1>f3. Vive(s) /\ empIn'[s][q] = e /\ (e.alvo # Ninguem <=> e.fase \in {"espera", "manda"})
       /\ (e.fase = "manda" => e.alvo \in svcIn[s].prontos) /\ (e.alvo # Ninguem => Conhece(s, e.alvo))
  BY <1>f1, EmpNovo, ZenonT(40) DEF Empurrao
<1>f4. OutrosEmp(s, q)
  BY <1>f1, EmpNovo DEF Empurrao
<1>f5. \A a \in Apps : appIn'[a] = appIn[a] \/ Comeca(a)
  BY DEF Empurrao
<1>f6. contaIn'.fechos = contaIn.fechos /\ UNCHANGED <<sockIn, filaIn>>
  BY DEF Empurrao
<1>f7. TipoPedido' /\ \A p \in Quem :
         /\ pedidoIn'[p] = "perdido" => contaIn'.fechos > 0
         /\ pedidoIn'[p] = "pedido" =>
              \/ p = q /\ e.fase # "fora"
              \/ pedidoIn[p] = "pedido" /\ (p = q => empIn[s][q].fase = "fora")
  BY DEF Empurrao
<1>f8. q = "atalho" => \A a \in Apps :
         svcIn[s].vaga = a /\ appIn[a].fase # "saiu" /\ svcIn[s].sabido => AvisoACaminho(s, a)'
  BY DEF Empurrao
<1>f9. contaIn.fechos = 0 =>
         /\ e.alvo # Ninguem => svcIn[s].vaga = e.alvo
         /\ e.fase = "tenta" /\ q # "atalho" => svcIn[s].vaga # Ninguem
  BY DEF Empurrao
<1>f10. TipadoIn'
  BY <1>0, <1>f1, <1>f6 DEF TipadoIn, TipoEmp, TipoFila, Empurrao
<1>f11. q \in Apps /\ e.fase # "fora" => empIn[s][q].fase # "fora"
  BY DEF Empurrao
<1>2. SoQuemVive'
  BY <1>0, <1>f2, <1>f3, <1>f4 DEF SoQuemVive, Guarda, OutrosEmp, Vive
<1>3. JanelasCertas'
  BY <1>0, <1>f2, <1>f5, <1>f6 DEF JanelasCertas, Alcancado, Cedo, Comeca, Solta, FasesCedo
<1>4. Conhecidos'
  <2> SUFFICES ASSUME NEW r \in Servicos, NEW b \in Apps, Conhece(r, b)' PROVE Tarde(b, r)'
    BY DEF Conhecidos
  <2>1. Conhece(r, b)
    BY <1>f2, <1>f3, <1>f4, InstanciaAssumption DEF Conhece, Guarda, OutrosEmp
  <2>2. appIn'[b] = appIn[b]
    BY <1>f5, <2>1 DEF Comeca, Solta
  <2> QED
    BY <1>0, <2>1, <2>2 DEF Conhecidos, Tarde
<1>5. ApertoCerto'
  BY <1>0, <1>f2 DEF ApertoCerto, Guarda
<1>6. AlvoCerto'
  BY <1>0, <1>f2, <1>f3, <1>f4 DEF AlvoCerto, Guarda, OutrosEmp
<1>7. SegundaSaiu'
  <2> SUFFICES ASSUME NEW r \in Servicos, NEW b \in Apps, empIn'[r][b].fase # "fora"
               PROVE  appIn'[b].fase = "saiu"
    BY DEF SegundaSaiu
  <2>1. b \in Quem
    BY DEF Quem
  <2>2. empIn[r][b].fase # "fora"
    BY <2>1, <1>f3, <1>f4, <1>f11 DEF OutrosEmp, Quem
  <2>3. appIn[b].fase = "saiu"
    BY <1>0, <2>2 DEF SegundaSaiu
  <2> QED
    BY <1>f5, <2>3 DEF Comeca, Solta
<1>8. Resposta'
  <2> SUFFICES ASSUME NEW a \in Apps, appIn'[a].fase = "espera"
               PROVE  SemFala(a)' \/ Aceito(a)' \/ Recusado(a)'
    BY DEF Resposta
  <2>1. appIn'[a] = appIn[a]
    BY <1>f5 DEF Comeca, FasesCedo
  <2>2. \A r \in Servicos : Conhece(r, a)' => Conhece(r, a)
    BY <1>f2, <1>f3, <1>f4, InstanciaAssumption DEF Conhece, Guarda, OutrosEmp
  <2>3. Alheia(a)
    BY <1>f2, <1>f6, <2>1, <2>2, InstanciaAssumption DEF Alheia, Guarda, Vive
  <2> QED
    BY <1>0, <2>1, <2>3, RespostaDe DEF Resposta
<1>9. Noticia'
  <2> SUFFICES ASSUME NEW r \in Servicos, NEW b \in Apps, svcIn'[r].vaga = b,
                      appIn'[b].fase # "saiu", svcIn'[r].sabido
               PROVE  AvisoACaminho(r, b)'
    BY DEF Noticia
  <2>1. Guarda(r) /\ svcIn[r].vaga = b
    BY <1>f2 DEF Guarda
  <2>2. appIn'[b] = appIn[b]
    BY <1>f5, <2>1 DEF Comeca, Solta, Conhece
  <2>3. CASE r = s /\ q = "atalho"
    BY <1>f8, <2>1, <2>2, <2>3 DEF Guarda
  <2>4. CASE ~(r = s /\ q = "atalho")
    <3>1. empIn'[r]["atalho"] = empIn[r]["atalho"]
      BY <1>f4, <2>4 DEF OutrosEmp, Quem
    <3>2. AvisoACaminho(r, b)
      BY <1>0, <2>1, <2>2 DEF Noticia, Guarda
    <3> QED
      BY <1>f6, <2>1, <2>2, <3>1, <3>2 DEF AvisoACaminho, Guarda
  <2> QED
    BY <2>3, <2>4
<1>10. SemFechos'
  <2> SUFFICES ASSUME contaIn'.fechos = 0, NEW r \in Servicos PROVE Fiel(r)'
    BY DEF SemFechos
  <2>1. Fiel(r) /\ Guarda(r)
    BY <1>0, <1>f2, <1>f6 DEF SemFechos
  <2>2. \A a \in Apps : svcIn[r].vaga = a => appIn'[a] = appIn[a]
    BY <1>f5 DEF Comeca, Solta, Conhece
  <2> QED
    BY <1>f3, <1>f4, <1>f6, <1>f9, <2>1, <2>2 DEF Fiel, Guarda, OutrosEmp
<1>11. TipoPedido'
  BY <1>f7 DEF TipoPedido
<1>12. UmaPorServico'
  <2> SUFFICES ASSUME NEW a \in Apps, appIn'[a].fase = "janela", Ligado(a)'
               PROVE  svcIn'[appIn'[a].con].vaga = a
    BY DEF UmaPorServico
  <2>1. appIn'[a] = appIn[a]
    BY <1>f5 DEF Comeca, FasesCedo
  <2> QED
    BY <1>0, <1>f2, <2>1 DEF UmaPorServico, Ligado, Guarda, Vive
<1>13. NadaSePerdeCalado'
  <2> SUFFICES ASSUME NEW p \in Quem, pedidoIn'[p] = "pedido" PROVE Carrega(p)'
    BY <1>f7 DEF NadaSePerdeCalado
  <2>1. CASE p = q /\ e.fase # "fora"
    BY <1>f2, <1>f3, <2>1 DEF Carrega, Vive
  <2>2. CASE ~(p = q /\ e.fase # "fora")
    <3>1. pedidoIn[p] = "pedido" /\ (p = q => empIn[s][q].fase = "fora")
      BY <1>f7, <2>2
    <3>2. Carrega(p)
      BY <1>0, <3>1 DEF NadaSePerdeCalado
    <3>3. \A r \in Servicos : Vive(r) /\ empIn[r][p].fase # "fora" => Vive(r)' /\ empIn'[r][p].fase # "fora"
      BY <1>f2, <1>f4, <3>1 DEF OutrosEmp, Vive
    <3>4. ASSUME NEW a \in Apps, appIn[a].fase \in {"espera", "janela"}, Traz(a, p)
          PROVE  appIn'[a].fase \in {"espera", "janela"} /\ Traz(a, p)'
      <4>1. ~Solta(a)
        BY <3>4 DEF Solta, Traz, ToSet
      <4> QED
        BY <1>f5, <1>f6, <3>4, <4>1 DEF Comeca, Traz
    <3> QED
      BY <3>2, <3>3, <3>4, CarregaFica
  <2> QED
    BY <2>1, <2>2
<1> QED
  BY <1>f1, <1>f2, <1>f3, <1>f4, <1>f5, <1>f6, <1>f7, <1>f8, <1>f9, <1>f10, <1>f11, <1>2, <1>3, <1>4, <1>5, <1>6, <1>7, <1>8, <1>9, <1>10, <1>11, <1>12, <1>13 DEF InvInstancia

LEMMA ParadoTipado == ParadoIn \in Empurroes /\ ParadoIn.fase = "fora" /\ ParadoIn.alvo = Ninguem
  BY DEF ParadoIn, Empurroes, TextosIn

\* mandarParaApp gives up: only where a window was closed, and with no news that the
\* window of the service still waits for.
LEMMA DesisteGuarda ==
  ASSUME InvInstancia, NEW s \in Servicos, NEW q \in Quem, Vive(s), Desistir(s, q),
         UNCHANGED <<sockIn, svcIn, appIn, filaIn, contaIn>>,
         contaIn.fechos = 0 => q = "atalho",
         \A a \in Apps : svcIn[s].vaga = a /\ appIn[a].fase # "saiu" =>
           \/ svcIn[s].aperto \in {"tomou", "respondeu"}
           \/ empIn[s][q].fase # "tenta" /\ empIn[s][q].alvo # a
  PROVE  InvInstancia'
<1>1. TipadoIn /\ Noticia /\ TipoPedido /\ NadaSePerdeCalado
  BY DEF InvInstancia
<1>2. /\ empIn' = [empIn EXCEPT ![s][q] = ParadoIn]
      /\ pedidoIn' = [pedidoIn EXCEPT ![q] = IF @ = "pedido" THEN "perdido" ELSE @]
  BY DEF Desistir
<1>3. TipoSvc' /\ TipoApp' /\ TipoConta' /\ contaIn.fechos \in Nat
  BY <1>1 DEF TipadoIn, TipoSvc, TipoApp, TipoConta
<1>4. \A r \in Servicos : Guarda(r) /\ svcIn'[r].fase = svcIn[r].fase
  BY TudoGuarda
<1>5. /\ pedidoIn'[q] = IF pedidoIn[q] = "pedido" THEN "perdido" ELSE pedidoIn[q]
      /\ \A p \in Quem : p # q => pedidoIn'[p] = pedidoIn[p]
  BY <1>1, <1>2 DEF TipoPedido
<1>6. TipoPedido'
  BY <1>1, <1>2 DEF TipoPedido, Quem
<1>7. \A p \in Quem : /\ pedidoIn'[p] = "perdido" => contaIn.fechos > 0
                      /\ pedidoIn'[p] = "pedido" => pedidoIn[p] = "pedido" /\ p # q
  BY <1>1, <1>3, <1>5 DEF TipoPedido, NadaSePerdeCalado
<1>8. q = "atalho" => \A a \in Apps : svcIn[s].vaga = a /\ appIn[a].fase # "saiu"
                                      /\ svcIn[s].sabido => AvisoACaminho(s, a)'
  BY <1>1 DEF Noticia, AvisoACaminho
<1> DEFINE e == ParadoIn
<1>9. e \in Empurroes /\ e.alvo = Ninguem /\ e.fase = "fora" /\ empIn' = [empIn EXCEPT ![s][q] = e]
  BY <1>2, ParadoTipado
<1> HIDE DEF e
<1>10. /\ e.alvo # Ninguem <=> e.fase \in {"espera", "manda"}
       /\ e.fase = "manda" => e.alvo \in svcIn[s].prontos
       /\ e.alvo # Ninguem => Conhece(s, e.alvo)
       /\ contaIn.fechos = 0 =>
            /\ e.alvo # Ninguem => svcIn[s].vaga = e.alvo
            /\ e.fase = "tenta" /\ q # "atalho" => svcIn[s].vaga # Ninguem
  BY <1>9
<1>11. Empurrao(s, q, e)
  BY <1>3, <1>4, <1>7, <1>8, <1>9, <1>10 DEF Empurrao
<1> QED
  BY <1>3, <1>6, <1>9, <1>11, EmpurraGuarda

\* mandarParaApp finds whom to write to, or waits for its handshake.
LEMMA MiraGuarda ==
  ASSUME InvInstancia, NEW s \in Servicos, NEW q \in Quem, Vive(s), empIn[s][q].fase # "fora",
         svcIn[s].vaga # Ninguem, NEW f \in {"espera", "manda"}, f = "manda" => svcIn[s].pronto,
         empIn' = [empIn EXCEPT ![s][q].alvo = svcIn[s].vaga, ![s][q].fase = f],
         UNCHANGED <<sockIn, svcIn, appIn, filaIn, pedidoIn, contaIn>>
  PROVE  InvInstancia'
<1>1. TipadoIn /\ Noticia /\ TipoPedido /\ NadaSePerdeCalado /\ ApertoCerto
  BY DEF InvInstancia
<1> DEFINE e == [empIn[s][q] EXCEPT !.alvo = svcIn[s].vaga, !.fase = f]
<1>2. /\ empIn[s][q] \in Empurroes /\ svcIn[s].vaga \in Apps
  BY <1>1 DEF TipadoIn, TipoEmp, TipoSvc, Processos
<1>3. e \in Empurroes /\ e.alvo = svcIn[s].vaga /\ e.fase = f
  BY <1>2 DEF Empurroes
<1>4. empIn' = [empIn EXCEPT ![s][q] = e]
  BY <1>1 DEF TipadoIn, TipoEmp
<1> HIDE DEF e
<1>11. empIn'[s][q] = e
  BY <1>1, <1>4, EmpNovo, ZenonT(40) DEF TipadoIn
<1>5. TipoSvc' /\ TipoApp' /\ TipoConta' /\ TipoPedido'
  BY <1>1 DEF TipadoIn, TipoSvc, TipoApp, TipoConta, TipoPedido
<1>6. \A r \in Servicos : Guarda(r) /\ svcIn'[r].fase = svcIn[r].fase
  BY TudoGuarda
<1>7. q = "atalho" => \A a \in Apps : svcIn[s].vaga = a /\ appIn[a].fase # "saiu"
                                      /\ svcIn[s].sabido => AvisoACaminho(s, a)'
  BY <1>3, <1>11 DEF AvisoACaminho
<1>8. e.fase = "manda" => e.alvo \in svcIn[s].prontos
  BY <1>1, <1>3 DEF ApertoCerto
<1>9. Conhece(s, e.alvo)
  BY <1>3 DEF Conhece
<1>10. \A p \in Quem : /\ pedidoIn'[p] = "perdido" => contaIn.fechos > 0
                       /\ pedidoIn'[p] = "pedido" => pedidoIn[p] = "pedido"
  BY <1>1 DEF NadaSePerdeCalado
<1>12. Empurrao(s, q, e)
  BY <1>2, <1>3, <1>4, <1>6, <1>7, <1>8, <1>9, <1>10, InstanciaAssumption DEF Empurrao
<1> QED
  BY <1>3, <1>5, <1>12, EmpurraGuarda

LEMMA EmpurrarGuarda ==
  ASSUME InvInstancia, NEW s \in Servicos, NEW q \in Quem, Empurrar(s, q)
  PROVE  InvInstancia'
<1>1. Vive(s) /\ empIn[s][q].fase = "tenta" /\ UNCHANGED <<sockIn, svcIn, appIn, filaIn, contaIn>>
  BY DEF Empurrar
<1>2. CASE svcIn[s].vaga = Ninguem
  <2>1. Desistir(s, q)
    BY <1>2 DEF Empurrar
  <2>2. contaIn.fechos = 0 => q = "atalho"
    BY <1>1, <1>2 DEF InvInstancia, SemFechos, Fiel
  <2> QED
    BY <1>1, <1>2, <2>1, <2>2, InstanciaAssumption, DesisteGuarda
<1>3. CASE svcIn[s].vaga # Ninguem
  <2> DEFINE f == IF svcIn[s].pronto THEN "manda" ELSE "espera"
  <2>1. /\ empIn' = [empIn EXCEPT ![s][q].alvo = svcIn[s].vaga, ![s][q].fase = f]
        /\ UNCHANGED pedidoIn
    BY <1>3 DEF Empurrar
  <2>2. f \in {"espera", "manda"} /\ (f = "manda" => svcIn[s].pronto)
    OBVIOUS
  <2> HIDE DEF f
  <2> QED
    BY <1>1, <1>3, <2>1, <2>2, MiraGuarda
<1> QED
  BY <1>2, <1>3

LEMMA AcordarGuarda ==
  ASSUME InvInstancia, NEW s \in Servicos, NEW q \in Quem, Acordar(s, q)
  PROVE  InvInstancia'
<1>1. /\ Vive(s) /\ empIn[s][q].fase = "espera" /\ empIn[s][q].alvo \in svcIn[s].prontos
      /\ UNCHANGED <<sockIn, svcIn, appIn, filaIn, contaIn>>
  BY DEF Acordar
<1>2. svcIn[s].prontos \subseteq Apps
  BY DEF InvInstancia, TipadoIn, TipoSvc, Processos
<1>3. CASE ~Pronta(s)
  <2>1. Desistir(s, q)
    BY <1>3 DEF Acordar
  <2>2. contaIn.fechos # 0
    BY <1>1, <1>2, <1>3, InstanciaAssumption DEF InvInstancia, SemFechos, Fiel, Pronta
  <2>3. \A a \in Apps : svcIn[s].vaga = a => svcIn[s].aperto \in {"tomou", "respondeu"}
    <3>1. svcIn[s].aperto \in {"nao", "tomou", "respondeu", "conta"} /\ ApertoCerto
      BY DEF InvInstancia, TipadoIn, TipoSvc, Processos
    <3> QED
      BY <1>3, <3>1, InstanciaAssumption DEF Pronta, ApertoCerto
  <2> QED
    BY <1>1, <2>1, <2>2, <2>3, DesisteGuarda
<1>4. CASE Pronta(s)
  <2> DEFINE f == "manda"
  <2>1. /\ empIn' = [empIn EXCEPT ![s][q].alvo = svcIn[s].vaga, ![s][q].fase = f]
        /\ UNCHANGED pedidoIn
    BY <1>4 DEF Acordar
  <2>2. f \in {"espera", "manda"} /\ svcIn[s].pronto /\ svcIn[s].vaga # Ninguem
    BY <1>4 DEF Pronta
  <2> HIDE DEF f
  <2> QED
    BY <1>1, <2>1, <2>2, MiraGuarda
<1> QED
  BY <1>3, <1>4

LEMMA VencerGuarda ==
  ASSUME InvInstancia, NEW s \in Servicos, NEW q \in Quem, Vencer(s, q)
  PROVE  InvInstancia'
<1>1. /\ Vive(s) /\ empIn[s][q].fase = "espera" /\ svcIn[s].vaga # empIn[s][q].alvo
      /\ Desistir(s, q) /\ UNCHANGED <<sockIn, svcIn, appIn, filaIn, contaIn>>
  BY DEF Vencer
<1>2. contaIn.fechos # 0
  BY <1>1 DEF InvInstancia, SemFechos, Fiel, AlvoCerto
<1> QED
  BY <1>1, <1>2, DesisteGuarda

\* garantirApp: the choice, the window that came, and the one that did not.
LEMMA EscolherGuarda ==
  ASSUME InvInstancia, NEW s \in Servicos, Escolher(s)
  PROVE  InvInstancia'
<1>1. /\ Vive(s) /\ empIn[s]["busca"].fase = "fora" /\ UNCHANGED <<sockIn, svcIn, filaIn>>
      /\ pedidoIn' = [pedidoIn EXCEPT !["busca"] = "pedido"]
      /\ contaIn' = [contaIn EXCEPT !.buscas = @ + 1]
  BY DEF Escolher
<1>2. TipadoIn /\ TipoPedido /\ NadaSePerdeCalado /\ AlvoCerto /\ "busca" \in Quem
  BY DEF InvInstancia, Quem
<1> DEFINE f == IF Pronta(s) THEN "tenta" ELSE "garante"
           e == [empIn[s]["busca"] EXCEPT !.fase = f]
<1>3. empIn[s]["busca"] \in Empurroes /\ empIn[s]["busca"].alvo = Ninguem
  BY <1>1, <1>2 DEF TipadoIn, TipoEmp, AlvoCerto
<1>4. e \in Empurroes /\ e.alvo = Ninguem /\ e.fase = f /\ f \in {"tenta", "garante"}
  BY <1>3 DEF Empurroes
<1>5. empIn' = [empIn EXCEPT ![s]["busca"] = e]
  BY <1>2 DEF TipadoIn, TipoEmp, Escolher
<1>6. f = "tenta" => svcIn[s].vaga # Ninguem
  BY DEF Pronta
<1> HIDE DEF e, f
<1>7. TipoApp' /\ \A a \in Apps : appIn'[a] = appIn[a] \/ Comeca(a)
  <2>1. CASE appIn' = appIn
    BY <1>2, <2>1 DEF TipadoIn, TipoApp
  <2>2. CASE \E a \in Apps : appIn[a].fase = "fora" /\ Fase(a, "conecta")
    <3> PICK a \in Apps : appIn[a].fase = "fora" /\ appIn' = [appIn EXCEPT ![a].fase = "conecta"]
      BY <2>2 DEF Fase
    <3>1. TipoApp' /\ appIn'[a].fase = "conecta" /\ appIn'[a].con = appIn[a].con
          /\ appIn'[a].msgs = appIn[a].msgs /\ \A b \in Apps : b # a => appIn'[b] = appIn[b]
      BY <1>2, ZenonT(40) DEF TipadoIn, TipoApp, Janelas, FasesCedo
    <3>2. Solta(a)
      BY SoltaCedo DEF FasesCedo
    <3>3. Comeca(a)
      BY <3>1, <3>2 DEF Comeca, Solta, FasesCedo
    <3> QED
      BY <3>1, <3>3
  <2> QED
    BY <2>1, <2>2 DEF Escolher
<1>8. TipoSvc' /\ TipoConta' /\ contaIn'.fechos = contaIn.fechos
  BY <1>1, <1>2 DEF TipadoIn, TipoSvc, TipoConta
<1>9. TipoPedido' /\ \A p \in Quem : p # "busca" => pedidoIn'[p] = pedidoIn[p]
  BY <1>1, <1>2 DEF TipoPedido, Quem
<1>10. pedidoIn'["busca"] = "pedido"
  BY <1>1, <1>2 DEF TipoPedido
<1>11. \A p \in Quem : /\ pedidoIn'[p] = "perdido" => contaIn.fechos > 0
                       /\ pedidoIn'[p] = "pedido" => p = "busca" \/ (pedidoIn[p] = "pedido" /\ p # "busca")
  BY <1>2, <1>9, <1>10 DEF NadaSePerdeCalado
<1>12. \A r \in Servicos : Guarda(r) /\ svcIn'[r].fase = svcIn[r].fase
  BY <1>1, TudoGuarda
<1> DEFINE q == "busca"
<1>13. /\ e.alvo # Ninguem <=> e.fase \in {"espera", "manda"}
       /\ e.fase = "manda" => e.alvo \in svcIn[s].prontos
       /\ e.alvo # Ninguem => Conhece(s, e.alvo)
       /\ contaIn.fechos = 0 =>
            /\ e.alvo # Ninguem => svcIn[s].vaga = e.alvo
            /\ e.fase = "tenta" /\ q # "atalho" => svcIn[s].vaga # Ninguem
  BY <1>4, <1>6
<1>14. /\ q \in Quem /\ q # "atalho" /\ q \notin Apps /\ empIn' = [empIn EXCEPT ![s][q] = e]
       /\ \A p \in Quem : /\ pedidoIn'[p] = "perdido" => contaIn.fechos > 0
                          /\ pedidoIn'[p] = "pedido" =>
                                \/ p = q /\ e.fase # "fora"
                                \/ pedidoIn[p] = "pedido" /\ (p = q => empIn[s][q].fase = "fora")
  BY <1>1, <1>2, <1>4, <1>5, <1>11, InstanciaAssumption
<1> HIDE DEF q
<1>15. Empurrao(s, q, e)
  BY <1>1, <1>7, <1>8, <1>12, <1>13, <1>14 DEF Empurrao
<1> QED
  BY <1>4, <1>7, <1>8, <1>9, <1>14, <1>15, EmpurraGuarda

LEMMA ChegarGuarda ==
  ASSUME InvInstancia, NEW s \in Servicos, AppChegou(s) \/ NaoChegou(s)
  PROVE  InvInstancia'
<1>1. /\ Vive(s) /\ empIn[s]["busca"].fase = "garante" /\ UNCHANGED <<sockIn, appIn, filaIn, contaIn>>
  BY DEF AppChegou, NaoChegou
<1>2. TipadoIn /\ TipoPedido /\ NadaSePerdeCalado /\ AlvoCerto /\ "busca" \in Quem
  BY DEF InvInstancia, Quem
<1>3. \E f \in {"tenta", "garante", "fora"} :
        /\ empIn' = [empIn EXCEPT ![s]["busca"].fase = f]
        /\ f = "tenta" => svcIn[s].vaga # Ninguem
        /\ f # "fora" => pedidoIn' = pedidoIn
        /\ f = "fora" => pedidoIn' = [pedidoIn EXCEPT !["busca"] = "semapp"]
  <2>1. CASE AppChegou(s)
    BY <2>1 DEF AppChegou
  <2>2. CASE NaoChegou(s)
    <3>1. CASE svcIn[s].vaga # Ninguem
      <4>1. empIn' = [empIn EXCEPT ![s]["busca"].fase = "tenta"] /\ pedidoIn' = [pedidoIn EXCEPT !["busca"] = @]
        BY <2>2, <3>1 DEF NaoChegou
      <4>2. pedidoIn' = pedidoIn
        BY <1>2, <4>1 DEF TipoPedido
      <4> QED
        BY <3>1, <4>1, <4>2
    <3>2. CASE svcIn[s].vaga = Ninguem
      BY <2>2, <3>2 DEF NaoChegou
    <3> QED
      BY <3>1, <3>2
  <2> QED
    BY <2>1, <2>2
<1> PICK f \in {"tenta", "garante", "fora"} :
        /\ empIn' = [empIn EXCEPT ![s]["busca"].fase = f]
        /\ f = "tenta" => svcIn[s].vaga # Ninguem
        /\ f # "fora" => pedidoIn' = pedidoIn
        /\ f = "fora" => pedidoIn' = [pedidoIn EXCEPT !["busca"] = "semapp"]
  BY <1>3
<1> DEFINE e == [empIn[s]["busca"] EXCEPT !.fase = f]
<1>4. empIn[s]["busca"] \in Empurroes /\ empIn[s]["busca"].alvo = Ninguem
  BY <1>1, <1>2 DEF TipadoIn, TipoEmp, AlvoCerto
<1>5. e \in Empurroes /\ e.alvo = Ninguem /\ e.fase = f
  BY <1>4 DEF Empurroes
<1>6. empIn' = [empIn EXCEPT ![s]["busca"] = e]
  BY <1>2 DEF TipadoIn, TipoEmp
<1> HIDE DEF e
<1>7. TipoSvc' /\ \A r \in Servicos : Guarda(r) /\ svcIn'[r].fase = svcIn[r].fase
  <2>1. CASE svcIn' = svcIn
    BY <1>2, <2>1, TudoGuarda DEF TipadoIn, TipoSvc
  <2>2. CASE svcIn' = [svcIn EXCEPT ![s].chegou = FALSE]
    <3>1. [svcIn[s] EXCEPT !.chegou = FALSE] \in Processos
      BY <1>2 DEF TipadoIn, TipoSvc, Processos
    <3>3. TipoSvc'
      BY <1>2, <2>2, <3>1 DEF TipadoIn, TipoSvc
    <3>2. \A r \in Servicos : Guarda(r) /\ svcIn'[r].fase = svcIn[r].fase
      BY <1>2, <2>2 DEF TipadoIn, TipoSvc, Processos, Guarda
    <3> QED
      BY <3>2, <3>3
  <2> QED
    BY <2>1, <2>2 DEF AppChegou, NaoChegou
<1>8. TipoApp' /\ TipoConta'
  BY <1>1, <1>2 DEF TipadoIn, TipoApp, TipoConta
<1>9. TipoPedido' /\ \A p \in Quem : /\ pedidoIn'[p] = "perdido" => contaIn.fechos > 0
                                     /\ pedidoIn'[p] = "pedido" =>
                                          \/ p = "busca" /\ f # "fora"
                                          \/ pedidoIn[p] = "pedido" /\ p # "busca"
  <2>1. CASE f # "fora"
    BY <1>2, <2>1 DEF NadaSePerdeCalado, TipoPedido
  <2>2. CASE f = "fora"
    <3>1. /\ pedidoIn'["busca"] = "semapp" /\ TipoPedido'
          /\ \A p \in Quem : p # "busca" => pedidoIn'[p] = pedidoIn[p]
      BY <1>2, <2>2 DEF TipoPedido, Quem
    <3> QED
      BY <1>2, <3>1 DEF NadaSePerdeCalado
  <2> QED
    BY <2>1, <2>2
<1> DEFINE q == "busca"
<1>10. /\ e.alvo # Ninguem <=> e.fase \in {"espera", "manda"}
       /\ e.fase = "manda" => e.alvo \in svcIn[s].prontos
       /\ e.alvo # Ninguem => Conhece(s, e.alvo)
       /\ contaIn.fechos = 0 =>
            /\ e.alvo # Ninguem => svcIn[s].vaga = e.alvo
            /\ e.fase = "tenta" /\ q # "atalho" => svcIn[s].vaga # Ninguem
  BY <1>5
<1>11. /\ q \in Quem /\ q # "atalho" /\ q \notin Apps /\ empIn' = [empIn EXCEPT ![s][q] = e]
       /\ \A p \in Quem : /\ pedidoIn'[p] = "perdido" => contaIn.fechos > 0
                          /\ pedidoIn'[p] = "pedido" =>
                                \/ p = q /\ e.fase # "fora"
                                \/ pedidoIn[p] = "pedido" /\ (p = q => empIn[s][q].fase = "fora")
  BY <1>1, <1>2, <1>5, <1>6, <1>9, InstanciaAssumption
<1>12. contaIn'.fechos = contaIn.fechos /\ sockIn' = sockIn /\ filaIn' = filaIn /\ Vive(s)
       /\ \A a \in Apps : appIn'[a] = appIn[a] \/ Comeca(a)
  BY <1>1
<1>13. TipoPedido'
  BY <1>9
<1> HIDE DEF q
<1>14. Empurrao(s, q, e)
  BY <1>7, <1>10, <1>11, <1>12 DEF Empurrao
<1> QED
  BY <1>5, <1>7, <1>8, <1>11, <1>13, <1>14, EmpurraGuarda

-----------------------------------------------------------------------------
LEMMA FilaMais ==
  ASSUME NEW S, NEW f \in Seq(S), NEW m \in S
  PROVE  /\ Append(f, m) \in Seq(S) /\ Append(f, m) # <<>>
         /\ ToSet(Append(f, m)) = ToSet(f) \union {m}
         /\ f # <<>> => Head(Append(f, m)) = Head(f)
         /\ f = <<>> => Head(Append(f, m)) = m /\ Append(f, m) = <<m>>
<1> DEFINE g == Append(f, m)
<1>1. /\ g \in Seq(S) /\ g # <<>> /\ Len(g) = Len(f) + 1 /\ g[Len(f) + 1] = m
      /\ \A i \in 1..Len(f) : g[i] = f[i]
  BY AppendProperties
<1>2. DOMAIN g = 1..Len(g) /\ DOMAIN f = 1..Len(f) /\ Len(f) \in Nat
  BY <1>1, LenProperties
<1>3. f # <<>> => Head(g) = Head(f)
  BY HeadTailAppend
<1>4. f = <<>> => Head(g) = m /\ g = <<m>>
  BY HeadTailAppend
<1> HIDE DEF g
<1>5. ToSet(g) = ToSet(f) \union {m}
  <2>1. ASSUME NEW x \in ToSet(g) PROVE x \in ToSet(f) \union {m}
    <3> PICK i \in 1..Len(g) : x = g[i]
      BY <1>2, <2>1 DEF ToSet
    <3>1. i \in 1..Len(f) \/ i = Len(f) + 1
      BY <1>1, <1>2
    <3> QED
      BY <1>1, <1>2, <3>1 DEF ToSet
  <2>2. ASSUME NEW x \in ToSet(f) PROVE x \in ToSet(g)
    <3> PICK i \in 1..Len(f) : x = f[i]
      BY <1>2, <2>2 DEF ToSet
    <3>1. i \in 1..Len(g) /\ x = g[i]
      BY <1>1, <1>2
    <3> QED
      BY <1>2, <3>1 DEF ToSet
  <2>3. Len(f) + 1 \in 1..Len(g)
    BY <1>1, <1>2
  <2>4. m \in ToSet(g)
    BY <1>1, <1>2, <2>3 DEF ToSet
  <2> QED
    BY <2>1, <2>2, <2>4
<1> QED
  BY <1>1, <1>3, <1>4, <1>5 DEF g

LEMMA FilaFrente ==
  ASSUME NEW S, NEW f \in Seq(S), f # <<>>
  PROVE  Head(f) \in S /\ Tail(f) \in Seq(S) /\ ToSet(f) = {Head(f)} \union ToSet(Tail(f))
<1> DEFINE g == Tail(f)
<1>1. /\ Head(f) \in S /\ g \in Seq(S) /\ Len(g) = Len(f) - 1
      /\ \A i \in 1..Len(g) : g[i] = f[i + 1]
  BY HeadTailProperties
<1>2. DOMAIN g = 1..Len(g) /\ DOMAIN f = 1..Len(f) /\ Len(f) \in Nat \ {0}
  BY <1>1, LenProperties, EmptySeq
<1>3. Head(f) = f[1]
  OBVIOUS
<1> HIDE DEF g
<1>4. ASSUME NEW x \in ToSet(f) PROVE x \in {Head(f)} \union ToSet(g)
  <2> PICK i \in 1..Len(f) : x = f[i]
    BY <1>2, <1>4 DEF ToSet
  <2>1. CASE i # 1
    <3>1. i - 1 \in 1..Len(g) /\ (i - 1) + 1 = i
      BY <1>1, <1>2, <2>1
    <3>2. x = g[i - 1]
      BY <1>1, <3>1
    <3> QED
      BY <1>2, <3>1, <3>2 DEF ToSet
  <2> QED
    BY <1>3, <2>1
<1>5. ASSUME NEW x \in ToSet(g) PROVE x \in ToSet(f)
  <2> PICK i \in 1..Len(g) : x = g[i]
    BY <1>2, <1>5 DEF ToSet
  <2>1. i + 1 \in 1..Len(f) /\ x = f[i + 1]
    BY <1>1, <1>2
  <2> QED
    BY <1>2, <2>1 DEF ToSet
<1>6. Head(f) \in ToSet(f)
  <2>1. 1 \in 1..Len(f)
    BY <1>2
  <2> QED
    BY <1>2, <1>3, <2>1 DEF ToSet
<1> QED
  BY <1>1, <1>4, <1>5, <1>6 DEF g

LEMMA FilaNova ==
  ASSUME TipoFila, NEW a \in Apps, NEW g \in Seq(Mensagens), filaIn' = [filaIn EXCEPT ![a] = g]
  PROVE  TipoFila' /\ filaIn'[a] = g /\ OutrasFilas(a)
  BY DEF TipoFila, OutrasFilas

LEMMA MensagemTipada ==
  \A t \in {"ok", "ocupado", "gatilho", "abrir"}, k \in TextosIn, q \in Quem \union {Ninguem} :
    /\ (t = "abrir" => q \in Quem \ {"atalho"}) => Msg(t, k, q) \in Mensagens
    /\ Msg(t, k, q).tipo = t /\ Msg(t, k, q).tecla = k /\ Msg(t, k, q).de = q
  BY DEF Msg, Mensagens

LEMMA VazioTexto == "" \in TextosIn
  BY DEF TextosIn

LEMMA ResponderGuarda ==
  ASSUME InvInstancia, NEW s \in Servicos, NEW a, a = svcIn[s].vaga, ResponderOk(s)
  PROVE  InvInstancia'
<1>0. /\ TipadoIn /\ SoQuemVive /\ JanelasCertas /\ Conhecidos /\ ApertoCerto /\ AlvoCerto
      /\ SegundaSaiu /\ Resposta /\ Noticia /\ SemFechos /\ TipoPedido /\ UmaPorServico /\ NadaSePerdeCalado
  BY DEF InvInstancia
<1>f1. TipoSvc /\ TipoEmp /\ TipoApp /\ TipoFila /\ TipoConta
  BY <1>0 DEF TipadoIn
<1>f2. /\ svcIn' = [svcIn EXCEPT ![s].aperto = "respondeu"] /\ UNCHANGED <<sockIn, empIn, appIn, pedidoIn, contaIn>>
       /\ Vive(s) /\ svcIn[s].vaga = a /\ svcIn[s].aperto = "tomou" /\ appIn[a].fase # "saiu"
  BY DEF ResponderOk
<1>f3. /\ OutrosSvc(s) /\ svcIn'[s].fase = svcIn[s].fase
       /\ svcIn'[s].vaga = svcIn[s].vaga /\ svcIn'[s].pronto = svcIn[s].pronto
       /\ svcIn'[s].prontos = svcIn[s].prontos /\ svcIn'[s].aperto = "respondeu"
       /\ svcIn'[s].contar = svcIn[s].contar /\ svcIn'[s].sabido = svcIn[s].sabido
  BY <1>f1, <1>f2 DEF TipoSvc, Processos, OutrosSvc
<1>f4. a \in Apps /\ appIn[a].con = s /\ appIn[a].fase \in {"espera", "janela"}
  BY <1>0, <1>f1, <1>f2 DEF TipoSvc, Processos, ApertoCerto, Conhecidos, Conhece, Tarde, FasesTarde
<1>f5. /\ filaIn'[a] = Append(filaIn[a], Msg("ok", "", Ninguem)) /\ OutrasFilas(a)
       /\ TipoFila' /\ filaIn'[a] # <<>> /\ ToSet(filaIn'[a]) = ToSet(filaIn[a]) \union {Msg("ok", "", Ninguem)}
       /\ filaIn[a] # <<>> => Head(filaIn'[a]) = Head(filaIn[a])
       /\ filaIn[a] = <<>> => Head(filaIn'[a]) = Msg("ok", "", Ninguem)
  <2> DEFINE m == Msg("ok", "", Ninguem)
             g == Append(filaIn[a], m)
  <2>1. filaIn' = [filaIn EXCEPT ![a] = g] /\ filaIn[a] \in Seq(Mensagens) /\ m \in Mensagens
    BY <1>f1, <1>f4, MensagemTipada, VazioTexto DEF ResponderOk, TipoFila
  <2> HIDE DEF m
  <2>2. /\ g \in Seq(Mensagens) /\ g # <<>> /\ ToSet(g) = ToSet(filaIn[a]) \union {m}
        /\ filaIn[a] # <<>> => Head(g) = Head(filaIn[a])
        /\ filaIn[a] = <<>> => Head(g) = m
    BY <2>1, FilaMais
  <2> HIDE DEF g
  <2>3. TipoFila' /\ filaIn'[a] = g /\ OutrasFilas(a)
    BY <1>f1, <1>f4, <2>1, <2>2, FilaNova
  <2> QED
    BY <2>1, <2>2, <2>3 DEF m, g
<1>f6. TipadoIn'
  <2>1. TipoSvc'
    BY <1>f1, <1>f2 DEF TipoSvc, Processos
  <2> QED
    BY <1>0, <1>f2, <1>f5, <2>1 DEF TipadoIn, TipoEmp, TipoApp, TipoConta
<1>2. SoQuemVive'
  BY <1>0, <1>f2, <1>f3, <1>f4 DEF SoQuemVive, OutrosSvc, Vive
<1>3. JanelasCertas'
  <2> SUFFICES ASSUME NEW b \in Apps PROVE Alcancado(b)' /\ Cedo(b)'
    BY DEF JanelasCertas
  <2>1. Alcancado(b) /\ Cedo(b) /\ appIn'[b] = appIn[b]
    BY <1>0, <1>f2 DEF JanelasCertas
  <2>2. Alcancado(b)'
    BY <1>f3, <2>1 DEF Alcancado, OutrosSvc
  <2>3. Cedo(b)'
    BY <1>f4, <1>f5, <2>1 DEF Cedo, OutrasFilas, FasesCedo
  <2> QED
    BY <2>2, <2>3
<1>4. Conhecidos'
  BY <1>0, <1>f2, <1>f3 DEF Conhecidos, Conhece, Tarde, OutrosSvc
<1>5. ApertoCerto'
  BY <1>0, <1>f2, <1>f3 DEF ApertoCerto, OutrosSvc
<1>6. AlvoCerto'
  BY <1>0, <1>f2, <1>f3 DEF AlvoCerto, OutrosSvc
<1>7. SegundaSaiu'
  BY <1>0, <1>f2 DEF SegundaSaiu
<1>8. Resposta'
  <2> SUFFICES ASSUME NEW b \in Apps, appIn'[b].fase = "espera"
               PROVE  SemFala(b)' \/ Aceito(b)' \/ Recusado(b)'
    BY DEF Resposta
  <2>1. SemFala(b) \/ Aceito(b) \/ Recusado(b)
    BY <1>0, <1>f2 DEF Resposta
  <2>2. CASE b # a
    <3>1. Alheia(b)
      BY <1>f2, <1>f3, <1>f5, <2>2, InstanciaAssumption, ZenonT(40) DEF Alheia, OutrosSvc, OutrasFilas, Conhece, Vive
    <3> QED
      BY <2>1, <3>1, RespostaDe
  <2>3. CASE b = a
    <3>1. ~Recusado(a) /\ DonaDaVaga(a)
      BY <1>f2, <2>1, <2>3 DEF Recusado, SemFala, Aceito, Conhece
    <3>4. Msg("ok", "", Ninguem).tipo = "ok"
      BY DEF Msg
    <3>2. Head(filaIn'[a]).tipo = "ok"
      BY <1>f5, <2>1, <2>3, <3>1, <3>4 DEF SemFala, Aceito
    <3>3. DonaDaVaga(a)'
      BY <1>f2, <1>f3, <3>1 DEF DonaDaVaga, Vive, OutrosSvc
    <3> QED
      BY <1>f5, <2>3, <3>2, <3>3 DEF Aceito
  <2> QED
    BY <2>2, <2>3
<1>9. Noticia'
  <2> SUFFICES ASSUME NEW r \in Servicos, NEW b \in Apps, svcIn'[r].vaga = b,
                      appIn'[b].fase # "saiu", svcIn'[r].sabido
               PROVE  AvisoACaminho(r, b)'
    BY DEF Noticia
  <2>1. svcIn[r].vaga = b /\ svcIn[r].sabido /\ appIn[b].fase # "saiu"
    BY <1>f2, <1>f3 DEF OutrosSvc
  <2>2. AvisoACaminho(r, b)
    BY <1>0, <2>1 DEF Noticia
  <2>3. ToSet(filaIn[b]) \subseteq ToSet(filaIn'[b])
    BY <1>f5 DEF OutrasFilas
  <2> QED
    BY <1>f2, <1>f3, <2>2, <2>3 DEF AvisoACaminho, OutrosSvc
<1>10. SemFechos'
  BY <1>0, <1>f2, <1>f3 DEF SemFechos, Fiel, OutrosSvc
<1>11. TipoPedido'
  BY <1>0, <1>f2 DEF TipoPedido
<1>12. UmaPorServico'
  BY <1>0, <1>f2, <1>f3 DEF UmaPorServico, Ligado, OutrosSvc, Vive
<1>13. NadaSePerdeCalado'
  <2> SUFFICES ASSUME NEW q \in Quem
               PROVE  /\ pedidoIn'[q] = "perdido" => contaIn'.fechos > 0
                      /\ pedidoIn'[q] = "pedido" => Carrega(q)'
    BY DEF NadaSePerdeCalado
  <2>1. \A b \in Apps : Traz(b, q) => Traz(b, q)'
    BY <1>f2, <1>f5 DEF Traz, OutrasFilas
  <2> QED
    BY <1>0, <1>f2, <1>f3, <2>1, CarregaFica DEF NadaSePerdeCalado, OutrosSvc, Vive
<1> QED
  BY <1>f1, <1>f2, <1>f3, <1>f4, <1>f5, <1>f6, <1>2, <1>3, <1>4, <1>5, <1>6, <1>7, <1>8, <1>9, <1>10, <1>11, <1>12, <1>13 DEF InvInstancia

\* The rest of the handshake: what is known of the key goes to the window.
LEMMA ContarGuarda ==
  ASSUME InvInstancia, NEW s \in Servicos, NEW a, a = svcIn[s].vaga, ContarGatilho(s)
  PROVE  InvInstancia'
<1>0. /\ TipadoIn /\ SoQuemVive /\ JanelasCertas /\ Conhecidos /\ ApertoCerto /\ AlvoCerto
      /\ SegundaSaiu /\ Resposta /\ Noticia /\ SemFechos /\ TipoPedido /\ UmaPorServico /\ NadaSePerdeCalado
  BY DEF InvInstancia
<1>f1. TipoSvc /\ TipoEmp /\ TipoApp /\ TipoFila /\ TipoConta
  BY <1>0 DEF TipadoIn
<1>f2. /\ UNCHANGED <<sockIn, empIn, appIn, pedidoIn, contaIn>>
       /\ Vive(s) /\ svcIn[s].vaga = a /\ svcIn[s].aperto = "conta" /\ appIn[a].fase # "saiu"
  BY DEF ContarGatilho
<1>f3. /\ OutrosSvc(s) /\ svcIn'[s].fase = svcIn[s].fase
       /\ svcIn'[s].vaga = svcIn[s].vaga /\ svcIn'[s].pronto = svcIn[s].pronto
       /\ svcIn'[s].prontos = svcIn[s].prontos /\ svcIn'[s].aperto = "nao"
       /\ svcIn'[s].contar = FALSE /\ svcIn'[s].sabido = svcIn[s].sabido
  <2>1. svcIn[s] \in Processos /\ svcIn' = [svcIn EXCEPT ![s] = svcIn'[s]]
    BY <1>f1 DEF TipoSvc, ContarGatilho
  <2>2. OutrosSvc(s)
    BY <1>f1 DEF TipoSvc, ContarGatilho, OutrosSvc
  <2> QED
    BY <1>f1, <1>f2, <2>1, <2>2 DEF TipoSvc, Processos, ContarGatilho
<1>f4. a \in Apps /\ appIn[a].con = s /\ appIn[a].fase \in {"espera", "janela"}
  BY <1>0, <1>f1, <1>f2 DEF TipoSvc, Processos, ApertoCerto, Conhecidos, Conhece, Tarde, FasesTarde
<1>f5. /\ TipoFila' /\ OutrasFilas(a) /\ ToSet(filaIn[a]) \subseteq ToSet(filaIn'[a])
       /\ filaIn[a] # <<>> => filaIn'[a] # <<>> /\ Head(filaIn'[a]) = Head(filaIn[a])
       /\ svcIn[s].contar => \E m \in ToSet(filaIn'[a]) : m.tipo = "gatilho"
  <2>1. CASE ~svcIn[s].contar
    <3>1. filaIn' = filaIn
      BY <2>1 DEF ContarGatilho
    <3> QED
      BY <1>f1, <2>1, <3>1 DEF TipoFila, OutrasFilas
  <2>2. CASE svcIn[s].contar
    <3> DEFINE m == Msg("gatilho", svcIn[s].conta, Ninguem)
               g == Append(filaIn[a], m)
    <3>1. svcIn[s].conta \in TextosIn /\ filaIn[a] \in Seq(Mensagens)
      BY <1>f1, <1>f4 DEF TipoSvc, Processos, TipoFila
    <3>5. m \in Mensagens /\ m.tipo = "gatilho"
      BY <3>1 DEF Msg, Mensagens
    <3>2. filaIn' = [filaIn EXCEPT ![a] = g] /\ m \in Mensagens /\ m.tipo = "gatilho"
      BY <2>2, <3>5 DEF ContarGatilho
    <3> HIDE DEF m
    <3>3. /\ g \in Seq(Mensagens) /\ g # <<>> /\ ToSet(g) = ToSet(filaIn[a]) \union {m}
          /\ filaIn[a] # <<>> => Head(g) = Head(filaIn[a])
      BY <3>1, <3>2, FilaMais
    <3> HIDE DEF g
    <3>4. TipoFila' /\ filaIn'[a] = g /\ OutrasFilas(a)
      BY <1>f1, <1>f4, <3>2, <3>3, FilaNova
    <3> QED
      BY <3>2, <3>3, <3>4
  <2> QED
    BY <2>1, <2>2
<1>f6. TipadoIn'
  <2>1. TipoSvc'
    <3> DEFINE p == [svcIn[s] EXCEPT !.aperto = "nao", !.contar = FALSE, !.conta = ""]
    <3>1. p \in Processos
      BY <1>f1, VazioTexto DEF TipoSvc, Processos
    <3>2. svcIn' = [svcIn EXCEPT ![s] = p]
      BY <1>f1, <1>f2 DEF TipoSvc, ContarGatilho
    <3> HIDE DEF p
    <3> QED
      BY <1>f1, <3>1, <3>2 DEF TipoSvc
  <2> QED
    BY <1>0, <1>f2, <1>f5, <2>1 DEF TipadoIn, TipoEmp, TipoApp, TipoConta
<1>2. SoQuemVive'
  BY <1>0, <1>f2, <1>f3, <1>f4 DEF SoQuemVive, OutrosSvc, Vive
<1>3. JanelasCertas'
  <2> SUFFICES ASSUME NEW b \in Apps PROVE Alcancado(b)' /\ Cedo(b)'
    BY DEF JanelasCertas
  <2>1. Alcancado(b) /\ Cedo(b) /\ appIn'[b] = appIn[b]
    BY <1>0, <1>f2 DEF JanelasCertas
  <2>2. Alcancado(b)'
    BY <1>f3, <2>1 DEF Alcancado, OutrosSvc
  <2>3. Cedo(b)'
    BY <1>f4, <1>f5, <2>1 DEF Cedo, OutrasFilas, FasesCedo
  <2> QED
    BY <2>2, <2>3
<1>4. Conhecidos'
  BY <1>0, <1>f2, <1>f3 DEF Conhecidos, Conhece, Tarde, OutrosSvc
<1>5. ApertoCerto'
  BY <1>0, <1>f2, <1>f3 DEF ApertoCerto, OutrosSvc
<1>6. AlvoCerto'
  BY <1>0, <1>f2, <1>f3 DEF AlvoCerto, OutrosSvc
<1>7. SegundaSaiu'
  BY <1>0, <1>f2 DEF SegundaSaiu
<1>8. Resposta'
  <2> SUFFICES ASSUME NEW b \in Apps, appIn'[b].fase = "espera"
               PROVE  SemFala(b)' \/ Aceito(b)' \/ Recusado(b)'
    BY DEF Resposta
  <2>1. SemFala(b) \/ Aceito(b) \/ Recusado(b)
    BY <1>0, <1>f2 DEF Resposta
  <2>2. CASE b # a
    <3>1. Alheia(b)
      BY <1>f2, <1>f3, <1>f5, <2>2, InstanciaAssumption DEF Alheia, OutrosSvc, OutrasFilas, Conhece, Vive
    <3> QED
      BY <2>1, <3>1, RespostaDe
  <2>3. CASE b = a
    <3>1. a \in svcIn[s].prontos
      BY <1>0, <1>f2 DEF ApertoCerto
    <3>2. Aceito(a)
      BY <1>f2, <2>1, <2>3, <3>1 DEF Recusado, SemFala, Conhece
    <3>3. DonaDaVaga(a)'
      BY <1>f2, <1>f3, <3>2 DEF DonaDaVaga, Vive, OutrosSvc, Aceito
    <3> QED
      BY <1>f5, <2>3, <3>2, <3>3 DEF Aceito
  <2> QED
    BY <2>2, <2>3
<1>9. Noticia'
  <2> SUFFICES ASSUME NEW r \in Servicos, NEW b \in Apps, svcIn'[r].vaga = b,
                      appIn'[b].fase # "saiu", svcIn'[r].sabido
               PROVE  AvisoACaminho(r, b)'
    BY DEF Noticia
  <2>1. svcIn[r].vaga = b /\ svcIn[r].sabido /\ appIn[b].fase # "saiu"
    BY <1>f2, <1>f3 DEF OutrosSvc
  <2>2. AvisoACaminho(r, b)
    BY <1>0, <2>1 DEF Noticia
  <2>3. ToSet(filaIn[b]) \subseteq ToSet(filaIn'[b])
    BY <1>f5 DEF OutrasFilas
  <2>4. CASE r = s
    BY <1>f2, <1>f3, <1>f5, <2>1, <2>2, <2>3, <2>4 DEF AvisoACaminho
  <2>5. CASE r # s
    BY <1>f2, <1>f3, <2>2, <2>3, <2>5 DEF AvisoACaminho, OutrosSvc
  <2> QED
    BY <2>4, <2>5
<1>10. SemFechos'
  BY <1>0, <1>f2, <1>f3 DEF SemFechos, Fiel, OutrosSvc
<1>11. TipoPedido'
  BY <1>0, <1>f2 DEF TipoPedido
<1>12. UmaPorServico'
  BY <1>0, <1>f2, <1>f3 DEF UmaPorServico, Ligado, OutrosSvc, Vive
<1>13. NadaSePerdeCalado'
  <2> SUFFICES ASSUME NEW q \in Quem
               PROVE  /\ pedidoIn'[q] = "perdido" => contaIn'.fechos > 0
                      /\ pedidoIn'[q] = "pedido" => Carrega(q)'
    BY DEF NadaSePerdeCalado
  <2>1. \A b \in Apps : Traz(b, q) => Traz(b, q)'
    BY <1>f2, <1>f5 DEF Traz, OutrasFilas
  <2> QED
    BY <1>0, <1>f2, <1>f3, <2>1, CarregaFica DEF NadaSePerdeCalado, OutrosSvc, Vive
<1> QED
  BY <1>f1, <1>f2, <1>f3, <1>f4, <1>f5, <1>f6, <1>2, <1>3, <1>4, <1>5, <1>6, <1>7, <1>8, <1>9, <1>10, <1>11, <1>12, <1>13 DEF InvInstancia

\* Now others may push.
LEMMA AprontarGuarda ==
  ASSUME InvInstancia, NEW s \in Servicos, NEW a, a = svcIn[s].vaga, Aprontar(s)
  PROVE  InvInstancia'
<1>0. /\ TipadoIn /\ SoQuemVive /\ JanelasCertas /\ Conhecidos /\ ApertoCerto /\ AlvoCerto
      /\ SegundaSaiu /\ Resposta /\ Noticia /\ SemFechos /\ TipoPedido /\ UmaPorServico /\ NadaSePerdeCalado
  BY DEF InvInstancia
<1>f1. TipoSvc /\ TipoEmp /\ TipoApp /\ TipoFila /\ TipoConta
  BY <1>0 DEF TipadoIn
<1>f2. /\ UNCHANGED <<sockIn, empIn, appIn, filaIn, pedidoIn, contaIn>>
       /\ Vive(s) /\ svcIn[s].vaga = a /\ svcIn[s].aperto = "respondeu"
  BY DEF Aprontar
<1>f3. /\ OutrosSvc(s) /\ svcIn'[s].fase = svcIn[s].fase
       /\ svcIn'[s].vaga = svcIn[s].vaga /\ svcIn'[s].pronto = TRUE
       /\ svcIn'[s].prontos = svcIn[s].prontos \union {a} /\ svcIn'[s].aperto = "conta"
       /\ svcIn'[s].contar = svcIn[s].sabido /\ svcIn'[s].sabido = svcIn[s].sabido
  <2>1. svcIn[s] \in Processos /\ svcIn' = [svcIn EXCEPT ![s] = svcIn'[s]]
    BY <1>f1 DEF TipoSvc, Aprontar
  <2>2. OutrosSvc(s)
    BY <1>f1 DEF TipoSvc, Aprontar, OutrosSvc
  <2> QED
    BY <1>f1, <1>f2, <2>1, <2>2 DEF TipoSvc, Processos, Aprontar
<1>f4. a \in Apps /\ appIn[a].con = s
  BY <1>0, <1>f1, <1>f2 DEF TipoSvc, Processos, ApertoCerto, Conhecidos, Conhece, Tarde
<1>f5. TipadoIn'
  <2>1. TipoSvc'
    <3> DEFINE p == [svcIn[s] EXCEPT !.pronto = TRUE, !.prontos = @ \union {svcIn[s].vaga},
                       !.aperto = "conta", !.contar = svcIn[s].sabido,
                       !.conta = svcIn[s].gatilho, !.chegou = TRUE]
    <3>0. /\ svcIn[s] \in Processos /\ svcIn[s].sabido \in BOOLEAN /\ svcIn[s].gatilho \in TextosIn
          /\ svcIn[s].prontos \union {svcIn[s].vaga} \in SUBSET Apps
      BY <1>f1, <1>f2, <1>f4 DEF TipoSvc, Processos
    <3>1. p \in Processos
      BY <3>0 DEF Processos
    <3>2. svcIn' = [svcIn EXCEPT ![s] = p]
      BY <1>f1, <1>f2 DEF TipoSvc, Aprontar
    <3> HIDE DEF p
    <3> QED
      BY <1>f1, <3>1, <3>2 DEF TipoSvc
  <2> QED
    BY <1>0, <1>f2, <2>1 DEF TipadoIn, TipoEmp, TipoApp, TipoConta, TipoFila
<1>2. SoQuemVive'
  BY <1>0, <1>f2, <1>f3 DEF SoQuemVive, OutrosSvc, Vive
<1>3. JanelasCertas'
  <2> SUFFICES ASSUME NEW b \in Apps PROVE Alcancado(b)' /\ Cedo(b)'
    BY DEF JanelasCertas
  <2> QED
    BY <1>0, <1>f2, <1>f3 DEF JanelasCertas, Alcancado, Cedo, OutrosSvc
<1>4. Conhecidos'
  BY <1>0, <1>f2, <1>f3 DEF Conhecidos, Conhece, Tarde, OutrosSvc
<1>5. ApertoCerto'
  BY <1>0, <1>f2, <1>f3, <1>f4, InstanciaAssumption DEF ApertoCerto, OutrosSvc
<1>6. AlvoCerto'
  BY <1>0, <1>f2, <1>f3 DEF AlvoCerto, OutrosSvc
<1>7. SegundaSaiu'
  BY <1>0, <1>f2 DEF SegundaSaiu
<1>8. Resposta'
  <2> SUFFICES ASSUME NEW b \in Apps, appIn'[b].fase = "espera"
               PROVE  SemFala(b)' \/ Aceito(b)' \/ Recusado(b)'
    BY DEF Resposta
  <2>1. SemFala(b) \/ Aceito(b) \/ Recusado(b)
    BY <1>0, <1>f2 DEF Resposta
  <2>2. CASE b # a
    <3>1. Alheia(b)
      BY <1>f2, <1>f3, <2>2, InstanciaAssumption DEF Alheia, OutrosSvc, Conhece, Vive
    <3> QED
      BY <2>1, <3>1, RespostaDe
  <2>3. CASE b = a
    <3>1. Aceito(a)
      BY <1>f2, <2>1, <2>3 DEF Recusado, SemFala, Conhece
    <3>2. DonaDaVaga(a)'
      BY <1>f2, <1>f3, <3>1 DEF DonaDaVaga, Vive, OutrosSvc, Aceito
    <3> QED
      BY <1>f2, <2>3, <3>1, <3>2 DEF Aceito
  <2> QED
    BY <2>2, <2>3
<1>9. Noticia'
  <2> SUFFICES ASSUME NEW r \in Servicos, NEW b \in Apps, svcIn'[r].vaga = b,
                      appIn'[b].fase # "saiu", svcIn'[r].sabido
               PROVE  AvisoACaminho(r, b)'
    BY DEF Noticia
  <2>1. svcIn[r].vaga = b /\ svcIn[r].sabido /\ appIn[b].fase # "saiu"
    BY <1>f2, <1>f3 DEF OutrosSvc
  <2>2. AvisoACaminho(r, b)
    BY <1>0, <2>1 DEF Noticia
  <2>4. CASE r = s
    BY <1>f3, <2>1, <2>4 DEF AvisoACaminho
  <2>5. CASE r # s
    BY <1>f2, <1>f3, <2>2, <2>5 DEF AvisoACaminho, OutrosSvc
  <2> QED
    BY <2>4, <2>5
<1>10. SemFechos'
  BY <1>0, <1>f2, <1>f3, <1>f4 DEF SemFechos, Fiel, OutrosSvc
<1>11. TipoPedido'
  BY <1>0, <1>f2 DEF TipoPedido
<1>12. UmaPorServico'
  BY <1>0, <1>f2, <1>f3 DEF UmaPorServico, Ligado, OutrosSvc, Vive
<1>13. NadaSePerdeCalado'
  <2> SUFFICES ASSUME NEW q \in Quem
               PROVE  /\ pedidoIn'[q] = "perdido" => contaIn'.fechos > 0
                      /\ pedidoIn'[q] = "pedido" => Carrega(q)'
    BY DEF NadaSePerdeCalado
  <2>1. \A b \in Apps : Traz(b, q) => Traz(b, q)'
    BY <1>f2 DEF Traz
  <2> QED
    BY <1>0, <1>f2, <1>f3, <2>1, CarregaFica DEF NadaSePerdeCalado, OutrosSvc, Vive
<1> QED
  BY <1>f1, <1>f2, <1>f3, <1>f4, <1>f5, <1>2, <1>3, <1>4, <1>5, <1>6, <1>7, <1>8, <1>9, <1>10, <1>11, <1>12, <1>13 DEF InvInstancia

\* The window went away: the place is free again.
LEMMA LiberarGuarda ==
  ASSUME InvInstancia, NEW s \in Servicos, NEW a, a = svcIn[s].vaga, LiberarVaga(s)
  PROVE  InvInstancia'
<1>0. /\ TipadoIn /\ SoQuemVive /\ JanelasCertas /\ Conhecidos /\ ApertoCerto /\ AlvoCerto
      /\ SegundaSaiu /\ Resposta /\ Noticia /\ SemFechos /\ TipoPedido /\ UmaPorServico /\ NadaSePerdeCalado
  BY DEF InvInstancia
<1>f1. TipoSvc /\ TipoEmp /\ TipoApp /\ TipoFila /\ TipoConta
  BY <1>0 DEF TipadoIn
<1>f2. /\ UNCHANGED <<sockIn, empIn, appIn, filaIn, pedidoIn, contaIn>>
       /\ Vive(s) /\ svcIn[s].vaga = a /\ a # Ninguem /\ appIn[a].fase = "saiu"
  BY DEF LiberarVaga
<1>f3. /\ OutrosSvc(s) /\ svcIn'[s].fase = svcIn[s].fase
       /\ svcIn'[s].vaga = Ninguem /\ svcIn'[s].pronto = FALSE
       /\ svcIn'[s].prontos = svcIn[s].prontos /\ svcIn'[s].aperto = "nao"
       /\ svcIn'[s].contar = FALSE /\ svcIn'[s].sabido = svcIn[s].sabido
  <2>1. svcIn[s] \in Processos /\ svcIn' = [svcIn EXCEPT ![s] = svcIn'[s]]
    BY <1>f1 DEF TipoSvc, LiberarVaga
  <2>2. OutrosSvc(s)
    BY <1>f1 DEF TipoSvc, LiberarVaga, OutrosSvc
  <2> QED
    BY <1>f1, <1>f2, <2>1, <2>2 DEF TipoSvc, Processos, LiberarVaga
<1>f4. a \in Apps
  BY <1>f1, <1>f2 DEF TipoSvc, Processos
<1>f5. contaIn.fechos # 0
  BY <1>0, <1>f2, <1>f4 DEF SemFechos, Fiel
<1>f6. TipadoIn'
  <2>1. TipoSvc'
    <3> DEFINE p == [svcIn[s] EXCEPT !.vaga = Ninguem, !.pronto = FALSE, !.aperto = "nao",
                                     !.contar = FALSE, !.conta = ""]
    <3>1. p \in Processos
      BY <1>f1, VazioTexto, ZenonT(40) DEF TipoSvc, Processos
    <3>2. svcIn' = [svcIn EXCEPT ![s] = p]
      BY <1>f1, <1>f2 DEF TipoSvc, LiberarVaga
    <3> HIDE DEF p
    <3> QED
      BY <1>f1, <3>1, <3>2 DEF TipoSvc
  <2> QED
    BY <1>0, <1>f2, <2>1 DEF TipadoIn, TipoEmp, TipoApp, TipoConta, TipoFila
<1>2. SoQuemVive'
  BY <1>0, <1>f2, <1>f3 DEF SoQuemVive, OutrosSvc, Vive
<1>3. JanelasCertas'
  <2> SUFFICES ASSUME NEW b \in Apps PROVE Alcancado(b)' /\ Cedo(b)'
    BY DEF JanelasCertas
  <2> QED
    BY <1>0, <1>f2, <1>f3 DEF JanelasCertas, Alcancado, Cedo, OutrosSvc
<1>4. Conhecidos'
  BY <1>0, <1>f2, <1>f3, InstanciaAssumption DEF Conhecidos, Conhece, Tarde, OutrosSvc
<1>5. ApertoCerto'
  BY <1>0, <1>f2, <1>f3 DEF ApertoCerto, OutrosSvc
<1>6. AlvoCerto'
  BY <1>0, <1>f2, <1>f3 DEF AlvoCerto, OutrosSvc
<1>7. SegundaSaiu'
  BY <1>0, <1>f2 DEF SegundaSaiu
<1>8. Resposta'
  <2> SUFFICES ASSUME NEW b \in Apps, appIn'[b].fase = "espera"
               PROVE  SemFala(b)' \/ Aceito(b)' \/ Recusado(b)'
    BY DEF Resposta
  <2>1. SemFala(b) \/ Aceito(b) \/ Recusado(b)
    BY <1>0, <1>f2 DEF Resposta
  <2>2. b # a
    BY <1>f2
  <2>3. Alheia(b)
    BY <1>f2, <1>f3, <1>f5, <2>2, InstanciaAssumption DEF Alheia, OutrosSvc, Conhece, Vive
  <2> QED
    BY <2>1, <2>3, RespostaDe
<1>9. Noticia'
  <2> SUFFICES ASSUME NEW r \in Servicos, NEW b \in Apps, svcIn'[r].vaga = b,
                      appIn'[b].fase # "saiu", svcIn'[r].sabido
               PROVE  AvisoACaminho(r, b)'
    BY DEF Noticia
  <2>1. r # s
    BY <1>f3, InstanciaAssumption
  <2>2. svcIn[r].vaga = b /\ svcIn[r].sabido /\ appIn[b].fase # "saiu" /\ svcIn'[r] = svcIn[r]
    BY <1>f2, <1>f3, <2>1 DEF OutrosSvc
  <2>3. AvisoACaminho(r, b)
    BY <1>0, <2>2 DEF Noticia
  <2> QED
    BY <1>f2, <2>2, <2>3 DEF AvisoACaminho
<1>10. SemFechos'
  BY <1>f2, <1>f5 DEF SemFechos
<1>11. TipoPedido'
  BY <1>0, <1>f2 DEF TipoPedido
<1>12. UmaPorServico'
  <2> SUFFICES ASSUME NEW b \in Apps, appIn'[b].fase = "janela", Ligado(b)'
               PROVE  svcIn'[appIn'[b].con].vaga = b
    BY DEF UmaPorServico
  <2>1. appIn[b].fase = "janela" /\ Ligado(b) /\ svcIn[appIn[b].con].vaga = b /\ b # a
    BY <1>0, <1>f2, <1>f3 DEF UmaPorServico, Ligado, OutrosSvc, Vive
  <2> QED
    BY <1>f2, <1>f3, <2>1 DEF OutrosSvc, Ligado, Vive
<1>13. NadaSePerdeCalado'
  <2> SUFFICES ASSUME NEW q \in Quem
               PROVE  /\ pedidoIn'[q] = "perdido" => contaIn'.fechos > 0
                      /\ pedidoIn'[q] = "pedido" => Carrega(q)'
    BY DEF NadaSePerdeCalado
  <2>1. \A b \in Apps : Traz(b, q) => Traz(b, q)'
    BY <1>f2 DEF Traz
  <2> QED
    BY <1>0, <1>f2, <1>f3, <2>1, CarregaFica DEF NadaSePerdeCalado, OutrosSvc, Vive
<1> QED
  BY <1>f1, <1>f2, <1>f3, <1>f4, <1>f5, <1>f6, <1>2, <1>3, <1>4, <1>5, <1>6, <1>7, <1>8, <1>9, <1>10, <1>11, <1>12, <1>13 DEF InvInstancia

LEMMA FaseNova ==
  ASSUME TipoApp, NEW a \in Apps, NEW f \in FasesCedo \union FasesTarde \union {"sozinha"}, Fase(a, f)
  PROVE  /\ TipoApp' /\ OutrasApp(a) /\ appIn'[a].fase = f /\ appIn'[a].con = appIn[a].con
         /\ appIn'[a].msgs = appIn[a].msgs /\ appIn'[a].sabido = appIn[a].sabido
<1> DEFINE p == [appIn[a] EXCEPT !.fase = f]
<1>1. p \in Janelas /\ p.fase = f /\ p.con = appIn[a].con /\ p.msgs = appIn[a].msgs
      /\ p.sabido = appIn[a].sabido
  BY DEF TipoApp, Janelas
<1>2. appIn' = [appIn EXCEPT ![a] = p]
  BY DEF Fase
<1> HIDE DEF p
<1> QED
  BY <1>1, <1>2 DEF TipoApp, OutrasApp

\* News of the key: the service has it, and somebody goes to tell it.
LEMMA GuardarGuarda ==
  ASSUME InvInstancia, NEW s \in Servicos, NEW t \in TeclasIn, GuardarGatilho(s, t)
  PROVE  InvInstancia'
<1>0. /\ TipadoIn /\ SoQuemVive /\ JanelasCertas /\ Conhecidos /\ ApertoCerto /\ AlvoCerto
      /\ SegundaSaiu /\ Resposta /\ Noticia /\ SemFechos /\ TipoPedido /\ UmaPorServico /\ NadaSePerdeCalado
  BY DEF InvInstancia
<1>f1. TipoSvc /\ TipoEmp /\ TipoApp /\ TipoFila /\ TipoConta
  BY <1>0 DEF TipadoIn
<1>f2. /\ UNCHANGED <<sockIn, appIn, filaIn, pedidoIn>> /\ contaIn'.fechos = contaIn.fechos
       /\ Vive(s) /\ empIn[s]["atalho"].fase = "fora" /\ "atalho" \in Quem
  BY <1>f1 DEF GuardarGatilho, TipoConta, Quem
<1>f3. /\ OutrosSvc(s) /\ svcIn'[s].fase = svcIn[s].fase
       /\ svcIn'[s].vaga = svcIn[s].vaga /\ svcIn'[s].pronto = svcIn[s].pronto
       /\ svcIn'[s].prontos = svcIn[s].prontos /\ svcIn'[s].aperto = svcIn[s].aperto
       /\ svcIn'[s].contar = svcIn[s].contar /\ svcIn'[s].sabido = TRUE
  <2>1. OutrosSvc(s)
    BY <1>f1 DEF TipoSvc, GuardarGatilho, OutrosSvc
  <2> QED
    BY <1>f1, <2>1 DEF TipoSvc, Processos, GuardarGatilho
<1>f4. /\ OutrosEmp(s, "atalho") /\ TipoEmp'
       /\ empIn'[s]["atalho"].fase = "tenta" /\ empIn'[s]["atalho"].alvo = Ninguem
  <2> DEFINE e == [fase |-> "tenta", alvo |-> Ninguem, tecla |-> t]
  <2>1. e \in Empurroes /\ e.fase = "tenta" /\ e.alvo = Ninguem
    BY DEF Empurroes, TextosIn
  <2>2. empIn' = [empIn EXCEPT ![s]["atalho"] = e]
    BY DEF GuardarGatilho
  <2> HIDE DEF e
  <2>3. TipoEmp'
    BY <1>f1, <2>1, <2>2 DEF TipoEmp
  <2> QED
    BY <1>f1, <1>f2, <2>1, <2>2, <2>3, EmpNovo, ZenonT(40)
<1>f5. TipadoIn'
  <2>1. TipoSvc'
    <3> DEFINE p == [svcIn[s] EXCEPT !.gatilho = t, !.sabido = TRUE]
    <3>1. p \in Processos
      BY <1>f1, ZenonT(40) DEF TipoSvc, Processos, TextosIn
    <3>2. svcIn' = [svcIn EXCEPT ![s] = p]
      BY <1>f1 DEF TipoSvc, GuardarGatilho
    <3> HIDE DEF p
    <3> QED
      BY <1>f1, <3>1, <3>2 DEF TipoSvc
  <2>2. TipoConta'
    BY <1>f1 DEF TipoConta, GuardarGatilho
  <2> QED
    BY <1>0, <1>f2, <1>f4, <2>1, <2>2 DEF TipadoIn, TipoApp, TipoFila
<1>2. SoQuemVive'
  BY <1>0, <1>f2, <1>f3, <1>f4 DEF SoQuemVive, OutrosSvc, OutrosEmp, Vive
<1>3. JanelasCertas'
  <2> SUFFICES ASSUME NEW b \in Apps PROVE Alcancado(b)' /\ Cedo(b)'
    BY DEF JanelasCertas
  <2> QED
    BY <1>0, <1>f2, <1>f3 DEF JanelasCertas, Alcancado, Cedo, OutrosSvc
<1>4. Conhecidos'
  <2> SUFFICES ASSUME NEW r \in Servicos, NEW b \in Apps, Conhece(r, b)' PROVE Tarde(b, r)'
    BY DEF Conhecidos
  <2>1. Conhece(r, b)
    BY <1>f3, <1>f4, InstanciaAssumption DEF Conhece, OutrosSvc, OutrosEmp
  <2> QED
    BY <1>0, <1>f2, <2>1 DEF Conhecidos, Tarde
<1>5. ApertoCerto'
  BY <1>0, <1>f3 DEF ApertoCerto, OutrosSvc
<1>6. AlvoCerto'
  BY <1>0, <1>f3, <1>f4 DEF AlvoCerto, OutrosSvc, OutrosEmp
<1>7. SegundaSaiu'
  BY <1>0, <1>f2, <1>f4, InstanciaAssumption DEF SegundaSaiu, OutrosEmp, Quem
<1>8. Resposta'
  <2> SUFFICES ASSUME NEW b \in Apps, appIn'[b].fase = "espera"
               PROVE  SemFala(b)' \/ Aceito(b)' \/ Recusado(b)'
    BY DEF Resposta
  <2>1. \A r \in Servicos : Conhece(r, b)' => Conhece(r, b)
    BY <1>f3, <1>f4, InstanciaAssumption DEF Conhece, OutrosSvc, OutrosEmp
  <2>2. Alheia(b)
    BY <1>f2, <1>f3, <2>1 DEF Alheia, OutrosSvc, Vive
  <2> QED
    BY <1>0, <1>f2, <2>2, RespostaDe DEF Resposta
<1>9. Noticia'
  <2> SUFFICES ASSUME NEW r \in Servicos, NEW b \in Apps, svcIn'[r].vaga = b,
                      appIn'[b].fase # "saiu", svcIn'[r].sabido
               PROVE  AvisoACaminho(r, b)'
    BY DEF Noticia
  <2>1. CASE r = s
    BY <1>f4, <2>1 DEF AvisoACaminho
  <2>2. CASE r # s
    <3>1. svcIn'[r] = svcIn[r] /\ empIn'[r]["atalho"] = empIn[r]["atalho"]
      BY <1>f2, <1>f3, <1>f4, <2>2 DEF OutrosSvc, OutrosEmp
    <3>2. AvisoACaminho(r, b)
      BY <1>0, <1>f2, <3>1 DEF Noticia
    <3> QED
      BY <1>f2, <3>1, <3>2 DEF AvisoACaminho
  <2> QED
    BY <2>1, <2>2
<1>10. SemFechos'
  <2> SUFFICES ASSUME contaIn'.fechos = 0, NEW r \in Servicos PROVE Fiel(r)'
    BY DEF SemFechos
  <2>1. Fiel(r)
    BY <1>0, <1>f2 DEF SemFechos
  <2> QED
    BY <1>f2, <1>f3, <1>f4, <2>1 DEF Fiel, OutrosSvc, OutrosEmp
<1>11. TipoPedido'
  BY <1>0, <1>f2 DEF TipoPedido
<1>12. UmaPorServico'
  BY <1>0, <1>f2, <1>f3 DEF UmaPorServico, Ligado, OutrosSvc, Vive
<1>13. NadaSePerdeCalado'
  <2> SUFFICES ASSUME NEW q \in Quem
               PROVE  /\ pedidoIn'[q] = "perdido" => contaIn'.fechos > 0
                      /\ pedidoIn'[q] = "pedido" => Carrega(q)'
    BY DEF NadaSePerdeCalado
  <2>1. \A b \in Apps : Traz(b, q) => Traz(b, q)'
    BY <1>f2 DEF Traz
  <2>2. \A r \in Servicos : Vive(r) /\ empIn[r][q].fase # "fora" => Vive(r)' /\ empIn'[r][q].fase # "fora"
    BY <1>f2, <1>f3, <1>f4 DEF Vive, OutrosSvc, OutrosEmp
  <2> QED
    BY <1>0, <1>f2, <2>1, <2>2, CarregaFica DEF NadaSePerdeCalado
<1> QED
  BY <1>f1, <1>f2, <1>f3, <1>f4, <1>f5, <1>2, <1>3, <1>4, <1>5, <1>6, <1>7, <1>8, <1>9, <1>10, <1>11, <1>12, <1>13 DEF InvInstancia

\* msgOlaApp where the place is free: it is taken, and nobody pushes yet.
LEMMA TomarLivreGuarda ==
  ASSUME InvInstancia, NEW a \in Apps, NEW s, s = appIn[a].con, TomarVaga(a), svcIn[s].vaga = Ninguem
  PROVE  InvInstancia'
<1>0. /\ TipadoIn /\ SoQuemVive /\ JanelasCertas /\ Conhecidos /\ ApertoCerto /\ AlvoCerto
      /\ SegundaSaiu /\ Resposta /\ Noticia /\ SemFechos /\ TipoPedido /\ UmaPorServico /\ NadaSePerdeCalado
  BY DEF InvInstancia
<1>f1. TipoSvc /\ TipoEmp /\ TipoApp /\ TipoFila /\ TipoConta
  BY <1>0 DEF TipadoIn
<1>f2. /\ UNCHANGED <<sockIn, empIn, filaIn, pedidoIn, contaIn>>
       /\ Vive(s) /\ s \in Servicos /\ appIn[a].con = s /\ appIn[a].fase = "ola" /\ svcIn[s].vaga = Ninguem
  BY DEF TomarVaga, Vive
<1>f3. /\ OutrosSvc(s) /\ svcIn'[s].fase = svcIn[s].fase
       /\ svcIn'[s].vaga = a /\ svcIn'[s].pronto = FALSE
       /\ svcIn'[s].prontos = svcIn[s].prontos /\ svcIn'[s].aperto = "tomou"
       /\ svcIn'[s].contar = svcIn[s].contar /\ svcIn'[s].sabido = svcIn[s].sabido
  <2>1. svcIn' = [svcIn EXCEPT ![s].vaga = a, ![s].pronto = FALSE, ![s].aperto = "tomou"]
    BY <1>f2 DEF TomarVaga
  <2>2. OutrosSvc(s)
    BY <1>f1, <2>1 DEF TipoSvc, OutrosSvc
  <2> QED
    BY <1>f1, <1>f2, <2>1, <2>2 DEF TipoSvc, Processos
<1>f4. /\ TipoApp' /\ OutrasApp(a) /\ appIn'[a].fase = "espera" /\ appIn'[a].con = appIn[a].con
       /\ appIn'[a].msgs = appIn[a].msgs /\ appIn'[a].sabido = appIn[a].sabido
  <2>1. Fase(a, "espera") /\ "espera" \in FasesTarde
    BY DEF TomarVaga, FasesTarde
  <2> QED
    BY <1>f1, <2>1, FaseNova
<1>f5. Solta(a)
  BY <1>f2, SoltaCedo DEF FasesCedo
<1>f6. TipadoIn'
  <2>1. TipoSvc'
    <3> DEFINE p == [svcIn[s] EXCEPT !.vaga = a, !.pronto = FALSE, !.aperto = "tomou"]
    <3>0. svcIn[s] \in Processos
      BY <1>f1, <1>f2 DEF TipoSvc
    <3>1. p \in Processos
      BY <3>0 DEF Processos
    <3>2. svcIn' = [svcIn EXCEPT ![s] = p]
      BY <1>f1, <1>f2 DEF TipoSvc, TomarVaga
    <3> HIDE DEF p
    <3> QED
      BY <1>f1, <1>f2, <3>1, <3>2 DEF TipoSvc
  <2> QED
    BY <1>0, <1>f2, <1>f4, <2>1 DEF TipadoIn, TipoEmp, TipoConta, TipoFila
<1>2. SoQuemVive'
  BY <1>0, <1>f2, <1>f3 DEF SoQuemVive, OutrosSvc, Vive
<1>3. JanelasCertas'
  <2> SUFFICES ASSUME NEW b \in Apps PROVE Alcancado(b)' /\ Cedo(b)'
    BY DEF JanelasCertas
  <2>1. Alcancado(b) /\ Cedo(b)
    BY <1>0 DEF JanelasCertas
  <2>2. Alcancado(b)'
    BY <2>1, <1>f2, <1>f3, <1>f4, <1>f5 DEF Alcancado, OutrasApp, OutrosSvc
  <2>3. Cedo(b)'
    BY <2>1, <1>f2, <1>f3, <1>f4, <1>f5 DEF Cedo, OutrasApp, OutrasFilas, FasesCedo, Solta
  <2> QED
    BY <2>2, <2>3
<1>4. Conhecidos'
  <2> SUFFICES ASSUME NEW r \in Servicos, NEW b \in Apps, Conhece(r, b)' PROVE Tarde(b, r)'
    BY DEF Conhecidos
  <2>1. CASE b = a
    <3>1. r = s
      BY <1>f2, <1>f3, <1>f5, <2>1 DEF Solta, Conhece, OutrosSvc
    <3> QED
      BY <1>f2, <1>f4, <2>1, <3>1 DEF Tarde, FasesTarde
  <2>2. CASE b # a
    <3>1. Conhece(r, b)
      BY <1>f2, <1>f3, <2>2 DEF Conhece, OutrosSvc
    <3> QED
      BY <1>0, <1>f4, <2>2, <3>1 DEF Conhecidos, Tarde, OutrasApp
  <2> QED
    BY <2>1, <2>2
<1>5. ApertoCerto'
  BY <1>0, <1>f3, InstanciaAssumption DEF ApertoCerto, OutrosSvc
<1>6. AlvoCerto'
  BY <1>0, <1>f2, <1>f3 DEF AlvoCerto, OutrosSvc
<1>7. SegundaSaiu'
  BY <1>0, <1>f2, <1>f4 DEF SegundaSaiu, OutrasApp
<1>8. Resposta'
  <2> SUFFICES ASSUME NEW b \in Apps, appIn'[b].fase = "espera"
               PROVE  SemFala(b)' \/ Aceito(b)' \/ Recusado(b)'
    BY DEF Resposta
  <2>1. CASE b = a
    <3>1. filaIn'[a] = <<>> /\ DonaDaVaga(a)'
      BY <1>f2, <1>f3, <1>f4, <1>f5 DEF Solta, DonaDaVaga
    <3>2. \A r \in Servicos : a \notin svcIn'[r].prontos /\ (svcIn'[r].vaga = a => r = s)
      BY <1>f3, <1>f5 DEF Solta, Conhece, OutrosSvc
    <3> QED
      BY <1>f3, <2>1, <3>1, <3>2 DEF SemFala
  <2>2. CASE b # a
    <3>1. appIn'[b] = appIn[b]
      BY <1>f4, <2>2 DEF OutrasApp
    <3>2. \A r \in Servicos : Conhece(r, b)' => Conhece(r, b)
      BY <1>f2, <1>f3, <2>2 DEF Conhece, OutrosSvc
    <3>3. Alheia(b)
      BY <1>f2, <1>f3, <2>2, <3>1, <3>2, InstanciaAssumption DEF Alheia, OutrosSvc, Vive
    <3> QED
      BY <1>0, <3>1, <3>3, RespostaDe DEF Resposta
  <2> QED
    BY <2>1, <2>2
<1>9. Noticia'
  <2> SUFFICES ASSUME NEW r \in Servicos, NEW b \in Apps, svcIn'[r].vaga = b,
                      appIn'[b].fase # "saiu", svcIn'[r].sabido
               PROVE  AvisoACaminho(r, b)'
    BY DEF Noticia
  <2>1. CASE r = s
    BY <1>f3, <2>1 DEF AvisoACaminho
  <2>2. CASE r # s
    <3>1. svcIn'[r] = svcIn[r] /\ b # a
      BY <1>f3, <1>f5, <2>2 DEF OutrosSvc, Solta, Conhece
    <3>2. appIn'[b] = appIn[b]
      BY <1>f4, <3>1 DEF OutrasApp
    <3>3. AvisoACaminho(r, b)
      BY <1>0, <3>1, <3>2 DEF Noticia
    <3> QED
      BY <1>f2, <3>1, <3>2, <3>3 DEF AvisoACaminho
  <2> QED
    BY <2>1, <2>2
<1>10. SemFechos'
  <2> SUFFICES ASSUME contaIn'.fechos = 0, NEW r \in Servicos PROVE Fiel(r)'
    BY DEF SemFechos
  <2>1. Fiel(r)
    BY <1>0, <1>f2 DEF SemFechos
  <2>2. CASE r = s
    <3>1. svcIn[s].prontos = {}
      BY <1>f1, <1>f2, <2>1, <2>2, InstanciaAssumption DEF Fiel, TipoSvc, Processos
    <3>2. \A q \in Quem : empIn[s][q].alvo = Ninguem
      BY <1>f2, <2>1, <2>2 DEF Fiel
    <3> QED
      BY <1>f2, <1>f3, <1>f4, <2>2, <3>1, <3>2, InstanciaAssumption DEF Fiel
  <2>3. CASE r # s
    <3>1. svcIn'[r] = svcIn[r] /\ svcIn[r].vaga # a
      BY <1>f3, <1>f5, <2>3 DEF OutrosSvc, Solta, Conhece
    <3> QED
      BY <1>f2, <1>f4, <2>1, <3>1 DEF Fiel, OutrasApp
  <2> QED
    BY <2>2, <2>3
<1>11. TipoPedido'
  BY <1>0, <1>f2 DEF TipoPedido
<1>12. UmaPorServico'
  <2> SUFFICES ASSUME NEW b \in Apps, appIn'[b].fase = "janela", Ligado(b)'
               PROVE  svcIn'[appIn'[b].con].vaga = b
    BY DEF UmaPorServico
  <2>1. b # a /\ appIn'[b] = appIn[b]
    BY <1>f4 DEF OutrasApp
  <2>2. Ligado(b) /\ svcIn[appIn[b].con].vaga = b
    BY <1>0, <1>f2, <1>f3, <2>1 DEF UmaPorServico, Ligado, Vive, OutrosSvc
  <2>3. appIn[b].con # s
    BY <1>f2, <2>2, InstanciaAssumption
  <2> QED
    BY <1>f3, <2>1, <2>2, <2>3 DEF OutrosSvc, Ligado, Vive
<1>13. NadaSePerdeCalado'
  <2> SUFFICES ASSUME NEW q \in Quem
               PROVE  /\ pedidoIn'[q] = "perdido" => contaIn'.fechos > 0
                      /\ pedidoIn'[q] = "pedido" => Carrega(q)'
    BY DEF NadaSePerdeCalado
  <2>1. \A b \in Apps : appIn[b].fase \in {"espera", "janela"} /\ Traz(b, q)
                         => appIn'[b].fase \in {"espera", "janela"} /\ Traz(b, q)'
    BY <1>f2, <1>f4 DEF Traz, OutrasApp, OutrasFilas
  <2>2. \A r \in Servicos : Vive(r) /\ empIn[r][q].fase # "fora" => Vive(r)' /\ empIn'[r][q].fase # "fora"
    BY <1>f2, <1>f3 DEF Vive, OutrosSvc
  <2> QED
    BY <1>0, <1>f2, <2>1, <2>2, CarregaFica DEF NadaSePerdeCalado
<1> QED
  BY <1>f1, <1>f2, <1>f3, <1>f4, <1>f5, <1>f6, <1>2, <1>3, <1>4, <1>5, <1>6, <1>7, <1>8, <1>9, <1>10, <1>11, <1>12, <1>13 DEF InvInstancia

\* msgOlaApp where there is a window already.
LEMMA TomarOcupadaGuarda ==
  ASSUME InvInstancia, NEW a \in Apps, NEW s, s = appIn[a].con, TomarVaga(a), svcIn[s].vaga # Ninguem
  PROVE  InvInstancia'
<1>0. /\ TipadoIn /\ SoQuemVive /\ JanelasCertas /\ Conhecidos /\ ApertoCerto /\ AlvoCerto
      /\ SegundaSaiu /\ Resposta /\ Noticia /\ SemFechos /\ TipoPedido /\ UmaPorServico /\ NadaSePerdeCalado
  BY DEF InvInstancia
<1>f1. TipoSvc /\ TipoEmp /\ TipoApp /\ TipoFila /\ TipoConta
  BY <1>0 DEF TipadoIn
<1>f2. /\ UNCHANGED <<sockIn, svcIn, empIn, pedidoIn, contaIn>>
       /\ Vive(s) /\ s \in Servicos /\ appIn[a].con = s /\ appIn[a].fase = "ola" /\ svcIn[s].vaga # Ninguem
  BY DEF TomarVaga, Vive
<1>f3. TipoFila' /\ filaIn'[a] = <<Msg("ocupado", "", Ninguem)>> /\ OutrasFilas(a) /\ filaIn[a] = <<>>
  <2> DEFINE m == Msg("ocupado", "", Ninguem)
             g == Append(filaIn[a], m)
  <2>1. filaIn' = [filaIn EXCEPT ![a] = g] /\ filaIn[a] = <<>> /\ filaIn[a] \in Seq(Mensagens)
    BY <1>f1, <1>f2, SoltaCedo DEF TomarVaga, Solta, FasesCedo, TipoFila
  <2>2. m \in Mensagens
    BY DEF Msg, Mensagens, TextosIn
  <2> HIDE DEF m
  <2>3. g \in Seq(Mensagens) /\ g = <<m>>
    BY <2>1, <2>2, FilaMais
  <2> HIDE DEF g
  <2>4. TipoFila' /\ filaIn'[a] = g /\ OutrasFilas(a)
    BY <1>f1, <2>1, <2>3, FilaNova
  <2> QED
    BY <2>1, <2>3, <2>4 DEF m
<1>f4. /\ TipoApp' /\ OutrasApp(a) /\ appIn'[a].fase = "espera" /\ appIn'[a].con = appIn[a].con
       /\ appIn'[a].msgs = appIn[a].msgs /\ appIn'[a].sabido = appIn[a].sabido
  <2>1. Fase(a, "espera") /\ "espera" \in FasesTarde
    BY DEF TomarVaga, FasesTarde
  <2> QED
    BY <1>f1, <2>1, FaseNova
<1>f5. Solta(a)
  BY <1>f2, SoltaCedo DEF FasesCedo
<1>f6. TipadoIn'
  BY <1>0, <1>f2, <1>f3, <1>f4 DEF TipadoIn, TipoSvc, TipoEmp, TipoConta
<1>2. SoQuemVive'
  BY <1>0, <1>f2 DEF SoQuemVive
<1>3. JanelasCertas'
  <2> SUFFICES ASSUME NEW b \in Apps PROVE Alcancado(b)' /\ Cedo(b)'
    BY DEF JanelasCertas
  <2>1. Alcancado(b) /\ Cedo(b)
    BY <1>0 DEF JanelasCertas
  <2>2. Alcancado(b)'
    BY <2>1, <1>f2, <1>f3, <1>f4, <1>f5 DEF Alcancado, OutrasApp, OutrosSvc
  <2>3. Cedo(b)'
    BY <2>1, <1>f2, <1>f3, <1>f4, <1>f5 DEF Cedo, OutrasApp, OutrasFilas, FasesCedo, Solta
  <2> QED
    BY <2>2, <2>3
<1>4. Conhecidos'
  <2> SUFFICES ASSUME NEW r \in Servicos, NEW b \in Apps, Conhece(r, b)' PROVE Tarde(b, r)'
    BY DEF Conhecidos
  <2>1. Conhece(r, b) /\ b # a
    BY <1>f2, <1>f5 DEF Conhece, Solta
  <2> QED
    BY <1>0, <1>f4, <2>1 DEF Conhecidos, Tarde, OutrasApp
<1>5. ApertoCerto'
  BY <1>0, <1>f2 DEF ApertoCerto
<1>6. AlvoCerto'
  BY <1>0, <1>f2 DEF AlvoCerto
<1>7. SegundaSaiu'
  BY <1>0, <1>f2, <1>f4 DEF SegundaSaiu, OutrasApp
<1>8. Resposta'
  <2> SUFFICES ASSUME NEW b \in Apps, appIn'[b].fase = "espera"
               PROVE  SemFala(b)' \/ Aceito(b)' \/ Recusado(b)'
    BY DEF Resposta
  <2>1. CASE b = a
    <3>1. \A r \in Servicos : ~Conhece(r, a)'
      BY <1>f2, <1>f5 DEF Solta, Conhece
    <3> QED
      BY <1>f2, <1>f3, <1>f4, <2>1, <3>1 DEF Recusado, Vive
  <2>2. CASE b # a
    <3>1. appIn'[b] = appIn[b]
      BY <1>f4, <2>2 DEF OutrasApp
    <3>2. \A r \in Servicos : Conhece(r, b)' => Conhece(r, b)
      BY <1>f2 DEF Conhece
    <3>3. Alheia(b)
      BY <1>f2, <1>f3, <2>2, <3>1, <3>2 DEF Alheia, OutrasFilas, Vive
    <3> QED
      BY <1>0, <3>1, <3>3, RespostaDe DEF Resposta
  <2> QED
    BY <2>1, <2>2
<1>9. Noticia'
  <2> SUFFICES ASSUME NEW r \in Servicos, NEW b \in Apps, svcIn'[r].vaga = b,
                      appIn'[b].fase # "saiu", svcIn'[r].sabido
               PROVE  AvisoACaminho(r, b)'
    BY DEF Noticia
  <2>1. b # a
    BY <1>f2, <1>f5 DEF Solta, Conhece
  <2>2. appIn'[b] = appIn[b] /\ filaIn'[b] = filaIn[b]
    BY <1>f3, <1>f4, <2>1 DEF OutrasApp, OutrasFilas
  <2>3. AvisoACaminho(r, b)
    BY <1>0, <1>f2, <2>2 DEF Noticia
  <2> QED
    BY <1>f2, <2>2, <2>3 DEF AvisoACaminho
<1>10. SemFechos'
  <2> SUFFICES ASSUME contaIn'.fechos = 0, NEW r \in Servicos PROVE Fiel(r)'
    BY DEF SemFechos
  <2>1. Fiel(r)
    BY <1>0, <1>f2 DEF SemFechos
  <2> QED
    BY <1>f2, <1>f4, <2>1 DEF Fiel, OutrasApp
<1>11. TipoPedido'
  BY <1>0, <1>f2 DEF TipoPedido
<1>12. UmaPorServico'
  <2> SUFFICES ASSUME NEW b \in Apps, appIn'[b].fase = "janela", Ligado(b)'
               PROVE  svcIn'[appIn'[b].con].vaga = b
    BY DEF UmaPorServico
  <2>1. b # a /\ appIn'[b] = appIn[b]
    BY <1>f4 DEF OutrasApp
  <2> QED
    BY <1>0, <1>f2, <2>1 DEF UmaPorServico, Ligado, Vive
<1>13. NadaSePerdeCalado'
  <2> SUFFICES ASSUME NEW q \in Quem
               PROVE  /\ pedidoIn'[q] = "perdido" => contaIn'.fechos > 0
                      /\ pedidoIn'[q] = "pedido" => Carrega(q)'
    BY DEF NadaSePerdeCalado
  <2>1. \A b \in Apps : appIn[b].fase \in {"espera", "janela"} /\ Traz(b, q)
                         => appIn'[b].fase \in {"espera", "janela"} /\ Traz(b, q)'
    BY <1>f2, <1>f3, <1>f4 DEF Traz, OutrasApp, OutrasFilas
  <2>2. \A r \in Servicos : Vive(r) /\ empIn[r][q].fase # "fora" => Vive(r)' /\ empIn'[r][q].fase # "fora"
    BY <1>f2, <1>f3 DEF Vive, OutrosSvc
  <2> QED
    BY <1>0, <1>f2, <2>1, <2>2, CarregaFica DEF NadaSePerdeCalado
<1> QED
  BY <1>f1, <1>f2, <1>f3, <1>f4, <1>f5, <1>f6, <1>2, <1>3, <1>4, <1>5, <1>6, <1>7, <1>8, <1>9, <1>10, <1>11, <1>12, <1>13 DEF InvInstancia

LEMMA Unica ==
  LET f == <<Msg("ocupado", "", Ninguem)>>
  IN  Head(f).tipo = "ocupado" /\ \A m \in ToSet(f) : m.tipo = "ocupado"
<1> DEFINE x == Msg("ocupado", "", Ninguem)
<1>1. x.tipo = "ocupado"
  BY DEF Msg
<1> HIDE DEF x
<1>2. Head(<<x>>) = x
  OBVIOUS
<1>3. ToSet(<<x>>) = {x}
  BY DEF ToSet
<1>4. Head(<<x>>).tipo = "ocupado" /\ \A m \in ToSet(<<x>>) : m.tipo = "ocupado"
  BY <1>1, <1>2, <1>3
<1> QED
  BY <1>4 DEF x

\* A second instance is refused: it forwards what it was asked and leaves.
LEMMA LerRecusaGuarda ==
  ASSUME InvInstancia, NEW a \in Apps, NEW s, s = appIn[a].con, LerResposta(a), Recusado(a)
  PROVE  InvInstancia'
<1>0. /\ TipadoIn /\ SoQuemVive /\ JanelasCertas /\ Conhecidos /\ ApertoCerto /\ AlvoCerto
      /\ SegundaSaiu /\ Resposta /\ Noticia /\ SemFechos /\ TipoPedido /\ UmaPorServico /\ NadaSePerdeCalado
  BY DEF InvInstancia
<1>f1. TipoSvc /\ TipoEmp /\ TipoApp /\ TipoFila /\ TipoConta
  BY <1>0 DEF TipadoIn
<1>f2. /\ UNCHANGED <<sockIn, svcIn, contaIn>> /\ a \in Quem
       /\ appIn[a].con = s /\ appIn[a].fase = "espera" /\ Head(filaIn[a]).tipo = "ocupado"
       /\ \A r \in Servicos : ~Conhece(r, a) /\ empIn[r][a].fase = "fora"
       /\ contaIn.fechos = 0 /\ Vive(s) => svcIn[s].vaga # Ninguem
  <2>0. Head(filaIn[a]).tipo = "ocupado"
    BY Unica DEF Recusado
  <2>1. /\ UNCHANGED <<sockIn, svcIn, contaIn>> /\ a \in Quem /\ appIn[a].fase = "espera"
        /\ Head(filaIn[a]).tipo = "ocupado"
    BY <2>0 DEF LerResposta, Quem
  <2>2. \A r \in Servicos : ~Conhece(r, a) /\ empIn[r][a].fase = "fora"
    BY <1>0, <2>1 DEF Recusado, SegundaSaiu
  <2> QED
    BY <2>1, <2>2 DEF Recusado
<1>f3. /\ TipoApp' /\ OutrasApp(a) /\ appIn'[a].fase = "saiu" /\ appIn'[a].con = appIn[a].con
       /\ appIn'[a].msgs = appIn[a].msgs /\ appIn'[a].sabido = appIn[a].sabido
  <2>1. Fase(a, "saiu") /\ "saiu" \in FasesTarde
    BY <1>f2 DEF LerResposta, FasesTarde
  <2> QED
    BY <1>f1, <2>1, FaseNova
<1>f4. \/ Vive(s) /\ s \in Servicos /\ OutrosEmp(s, a) /\ TipoEmp'
          /\ empIn'[s][a].fase = "tenta" /\ empIn'[s][a].alvo = Ninguem
       \/ ~Vive(s) /\ empIn' = empIn
  <2>1. CASE Vive(s)
    <3> DEFINE e == [empIn[s][a] EXCEPT !.fase = "tenta"]
    <3>1. s \in Servicos /\ empIn[s][a] \in Empurroes /\ empIn[s][a].alvo = Ninguem
      BY <1>0, <1>f1, <1>f2, <2>1 DEF Vive, TipoEmp, AlvoCerto
    <3>2. e \in Empurroes /\ e.fase = "tenta" /\ e.alvo = Ninguem
      BY <3>1 DEF Empurroes
    <3>3. empIn' = [empIn EXCEPT ![s][a] = e]
      BY <1>f1, <1>f2, <2>1, <3>1 DEF LerResposta, TipoEmp
    <3> HIDE DEF e
    <3>4. TipoEmp'
      BY <1>f1, <1>f2, <3>1, <3>2, <3>3 DEF TipoEmp
    <3>5. empIn'[s][a] = e /\ OutrosEmp(s, a)
      BY <1>f1, <1>f2, <3>1, <3>3, EmpNovo
    <3> QED
      BY <2>1, <3>1, <3>2, <3>4, <3>5
  <2>2. CASE ~Vive(s)
    BY <1>f2, <2>2 DEF LerResposta
  <2> QED
    BY <2>1, <2>2
<1>f5. empIn[s][a].alvo = Ninguem \/ ~Vive(s)
  BY <1>0, <1>f2 DEF Vive, AlvoCerto
<1>f6. /\ TipoFila' /\ OutrasFilas(a) /\ filaIn'[a] = Tail(filaIn[a])
       /\ \A m \in ToSet(filaIn[a]) : m.tipo # "abrir"
  <2> DEFINE g == Tail(filaIn[a])
  <2>1. filaIn' = [filaIn EXCEPT ![a] = g] /\ filaIn[a] \in Seq(Mensagens) /\ filaIn[a] # <<>>
    BY <1>f1 DEF LerResposta, TipoFila
  <2>2. g \in Seq(Mensagens)
    BY <2>1, FilaFrente
  <2>3. \A m \in ToSet(filaIn[a]) : m.tipo # "abrir"
    BY Unica DEF Recusado
  <2> HIDE DEF g
  <2>4. TipoFila' /\ filaIn'[a] = g /\ OutrasFilas(a)
    BY <1>f1, <2>1, <2>2, FilaNova
  <2> QED
    BY <2>3, <2>4 DEF g
<1>f7. pedidoIn' = [pedidoIn EXCEPT ![a] = IF Vive(s) THEN "pedido" ELSE "morreu"]
  BY <1>f2 DEF LerResposta
<1>f8. TipadoIn'
  BY <1>0, <1>f1, <1>f2, <1>f3, <1>f4, <1>f6 DEF TipadoIn, TipoSvc, TipoConta, TipoEmp
<1>2. SoQuemVive'
  BY <1>0, <1>f2, <1>f4, <1>f5 DEF SoQuemVive, OutrosEmp, Vive
<1>3. JanelasCertas'
  <2> SUFFICES ASSUME NEW b \in Apps PROVE Alcancado(b)' /\ Cedo(b)'
    BY DEF JanelasCertas
  <2>1. Alcancado(b) /\ Cedo(b)
    BY <1>0 DEF JanelasCertas
  <2>2. Alcancado(b)'
    BY <2>1, <1>f2, <1>f3, <1>f6 DEF Alcancado, OutrasApp, OutrosSvc
  <2>3. Cedo(b)'
    BY <2>1, <1>f2, <1>f3, <1>f6 DEF Cedo, OutrasApp, OutrasFilas, FasesCedo
  <2> QED
    BY <2>2, <2>3
<1>4. Conhecidos'
  <2> SUFFICES ASSUME NEW r \in Servicos, NEW b \in Apps, Conhece(r, b)' PROVE Tarde(b, r)'
    BY DEF Conhecidos
  <2>1. Conhece(r, b)
    BY <1>f2, <1>f4, <1>f5, InstanciaAssumption DEF Conhece, OutrosEmp
  <2> QED
    BY <1>0, <1>f3, <2>1 DEF Conhecidos, Tarde, OutrasApp, FasesTarde
<1>5. ApertoCerto'
  BY <1>0, <1>f2 DEF ApertoCerto
<1>6. AlvoCerto'
  BY <1>0, <1>f2, <1>f4, <1>f5 DEF AlvoCerto, OutrosEmp
<1>7. SegundaSaiu'
  <2> SUFFICES ASSUME NEW r \in Servicos, NEW b \in Apps, empIn'[r][b].fase # "fora"
               PROVE  appIn'[b].fase = "saiu"
    BY DEF SegundaSaiu
  <2>1. CASE b = a
    BY <1>f3, <2>1
  <2>2. CASE b # a
    <3>1. empIn'[r][b] = empIn[r][b] /\ appIn'[b] = appIn[b]
      BY <1>f3, <1>f4, <2>2 DEF OutrasApp, OutrosEmp, Quem
    <3>2. empIn[r][b].fase # "fora" => appIn[b].fase = "saiu"
      BY <1>0 DEF SegundaSaiu
    <3> QED
      BY <3>1, <3>2
  <2> QED
    BY <2>1, <2>2
<1>8. Resposta'
  <2> SUFFICES ASSUME NEW b \in Apps, appIn'[b].fase = "espera"
               PROVE  SemFala(b)' \/ Aceito(b)' \/ Recusado(b)'
    BY DEF Resposta
  <2>1. b # a /\ appIn'[b] = appIn[b]
    BY <1>f3 DEF OutrasApp
  <2>2. \A r \in Servicos : Conhece(r, b)' => Conhece(r, b)
    BY <1>f2, <1>f4, <1>f5, InstanciaAssumption DEF Conhece, OutrosEmp
  <2>3. Alheia(b)
    BY <1>f2, <1>f6, <2>1, <2>2 DEF Alheia, OutrasFilas, Vive
  <2> QED
    BY <1>0, <2>1, <2>3, RespostaDe DEF Resposta
<1>9. Noticia'
  <2> SUFFICES ASSUME NEW r \in Servicos, NEW b \in Apps, svcIn'[r].vaga = b,
                      appIn'[b].fase # "saiu", svcIn'[r].sabido
               PROVE  AvisoACaminho(r, b)'
    BY DEF Noticia
  <2>1. b # a
    BY <1>f3
  <2>2. appIn'[b] = appIn[b] /\ filaIn'[b] = filaIn[b]
    BY <1>f3, <1>f6, <2>1 DEF OutrasApp, OutrasFilas
  <2>3. AvisoACaminho(r, b)
    BY <1>0, <1>f2, <2>2 DEF Noticia
  <2>4. empIn'[r]["atalho"] = empIn[r]["atalho"]
    BY <1>f2, <1>f4, <1>f5, InstanciaAssumption DEF OutrosEmp, Quem
  <2> QED
    BY <1>f2, <2>2, <2>3, <2>4 DEF AvisoACaminho
<1>10. SemFechos'
  <2> SUFFICES ASSUME contaIn'.fechos = 0, NEW r \in Servicos PROVE Fiel(r)'
    BY DEF SemFechos
  <2>1. Fiel(r)
    BY <1>0, <1>f2 DEF SemFechos
  <2>2. svcIn[r].vaga # a
    BY <1>f2 DEF Conhece
  <2>3. \A b \in Apps : svcIn'[r].vaga = b => appIn'[b].fase # "saiu"
    BY <1>f2, <1>f3, <2>1, <2>2 DEF Fiel, OutrasApp
  <2>4. \A q \in Quem : /\ empIn'[r][q].alvo # Ninguem => svcIn'[r].vaga = empIn'[r][q].alvo
                        /\ empIn'[r][q].fase = "tenta" /\ q # "atalho" => svcIn'[r].vaga # Ninguem
    BY <1>f2, <1>f4, <1>f5, <2>1 DEF Fiel, OutrosEmp
  <2> QED
    BY <1>f2, <2>1, <2>3, <2>4 DEF Fiel
<1>11. TipoPedido'
  BY <1>0, <1>f2, <1>f7, InstanciaAssumption DEF TipoPedido, Quem
<1>12. UmaPorServico'
  <2> SUFFICES ASSUME NEW b \in Apps, appIn'[b].fase = "janela", Ligado(b)'
               PROVE  svcIn'[appIn'[b].con].vaga = b
    BY DEF UmaPorServico
  <2>1. b # a /\ appIn'[b] = appIn[b]
    BY <1>f3 DEF OutrasApp
  <2> QED
    BY <1>0, <1>f2, <2>1 DEF UmaPorServico, Ligado, Vive
<1>13. NadaSePerdeCalado'
  <2> SUFFICES ASSUME NEW q \in Quem
               PROVE  /\ pedidoIn'[q] = "perdido" => contaIn'.fechos > 0
                      /\ pedidoIn'[q] = "pedido" => Carrega(q)'
    BY DEF NadaSePerdeCalado
  <2>1. CASE q = a
    <3>1. pedidoIn'[a] = IF Vive(s) THEN "pedido" ELSE "morreu"
      BY <1>0, <1>f2, <1>f7 DEF TipoPedido
    <3>2. Vive(s) => Carrega(a)'
      BY <1>f2, <1>f4, <1>f5 DEF Carrega, Vive
    <3> QED
      BY <2>1, <3>1, <3>2
  <2>2. CASE q # a
    <3>1. pedidoIn'[q] = pedidoIn[q]
      BY <1>0, <1>f7, <2>2 DEF TipoPedido
    <3>2. \A r \in Servicos : Vive(r) /\ empIn[r][q].fase # "fora" => Vive(r)' /\ empIn'[r][q].fase # "fora"
      BY <1>f2, <1>f4, <1>f5, <2>2 DEF Vive, OutrosEmp
    <3>3. ~Traz(a, q)
      BY <1>0, <1>f2, <1>f6 DEF Traz, JanelasCertas, Cedo, ToSet
    <3>4. \A b \in Apps : appIn[b].fase \in {"espera", "janela"} /\ Traz(b, q)
                           => appIn'[b].fase \in {"espera", "janela"} /\ Traz(b, q)'
      BY <1>f3, <1>f6, <3>3 DEF Traz, OutrasApp, OutrasFilas
    <3> QED
      BY <1>0, <1>f2, <3>1, <3>2, <3>4, CarregaFica DEF NadaSePerdeCalado
  <2> QED
    BY <2>1, <2>2
<1> QED
  BY <1>f1, <1>f2, <1>f3, <1>f4, <1>f5, <1>f6, <1>f7, <1>f8, <1>2, <1>3, <1>4, <1>5, <1>6, <1>7, <1>8, <1>9, <1>10, <1>11, <1>12, <1>13 DEF InvInstancia

\* The window has the place.
LEMMA LerAceiteGuarda ==
  ASSUME InvInstancia, NEW a \in Apps, LerResposta(a), Aceito(a)
  PROVE  InvInstancia'
<1>0. /\ TipadoIn /\ SoQuemVive /\ JanelasCertas /\ Conhecidos /\ ApertoCerto /\ AlvoCerto
      /\ SegundaSaiu /\ Resposta /\ Noticia /\ SemFechos /\ TipoPedido /\ UmaPorServico /\ NadaSePerdeCalado
  BY DEF InvInstancia
<1>f1. TipoSvc /\ TipoEmp /\ TipoApp /\ TipoFila /\ TipoConta
  BY <1>0 DEF TipadoIn
<1>f2. /\ UNCHANGED <<sockIn, svcIn, empIn, pedidoIn, contaIn>> /\ DonaDaVaga(a)
       /\ appIn[a].fase = "espera" /\ Head(filaIn[a]).tipo = "ok"
  BY DEF LerResposta, Aceito
<1>f3. /\ TipoApp' /\ OutrasApp(a) /\ appIn'[a].fase = "janela" /\ appIn'[a].con = appIn[a].con
       /\ appIn'[a].msgs = appIn[a].msgs /\ appIn'[a].sabido = appIn[a].sabido
  <2>1. Fase(a, "janela") /\ "janela" \in FasesTarde
    BY <1>f2 DEF LerResposta, FasesTarde
  <2> QED
    BY <1>f1, <2>1, FaseNova
<1>f4. /\ TipoFila' /\ OutrasFilas(a) /\ filaIn[a] # <<>>
       /\ ToSet(filaIn[a]) = {Head(filaIn[a])} \union ToSet(filaIn'[a]) /\ Head(filaIn[a]) \in Mensagens
       /\ Head(filaIn[a]).tipo = "ok"
  <2> DEFINE g == Tail(filaIn[a])
  <2>1. filaIn' = [filaIn EXCEPT ![a] = g] /\ filaIn[a] \in Seq(Mensagens) /\ filaIn[a] # <<>>
    BY <1>f1 DEF LerResposta, TipoFila
  <2>2. /\ g \in Seq(Mensagens) /\ ToSet(filaIn[a]) = {Head(filaIn[a])} \union ToSet(g)
        /\ Head(filaIn[a]) \in Mensagens
    BY <2>1, FilaFrente
  <2>3. Head(filaIn[a]).tipo = "ok"
    BY <1>f2
  <2> HIDE DEF g
  <2>4. TipoFila' /\ filaIn'[a] = g /\ OutrasFilas(a)
    BY <1>f1, <2>1, <2>2, FilaNova
  <2> QED
    BY <2>1, <2>2, <2>3, <2>4
<1>f5. TipadoIn'
  BY <1>0, <1>f2, <1>f3, <1>f4 DEF TipadoIn, TipoSvc, TipoConta, TipoEmp
<1>2. SoQuemVive'
  BY <1>0, <1>f2 DEF SoQuemVive
<1>3. JanelasCertas'
  <2> SUFFICES ASSUME NEW b \in Apps PROVE Alcancado(b)' /\ Cedo(b)'
    BY DEF JanelasCertas
  <2>1. Alcancado(b) /\ Cedo(b)
    BY <1>0 DEF JanelasCertas
  <2>2. Alcancado(b)'
    BY <2>1, <1>f2, <1>f3, <1>f4 DEF Alcancado, OutrasApp, OutrosSvc
  <2>3. Cedo(b)'
    BY <2>1, <1>f2, <1>f3, <1>f4 DEF Cedo, OutrasApp, OutrasFilas, FasesCedo
  <2> QED
    BY <2>2, <2>3
<1>4. Conhecidos'
  <2> SUFFICES ASSUME NEW r \in Servicos, NEW b \in Apps, Conhece(r, b)' PROVE Tarde(b, r)'
    BY DEF Conhecidos
  <2>1. Conhece(r, b)
    BY <1>f2 DEF Conhece
  <2> QED
    BY <1>0, <1>f3, <2>1 DEF Conhecidos, Tarde, OutrasApp, FasesTarde
<1>5. ApertoCerto'
  BY <1>0, <1>f2 DEF ApertoCerto
<1>6. AlvoCerto'
  BY <1>0, <1>f2 DEF AlvoCerto
<1>7. SegundaSaiu'
  BY <1>0, <1>f2, <1>f3 DEF SegundaSaiu, OutrasApp
<1>8. Resposta'
  <2> SUFFICES ASSUME NEW b \in Apps, appIn'[b].fase = "espera"
               PROVE  SemFala(b)' \/ Aceito(b)' \/ Recusado(b)'
    BY DEF Resposta
  <2>1. b # a /\ appIn'[b] = appIn[b]
    BY <1>f3 DEF OutrasApp
  <2>2. \A r \in Servicos : Conhece(r, b)' => Conhece(r, b)
    BY <1>f2 DEF Conhece
  <2>3. Alheia(b)
    BY <1>f2, <1>f4, <2>1, <2>2 DEF Alheia, OutrasFilas, Vive
  <2> QED
    BY <1>0, <2>1, <2>3, RespostaDe DEF Resposta
<1>9. Noticia'
  <2> SUFFICES ASSUME NEW r \in Servicos, NEW b \in Apps, svcIn'[r].vaga = b,
                      appIn'[b].fase # "saiu", svcIn'[r].sabido
               PROVE  AvisoACaminho(r, b)'
    BY DEF Noticia
  <2>1. svcIn[r].vaga = b /\ svcIn[r].sabido /\ appIn[b].fase # "saiu"
    BY <1>f2, <1>f3 DEF OutrasApp
  <2>2. AvisoACaminho(r, b)
    BY <1>0, <2>1 DEF Noticia
  <2>3. CASE b # a
    BY <1>f2, <1>f3, <1>f4, <2>2, <2>3 DEF AvisoACaminho, OutrasApp, OutrasFilas
  <2>4. CASE b = a
    BY <1>f2, <1>f3, <1>f4, <2>2, <2>4 DEF AvisoACaminho
  <2> QED
    BY <2>3, <2>4
<1>10. SemFechos'
  <2> SUFFICES ASSUME contaIn'.fechos = 0, NEW r \in Servicos PROVE Fiel(r)'
    BY DEF SemFechos
  <2>1. Fiel(r)
    BY <1>0, <1>f2 DEF SemFechos
  <2> QED
    BY <1>f2, <1>f3, <2>1 DEF Fiel, OutrasApp
<1>11. TipoPedido'
  BY <1>0, <1>f2 DEF TipoPedido
<1>12. UmaPorServico'
  <2> SUFFICES ASSUME NEW b \in Apps, appIn'[b].fase = "janela", Ligado(b)'
               PROVE  svcIn'[appIn'[b].con].vaga = b
    BY DEF UmaPorServico
  <2>1. CASE b = a
    BY <1>f2, <1>f3, <2>1 DEF DonaDaVaga, Ligado, Vive
  <2>2. CASE b # a
    BY <1>0, <1>f2, <1>f3, <2>2 DEF UmaPorServico, Ligado, Vive, OutrasApp
  <2> QED
    BY <2>1, <2>2
<1>13. NadaSePerdeCalado'
  <2> SUFFICES ASSUME NEW q \in Quem
               PROVE  /\ pedidoIn'[q] = "perdido" => contaIn'.fechos > 0
                      /\ pedidoIn'[q] = "pedido" => Carrega(q)'
    BY DEF NadaSePerdeCalado
  <2>1. \A b \in Apps : appIn[b].fase \in {"espera", "janela"} /\ Traz(b, q)
                         => appIn'[b].fase \in {"espera", "janela"} /\ Traz(b, q)'
    <3> SUFFICES ASSUME NEW b \in Apps, appIn[b].fase \in {"espera", "janela"}, Traz(b, q)
                 PROVE  appIn'[b].fase \in {"espera", "janela"} /\ Traz(b, q)'
      OBVIOUS
    <3>1. CASE b # a
      BY <1>f3, <1>f4, <3>1 DEF Traz, OutrasApp, OutrasFilas
    <3>2. CASE b = a
      BY <1>f3, <1>f4, <3>2 DEF Traz
    <3> QED
      BY <3>1, <3>2
  <2>2. \A r \in Servicos : Vive(r) /\ empIn[r][q].fase # "fora" => Vive(r)' /\ empIn'[r][q].fase # "fora"
    BY <1>f2 DEF Vive
  <2> QED
    BY <1>0, <1>f2, <2>1, <2>2, CarregaFica DEF NadaSePerdeCalado
<1> QED
  BY <1>f1, <1>f2, <1>f3, <1>f4, <1>f5, <1>2, <1>3, <1>4, <1>5, <1>6, <1>7, <1>8, <1>9, <1>10, <1>11, <1>12, <1>13 DEF InvInstancia

\* pedirResposta: what is read is one or the other.
LEMMA LerRespostaGuarda ==
  ASSUME InvInstancia, NEW a \in Apps, LerResposta(a)
  PROVE  InvInstancia'
<1>1. appIn[a].fase = "espera" /\ filaIn[a] # <<>>
  BY DEF LerResposta
<1>2. Aceito(a) \/ Recusado(a)
  BY <1>1 DEF InvInstancia, Resposta, SemFala
<1> QED
  BY <1>2, LerAceiteGuarda, LerRecusaGuarda

\* A window that reads, or opens what it read: what it does not open it keeps, and the
\* news of the key it knows or still has to read.
Consome(a) ==
  /\ sockIn' = sockIn /\ svcIn' = svcIn /\ empIn' = empIn /\ contaIn' = contaIn
  /\ OutrasApp(a) /\ OutrasFilas(a)
  /\ appIn[a].fase = "janela" /\ appIn'[a].fase = "janela" /\ appIn'[a].con = appIn[a].con
  /\ appIn[a].sabido \/ (\E m \in ToSet(filaIn[a]) : m.tipo = "gatilho")
       => appIn'[a].sabido \/ \E m \in ToSet(filaIn'[a]) : m.tipo = "gatilho"
  /\ Len(appIn'[a].msgs) <= CapMsgs
  /\ \A q \in Quem : /\ pedidoIn'[q] = "perdido" => pedidoIn[q] = "perdido"
                     /\ pedidoIn'[q] = "pedido" => pedidoIn[q] = "pedido"
                     /\ pedidoIn'[q] = "pedido" /\ Traz(a, q) => Traz(a, q)'

\* What the window does with what it reads is between it and who asked.
LEMMA ConsomeGuarda ==
  ASSUME InvInstancia, NEW a \in Apps, TipoApp', TipoFila', TipoPedido', Consome(a)
  PROVE  InvInstancia'
<1>0. /\ TipadoIn /\ SoQuemVive /\ JanelasCertas /\ Conhecidos /\ ApertoCerto /\ AlvoCerto
      /\ SegundaSaiu /\ Resposta /\ Noticia /\ SemFechos /\ TipoPedido /\ UmaPorServico /\ NadaSePerdeCalado
  BY DEF InvInstancia
<1>f1. TipoSvc /\ TipoEmp /\ TipoApp /\ TipoFila /\ TipoConta
  BY <1>0 DEF TipadoIn
<1>f2. UNCHANGED <<sockIn, svcIn, empIn, contaIn>>
  BY DEF Consome
<1>f3. /\ OutrasApp(a) /\ OutrasFilas(a) /\ appIn[a].fase = "janela" /\ appIn'[a].fase = "janela"
       /\ appIn'[a].con = appIn[a].con /\ Len(appIn'[a].msgs) <= CapMsgs
  BY DEF Consome
<1>f4. appIn[a].sabido \/ (\E m \in ToSet(filaIn[a]) : m.tipo = "gatilho")
         => appIn'[a].sabido \/ \E m \in ToSet(filaIn'[a]) : m.tipo = "gatilho"
  BY DEF Consome
<1>f5. \A q \in Quem :
         /\ pedidoIn'[q] = "perdido" => pedidoIn[q] = "perdido"
         /\ pedidoIn'[q] = "pedido" => pedidoIn[q] = "pedido"
         /\ pedidoIn'[q] = "pedido" /\ Traz(a, q) => Traz(a, q)'
  BY DEF Consome
<1>f6. TipadoIn'
  BY <1>0, <1>f1, <1>f2 DEF TipadoIn, TipoSvc, TipoConta, TipoEmp
<1>2. SoQuemVive'
  BY <1>0, <1>f2 DEF SoQuemVive
<1>3. JanelasCertas'
  <2> SUFFICES ASSUME NEW b \in Apps PROVE Alcancado(b)' /\ Cedo(b)'
    BY DEF JanelasCertas
  <2>1. Alcancado(b) /\ Cedo(b)
    BY <1>0 DEF JanelasCertas
  <2>2. Alcancado(b)'
    BY <2>1, <1>f2, <1>f3 DEF Alcancado, OutrasApp, OutrosSvc
  <2>3. Cedo(b)'
    BY <2>1, <1>f2, <1>f3 DEF Cedo, OutrasApp, OutrasFilas, FasesCedo
  <2> QED
    BY <2>2, <2>3
<1>4. Conhecidos'
  <2> SUFFICES ASSUME NEW r \in Servicos, NEW b \in Apps, Conhece(r, b)' PROVE Tarde(b, r)'
    BY DEF Conhecidos
  <2>1. Conhece(r, b)
    BY <1>f2 DEF Conhece
  <2> QED
    BY <1>0, <1>f3, <2>1 DEF Conhecidos, Tarde, OutrasApp, FasesTarde
<1>5. ApertoCerto'
  BY <1>0, <1>f2 DEF ApertoCerto
<1>6. AlvoCerto'
  BY <1>0, <1>f2 DEF AlvoCerto
<1>7. SegundaSaiu'
  BY <1>0, <1>f2, <1>f3 DEF SegundaSaiu, OutrasApp
<1>8. Resposta'
  <2> SUFFICES ASSUME NEW b \in Apps, appIn'[b].fase = "espera"
               PROVE  SemFala(b)' \/ Aceito(b)' \/ Recusado(b)'
    BY DEF Resposta
  <2>1. b # a /\ appIn'[b] = appIn[b]
    BY <1>f3 DEF OutrasApp
  <2>2. \A r \in Servicos : Conhece(r, b)' => Conhece(r, b)
    BY <1>f2 DEF Conhece
  <2>3. Alheia(b)
    BY <1>f2, <1>f3, <2>1, <2>2 DEF Alheia, OutrasFilas, Vive
  <2> QED
    BY <1>0, <2>1, <2>3, RespostaDe DEF Resposta
<1>9. Noticia'
  <2> SUFFICES ASSUME NEW r \in Servicos, NEW b \in Apps, svcIn'[r].vaga = b,
                      appIn'[b].fase # "saiu", svcIn'[r].sabido
               PROVE  AvisoACaminho(r, b)'
    BY DEF Noticia
  <2>1. svcIn[r].vaga = b /\ svcIn[r].sabido /\ appIn[b].fase # "saiu"
    BY <1>f2, <1>f3 DEF OutrasApp
  <2>2. AvisoACaminho(r, b)
    BY <1>0, <2>1 DEF Noticia
  <2>3. CASE b # a
    BY <1>f2, <1>f3, <2>2, <2>3 DEF AvisoACaminho, OutrasApp, OutrasFilas
  <2>4. CASE b = a
    <3>1. CASE appIn[a].sabido \/ \E m \in ToSet(filaIn[a]) : m.tipo = "gatilho"
      BY <1>f4, <2>4, <3>1 DEF AvisoACaminho
    <3>2. CASE ~(appIn[a].sabido \/ \E m \in ToSet(filaIn[a]) : m.tipo = "gatilho")
      BY <1>f2, <2>2, <2>4, <3>2 DEF AvisoACaminho
    <3> QED
      BY <3>1, <3>2
  <2> QED
    BY <2>3, <2>4
<1>10. SemFechos'
  <2> SUFFICES ASSUME contaIn'.fechos = 0, NEW r \in Servicos PROVE Fiel(r)'
    BY DEF SemFechos
  <2>1. Fiel(r)
    BY <1>0, <1>f2 DEF SemFechos
  <2> QED
    BY <1>f2, <1>f3, <2>1 DEF Fiel, OutrasApp
<1>11. TipoPedido'
  OBVIOUS
<1>12. UmaPorServico'
  BY <1>0, <1>f2, <1>f3 DEF UmaPorServico, Ligado, Vive, OutrasApp
<1>13. NadaSePerdeCalado'
  <2> SUFFICES ASSUME NEW q \in Quem
               PROVE  /\ pedidoIn'[q] = "perdido" => contaIn'.fechos > 0
                      /\ pedidoIn'[q] = "pedido" => Carrega(q)'
    BY DEF NadaSePerdeCalado
  <2>1. pedidoIn'[q] = "perdido" => contaIn'.fechos > 0
    BY <1>0, <1>f2, <1>f5 DEF NadaSePerdeCalado
  <2>2. ASSUME pedidoIn'[q] = "pedido" PROVE Carrega(q)'
    <3>1. Carrega(q)
      BY <1>0, <1>f5, <2>2 DEF NadaSePerdeCalado
    <3>2. \A b \in Apps : appIn[b].fase \in {"espera", "janela"} /\ Traz(b, q)
                           => appIn'[b].fase \in {"espera", "janela"} /\ Traz(b, q)'
      <4> SUFFICES ASSUME NEW b \in Apps, appIn[b].fase \in {"espera", "janela"}, Traz(b, q)
                   PROVE  appIn'[b].fase \in {"espera", "janela"} /\ Traz(b, q)'
        OBVIOUS
      <4>1. CASE b # a
        BY <1>f3, <4>1 DEF Traz, OutrasApp, OutrasFilas
      <4>2. CASE b = a
        BY <1>f3, <1>f5, <2>2, <4>2
      <4> QED
        BY <4>1, <4>2
    <3>3. \A r \in Servicos : Vive(r) /\ empIn[r][q].fase # "fora" => Vive(r)' /\ empIn'[r][q].fase # "fora"
      BY <1>f2 DEF Vive
    <3> QED
      BY <3>1, <3>2, <3>3, CarregaFica
  <2> QED
    BY <2>1, <2>2
<1> QED
  BY <1>f1, <1>f2, <1>f3, <1>f4, <1>f5, <1>f6, <1>2, <1>3, <1>4, <1>5, <1>6, <1>7, <1>8, <1>9, <1>10, <1>11, <1>12, <1>13 DEF InvInstancia

LEMMA AppNova ==
  ASSUME TipoApp, NEW a \in Apps, NEW p \in Janelas, appIn' = [appIn EXCEPT ![a] = p]
  PROVE  TipoApp' /\ appIn'[a] = p /\ OutrasApp(a)
  BY DEF TipoApp, OutrasApp

LEMMA PedidoNovo ==
  ASSUME TipoPedido, NEW d \in Quem \ {"atalho"}, NEW x \in {"aberto", "descartado"},
         pedidoIn' = [pedidoIn EXCEPT ![d] = x]
  PROVE  /\ TipoPedido' /\ pedidoIn'[d] = x
         /\ \A q \in Quem : q # d => pedidoIn'[q] = pedidoIn[q]
  BY DEF TipoPedido

\* cli.ler: one message.
LEMMA LerInGuarda ==
  ASSUME InvInstancia, NEW a \in Apps, LerIn(a)
  PROVE  InvInstancia'
<1> DEFINE m == Head(filaIn[a])
           g == Tail(filaIn[a])
<1>1. TipoApp /\ TipoFila /\ TipoPedido /\ JanelasCertas
  BY DEF InvInstancia, TipadoIn
<1>2. /\ sockIn' = sockIn /\ svcIn' = svcIn /\ empIn' = empIn /\ contaIn' = contaIn
      /\ appIn[a].fase = "janela" /\ filaIn[a] # <<>> /\ filaIn' = [filaIn EXCEPT ![a] = g]
      /\ appIn[a] \in Janelas /\ filaIn[a] \in Seq(Mensagens)
  BY <1>1 DEF LerIn, TipoApp, TipoFila
<1>3. m \in Mensagens /\ g \in Seq(Mensagens) /\ ToSet(filaIn[a]) = {m} \union ToSet(g)
  BY <1>2, FilaFrente
<1>4. /\ m.tipo = "gatilho" =>
           /\ appIn' = [appIn EXCEPT ![a].sabido = TRUE, ![a].tecla = m.tecla]
           /\ pedidoIn' = pedidoIn
      /\ m.tipo = "abrir" =>
           /\ appIn' = IF Descarta(a) THEN appIn ELSE [appIn EXCEPT ![a].msgs = Append(@, m)]
           /\ pedidoIn' = [pedidoIn EXCEPT ![m.de] = IF Descarta(a) THEN "descartado" ELSE @]
      /\ m.tipo \notin {"gatilho", "abrir"} => appIn' = appIn /\ pedidoIn' = pedidoIn
  BY DEF LerIn
<1> HIDE DEF m, g
<1>5. TipoFila' /\ filaIn'[a] = g /\ OutrasFilas(a)
  BY <1>1, <1>2, <1>3, FilaNova
<1>6. Len(appIn[a].msgs) <= CapMsgs /\ Len(appIn[a].msgs) \in Nat /\ appIn[a].msgs \in Seq(Pedidos)
  BY <1>1, <1>2 DEF JanelasCertas, Cedo, Janelas
<1>7. \A q \in Quem : Traz(a, q) => \/ m.tipo = "abrir" /\ m.de = q
                                    \/ \E k \in ToSet(g) \union ToSet(appIn[a].msgs) : k.tipo = "abrir" /\ k.de = q
  BY <1>3 DEF Traz
<1>8. CASE m.tipo = "gatilho"
  <2> DEFINE p == [appIn[a] EXCEPT !.sabido = TRUE, !.tecla = m.tecla]
  <2>1. m.tecla \in TextosIn
    BY <1>3 DEF Mensagens
  <2>2. p \in Janelas /\ p.sabido /\ p.fase = appIn[a].fase /\ p.con = appIn[a].con
        /\ p.msgs = appIn[a].msgs
    BY <1>2, <2>1 DEF Janelas
  <2>3. appIn' = [appIn EXCEPT ![a] = p] /\ pedidoIn' = pedidoIn
    BY <1>1, <1>4, <1>8 DEF TipoApp
  <2> HIDE DEF p
  <2>4. TipoApp' /\ appIn'[a] = p /\ OutrasApp(a)
    BY <1>1, <2>2, <2>3, AppNova
  <2>5. \A q \in Quem : Traz(a, q) => Traz(a, q)'
    BY <1>5, <1>7, <1>8, <2>2, <2>4 DEF Traz
  <2>6. Consome(a)
    BY <1>2, <1>5, <1>6, <2>2, <2>3, <2>4, <2>5 DEF Consome
  <2>7. TipoPedido'
    BY <1>1, <2>3 DEF TipoPedido
  <2> QED
    BY <1>5, <2>4, <2>6, <2>7, ConsomeGuarda
<1>9. CASE m.tipo = "abrir" /\ Descarta(a)
  <2>1. appIn' = appIn /\ pedidoIn' = [pedidoIn EXCEPT ![m.de] = "descartado"]
    BY <1>4, <1>9
  <2>2. m.de \in Quem \ {"atalho"}
    BY <1>3, <1>9 DEF Mensagens
  <2>3. /\ TipoPedido' /\ pedidoIn'[m.de] = "descartado"
        /\ \A q \in Quem : q # m.de => pedidoIn'[q] = pedidoIn[q]
    BY <1>1, <2>1, <2>2, PedidoNovo
  <2>4. \A q \in Quem : q # m.de /\ Traz(a, q) => Traz(a, q)'
    BY <1>5, <1>7, <2>1 DEF Traz
  <2>5. \A k \in ToSet(filaIn[a]) : k.tipo = "gatilho" => k \in ToSet(g)
    BY <1>3, <1>9
  <2>6. Consome(a)
    BY <1>2, <1>5, <1>6, <2>1, <2>3, <2>4, <2>5 DEF Consome, OutrasApp
  <2>7. TipoApp'
    BY <1>1, <2>1 DEF TipoApp
  <2> QED
    BY <1>5, <2>3, <2>6, <2>7, ConsomeGuarda
<1>10. CASE m.tipo = "abrir" /\ ~Descarta(a)
  <2> DEFINE h == Append(appIn[a].msgs, m)
             p == [appIn[a] EXCEPT !.msgs = h]
  <2>1. m \in Pedidos
    BY <1>3, <1>10 DEF Pedidos
  <2>2. h \in Seq(Pedidos) /\ ToSet(h) = ToSet(appIn[a].msgs) \union {m}
    BY <1>6, <2>1, FilaMais
  <2>3. Len(h) = Len(appIn[a].msgs) + 1
    BY <1>6, <2>1, AppendProperties
  <2>4. Len(h) <= CapMsgs
    BY <1>6, <1>10, <2>3, InstanciaAssumption DEF Descarta
  <2>5. appIn' = [appIn EXCEPT ![a] = p] /\ pedidoIn' = [pedidoIn EXCEPT ![m.de] = @]
    BY <1>1, <1>4, <1>10 DEF TipoApp
  <2> HIDE DEF h
  <2>6. p \in Janelas /\ p.msgs = h /\ p.fase = appIn[a].fase /\ p.con = appIn[a].con
        /\ p.sabido = appIn[a].sabido
    BY <1>2, <2>2 DEF Janelas
  <2> HIDE DEF p
  <2>7. TipoApp' /\ appIn'[a] = p /\ OutrasApp(a)
    BY <1>1, <2>5, <2>6, AppNova
  <2>8. pedidoIn' = pedidoIn
    BY <1>1, <2>5 DEF TipoPedido
  <2>9. \A q \in Quem : Traz(a, q) => Traz(a, q)'
    BY <1>5, <1>7, <2>2, <2>6, <2>7 DEF Traz
  <2>10. \A k \in ToSet(filaIn[a]) : k.tipo = "gatilho" => k \in ToSet(g)
    BY <1>3, <1>10
  <2>11. Consome(a)
    BY <1>2, <1>5, <2>4, <2>6, <2>7, <2>8, <2>9, <2>10 DEF Consome
  <2>12. TipoPedido'
    BY <1>1, <2>8 DEF TipoPedido
  <2> QED
    BY <1>5, <2>7, <2>11, <2>12, ConsomeGuarda
<1>11. CASE m.tipo \notin {"gatilho", "abrir"}
  <2>1. appIn' = appIn /\ pedidoIn' = pedidoIn
    BY <1>4, <1>11
  <2>2. \A q \in Quem : Traz(a, q) => Traz(a, q)'
    BY <1>5, <1>7, <1>11, <2>1 DEF Traz
  <2>3. \A k \in ToSet(filaIn[a]) : k.tipo = "gatilho" => k \in ToSet(g)
    BY <1>3, <1>11
  <2>4. Consome(a)
    BY <1>2, <1>5, <1>6, <2>1, <2>2, <2>3 DEF Consome, OutrasApp
  <2>5. TipoApp' /\ TipoPedido'
    BY <1>1, <2>1 DEF TipoApp, TipoPedido
  <2> QED
    BY <1>5, <2>4, <2>5, ConsomeGuarda
<1> QED
  BY <1>8, <1>9, <1>10, <1>11

\* The loop of main.go opens what was asked.
LEMMA DrenarGuarda ==
  ASSUME InvInstancia, NEW a \in Apps, Drenar(a)
  PROVE  InvInstancia'
<1> DEFINE m == Head(appIn[a].msgs)
           g == Tail(appIn[a].msgs)
           p == [appIn[a] EXCEPT !.msgs = g]
<1>1. TipoApp /\ TipoFila /\ TipoPedido /\ JanelasCertas
  BY DEF InvInstancia, TipadoIn
<1>2. /\ sockIn' = sockIn /\ svcIn' = svcIn /\ empIn' = empIn /\ contaIn' = contaIn /\ filaIn' = filaIn
      /\ appIn[a].fase = "janela" /\ appIn[a].msgs # <<>> /\ appIn[a] \in Janelas
      /\ pedidoIn' = [pedidoIn EXCEPT ![m.de] = "aberto"]
      /\ appIn' = [appIn EXCEPT ![a] = p]
  BY <1>1 DEF Drenar, TipoApp
<1>3. appIn[a].msgs \in Seq(Pedidos) /\ Len(appIn[a].msgs) <= CapMsgs
  BY <1>1, <1>2 DEF JanelasCertas, Cedo, Janelas
<1>4. m \in Pedidos /\ g \in Seq(Pedidos) /\ ToSet(appIn[a].msgs) = {m} \union ToSet(g)
  BY <1>2, <1>3, FilaFrente
<1>5. Len(g) <= CapMsgs
  <2>1. Len(g) = Len(appIn[a].msgs) - 1 /\ Len(appIn[a].msgs) \in Nat /\ CapMsgs \in Nat
    BY <1>2, <1>3, HeadTailProperties, LenProperties, InstanciaAssumption
  <2> QED
    BY <1>3, <2>1
<1> HIDE DEF m, g
<1>6. p \in Janelas /\ p.msgs = g /\ p.fase = appIn[a].fase /\ p.con = appIn[a].con
      /\ p.sabido = appIn[a].sabido
  BY <1>2, <1>4 DEF Janelas
<1> HIDE DEF p
<1>7. TipoApp' /\ appIn'[a] = p /\ OutrasApp(a)
  BY <1>1, <1>2, <1>6, AppNova
<1>8. m.de \in Quem \ {"atalho"}
  BY <1>4 DEF Pedidos, Mensagens
<1>9. /\ TipoPedido' /\ pedidoIn'[m.de] = "aberto"
      /\ \A q \in Quem : q # m.de => pedidoIn'[q] = pedidoIn[q]
  BY <1>1, <1>2, <1>8, PedidoNovo
<1>10. \A q \in Quem : q # m.de /\ Traz(a, q) => Traz(a, q)'
  BY <1>2, <1>4, <1>6, <1>7 DEF Traz
<1>11. Consome(a)
  BY <1>2, <1>5, <1>6, <1>7, <1>9, <1>10 DEF Consome, OutrasFilas
<1>12. TipoFila'
  BY <1>1, <1>2 DEF TipoFila
<1> QED
  BY <1>7, <1>9, <1>11, <1>12, ConsomeGuarda

\* The window is closed: what it had not opened is not opened.
LEMMA FecharGuarda ==
  ASSUME InvInstancia, NEW a \in Apps, FecharJanela(a)
  PROVE  InvInstancia'
<1>0. /\ TipadoIn /\ SoQuemVive /\ JanelasCertas /\ Conhecidos /\ ApertoCerto /\ AlvoCerto
      /\ SegundaSaiu /\ Resposta /\ Noticia /\ SemFechos /\ TipoPedido /\ UmaPorServico /\ NadaSePerdeCalado
  BY DEF InvInstancia
<1>f1. TipoSvc /\ TipoEmp /\ TipoApp /\ TipoFila /\ TipoConta
  BY <1>0 DEF TipadoIn
<1>f2. UNCHANGED <<sockIn, svcIn, empIn>>
  BY DEF FecharJanela
<1>f3. /\ TipoApp' /\ OutrasApp(a) /\ appIn'[a].fase = "saiu" /\ appIn'[a].con = appIn[a].con
       /\ appIn'[a].msgs = appIn[a].msgs /\ appIn'[a].sabido = appIn[a].sabido
  <2>1. Fase(a, "saiu") /\ "saiu" \in FasesTarde
    BY DEF FecharJanela, FasesTarde
  <2> QED
    BY <1>f1, <2>1, FaseNova
<1>f4. TipoFila' /\ filaIn'[a] = <<>> /\ OutrasFilas(a)
  <2>1. filaIn' = [filaIn EXCEPT ![a] = <<>>] /\ <<>> \in Seq(Mensagens)
    BY EmptySeq DEF FecharJanela
  <2> QED
    BY <1>f1, <2>1, FilaNova
<1>f5. TipoConta' /\ contaIn'.fechos # 0 /\ contaIn'.fechos > 0
  BY <1>f1 DEF TipoConta, FecharJanela
<1>f6. pedidoIn' = [q \in Quem |-> IF Traz(a, q) THEN "fechou" ELSE pedidoIn[q]]
  BY DEF FecharJanela
<1>f7. \A q \in Quem : Traz(a, q) => q # "atalho"
  <2> SUFFICES ASSUME NEW q \in Quem, NEW m \in ToSet(filaIn[a]) \union ToSet(appIn[a].msgs),
                      m.tipo = "abrir", m.de = q
               PROVE  q # "atalho"
    BY DEF Traz
  <2>1. filaIn[a] \in Seq(Mensagens) /\ appIn[a].msgs \in Seq(Pedidos)
    BY <1>f1 DEF TipoFila, TipoApp, Janelas
  <2>2. ToSet(filaIn[a]) \subseteq Mensagens /\ ToSet(appIn[a].msgs) \subseteq Pedidos
    BY <2>1, LenProperties DEF ToSet
  <2>3. m \in Mensagens
    BY <2>2 DEF Pedidos
  <2> QED
    BY <2>3 DEF Mensagens
<1>f8. TipadoIn'
  BY <1>0, <1>f1, <1>f2, <1>f3, <1>f4, <1>f5 DEF TipadoIn, TipoSvc, TipoEmp
<1>2. SoQuemVive'
  BY <1>0, <1>f2 DEF SoQuemVive
<1>3. JanelasCertas'
  <2> SUFFICES ASSUME NEW b \in Apps PROVE Alcancado(b)' /\ Cedo(b)'
    BY DEF JanelasCertas
  <2>1. Alcancado(b) /\ Cedo(b)
    BY <1>0 DEF JanelasCertas
  <2>2. Alcancado(b)'
    BY <2>1, <1>f2, <1>f3, <1>f4 DEF Alcancado, OutrasApp, OutrosSvc
  <2>3. Cedo(b)'
    BY <2>1, <1>f2, <1>f3, <1>f4 DEF Cedo, OutrasApp, OutrasFilas, FasesCedo
  <2> QED
    BY <2>2, <2>3
<1>4. Conhecidos'
  <2> SUFFICES ASSUME NEW r \in Servicos, NEW b \in Apps, Conhece(r, b)' PROVE Tarde(b, r)'
    BY DEF Conhecidos
  <2>1. Conhece(r, b)
    BY <1>f2 DEF Conhece
  <2> QED
    BY <1>0, <1>f3, <2>1 DEF Conhecidos, Tarde, OutrasApp, FasesTarde
<1>5. ApertoCerto'
  BY <1>0, <1>f2 DEF ApertoCerto
<1>6. AlvoCerto'
  BY <1>0, <1>f2 DEF AlvoCerto
<1>7. SegundaSaiu'
  BY <1>0, <1>f2, <1>f3 DEF SegundaSaiu, OutrasApp
<1>8. Resposta'
  <2> SUFFICES ASSUME NEW b \in Apps, appIn'[b].fase = "espera"
               PROVE  SemFala(b)' \/ Aceito(b)' \/ Recusado(b)'
    BY DEF Resposta
  <2>1. b # a /\ appIn'[b] = appIn[b]
    BY <1>f3 DEF OutrasApp
  <2>2. \A r \in Servicos : Conhece(r, b)' => Conhece(r, b)
    BY <1>f2 DEF Conhece
  <2>3. Alheia(b)
    BY <1>f2, <1>f4, <1>f5, <2>1, <2>2 DEF Alheia, OutrasFilas, Vive
  <2> QED
    BY <1>0, <2>1, <2>3, RespostaDe DEF Resposta
<1>9. Noticia'
  <2> SUFFICES ASSUME NEW r \in Servicos, NEW b \in Apps, svcIn'[r].vaga = b,
                      appIn'[b].fase # "saiu", svcIn'[r].sabido
               PROVE  AvisoACaminho(r, b)'
    BY DEF Noticia
  <2>1. b # a
    BY <1>f3
  <2>2. appIn'[b] = appIn[b] /\ filaIn'[b] = filaIn[b]
    BY <1>f3, <1>f4, <2>1 DEF OutrasApp, OutrasFilas
  <2>3. AvisoACaminho(r, b)
    BY <1>0, <1>f2, <2>2 DEF Noticia
  <2> QED
    BY <1>f2, <2>2, <2>3 DEF AvisoACaminho
<1>10. SemFechos'
  BY <1>f5 DEF SemFechos
<1>11. TipoPedido'
  <2>1. ~Traz(a, "atalho")
    BY <1>f7 DEF Quem
  <2> QED
    BY <1>0, <1>f6, <2>1 DEF TipoPedido, Quem
<1>12. UmaPorServico'
  <2> SUFFICES ASSUME NEW b \in Apps, appIn'[b].fase = "janela", Ligado(b)'
               PROVE  svcIn'[appIn'[b].con].vaga = b
    BY DEF UmaPorServico
  <2>1. b # a /\ appIn'[b] = appIn[b]
    BY <1>f3 DEF OutrasApp
  <2> QED
    BY <1>0, <1>f2, <2>1 DEF UmaPorServico, Ligado, Vive
<1>13. NadaSePerdeCalado'
  <2> SUFFICES ASSUME NEW q \in Quem
               PROVE  /\ pedidoIn'[q] = "perdido" => contaIn'.fechos > 0
                      /\ pedidoIn'[q] = "pedido" => Carrega(q)'
    BY DEF NadaSePerdeCalado
  <2>1. contaIn'.fechos > 0
    BY <1>f5
  <2>2. ASSUME pedidoIn'[q] = "pedido" PROVE Carrega(q)'
    <3>1. pedidoIn[q] = "pedido" /\ ~Traz(a, q)
      BY <1>f6, <2>2
    <3>2. Carrega(q)
      BY <1>0, <3>1 DEF NadaSePerdeCalado
    <3>3. \A b \in Apps : appIn[b].fase \in {"espera", "janela"} /\ Traz(b, q)
                           => appIn'[b].fase \in {"espera", "janela"} /\ Traz(b, q)'
      BY <1>f3, <1>f4, <3>1 DEF Traz, OutrasApp, OutrasFilas
    <3>4. \A r \in Servicos : Vive(r) /\ empIn[r][q].fase # "fora" => Vive(r)' /\ empIn'[r][q].fase # "fora"
      BY <1>f2 DEF Vive
    <3> QED
      BY <3>2, <3>3, <3>4, CarregaFica
  <2> QED
    BY <2>1, <2>2
<1> QED
  BY <1>f1, <1>f2, <1>f3, <1>f4, <1>f5, <1>f6, <1>f7, <1>f8, <1>2, <1>3, <1>4, <1>5, <1>6, <1>7, <1>8, <1>9, <1>10, <1>11, <1>12, <1>13 DEF InvInstancia

\* mandarParaApp writes.
LEMMA EnviarVaiGuarda ==
  ASSUME InvInstancia, NEW s \in Servicos, NEW q \in Quem, NEW a, a = empIn[s][q].alvo, Enviar(s, q), appIn[a].fase # "saiu"
  PROVE  InvInstancia'
<1>0. /\ TipadoIn /\ SoQuemVive /\ JanelasCertas /\ Conhecidos /\ ApertoCerto /\ AlvoCerto
      /\ SegundaSaiu /\ Resposta /\ Noticia /\ SemFechos /\ TipoPedido /\ UmaPorServico /\ NadaSePerdeCalado
  BY DEF InvInstancia
<1>f1. TipoSvc /\ TipoEmp /\ TipoApp /\ TipoFila /\ TipoConta
  BY <1>0 DEF TipadoIn
<1>f2. /\ UNCHANGED <<sockIn, svcIn, appIn, pedidoIn, contaIn>>
       /\ Vive(s) /\ empIn[s][q].fase = "manda" /\ empIn[s][q].alvo = a
  BY DEF Enviar
<1>f3. /\ a \in Apps /\ appIn[a].con = s /\ appIn[a].fase \in {"espera", "janela"}
       /\ a \in svcIn[s].prontos /\ Conhece(s, a)
  <2>1. a \in svcIn[s].prontos
    BY <1>0, <1>f2 DEF AlvoCerto
  <2>2. a \in Apps
    BY <1>f1, <2>1 DEF TipoSvc, Processos
  <2>3. Conhece(s, a)
    BY <2>1 DEF Conhece
  <2>4. Tarde(a, s)
    BY <1>0, <2>2, <2>3 DEF Conhecidos
  <2> QED
    BY <2>1, <2>2, <2>3, <2>4 DEF Tarde, FasesTarde
<1>f4. /\ OutrosEmp(s, q) /\ TipoEmp'
       /\ empIn'[s][q].fase = "fora" /\ empIn'[s][q].alvo = Ninguem
  <2> DEFINE e == ParadoIn
  <2>1. empIn' = [empIn EXCEPT ![s][q] = e]
    BY DEF Enviar
  <2>2. e \in Empurroes /\ e.fase = "fora" /\ e.alvo = Ninguem
    BY ParadoTipado
  <2> HIDE DEF e
  <2>3. TipoEmp'
    BY <1>f1, <2>1, <2>2 DEF TipoEmp
  <2> QED
    BY <1>f1, <2>1, <2>2, <2>3, EmpNovo
<1>f5. /\ TipoFila' /\ OutrasFilas(a) /\ filaIn'[a] # <<>> /\ ToSet(filaIn[a]) \subseteq ToSet(filaIn'[a])
       /\ filaIn[a] # <<>> => Head(filaIn'[a]) = Head(filaIn[a])
       /\ q = "atalho" => \E m \in ToSet(filaIn'[a]) : m.tipo = "gatilho"
       /\ q # "atalho" => \E m \in ToSet(filaIn'[a]) : m.tipo = "abrir" /\ m.de = q
  <2> DEFINE m == Msg(IF q = "atalho" THEN "gatilho" ELSE "abrir", empIn[s][q].tecla, q)
             g == Append(filaIn[a], m)
  <2>1. filaIn' = [filaIn EXCEPT ![a] = g]
    BY <1>f2 DEF Enviar
  <2>2. filaIn[a] \in Seq(Mensagens) /\ empIn[s][q].tecla \in TextosIn
    BY <1>f1, <1>f3 DEF TipoFila, TipoEmp, Empurroes
  <2>3. /\ m \in Mensagens /\ m.de = q
        /\ m.tipo = IF q = "atalho" THEN "gatilho" ELSE "abrir"
    BY <2>2 DEF Msg, Mensagens
  <2> HIDE DEF m
  <2>4. /\ g \in Seq(Mensagens) /\ g # <<>> /\ ToSet(g) = ToSet(filaIn[a]) \union {m}
        /\ filaIn[a] # <<>> => Head(g) = Head(filaIn[a])
    BY <2>2, <2>3, FilaMais
  <2> HIDE DEF g
  <2>5. TipoFila' /\ filaIn'[a] = g /\ OutrasFilas(a)
    BY <1>f1, <1>f3, <2>1, <2>4, FilaNova
  <2> QED
    BY <2>3, <2>4, <2>5
<1>f6. TipadoIn'
  BY <1>0, <1>f1, <1>f2, <1>f4, <1>f5 DEF TipadoIn, TipoSvc, TipoApp, TipoConta
<1>2. SoQuemVive'
  BY <1>0, <1>f2, <1>f4 DEF SoQuemVive, OutrosEmp, Vive
<1>3. JanelasCertas'
  <2> SUFFICES ASSUME NEW b \in Apps PROVE Alcancado(b)' /\ Cedo(b)'
    BY DEF JanelasCertas
  <2>1. Alcancado(b) /\ Cedo(b) /\ appIn'[b] = appIn[b]
    BY <1>0, <1>f2 DEF JanelasCertas
  <2>2. Alcancado(b)'
    BY <1>f2, <2>1 DEF Alcancado
  <2>3. Cedo(b)'
    BY <1>f3, <1>f5, <2>1 DEF Cedo, OutrasFilas, FasesCedo
  <2> QED
    BY <2>2, <2>3
<1>4. Conhecidos'
  <2> SUFFICES ASSUME NEW r \in Servicos, NEW b \in Apps, Conhece(r, b)' PROVE Tarde(b, r)'
    BY DEF Conhecidos
  <2>1. Conhece(r, b)
    BY <1>f2, <1>f4, InstanciaAssumption DEF Conhece, OutrosEmp
  <2> QED
    BY <1>0, <1>f2, <2>1 DEF Conhecidos, Tarde
<1>5. ApertoCerto'
  BY <1>0, <1>f2 DEF ApertoCerto
<1>6. AlvoCerto'
  BY <1>0, <1>f2, <1>f4 DEF AlvoCerto, OutrosEmp
<1>7. SegundaSaiu'
  BY <1>0, <1>f2, <1>f4 DEF SegundaSaiu, OutrosEmp, Quem
<1>8. Resposta'
  <2> SUFFICES ASSUME NEW b \in Apps, appIn'[b].fase = "espera"
               PROVE  SemFala(b)' \/ Aceito(b)' \/ Recusado(b)'
    BY DEF Resposta
  <2>1. SemFala(b) \/ Aceito(b) \/ Recusado(b)
    BY <1>0, <1>f2 DEF Resposta
  <2>2. CASE b # a
    <3>1. \A r \in Servicos : Conhece(r, b)' => Conhece(r, b)
      BY <1>f2, <1>f4, InstanciaAssumption DEF Conhece, OutrosEmp
    <3>2. Alheia(b)
      BY <1>f2, <1>f5, <2>2, <3>1 DEF Alheia, OutrasFilas, Vive
    <3> QED
      BY <2>1, <3>2, RespostaDe
  <2>3. CASE b = a
    <3>1. Aceito(a)
      BY <1>f2, <1>f3, <2>1, <2>3 DEF Recusado, SemFala, Conhece
    <3>2. DonaDaVaga(a)'
      BY <1>f2, <3>1 DEF DonaDaVaga, Vive, Aceito
    <3> QED
      BY <1>f5, <2>3, <3>1, <3>2 DEF Aceito
  <2> QED
    BY <2>2, <2>3
<1>9. Noticia'
  <2> SUFFICES ASSUME NEW r \in Servicos, NEW b \in Apps, svcIn'[r].vaga = b,
                      appIn'[b].fase # "saiu", svcIn'[r].sabido
               PROVE  AvisoACaminho(r, b)'
    BY DEF Noticia
  <2>1. AvisoACaminho(r, b)
    BY <1>0, <1>f2 DEF Noticia
  <2>2. ToSet(filaIn[b]) \subseteq ToSet(filaIn'[b])
    BY <1>f5 DEF OutrasFilas
  <2>3. CASE r = s /\ q = "atalho"
    <3>1. b = a => AvisoACaminho(r, b)'
      BY <1>f5, <2>3 DEF AvisoACaminho
    <3>2. CASE b # a
      BY <1>f2, <1>f3, <2>1, <2>2, <2>3, <3>2 DEF AvisoACaminho
    <3> QED
      BY <3>1, <3>2
  <2>4. CASE ~(r = s /\ q = "atalho")
    <3>1. empIn'[r]["atalho"] = empIn[r]["atalho"]
      BY <1>f4, <2>4 DEF OutrosEmp, Quem
    <3> QED
      BY <1>f2, <2>1, <2>2, <3>1 DEF AvisoACaminho
  <2> QED
    BY <2>3, <2>4
<1>10. SemFechos'
  <2> SUFFICES ASSUME contaIn'.fechos = 0, NEW r \in Servicos PROVE Fiel(r)'
    BY DEF SemFechos
  <2>1. Fiel(r)
    BY <1>0, <1>f2 DEF SemFechos
  <2> QED
    BY <1>f2, <1>f4, <2>1 DEF Fiel, OutrosEmp
<1>11. TipoPedido'
  BY <1>0, <1>f2 DEF TipoPedido
<1>12. UmaPorServico'
  BY <1>0, <1>f2 DEF UmaPorServico, Ligado, Vive
<1>13. NadaSePerdeCalado'
  <2> SUFFICES ASSUME NEW p \in Quem
               PROVE  /\ pedidoIn'[p] = "perdido" => contaIn'.fechos > 0
                      /\ pedidoIn'[p] = "pedido" => Carrega(p)'
    BY DEF NadaSePerdeCalado
  <2>1. pedidoIn'[p] = "perdido" => contaIn'.fechos > 0
    BY <1>0, <1>f2 DEF NadaSePerdeCalado
  <2>2. ASSUME pedidoIn'[p] = "pedido" PROVE Carrega(p)'
    <3>1. CASE p = q
      <4>1. q # "atalho"
        BY <1>0, <1>f2, <2>2, <3>1 DEF TipoPedido
      <4>2. Traz(a, q)'
        BY <1>f5, <4>1 DEF Traz
      <4> QED
        BY <1>f2, <1>f3, <3>1, <4>2 DEF Carrega
    <3>2. CASE p # q
      <4>1. Carrega(p)
        BY <1>0, <1>f2, <2>2 DEF NadaSePerdeCalado
      <4>2. \A b \in Apps : Traz(b, p) => Traz(b, p)'
        BY <1>f2, <1>f5 DEF Traz, OutrasFilas
      <4>3. \A r \in Servicos : Vive(r) /\ empIn[r][p].fase # "fora" => Vive(r)' /\ empIn'[r][p].fase # "fora"
        BY <1>f2, <1>f4, <3>2 DEF Vive, OutrosEmp
      <4> QED
        BY <1>f2, <4>1, <4>2, <4>3, CarregaFica
    <3> QED
      BY <3>1, <3>2
  <2> QED
    BY <2>1, <2>2
<1> QED
  BY <1>f1, <1>f2, <1>f3, <1>f4, <1>f5, <1>f6, <1>2, <1>3, <1>4, <1>5, <1>6, <1>7, <1>8, <1>9, <1>10, <1>11, <1>12, <1>13 DEF InvInstancia

LEMMA EnviarGuarda ==
  ASSUME InvInstancia, NEW s \in Servicos, NEW q \in Quem, Enviar(s, q)
  PROVE  InvInstancia'
<1> DEFINE a == empIn[s][q].alvo
<1>1. CASE appIn[a].fase # "saiu"
  <2> HIDE DEF a
  <2>1. a = empIn[s][q].alvo
    BY DEF a
  <2> QED
    BY <1>1, <2>1, EnviarVaiGuarda
<1>2. CASE appIn[a].fase = "saiu"
  <2>1. /\ Vive(s) /\ Desistir(s, q) /\ empIn[s][q].fase = "manda"
        /\ UNCHANGED <<sockIn, svcIn, appIn, filaIn, contaIn>>
    BY <1>2 DEF Enviar
  <2>2. a \in svcIn[s].prontos /\ svcIn[s].prontos \subseteq Apps
    BY <2>1 DEF InvInstancia, AlvoCerto, TipadoIn, TipoSvc, Processos
  <2>3. contaIn.fechos # 0
    <3>1. SemFechos
      BY DEF InvInstancia
    <3> QED
      BY <1>2, <2>2, <3>1 DEF SemFechos, Fiel
  <2> QED
    BY <1>2, <2>1, <2>3, DesisteGuarda
<1> QED
  BY <1>1, <1>2

-----------------------------------------------------------------------------
LEMMA ComecoInstancia == InitIn => InvInstancia
<1> SUFFICES ASSUME InitIn PROVE InvInstancia
  OBVIOUS
<1>1. PICK v \in Versoes :
        appIn = [a \in Apps |-> [fase |-> "fora", versao |-> v[a], volta |-> FALSE, con |-> Ninguem,
                                 sabido |-> FALSE, tecla |-> "", msgs |-> <<>>]]
  BY DEF InitIn
<1>2. v \in [Apps -> Nat]
  BY InstanciaAssumption
<1>3. /\ sockIn = Ninguem /\ svcIn = [s \in Servicos |-> SvcFora]
      /\ empIn = [s \in Servicos |-> [q \in Quem |-> ParadoIn]]
      /\ filaIn = [a \in Apps |-> <<>>] /\ pedidoIn = [q \in Quem |-> "nada"]
      /\ contaIn = [trocas |-> 0, mortes |-> 0, fechos |-> 0, buscas |-> 0]
  BY DEF InitIn
<1>4. SvcFora \in Processos
  BY DEF SvcFora, Processos, FasesSvc, TextosIn
<1>5. \A a \in Apps : appIn[a] \in Janelas
  BY <1>1, <1>2, EmptySeq DEF Janelas, FasesCedo, TextosIn
<1>6. TipadoIn
  <2>1. TipoSvc /\ TipoEmp
    BY <1>3, <1>4, ParadoTipado DEF TipoSvc, TipoEmp
  <2>2. TipoApp
    BY <1>1, <1>5 DEF TipoApp
  <2>3. TipoFila /\ TipoConta
    BY <1>3, EmptySeq DEF TipoFila, TipoConta
  <2> QED
    BY <1>3, <2>1, <2>2, <2>3 DEF TipadoIn
<1>7. \A s \in Servicos : /\ svcIn[s].fase = "fora" /\ svcIn[s].vaga = Ninguem /\ ~svcIn[s].pronto
                          /\ svcIn[s].prontos = {} /\ svcIn[s].aperto = "nao" /\ ~svcIn[s].sabido
                          /\ \A q \in Quem : empIn[s][q].fase = "fora" /\ empIn[s][q].alvo = Ninguem
  BY <1>3 DEF SvcFora, ParadoIn
<1>8. \A a \in Apps : /\ appIn[a].fase = "fora" /\ appIn[a].con = Ninguem /\ appIn[a].msgs = <<>>
                      /\ filaIn[a] = <<>>
  BY <1>1, <1>3
<1>9. SoQuemVive /\ ApertoCerto /\ AlvoCerto
  BY <1>7 DEF SoQuemVive, ApertoCerto, AlvoCerto
<1>10. JanelasCertas
  <2>1. Len(<<>>) = 0
    BY EmptySeq
  <2> QED
    BY <1>8, <2>1, InstanciaAssumption DEF JanelasCertas, Alcancado, Cedo
<1>11. \A s \in Servicos, a \in Apps : ~Conhece(s, a)
  BY <1>7, InstanciaAssumption DEF Conhece
<1>12. Conhecidos /\ SegundaSaiu /\ Resposta
  BY <1>7, <1>8, <1>11 DEF Conhecidos, SegundaSaiu, Resposta, Quem
<1>13. Noticia /\ SemFechos
  BY <1>7, InstanciaAssumption DEF Noticia, SemFechos, Fiel
<1>14. TipoPedido /\ NadaSePerdeCalado
  BY <1>3 DEF TipoPedido, NadaSePerdeCalado, Quem
<1>15. UmaPorServico
  BY <1>8 DEF UmaPorServico
<1> QED
  BY <1>6, <1>9, <1>10, <1>12, <1>13, <1>14, <1>15 DEF InvInstancia

LEMMA PassoInstancia ==
  ASSUME InvInstancia, [NextIn]_varsIn
  PROVE  InvInstancia'
<1>1. ASSUME NEW s \in Servicos, PassoServico(s) \/ Morrer(s) \/ Escolher(s) PROVE InvInstancia'
  <2>1. CASE Escutar(s) \/ ConferirOrfao(s) \/ RemoverOrfao(s) \/ EscutarDeNovo(s)
    BY <2>1, ServicoComeca
  <2>2. CASE ResponderOk(s)
    BY <2>2, ResponderGuarda
  <2>3. CASE Aprontar(s)
    BY <2>3, AprontarGuarda
  <2>4. CASE ContarGatilho(s)
    BY <2>4, ContarGuarda
  <2>5. CASE LiberarVaga(s)
    BY <2>5, LiberarGuarda
  <2>6. CASE AppChegou(s) \/ NaoChegou(s)
    BY <2>6, ChegarGuarda
  <2>7. CASE Morrer(s)
    BY <2>7, MorrerGuarda
  <2>8. CASE Escolher(s)
    BY <2>8, EscolherGuarda
  <2> QED
    BY <1>1, <2>1, <2>2, <2>3, <2>4, <2>5, <2>6, <2>7, <2>8 DEF PassoServico
<1>2. ASSUME NEW s \in Servicos, NEW q \in Quem, PassoEmpurra(s, q) PROVE InvInstancia'
  BY <1>2, EmpurrarGuarda, AcordarGuarda, VencerGuarda, EnviarGuarda DEF PassoEmpurra
<1>3. ASSUME NEW s \in Servicos, NEW t \in TeclasIn, GuardarGatilho(s, t) PROVE InvInstancia'
  BY <1>3, GuardarGuarda
<1>4. ASSUME NEW a \in Apps, Partir(a) \/ PassoApp(a) \/ FecharJanela(a) PROVE InvInstancia'
  <2>1. CASE Partir(a) \/ ConectarServico(a) \/ NaoSubiu(a) \/ Aguardar(a) \/ SemResposta(a)
    BY <2>1, LigarGuarda
  <2>2. CASE \E s \in Servicos : SubirServico(a, s)
    BY <2>2, SubirGuarda
  <2>3. CASE PedirPing(a)
    BY <2>3, PingGuarda
  <2>4. CASE TomarVaga(a)
    BY <2>4, TomarLivreGuarda, TomarOcupadaGuarda
  <2>5. CASE LerResposta(a)
    BY <2>5, LerRespostaGuarda
  <2>6. CASE LerIn(a)
    BY <2>6, LerInGuarda
  <2>7. CASE Drenar(a)
    BY <2>7, DrenarGuarda
  <2>8. CASE FecharJanela(a)
    BY <2>8, FecharGuarda
  <2> QED
    BY <1>4, <2>1, <2>2, <2>3, <2>4, <2>5, <2>6, <2>7, <2>8 DEF PassoApp
<1>5. CASE UNCHANGED varsIn
  <2>1. UNCHANGED <<sockIn, svcIn, empIn, appIn, filaIn, pedidoIn, contaIn>>
    BY <1>5 DEF varsIn
  <2>2. Comeco
    BY <2>1, TudoGuarda DEF Comeco
  <2>3. TipadoIn'
    BY <2>1 DEF InvInstancia, TipadoIn, TipoSvc, TipoEmp, TipoApp, TipoFila, TipoConta
  <2> QED
    BY <2>2, <2>3, ComecoGuarda
<1> QED
  BY <1>1, <1>2, <1>3, <1>4, <1>5 DEF NextIn

\* What holds of the windows and the service at any moment, from which the properties follow.
THEOREM InstanciaInvariante == SpecIn => []InvInstancia
<1> QED
  BY ComecoInstancia, PassoInstancia, PTL DEF SpecIn

\* Who reads a place, a key, a connection or a queue of requests finds one of those there
\* are: a service's window is a window, and the queue is never beyond its capacity.
THEOREM InstanciaTipos == SpecIn => []TiposIn
<1>1. InvInstancia => TiposIn
  <2> SUFFICES ASSUME InvInstancia PROVE TiposIn
    OBVIOUS
  <2>1. TipadoIn /\ JanelasCertas
    BY DEF InvInstancia
  <2>2. \A s \in Servicos : svcIn[s].vaga \in Apps \union {Ninguem} /\ svcIn[s].gatilho \in TeclasIn \union {""}
    BY <2>1 DEF TipadoIn, TipoSvc, Processos, TextosIn
  <2>3. \A a \in Apps : appIn[a].con \in Servicos \union {Ninguem} /\ Len(appIn[a].msgs) <= CapMsgs
    BY <2>1 DEF TipadoIn, TipoApp, Janelas, JanelasCertas, Cedo
  <2> QED
    BY <2>1, <2>2, <2>3 DEF TipadoIn, TiposIn
<1> QED
  BY <1>1, InstanciaInvariante, PTL

\* What a window reads as the answer is the answer, a service has one window, a request is
\* lost only with the window it was for, and the news of the key reaches the window,
\* whichever of the two came first.
THEOREM InstanciaCumpre == SpecIn => []InstanciaCerta
<1>1. InvInstancia => InstanciaCerta
  <2> SUFFICES ASSUME InvInstancia PROVE InstanciaCerta
    OBVIOUS
  <2>1. TipadoIn /\ Resposta /\ Noticia /\ UmaPorServico /\ NadaSePerdeCalado /\ AlvoCerto
    BY DEF InvInstancia
  <2>2. ApertoDeMao
    <3> SUFFICES ASSUME NEW a \in Apps, appIn[a].fase = "espera", filaIn[a] # <<>>
                 PROVE  Head(filaIn[a]).tipo \in {"ok", "ocupado"}
      BY DEF ApertoDeMao
    <3>1. Aceito(a) \/ Recusado(a)
      BY <2>1 DEF Resposta, SemFala
    <3> QED
      BY <3>1, Unica DEF Aceito, Recusado
  <2>3. NoticiaChega
    <3> SUFFICES ASSUME NEW a \in Apps, appIn[a].fase = "janela", Ligado(a), NEW s, s = appIn[a].con,
                        Sossego(s, a), svcIn[s].sabido
                 PROVE  appIn[a].sabido
      BY DEF NoticiaChega
    <3>1. svcIn[s].vaga = a /\ s \in Servicos
      BY <2>1 DEF UmaPorServico, Ligado, Vive
    <3>2. AvisoACaminho(s, a)
      BY <2>1, <3>1 DEF Noticia
    <3>3. empIn[s]["atalho"].alvo = Ninguem
      BY <2>1, <3>1 DEF AlvoCerto, Sossego, Quem
    <3>4. ToSet(filaIn[a]) = {}
      BY DEF Sossego, ToSet
    <3> QED
      BY <3>2, <3>3, <3>4, InstanciaAssumption DEF AvisoACaminho, Sossego
  <2> QED
    BY <2>1, <2>2, <2>3 DEF InstanciaCerta
<1> QED
  BY <1>1, InstanciaInvariante, PTL
-----------------------------------------------------------------------------
(***************************************************************************)
(* AtalhoGlobal: the key that is told is the key that is bound, and the    *)
(* loop rests as the file says.                                            *)
(***************************************************************************)
ChavesAg == TeclasAg \union {""}
SinaisAg == ChavesAg \union {"Activated", "Closed"}

TipoLaco ==
  lacoAg \in [modo : {"servico", "app"},
              fase : {"topo", "parado", "registra", "dorme", "vivo", "solta"},
              mudou : BOOLEAN, sabido : BOOLEAN, tecla : ChavesAg]
TipoSessao == sessaoAg \in [viva : BOOLEAN, tecla : ChavesAg, sinais : Seq(SinaisAg)]
NovasAg == {<<>>} \union {<<t>> : t \in ChavesAg}
TipoObjeto ==
  objetoAg \in [fio : BOOLEAN, mudou : NovasAg, caiu : BOOLEAN,
                parar : BOOLEAN, pedidos : 0..1, atende : BOOLEAN, velhos : Nat]
TipoIni == iniAg \in [atalho : BOOLEAN, auto : {"nunca", "sim", "nao"}, avisar : BOOLEAN]

\* A session that ended, that was told to end, or whose goroutine left, is not alive.
FimDaSessao ==
  sessaoAg.viva =>
    /\ ~objetoAg.parar /\ ~objetoAg.caiu
    /\ \A i \in 1..Len(sessaoAg.sinais) : sessaoAg.sinais[i] # "Closed"

\* While the loop holds a session that fell, the news of it is on its way.
QuedaACaminho ==
  Servico /\ lacoAg.fase = "vivo" /\ ~objetoAg.caiu /\ ~sessaoAg.viva =>
    \E i \in 1..Len(sessaoAg.sinais) : sessaoAg.sinais[i] = "Closed"

\* Only a loop that holds a session has one, and told a key.
SoVivo == Servico /\ lacoAg.fase # "vivo" => lacoAg.tecla = "" /\ ~sessaoAg.viva

\* A piece of news about the key is the last: none comes after it.
UltimaNoticia(i) ==
  /\ i \in 1..Len(sessaoAg.sinais) /\ sessaoAg.sinais[i] \in ChavesAg
  /\ \A j \in 1..Len(sessaoAg.sinais) : j > i => sessaoAg.sinais[j] \notin ChavesAg
SemNoticia == \A j \in 1..Len(sessaoAg.sinais) : sessaoAg.sinais[j] \notin ChavesAg

\* Of the signals, of the change not read and of what was told, the last one of the
\* way has the key that is bound now.
TeclaACaminho ==
  Servico /\ lacoAg.fase = "vivo" /\ sessaoAg.viva =>
    /\ \A i \in 1..Len(sessaoAg.sinais) : UltimaNoticia(i) => sessaoAg.sinais[i] = sessaoAg.tecla
    /\ SemNoticia => IF objetoAg.mudou = <<>> THEN lacoAg.tecla = sessaoAg.tecla
                     ELSE objetoAg.mudou = <<sessaoAg.tecla>>

\* What the loop is about to do is what the file says, or a knock is on its way.
SegueOuAvisado ==
  Servico /\ ~lacoAg.mudou /\ ~iniAg.avisar =>
    /\ lacoAg.fase = "parado" => ~iniAg.atalho
    /\ lacoAg.fase \in {"registra", "vivo"} => iniAg.atalho

TiposDoAtalho == TipoLaco /\ TipoSessao /\ TipoObjeto /\ TipoIni
InvAg ==
  /\ TiposDoAtalho /\ FimDaSessao /\ QuedaACaminho /\ SoVivo /\ TeclaACaminho /\ SegueOuAvisado

-----------------------------------------------------------------------------
(* What the steps of each actor disturb. *)

\* The search box, the attendant and the autostart: nothing of the session.
Alheio ==
  \/ FecharBusca \/ Atender \/ (\E leu \in BOOLEAN : AbrirBuscaAqui(leu))
  \/ TrocarAutostartAg \/ AutostartFalhou
  \/ \E ok \in BOOLEAN : GarantirAutostart(ok) \/ AjusteRespondido(ok)

LEMMA AlheioPreserva == ASSUME InvAg, Alheio PROVE InvAg'
<1> USE DEF InvAg, TiposDoAtalho
<1>1. lacoAg' = lacoAg /\ sessaoAg' = sessaoAg
  BY DEF Alheio, FecharBusca, Atender, AbrirBuscaAqui, TrocarAutostartAg, AutostartFalhou,
         GarantirAutostart, AjusteRespondido
<1>2. /\ objetoAg'.mudou = objetoAg.mudou /\ objetoAg'.caiu = objetoAg.caiu
      /\ objetoAg'.parar = objetoAg.parar /\ TipoObjeto'
  <2>1. CASE Atender
    <3>1. objetoAg' = [objetoAg EXCEPT !.pedidos = 0, !.atende = TRUE]
      BY <2>1 DEF Atender
    <3>2. 0 \in 0..1
      OBVIOUS
    <3> HIDE DEF InvAg, TiposDoAtalho
    <3>3. TipoObjeto
      BY DEF InvAg, TiposDoAtalho
    <3> QED
      BY <3>1, <3>2, <3>3, Zenon DEF TipoObjeto
  <2>2. CASE \E leu \in BOOLEAN : AbrirBuscaAqui(leu)
    <3>1. \/ objetoAg' = [objetoAg EXCEPT !.atende = FALSE]
          \/ objetoAg.velhos > 0 /\ objetoAg' = [objetoAg EXCEPT !.velhos = @ - 1]
      BY <2>2 DEF AbrirBuscaAqui
    <3>2. objetoAg.velhos > 0 => objetoAg.velhos - 1 \in Nat
      BY DEF TipoObjeto
    <3> QED
      BY <3>1, <3>2 DEF TipoObjeto
  <2>3. CASE objetoAg' = objetoAg
    BY <2>3 DEF TipoObjeto
  <2> QED
    BY <2>1, <2>2, <2>3 DEF Alheio, FecharBusca, TrocarAutostartAg, AutostartFalhou,
                            GarantirAutostart, AjusteRespondido
<1>3. iniAg'.atalho = iniAg.atalho /\ iniAg'.avisar = iniAg.avisar /\ TipoIni'
  BY DEF TipoIni, Alheio, FecharBusca, Atender, AbrirBuscaAqui, TrocarAutostartAg,
         AutostartFalhou, GarantirAutostart, AjusteRespondido, Salvar
<1>4. TipoLaco' /\ TipoSessao'
  BY <1>1 DEF TipoLaco, TipoSessao
<1>5. FimDaSessao' /\ QuedaACaminho' /\ SoVivo'
  BY <1>1, <1>2 DEF FimDaSessao, QuedaACaminho, SoVivo, Servico
<1>6. TeclaACaminho'
  BY <1>1, <1>2 DEF TeclaACaminho, UltimaNoticia, SemNoticia, Servico
<1>7. SegueOuAvisado'
  BY <1>1, <1>3 DEF SegueOuAvisado, Servico
<1> QED
  BY <1>2, <1>3, <1>4, <1>5, <1>6, <1>7

\* The loop, where it touches no session and no file.
SoLaco ==
  LerPreferencia \/ AcordarParado \/ FalharRegistro \/ Recuar \/ VerQueda \/ Soltou

LEMMA SoLacoPreserva == ASSUME InvAg, SoLaco PROVE InvAg'
<1> USE DEF InvAg, TiposDoAtalho
<1> USE DEF SoLaco, LerPreferencia, AcordarParado, FalharRegistro, Recuar, VerQueda, Soltou,
            Guardar, Vai
<1>1. TipoSessao' /\ TipoObjeto' /\ TipoIni'
  BY DEF TipoSessao, TipoObjeto, TipoIni
<1>2. TipoLaco' /\ (Servico' <=> Servico) /\ (Servico => lacoAg'.fase # "vivo")
  BY ZenonT(40) DEF TipoLaco, TipoIni, ChavesAg, Servico
<1>3. FimDaSessao'
  BY DEF FimDaSessao
<1>4. QuedaACaminho' /\ TeclaACaminho'
  BY <1>2 DEF QuedaACaminho, TeclaACaminho, Servico
<1>5. SoVivo'
  BY <1>2 DEF SoVivo, FimDaSessao, Servico, TipoLaco, TipoSessao, TipoObjeto
<1>6. SegueOuAvisado'
  BY <1>2, ZenonT(40) DEF SegueOuAvisado, Servico, TipoLaco, TipoIni
<1> QED
  BY <1>1, <1>2, <1>3, <1>4, <1>5, <1>6

\* The box of Ajustes, and the knock on the door.
LEMMA AjustesPreserva == ASSUME InvAg, TrocarAtalhoAg \/ AplicarAtalho PROVE InvAg'
<1> USE DEF InvAg, TiposDoAtalho, TrocarAtalhoAg, AplicarAtalho
<1>1. TipoSessao' /\ TipoObjeto' /\ TipoIni' /\ TipoLaco'
  BY ZenonT(40) DEF TipoSessao, TipoObjeto, TipoIni, TipoLaco
<1>2. /\ lacoAg'.modo = lacoAg.modo /\ lacoAg'.fase = lacoAg.fase /\ lacoAg'.tecla = lacoAg.tecla
      /\ sessaoAg' = sessaoAg /\ objetoAg' = objetoAg
  BY DEF TipoLaco
<1>3. FimDaSessao' /\ QuedaACaminho' /\ SoVivo' /\ TeclaACaminho'
  BY <1>2 DEF FimDaSessao, QuedaACaminho, SoVivo, TeclaACaminho, UltimaNoticia, SemNoticia, Servico
<1>4. SegueOuAvisado'
  BY DEF SegueOuAvisado, Servico, TipoLaco, TipoIni
<1> QED
  BY <1>1, <1>3, <1>4

\* A change of key that is read, and one that the portal tells while the session lives.
LEMMA VerTrocaPreserva == ASSUME InvAg, VerTroca PROVE InvAg'
<1> USE DEF InvAg, TiposDoAtalho
<1>0. PICK t \in ChavesAg : objetoAg.mudou = <<t>>
  BY DEF VerTroca, TipoObjeto, NovasAg
<1>1. lacoAg' = [lacoAg EXCEPT !.fase = "vivo", !.sabido = TRUE, !.tecla = t]
  BY <1>0 DEF VerTroca, Guardar
<1>2. /\ objetoAg' = [objetoAg EXCEPT !.mudou = <<>>]
      /\ sessaoAg' = sessaoAg /\ iniAg' = iniAg /\ lacoAg.fase = "vivo"
  BY DEF VerTroca
<1>3. <<>> \in NovasAg
  BY DEF NovasAg
<1>4. TipoLaco' /\ TipoIni' /\ TipoSessao' /\ TipoObjeto'
  BY <1>1, <1>2, <1>3 DEF TipoLaco, TipoIni, TipoSessao, TipoObjeto
<1>5. /\ lacoAg'.modo = lacoAg.modo /\ lacoAg'.fase = "vivo" /\ lacoAg'.tecla = t
      /\ lacoAg'.mudou = lacoAg.mudou
      /\ objetoAg'.mudou = <<>> /\ objetoAg'.caiu = objetoAg.caiu /\ objetoAg'.parar = objetoAg.parar
  BY <1>1, <1>2 DEF TipoLaco, TipoObjeto
<1>6. FimDaSessao' /\ QuedaACaminho' /\ SoVivo'
  BY <1>2, <1>5 DEF FimDaSessao, QuedaACaminho, SoVivo, Servico
<1>7. TeclaACaminho'
  <2>1. objetoAg.mudou = <<sessaoAg.tecla>> => t = sessaoAg.tecla
    BY <1>0
  <2>2. objetoAg.mudou # <<>>
    BY DEF VerTroca
  <2> QED
    BY <1>2, <1>5, <2>1, <2>2 DEF TeclaACaminho, UltimaNoticia, SemNoticia, Servico
<1>8. SegueOuAvisado'
  BY <1>2, <1>5 DEF SegueOuAvisado, Servico
<1> QED
  BY <1>4, <1>6, <1>7, <1>8

\* Turned off: the session is closed here, and its goroutine told to leave.
LEMMA FecharPreserva ==
  ASSUME InvAg, Fechar, iniAg' = iniAg, lacoAg' \in [modo : {lacoAg.modo},
           fase : {"topo", "solta"}, mudou : {FALSE}, sabido : BOOLEAN, tecla : ChavesAg],
         Servico => lacoAg'.tecla = ""
  PROVE  InvAg'
<1> USE DEF InvAg, TiposDoAtalho
<1>1. TipoLaco' /\ TipoIni' /\ lacoAg'.modo = lacoAg.modo /\ lacoAg'.fase \in {"topo", "solta"}
  BY DEF TipoLaco, TipoIni
<1>2. TipoSessao' /\ TipoObjeto' /\ ~sessaoAg'.viva
  BY DEF Fechar, TipoSessao, TipoObjeto, ChavesAg
<1>3. FimDaSessao' /\ QuedaACaminho' /\ SoVivo' /\ TeclaACaminho' /\ SegueOuAvisado'
  BY <1>1, <1>2 DEF FimDaSessao, QuedaACaminho, SoVivo, TeclaACaminho, SegueOuAvisado, Servico
<1> QED
  BY <1>1, <1>2, <1>3

LEMMA VerAtalhoMudouPreserva == ASSUME InvAg, VerAtalhoMudou PROVE InvAg'
<1> USE DEF InvAg, TiposDoAtalho
<1>1. iniAg' = iniAg /\ Servico /\ lacoAg.fase = "vivo"
  BY DEF VerAtalhoMudou
<1>2. CASE ~iniAg.atalho
  <2>1. Fechar /\ lacoAg' = [lacoAg EXCEPT !.mudou = FALSE, !.fase = "solta", !.sabido = TRUE, !.tecla = ""]
    BY <1>2 DEF VerAtalhoMudou
  <2>2. /\ lacoAg' \in [modo : {lacoAg.modo}, fase : {"topo", "solta"}, mudou : {FALSE},
                         sabido : BOOLEAN, tecla : ChavesAg]
        /\ lacoAg'.tecla = ""
    BY <2>1 DEF TipoLaco, ChavesAg
  <2> QED
    BY <1>1, <2>1, <2>2, FecharPreserva
<1>3. CASE iniAg.atalho
  <2>1. lacoAg' = [lacoAg EXCEPT !.mudou = FALSE] /\ sessaoAg' = sessaoAg /\ objetoAg' = objetoAg
    BY <1>3 DEF VerAtalhoMudou
  <2>2. TipoLaco' /\ TipoIni' /\ TipoSessao' /\ TipoObjeto'
    BY <1>1, <2>1 DEF TipoLaco, TipoIni, TipoSessao, TipoObjeto
  <2>3. lacoAg'.modo = lacoAg.modo /\ lacoAg'.fase = lacoAg.fase /\ lacoAg'.tecla = lacoAg.tecla
    BY <2>1 DEF TipoLaco
  <2>4. FimDaSessao' /\ QuedaACaminho' /\ SoVivo' /\ TeclaACaminho'
    BY <2>1, <2>3 DEF FimDaSessao, QuedaACaminho, SoVivo, TeclaACaminho, UltimaNoticia,
                      SemNoticia, Servico
  <2>5. SegueOuAvisado'
    BY <1>1, <1>3, <2>3 DEF SegueOuAvisado, Servico
  <2> QED
    BY <2>2, <2>4, <2>5
<1> QED
  BY <1>2, <1>3

LEMMA DesligarPreserva == ASSUME InvAg, DesligarAtalho PROVE InvAg'
<1> USE DEF InvAg, TiposDoAtalho
<1>1. /\ iniAg' = iniAg /\ ~Servico
      /\ lacoAg' = [lacoAg EXCEPT !.mudou = FALSE, !.fase = "topo"]
  BY DEF DesligarAtalho
<1>2. lacoAg' \in [modo : {lacoAg.modo}, fase : {"topo", "solta"}, mudou : {FALSE},
                   sabido : BOOLEAN, tecla : ChavesAg]
  BY <1>1 DEF TipoLaco
<1>3. CASE lacoAg.fase = "vivo"
  BY <1>1, <1>2, <1>3, FecharPreserva DEF DesligarAtalho
<1>4. CASE lacoAg.fase # "vivo"
  <2>1. sessaoAg' = sessaoAg /\ objetoAg' = objetoAg
    BY <1>4 DEF DesligarAtalho
  <2>2. TipoLaco' /\ TipoIni' /\ TipoSessao' /\ TipoObjeto' /\ ~Servico'
    BY <1>1, <1>2, <2>1, ZenonT(40) DEF TipoLaco, TipoIni, TipoSessao, TipoObjeto, Servico
  <2> QED
    BY <2>1, <2>2 DEF FimDaSessao, QuedaACaminho, SoVivo, TeclaACaminho, SegueOuAvisado
<1> QED
  BY <1>3, <1>4

\* The goroutine of the signals leaves when told: by then the session is closed.
LEMMA PararFioPreserva == ASSUME InvAg, PararFio PROVE InvAg'
<1> USE DEF InvAg, TiposDoAtalho
<1>1. /\ objetoAg' = [objetoAg EXCEPT !.fio = FALSE, !.caiu = TRUE]
      /\ lacoAg' = lacoAg /\ sessaoAg' = sessaoAg /\ iniAg' = iniAg /\ objetoAg.parar
  BY DEF PararFio, FimDoFio
<1>2. TipoLaco' /\ TipoIni' /\ TipoSessao' /\ TipoObjeto'
  BY <1>1, ZenonT(40) DEF TipoLaco, TipoIni, TipoSessao, TipoObjeto
<1>3. ~sessaoAg'.viva
  BY <1>1 DEF FimDaSessao
<1>4. objetoAg'.caiu
  BY <1>1 DEF TipoObjeto
<1>5. FimDaSessao' /\ QuedaACaminho' /\ SoVivo' /\ TeclaACaminho' /\ SegueOuAvisado'
  BY <1>1, <1>3, <1>4 DEF FimDaSessao, QuedaACaminho, SoVivo, TeclaACaminho, SegueOuAvisado, Servico
<1> QED
  BY <1>2, <1>5

\* A session that begins: nothing is on its way, and its key is what is told.
LEMMA AmarrarPreserva ==
  ASSUME InvAg, NEW t \in ChavesAg, NEW n \in Nat, NEW k \in BOOLEAN, iniAg' = iniAg,
         Servico /\ ~k /\ ~iniAg.avisar => iniAg.atalho,
         lacoAg' = [modo |-> lacoAg.modo, fase |-> "vivo", mudou |-> k, sabido |-> TRUE, tecla |-> t],
         sessaoAg' = [viva |-> TRUE, tecla |-> t, sinais |-> <<>>],
         objetoAg' = [fio |-> TRUE, mudou |-> <<>>, caiu |-> FALSE, parar |-> FALSE,
                      pedidos |-> 0, atende |-> FALSE, velhos |-> n]
  PROVE  InvAg'
<1> USE DEF InvAg, TiposDoAtalho
<1>1. lacoAg.modo \in {"servico", "app"}
  BY DEF TipoLaco
<1>2. TipoLaco' /\ TipoIni'
  BY <1>1 DEF TipoLaco, TipoIni
<1>3. TipoSessao'
  BY DEF TipoSessao
<1>4. TipoObjeto'
  BY DEF TipoObjeto, NovasAg
<1>5. sessaoAg'.viva /\ Len(sessaoAg'.sinais) = 0 /\ lacoAg'.tecla = sessaoAg'.tecla
  OBVIOUS
<1>6. FimDaSessao' /\ QuedaACaminho' /\ SoVivo' /\ SegueOuAvisado'
  <2>1. /\ lacoAg'.modo = lacoAg.modo /\ lacoAg'.fase = "vivo" /\ lacoAg'.mudou = k
        /\ ~objetoAg'.parar /\ ~objetoAg'.caiu
    OBVIOUS
  <2>2. FimDaSessao'
    BY <1>5, <2>1 DEF FimDaSessao
  <2>3. QuedaACaminho' /\ SoVivo'
    BY <1>5, <2>1 DEF QuedaACaminho, SoVivo
  <2>4. SegueOuAvisado'
    BY <2>1 DEF SegueOuAvisado, Servico
  <2> QED
    BY <2>2, <2>3, <2>4
<1>7. TeclaACaminho'
  BY DEF TeclaACaminho, UltimaNoticia, SemNoticia, Servico
<1> QED
  BY <1>2, <1>3, <1>4, <1>6, <1>7

LEMMA RegistrarPreserva == ASSUME InvAg, NEW t \in ChavesAg, Registrar(t) PROVE InvAg'
<1> USE DEF InvAg, TiposDoAtalho
<1>0. PICK r \in {0, 1} :
        objetoAg' = [SemObjeto EXCEPT !.fio = TRUE,
                       !.velhos = objetoAg.velhos + r + IF objetoAg.atende THEN 1 ELSE 0]
  <2>1. PICK r \in IF objetoAg.fio THEN 0..1 ELSE {0} :
          objetoAg' = [SemObjeto EXCEPT !.fio = TRUE,
                         !.velhos = objetoAg.velhos + r + IF objetoAg.atende THEN 1 ELSE 0]
    BY Zenon DEF Registrar, Amarrar
  <2>2. r \in {0, 1}
    BY <2>1
  <2> QED
    BY <2>1, <2>2, Zenon
<1> DEFINE n == objetoAg.velhos + r + IF objetoAg.atende THEN 1 ELSE 0
<1>1. n \in Nat
  BY DEF TipoObjeto
<1>2. objetoAg' = [fio |-> TRUE, mudou |-> <<>>, caiu |-> FALSE, parar |-> FALSE,
                   pedidos |-> 0, atende |-> FALSE, velhos |-> n]
  BY <1>0 DEF SemObjeto
<1>3. lacoAg' = [lacoAg EXCEPT !.fase = "vivo", !.sabido = TRUE, !.tecla = t]
  BY DEF Registrar, Amarrar, Guardar
<1>4. /\ lacoAg.mudou \in BOOLEAN
      /\ lacoAg' = [modo |-> lacoAg.modo, fase |-> "vivo", mudou |-> lacoAg.mudou, sabido |-> TRUE, tecla |-> t]
  BY <1>3 DEF TipoLaco
<1>5. iniAg' = iniAg /\ sessaoAg' = [viva |-> TRUE, tecla |-> t, sinais |-> <<>>] /\ lacoAg.fase = "registra"
  BY DEF Registrar, Amarrar
<1>6. Servico /\ ~lacoAg.mudou /\ ~iniAg.avisar => iniAg.atalho
  BY <1>5 DEF SegueOuAvisado
<1> HIDE DEF n, InvAg
<1> QED
  BY <1>1, <1>2, <1>4, <1>5, <1>6, AmarrarPreserva

LEMMA LigarPreserva == ASSUME InvAg, NEW t \in TeclasAg, LigarAtalho(t) PROVE InvAg'
<1> USE DEF InvAg, TiposDoAtalho
<1>1. iniAg' = iniAg /\ ~Servico /\ t \in ChavesAg
  BY DEF LigarAtalho, ChavesAg
<1>2. CASE /\ lacoAg' = [lacoAg EXCEPT !.mudou = FALSE]
           /\ sessaoAg' = sessaoAg /\ objetoAg' = objetoAg
  <2>1. TipoLaco' /\ TipoIni' /\ TipoSessao' /\ TipoObjeto' /\ ~Servico'
    BY <1>1, <1>2 DEF TipoLaco, TipoIni, TipoSessao, TipoObjeto, Servico
  <2> QED
    BY <1>2, <2>1 DEF FimDaSessao, QuedaACaminho, SoVivo, TeclaACaminho, SegueOuAvisado
<1>3. CASE /\ lacoAg' = [lacoAg EXCEPT !.fase = "vivo", !.mudou = FALSE, !.sabido = TRUE, !.tecla = t]
           /\ sessaoAg' = [viva |-> TRUE, tecla |-> t, sinais |-> <<>>]
           /\ objetoAg' = [SemObjeto EXCEPT !.fio = TRUE]
  <2>1. lacoAg' = [modo |-> lacoAg.modo, fase |-> "vivo", mudou |-> FALSE, sabido |-> TRUE, tecla |-> t]
    BY <1>3 DEF TipoLaco
  <2>2. objetoAg' = [fio |-> TRUE, mudou |-> <<>>, caiu |-> FALSE, parar |-> FALSE,
                     pedidos |-> 0, atende |-> FALSE, velhos |-> 0]
    BY <1>3 DEF SemObjeto
  <2>3. FALSE \in BOOLEAN /\ 0 \in Nat
    OBVIOUS
  <2> HIDE DEF InvAg
  <2> QED
    BY <1>1, <1>3, <2>1, <2>2, <2>3, AmarrarPreserva
<1> QED
  BY <1>2, <1>3 DEF LigarAtalho

-----------------------------------------------------------------------------
(* The signals: what the portal adds at the end, and what is read in front. *)

LEMMA NoFim ==
  ASSUME NEW S, NEW s \in Seq(S), NEW x \in S
  PROVE  /\ Append(s, x) \in Seq(S) /\ Len(Append(s, x)) = Len(s) + 1 /\ Len(s) \in Nat
         /\ Append(s, x)[Len(s) + 1] = x
         /\ \A i \in 1..Len(s) : Append(s, x)[i] = s[i]
OBVIOUS

LEMMA CabecaECauda ==
  ASSUME NEW S, NEW s \in Seq(S), s # <<>>
  PROVE  /\ Tail(s) \in Seq(S) /\ Len(Tail(s)) = Len(s) - 1 /\ Len(s) \in Nat /\ Len(s) > 0
         /\ s[1] = Head(s) /\ Head(s) \in S
         /\ \A i \in 1..(Len(s) - 1) : Tail(s)[i] = s[i + 1]
OBVIOUS

\* The desktop ends the session: the news of it is the last signal.
LEMMA CairPreserva == ASSUME InvAg, CairSessao PROVE InvAg'
<1> USE DEF InvAg, TiposDoAtalho
<1> DEFINE s == sessaoAg.sinais
           f == Append(s, "Closed")
<1>1. iniAg' = iniAg /\ lacoAg' = lacoAg /\ objetoAg' = objetoAg
  BY DEF CairSessao
<1>2. sessaoAg' = [viva |-> FALSE, tecla |-> "", sinais |-> f]
  BY DEF CairSessao
<1>3. s \in Seq(SinaisAg) /\ "Closed" \in SinaisAg /\ "" \in ChavesAg
  BY DEF TipoSessao, SinaisAg, ChavesAg
<1>4. f \in Seq(SinaisAg) /\ Len(f) = Len(s) + 1 /\ Len(s) \in Nat /\ f[Len(s) + 1] = "Closed"
  <2>1. \A x \in SinaisAg : /\ Append(s, x) \in Seq(SinaisAg) /\ Len(Append(s, x)) = Len(s) + 1
                            /\ Len(s) \in Nat /\ Append(s, x)[Len(s) + 1] = x
    <3> HIDE DEF s
    <3> QED
      BY <1>3, NoFim, Zenon
  <2> QED
    BY <1>3, <2>1, Zenon
<1> HIDE DEF f
<1>5. TipoLaco' /\ TipoIni' /\ TipoObjeto'
  BY <1>1 DEF TipoLaco, TipoIni, TipoObjeto
<1>6. TipoSessao'
  BY <1>2, <1>3, <1>4 DEF TipoSessao
<1>7. ~sessaoAg'.viva /\ sessaoAg'.sinais = f
  BY <1>2
<1>8. QuedaACaminho'
  <2>1. Len(s) + 1 \in 1..Len(f)
    BY <1>4
  <2> QED
    BY <1>4, <1>7, <2>1 DEF QuedaACaminho
<1>9. FimDaSessao' /\ SoVivo' /\ TeclaACaminho' /\ SegueOuAvisado'
  BY <1>1, <1>7 DEF FimDaSessao, SoVivo, TeclaACaminho, SegueOuAvisado, Servico
<1> QED
  BY <1>5, <1>6, <1>8, <1>9

\* Another key is bound: the news of it is the last one on its way.
LEMMA ReamarrarPreserva == ASSUME InvAg, NEW t \in ChavesAg, Reamarrar(t) PROVE InvAg'
<1> USE DEF InvAg, TiposDoAtalho
<1> DEFINE s == sessaoAg.sinais
<1>1. /\ sessaoAg' = [sessaoAg EXCEPT !.tecla = t, !.sinais = Append(@, t)]
      /\ iniAg' = iniAg /\ lacoAg' = lacoAg /\ objetoAg' = objetoAg /\ sessaoAg.viva
  BY DEF Reamarrar
<1>2. s \in Seq(SinaisAg) /\ t \in SinaisAg
  BY DEF TipoSessao, SinaisAg
<1>3. sessaoAg'.sinais = Append(s, t) /\ sessaoAg'.tecla = t /\ sessaoAg'.viva = sessaoAg.viva
  BY <1>1 DEF TipoSessao
<1>4. /\ sessaoAg'.sinais \in Seq(SinaisAg) /\ Len(sessaoAg'.sinais) = Len(s) + 1
      /\ Len(s) \in Nat /\ sessaoAg'.sinais[Len(s) + 1] = t
      /\ \A i \in 1..Len(s) : sessaoAg'.sinais[i] = s[i]
  BY <1>2, <1>3, NoFim
<1>5. TipoLaco' /\ TipoIni' /\ TipoObjeto'
  BY <1>1 DEF TipoLaco, TipoIni, TipoObjeto
<1>6. TipoSessao'
  <2>1. Append(s, t) \in Seq(SinaisAg)
    BY <1>3, <1>4
  <2> HIDE DEF s
  <2> QED
    BY <1>1, <2>1 DEF TipoSessao, s
<1>7. t # "Closed"
  BY AtalhoGlobalAssumption DEF ChavesAg
<1>8. FimDaSessao'
  BY <1>1, <1>3, <1>4, <1>7 DEF FimDaSessao
<1>9. QuedaACaminho' /\ SoVivo' /\ SegueOuAvisado'
  BY <1>1, <1>3 DEF QuedaACaminho, SoVivo, SegueOuAvisado, Servico
<1>10. TeclaACaminho'
  <2>1. \A i \in 1..Len(sessaoAg'.sinais) : UltimaNoticia(i)' => i = Len(s) + 1
    BY <1>4 DEF UltimaNoticia
  <2>2. ~SemNoticia'
    BY <1>4 DEF SemNoticia
  <2> QED
    BY <1>3, <1>4, <2>1, <2>2 DEF TeclaACaminho
<1> QED
  BY <1>5, <1>6, <1>8, <1>9, <1>10

\* A press is no news of the key.
LEMMA ApertarPreserva == ASSUME InvAg, ApertarAg PROVE InvAg'
<1> USE DEF InvAg, TiposDoAtalho
<1> DEFINE s == sessaoAg.sinais
<1>1. /\ sessaoAg' = [sessaoAg EXCEPT !.sinais = Append(@, "Activated")]
      /\ iniAg' = iniAg /\ lacoAg' = lacoAg /\ objetoAg' = objetoAg /\ sessaoAg.viva
  BY DEF ApertarAg, Sinal
<1>2. s \in Seq(SinaisAg) /\ "Activated" \in SinaisAg
  BY DEF TipoSessao, SinaisAg
<1>3. /\ sessaoAg'.sinais = Append(s, "Activated") /\ sessaoAg'.tecla = sessaoAg.tecla
      /\ sessaoAg'.viva = sessaoAg.viva
  BY <1>1 DEF TipoSessao
<1>4. /\ sessaoAg'.sinais \in Seq(SinaisAg) /\ Len(sessaoAg'.sinais) = Len(s) + 1
      /\ Len(s) \in Nat /\ sessaoAg'.sinais[Len(s) + 1] = "Activated"
      /\ \A i \in 1..Len(s) : sessaoAg'.sinais[i] = s[i]
  BY <1>2, <1>3, NoFim
<1>5. TipoLaco' /\ TipoIni' /\ TipoObjeto'
  BY <1>1 DEF TipoLaco, TipoIni, TipoObjeto
<1>6. TipoSessao'
  <2>1. Append(s, "Activated") \in Seq(SinaisAg)
    BY <1>3, <1>4
  <2> HIDE DEF s
  <2> QED
    BY <1>1, <2>1 DEF TipoSessao, s
<1>7. "Activated" \notin ChavesAg
  BY AtalhoGlobalAssumption DEF ChavesAg
<1>8. FimDaSessao'
  BY <1>1, <1>3, <1>4 DEF FimDaSessao
<1>9. QuedaACaminho' /\ SoVivo' /\ SegueOuAvisado'
  BY <1>1, <1>3 DEF QuedaACaminho, SoVivo, SegueOuAvisado, Servico
<1>10. TeclaACaminho'
  <2>1. \A i \in 1..Len(sessaoAg'.sinais) :
          UltimaNoticia(i)' => i \in 1..Len(s) /\ UltimaNoticia(i) /\ sessaoAg'.sinais[i] = s[i]
    <3> SUFFICES ASSUME NEW i \in 1..Len(sessaoAg'.sinais), UltimaNoticia(i)'
                 PROVE  i \in 1..Len(s) /\ UltimaNoticia(i) /\ sessaoAg'.sinais[i] = s[i]
      OBVIOUS
    <3>1. i # Len(s) + 1
      BY <1>4, <1>7 DEF UltimaNoticia
    <3>2. i \in 1..Len(s) /\ sessaoAg'.sinais[i] = s[i]
      BY <1>4, <3>1
    <3>3. s[i] \in ChavesAg
      BY <3>2 DEF UltimaNoticia
    <3>4. \A j \in 1..Len(s) : j > i => s[j] \notin ChavesAg
      <4> SUFFICES ASSUME NEW j \in 1..Len(s), j > i PROVE s[j] \notin ChavesAg
        OBVIOUS
      <4>1. j \in 1..Len(sessaoAg'.sinais) /\ sessaoAg'.sinais[j] = s[j]
        BY <1>4
      <4> QED
        BY <4>1 DEF UltimaNoticia
    <3> QED
      BY <3>2, <3>3, <3>4 DEF UltimaNoticia
  <2>2. SemNoticia' => SemNoticia
    BY <1>4 DEF SemNoticia
  <2> QED
    BY <1>1, <1>3, <2>1, <2>2 DEF TeclaACaminho, Servico
<1> QED
  BY <1>5, <1>6, <1>8, <1>9, <1>10

\* A signal is read: the end of the session, a press, or the news of a key, which waits
\* to be read in its turn.
LEMMA LerSinalPreserva == ASSUME InvAg, LerSinal PROVE InvAg'
<1> USE DEF InvAg, TiposDoAtalho
<1> DEFINE s == sessaoAg.sinais
           x == Head(s)
<1>1. /\ sessaoAg' = [sessaoAg EXCEPT !.sinais = Tail(@)] /\ s # <<>>
      /\ iniAg' = iniAg /\ lacoAg' = lacoAg
  BY DEF LerSinal
<1>2. s \in Seq(SinaisAg)
  BY DEF TipoSessao
<1>3. sessaoAg'.sinais = Tail(s) /\ sessaoAg'.tecla = sessaoAg.tecla /\ sessaoAg'.viva = sessaoAg.viva
  BY <1>1 DEF TipoSessao
<1>4. /\ sessaoAg'.sinais \in Seq(SinaisAg) /\ Len(sessaoAg'.sinais) = Len(s) - 1
      /\ Len(s) \in Nat /\ Len(s) > 0 /\ s[1] = x /\ x \in SinaisAg
      /\ \A i \in 1..(Len(s) - 1) : sessaoAg'.sinais[i] = s[i + 1]
  BY <1>1, <1>2, <1>3, CabecaECauda
<1>5. TipoLaco' /\ TipoIni'
  BY <1>1 DEF TipoLaco, TipoIni
<1>6. TipoSessao'
  <2>1. Tail(s) \in Seq(SinaisAg)
    BY <1>3, <1>4
  <2> HIDE DEF s
  <2> QED
    BY <1>1, <2>1 DEF TipoSessao, s
<1>7. objetoAg' = CASE x = "Activated" -> DispararAg [] x = "Closed" -> FimDoFio
                    [] OTHER -> AvisarMudanca(x)
  BY DEF LerSinal
<1>8. FimDaSessao /\ TeclaACaminho /\ QuedaACaminho /\ SoVivo /\ SegueOuAvisado
  OBVIOUS
<1>9. CASE x = "Closed"
  <2>1. objetoAg' = [objetoAg EXCEPT !.fio = FALSE, !.caiu = TRUE]
    BY <1>7, <1>9 DEF FimDoFio
  <2>2. ~sessaoAg.viva
    BY <1>4, <1>8, <1>9 DEF FimDaSessao
  <2>3. TipoObjeto' /\ objetoAg'.caiu
    BY <2>1 DEF TipoObjeto
  <2>4. FimDaSessao' /\ QuedaACaminho' /\ SoVivo' /\ TeclaACaminho' /\ SegueOuAvisado'
    BY <1>1, <1>3, <1>8, <2>2, <2>3 DEF FimDaSessao, QuedaACaminho, SoVivo, TeclaACaminho,
                                        SegueOuAvisado, Servico
  <2> QED
    BY <1>5, <1>6, <2>3, <2>4
<1>10. CASE x # "Closed"
  <2>1. /\ TipoObjeto' /\ objetoAg'.parar = objetoAg.parar /\ objetoAg'.caiu = objetoAg.caiu
        /\ x \in ChavesAg => objetoAg'.mudou = <<x>>
        /\ x \notin ChavesAg => objetoAg'.mudou = objetoAg.mudou
    <3>1. CASE x = "Activated"
      <4>1. objetoAg' = [objetoAg EXCEPT !.pedidos = 1] /\ x \notin ChavesAg
        BY <1>7, <3>1, AtalhoGlobalAssumption DEF DispararAg, ChavesAg
      <4> HIDE DEF x
      <4> QED
        BY <4>1 DEF TipoObjeto
    <3>2. CASE x # "Activated"
      <4>1. objetoAg' = [objetoAg EXCEPT !.mudou = <<x>>] /\ x \in ChavesAg
        BY <1>4, <1>7, <1>10, <3>2 DEF AvisarMudanca, SinaisAg
      <4>2. <<x>> \in NovasAg
        BY <4>1 DEF NovasAg
      <4> HIDE DEF x
      <4> QED
        BY <4>1, <4>2 DEF TipoObjeto
    <3> QED
      BY <3>1, <3>2
  <2>2. FimDaSessao'
    BY <1>3, <1>4, <1>8, <2>1 DEF FimDaSessao
  <2>3. QuedaACaminho'
    <3>1. ASSUME NEW i \in 1..Len(s), s[i] = "Closed"
          PROVE  \E j \in 1..Len(sessaoAg'.sinais) : sessaoAg'.sinais[j] = "Closed"
      <4>1. i # 1
        BY <1>4, <1>10, <3>1
      <4>2. i - 1 \in 1..(Len(s) - 1) /\ (i - 1) + 1 = i
        BY <1>4, <4>1
      <4> QED
        BY <1>4, <3>1, <4>2
    <3> QED
      BY <1>1, <1>3, <1>8, <2>1, <3>1 DEF QuedaACaminho, Servico
  <2>4. SoVivo' /\ SegueOuAvisado'
    BY <1>1, <1>3, <1>8 DEF SoVivo, SegueOuAvisado, Servico
  <2>5. TeclaACaminho'
    <3>1. ASSUME NEW i \in 1..Len(sessaoAg'.sinais), UltimaNoticia(i)'
          PROVE  UltimaNoticia(i + 1) /\ sessaoAg'.sinais[i] = s[i + 1]
      <4>1. i \in 1..(Len(s) - 1) /\ i + 1 \in 1..Len(s) /\ sessaoAg'.sinais[i] = s[i + 1]
        BY <1>4
      <4>2. ASSUME NEW j \in 1..Len(s), j > i + 1 PROVE s[j] \notin ChavesAg
        <5>1. j - 1 \in 1..(Len(s) - 1) /\ j - 1 > i /\ (j - 1) + 1 = j
          BY <1>4, <4>1, <4>2
        <5> QED
          BY <1>4, <3>1, <5>1 DEF UltimaNoticia
      <4> QED
        BY <3>1, <4>1, <4>2 DEF UltimaNoticia
    <3>2. ASSUME SemNoticia' PROVE \A j \in 1..Len(s) : j > 1 => s[j] \notin ChavesAg
      <4>1. ASSUME NEW j \in 1..Len(s), j > 1 PROVE s[j] \notin ChavesAg
        <5>1. j - 1 \in 1..(Len(s) - 1) /\ (j - 1) + 1 = j
          BY <1>4, <4>1
        <5> QED
          BY <1>4, <3>2, <5>1 DEF SemNoticia
      <4> QED
        BY <4>1
    <3>3. SUFFICES ASSUME Servico, lacoAg.fase = "vivo", sessaoAg.viva
                   PROVE /\ \A i \in 1..Len(sessaoAg'.sinais) :
                               UltimaNoticia(i)' => sessaoAg'.sinais[i] = sessaoAg.tecla
                         /\ SemNoticia' => IF objetoAg'.mudou = <<>> THEN lacoAg.tecla = sessaoAg.tecla
                                           ELSE objetoAg'.mudou = <<sessaoAg.tecla>>
      BY <1>1, <1>3 DEF TeclaACaminho, Servico
    <3>4. \A i \in 1..Len(sessaoAg'.sinais) :
            UltimaNoticia(i)' => sessaoAg'.sinais[i] = sessaoAg.tecla
      <4>1. \A i \in 1..Len(s) : UltimaNoticia(i) => s[i] = sessaoAg.tecla
        BY <1>8, <3>3 DEF TeclaACaminho
      <4> QED
        BY <1>4, <3>1, <4>1
    <3>5. ASSUME SemNoticia' PROVE IF objetoAg'.mudou = <<>> THEN lacoAg.tecla = sessaoAg.tecla
                                   ELSE objetoAg'.mudou = <<sessaoAg.tecla>>
      <4>1. CASE x \in ChavesAg
        <5>1. UltimaNoticia(1)
          BY <1>4, <3>2, <3>5, <4>1 DEF UltimaNoticia
        <5>2. x = sessaoAg.tecla
          BY <1>4, <1>8, <3>3, <5>1 DEF TeclaACaminho
        <5>3. objetoAg'.mudou = <<sessaoAg.tecla>>
          BY <2>1, <4>1, <5>2
        <5> HIDE DEF s, x
        <5>4. objetoAg'.mudou # <<>>
          BY <5>3
        <5> QED
          BY <5>3, <5>4
      <4>2. CASE x \notin ChavesAg
        <5>1. SemNoticia
          BY <1>4, <3>2, <3>5, <4>2 DEF SemNoticia
        <5> QED
          BY <1>8, <2>1, <3>3, <4>2, <5>1 DEF TeclaACaminho
      <4> QED
        BY <4>1, <4>2
    <3> QED
      BY <3>4, <3>5
  <2> QED
    BY <1>5, <1>6, <2>1, <2>2, <2>3, <2>4, <2>5
<1> QED
  BY <1>9, <1>10

-----------------------------------------------------------------------------
LEMMA IniciaInv == InitAg => InvAg
<1> SUFFICES ASSUME InitAg PROVE InvAg
  OBVIOUS
<1>1. PICK m \in {"servico", "app"} : lacoAg =
        [modo |-> m, fase |-> "topo", mudou |-> m = "app", sabido |-> FALSE, tecla |-> ""]
  BY AtalhoGlobalAssumption DEF InitAg
<1>2. TipoLaco /\ lacoAg.fase = "topo" /\ lacoAg.tecla = ""
  <2>1. (m = "app") \in BOOLEAN /\ "" \in ChavesAg /\ FALSE \in BOOLEAN
    BY DEF ChavesAg
  <2>2. TipoLaco
    BY <1>1, <2>1 DEF TipoLaco
  <2> QED
    BY <1>1, <2>2
<1>3. TipoIni
  BY DEF TipoIni, InitAg
<1>4. TipoSessao /\ ~sessaoAg.viva
  <2>1. <<>> \in Seq(SinaisAg) /\ "" \in ChavesAg
    BY DEF ChavesAg
  <2>2. sessaoAg = [viva |-> FALSE, tecla |-> "", sinais |-> <<>>]
    BY DEF InitAg, SemSessao
  <2> QED
    BY <2>1, <2>2 DEF TipoSessao
<1>5. TipoObjeto
  <2>1. <<>> \in NovasAg
    BY DEF NovasAg
  <2>2. objetoAg = [fio |-> FALSE, mudou |-> <<>>, caiu |-> FALSE, parar |-> FALSE,
                    pedidos |-> 0, atende |-> FALSE, velhos |-> 0]
    BY DEF InitAg, SemObjeto
  <2> QED
    BY <2>1, <2>2 DEF TipoObjeto
<1>6. FimDaSessao /\ QuedaACaminho /\ SoVivo /\ TeclaACaminho /\ SegueOuAvisado
  BY <1>2, <1>4 DEF FimDaSessao, QuedaACaminho, SoVivo, TeclaACaminho, SegueOuAvisado
<1> QED
  BY <1>2, <1>3, <1>4, <1>5, <1>6 DEF InvAg, TiposDoAtalho

LEMMA PassoPreserva == InvAg /\ [NextAg]_varsAg => InvAg'
<1> SUFFICES ASSUME InvAg, [NextAg]_varsAg PROVE InvAg'
  OBVIOUS
<1>1. CASE UNCHANGED varsAg
  <2>1. lacoAg' = lacoAg /\ sessaoAg' = sessaoAg /\ objetoAg' = objetoAg /\ iniAg' = iniAg
    BY <1>1 DEF varsAg
  <2>2. TiposDoAtalho'
    BY <2>1 DEF InvAg, TiposDoAtalho, TipoLaco, TipoSessao, TipoObjeto, TipoIni
  <2>3. FimDaSessao' /\ QuedaACaminho' /\ SoVivo' /\ SegueOuAvisado'
    BY <2>1 DEF InvAg, FimDaSessao, QuedaACaminho, SoVivo, SegueOuAvisado, Servico
  <2>4. TeclaACaminho'
    BY <2>1 DEF InvAg, TeclaACaminho, UltimaNoticia, SemNoticia, Servico
  <2> QED
    BY <2>2, <2>3, <2>4 DEF InvAg
<1>2. CASE Alheio
  BY <1>2, AlheioPreserva
<1>3. CASE SoLaco
  BY <1>3, SoLacoPreserva
<1>4. CASE TrocarAtalhoAg \/ AplicarAtalho
  BY <1>4, AjustesPreserva
<1>5. CASE \E t \in TeclasAg \union {""} : Registrar(t)
  BY <1>5, RegistrarPreserva DEF ChavesAg
<1>6. CASE VerTroca \/ VerAtalhoMudou
  BY <1>6, VerTrocaPreserva, VerAtalhoMudouPreserva
<1>7. CASE (\E t \in TeclasAg : LigarAtalho(t)) \/ DesligarAtalho
  BY <1>7, LigarPreserva, DesligarPreserva
<1>8. CASE CairSessao \/ (\E t \in TeclasAg \union {""} : Reamarrar(t)) \/ ApertarAg
  BY <1>8, CairPreserva, ReamarrarPreserva, ApertarPreserva DEF ChavesAg
<1>9. CASE LerSinal \/ PararFio
  BY <1>9, LerSinalPreserva, PararFioPreserva
<1> QED
  BY <1>1, <1>2, <1>3, <1>4, <1>5, <1>6, <1>7, <1>8, <1>9 DEF NextAg, Laco, Fio, Alheio, SoLaco

LEMMA InvBasta == InvAg => AtalhoCerto
<1> SUFFICES ASSUME InvAg PROVE AtalhoCerto
  OBVIOUS
<1>1. Servico => TeclaEmDia
  <2>1. SUFFICES ASSUME Servico, lacoAg.fase = "vivo", Sossegado
                 PROVE  sessaoAg.viva /\ lacoAg.tecla = sessaoAg.tecla
    BY DEF TeclaEmDia, InvAg, SoVivo
  <2>2. Len(sessaoAg.sinais) = 0 /\ objetoAg.mudou = <<>> /\ ~objetoAg.caiu
    BY <2>1 DEF Sossegado
  <2>3. sessaoAg.viva
    BY <2>1, <2>2 DEF InvAg, QuedaACaminho
  <2> QED
    BY <2>1, <2>2, <2>3 DEF InvAg, TeclaACaminho, SemNoticia
<1>2. SegueOArquivo
  BY DEF InvAg, SegueOuAvisado, SegueOArquivo
<1> QED
  BY <1>1, <1>2 DEF AtalhoCerto

LEMMA AtalhoInvariante == SpecAg => []InvAg
BY IniciaInv, PassoPreserva, PTL DEF SpecAg

\* The file, the loop and the object of the session keep the types of their fields: one
\* change of key at most waits to be read, and one press (atalhogatilho.go 40-48).
THEOREM AtalhoTipos == SpecAg => []TiposAg
<1>1. InvAg => TiposAg
  <2> SUFFICES ASSUME InvAg PROVE TiposAg
    OBVIOUS
  <2>1. TipoLaco /\ TipoObjeto /\ TipoIni
    BY DEF InvAg, TiposDoAtalho
  <2>2. Len(objetoAg.mudou) <= 1
    <3>1. objetoAg.mudou = <<>> \/ \E t \in ChavesAg : objetoAg.mudou = <<t>>
      BY <2>1 DEF TipoObjeto, NovasAg
    <3>2. ASSUME NEW t \in ChavesAg, objetoAg.mudou = <<t>> PROVE Len(objetoAg.mudou) <= 1
      <4>1. Len(<<t>>) = 1
        OBVIOUS
      <4> QED
        BY <3>2, <4>1
    <3>3. CASE objetoAg.mudou = <<>>
      BY <3>3
    <3> QED
      BY <3>1, <3>2, <3>3
  <2>3. iniAg.auto \in {"nunca", "sim", "nao"}
    BY <2>1 DEF TipoIni
  <2>4. lacoAg.tecla \in TeclasAg \union {""} /\ lacoAg.fase \in {"topo", "parado", "registra", "dorme", "vivo", "solta"}
    BY <2>1 DEF TipoLaco, ChavesAg
  <2>5. objetoAg.pedidos \in 0..1
    BY <2>1 DEF TipoObjeto
  <2> QED
    BY <2>2, <2>3, <2>4, <2>5 DEF TiposAg
<1> QED
  BY <1>1, AtalhoInvariante, PTL

\* The service tells the window the key that the desktop has bound, and no key when there
\* is no session, and rests as the file says, whatever the portal, the clicks and the
\* signals interleave (servico_linux.go 70-100 and 413-431, atalhogatilho.go 40-48).
THEOREM AtalhoSempreCerto == SpecAg => []AtalhoCerto
BY AtalhoInvariante, InvBasta, PTL
=============================================================================
