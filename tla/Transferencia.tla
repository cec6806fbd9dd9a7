---------------------------- MODULE Transferencia ----------------------------
(***************************************************************************)
(* The file tab (sftptab.go): the connection and its change of machine,    *)
(* the listing of the remote folder by goroutines and its adoption by the  *)
(* frame, the copies in both directions with the question about what       *)
(* already exists, and the deletion of remote trees.  A folder is copied   *)
(* and deleted through the one file it holds.                              *)
(***************************************************************************)
EXTENDS Integers, FiniteSets

CONSTANTS
  Maquinas,      \* the machines the tab can point to
  Pastas,        \* the remote folders; the local panel stays in one
  Lar,           \* where Getwd starts
  MaxConexoes,   \* bound: connections asked for, by the button or by a change
  MaxNavega,     \* bound: changes of the remote path
  MaxOperacoes   \* bound: copies and deletions asked for

ASSUME TransferenciaAssumption ==
  /\ Lar \in Pastas /\ Maquinas # {}
  /\ {MaxConexoes, MaxNavega, MaxOperacoes} \subseteq Nat

VARIABLES
  abaTr,     \* sftpTab: machine named, client, closed, conectando, ocupado, message
  tentTr,    \* the one goroutine of conectar
  painelTr,  \* the remote panel: path typed, items shown, listing to adopt
  leituras,  \* listarRemoto goroutines under way
  dlgTr,     \* the open dialog
  copias,    \* transferir goroutines
  discos,    \* what each machine has: per folder and file, absent, whole or cut
  limTr      \* the bounds still available

varsTr == <<abaTr, tentTr, painelTr, leituras, dlgTr, copias, discos, limTr>>

Nenhuma == "nenhuma"
Aqui == "aqui"
Arquivos == {"solto", "dentro"}       \* a file, and the file inside the folder
Itens == {"solto", "pasta"}
ArquivoDe(i) == IF i = "pasta" THEN "dentro" ELSE "solto"
Existe(m, d, f) == discos[m][d][f] # "nao"
ItensEm(m, d) == {i \in Itens : Existe(m, d, ArquivoDe(i))}

SemDialogo == [tipo |-> "nenhum", itens |-> {}, conf |-> {}, envio |-> FALSE]
Dialogo(tipo, itens, conf, envio) ==
  [tipo |-> tipo, itens |-> itens, conf |-> conf, envio |-> envio]

InitTr ==
  LET m0 == CHOOSE m \in Maquinas : TRUE IN
  /\ abaTr = [host |-> m0, cli |-> Nenhuma, fechado |-> FALSE, conectando |-> TRUE,
              ocupado |-> FALSE]
  /\ tentTr = [fase |-> "dial", host |-> m0]
  /\ painelTr = [caminho |-> Lar, itens |-> {}, pend |-> {}, arrasto |-> {}]
  /\ leituras = {} /\ copias = {}
  /\ dlgTr = SemDialogo
  /\ discos = [m \in Maquinas \union {Aqui} |-> [d \in Pastas |-> [f \in Arquivos |->
                 IF m = Aqui THEN IF d = Lar THEN "inteiro" ELSE "nao"
                 ELSE IF d = Lar THEN "antigo" ELSE "nao"]]]
  /\ limTr = [conexoes |-> 0, navega |-> 0, ops |-> 0]

(***************************************************************************)
(* The connection.                                                         *)
(***************************************************************************)
\* conectar gives up when another one is under way.
Tentar(h) == IF abaTr.conectando THEN tentTr ELSE [fase |-> "dial", host |-> h]

Reconectar ==
  /\ limTr.conexoes < MaxConexoes /\ ~abaTr.fechado
  /\ tentTr' = Tentar(abaTr.host)
  /\ abaTr' = [abaTr EXCEPT !.conectando = TRUE]
  /\ limTr' = [limTr EXCEPT !.conexoes = @ + 1]
  /\ UNCHANGED <<painelTr, leituras, dlgTr, copias, discos>>

\* ApontarPara: the client is dropped, the tab renamed, and conectar started.
ApontarPara(m) ==
  /\ limTr.conexoes < MaxConexoes /\ ~abaTr.fechado
  /\ tentTr' = Tentar(m)
  /\ abaTr' = [abaTr EXCEPT !.host = m, !.cli = Nenhuma, !.fechado = FALSE, !.conectando = TRUE]
  /\ limTr' = [limTr EXCEPT !.conexoes = @ + 1]
  /\ UNCHANGED <<painelTr, leituras, dlgTr, copias, discos>>

\* ssh.Dial and sftp.NewClient answer, or fail.
Discar ==
  /\ tentTr.fase = "dial"
  /\ \/ tentTr' = [tentTr EXCEPT !.fase = "cliente"] /\ UNCHANGED abaTr
     \/ /\ tentTr' = [tentTr EXCEPT !.fase = "parada"]
        /\ abaTr' = [abaTr EXCEPT !.conectando = FALSE]
  /\ UNCHANGED <<painelTr, leituras, dlgTr, copias, discos, limTr>>

\* The client is published unless the tab closed meanwhile; the path goes back
\* to the home of the machine, which is listed before conectar returns.
PublicarCliente ==
  /\ tentTr.fase = "cliente"
  /\ IF abaTr.fechado
     THEN /\ tentTr' = [tentTr EXCEPT !.fase = "parada"]
          /\ abaTr' = [abaTr EXCEPT !.conectando = FALSE]
          /\ UNCHANGED painelTr
     ELSE /\ tentTr' = [tentTr EXCEPT !.fase = "listar"]
          /\ abaTr' = [abaTr EXCEPT !.cli = tentTr.host]
          /\ painelTr' = [painelTr EXCEPT !.caminho = Lar]
  /\ UNCHANGED <<leituras, dlgTr, copias, discos, limTr>>

ListarAoConectar ==
  /\ tentTr.fase = "listar"
  /\ tentTr' = [tentTr EXCEPT !.fase = "parada"]
  /\ abaTr' = [abaTr EXCEPT !.conectando = FALSE]
  /\ leituras' = IF abaTr.cli = Nenhuma THEN leituras
                 ELSE leituras \union {<<abaTr.cli, painelTr.caminho>>}
  /\ UNCHANGED <<painelTr, dlgTr, copias, discos, limTr>>

Close ==
  /\ ~abaTr.fechado
  /\ abaTr' = [abaTr EXCEPT !.fechado = TRUE, !.cli = Nenhuma]
  /\ dlgTr' = SemDialogo
  /\ UNCHANGED <<tentTr, painelTr, leituras, copias, discos, limTr>>

(***************************************************************************)
(* The remote panel.                                                       *)
(***************************************************************************)
ComClique == ~abaTr.fechado /\ dlgTr.tipo = "nenhum"

\* navegar, subir and the Enter in the path field.
Navegar(d) ==
  /\ ComClique /\ limTr.navega < MaxNavega
  /\ painelTr' = [painelTr EXCEPT !.caminho = d]
  /\ leituras' = IF abaTr.cli = Nenhuma THEN leituras ELSE leituras \union {<<abaTr.cli, d>>}
  /\ limTr' = [limTr EXCEPT !.navega = @ + 1]
  /\ UNCHANGED <<abaTr, tentTr, dlgTr, copias, discos>>

\* The path field edited, with no Enter yet.
DigitarCaminho(d) ==
  /\ ComClique /\ limTr.navega < MaxNavega /\ d # painelTr.caminho
  /\ painelTr' = [painelTr EXCEPT !.caminho = d]
  /\ limTr' = [limTr EXCEPT !.navega = @ + 1]
  /\ UNCHANGED <<abaTr, tentTr, leituras, dlgTr, copias, discos>>

\* listarRemoto ends: its answer is left for the frame, over one not adopted
\* yet; the answer of a failure (here none) keeps what the screen shows.
ListarRemoto(l) ==
  /\ l \in leituras
  /\ leituras' = leituras \ {l}
  /\ \E resposta \in {{}, {ItensEm(l[1], l[2])}} :
       painelTr' = [painelTr EXCEPT !.pend = resposta]
  /\ UNCHANGED <<abaTr, tentTr, dlgTr, copias, discos, limTr>>

AplicarListagens ==
  /\ painelTr.pend # {} /\ ~abaTr.fechado
  /\ painelTr' = [painelTr EXCEPT !.itens = CHOOSE l \in painelTr.pend : TRUE, !.pend = {}]
  /\ UNCHANGED <<abaTr, tentTr, leituras, dlgTr, copias, discos, limTr>>

(***************************************************************************)
(* Copies.                                                                 *)
(***************************************************************************)
Destino(envio) == IF envio THEN <<abaTr.cli, painelTr.caminho>> ELSE <<Aqui, Lar>>
Origem(envio) == IF envio THEN <<Aqui, Lar>> ELSE <<abaTr.cli, painelTr.caminho>>

\* conflitos: a folder is never asked about.
Conflitos(itens, envio) ==
  IF abaTr.cli = Nenhuma THEN {} ELSE
  {i \in itens \ {"pasta"} : Existe(Destino(envio)[1], Destino(envio)[2], ArquivoDe(i))}

Copia(itens, envio, pular) ==
  [fase |-> "nova", envio |-> envio, itens |-> itens \ pular, de |-> <<Nenhuma, Lar>>,
   para |-> <<Nenhuma, Lar>>, falta |-> {}, cortou |-> {}]

Disparar(itens, envio, pular) == copias' = copias \union {Copia(itens, envio, pular)}

\* iniciarTransferencia: nothing chosen, no client or a transfer under way are
\* refused with a message; what already exists is asked about.
Transferir(itens, envio) ==
  LET conf == Conflitos(itens, envio) IN
  IF itens = {} \/ abaTr.cli = Nenhuma \/ abaTr.ocupado THEN UNCHANGED <<dlgTr, copias>>
  ELSE IF conf = {} THEN Disparar(itens, envio, {}) /\ UNCHANGED dlgTr
  ELSE dlgTr' = Dialogo("conflito", itens, conf, envio) /\ UNCHANGED copias

\* The buttons "enviar" and "baixar".
IniciarTransferencia(itens, envio) ==
  /\ ComClique /\ limTr.ops < MaxOperacoes
  /\ Transferir(itens, envio)
  /\ limTr' = [limTr EXCEPT !.ops = @ + 1]
  /\ UNCHANGED <<abaTr, tentTr, painelTr, leituras, discos>>

\* selecionados: what is marked; the filter hides an item and keeps its mark.
Selecoes(envio) == SUBSET (IF envio THEN ItensEm(Aqui, Lar) ELSE painelTr.itens)

\* arrasto: a drag that walked its 12 dp from one panel, kept until the release
\* on some side, or a Cancel.
Arrastar(envio) ==
  /\ ComClique /\ painelTr.arrasto = {} /\ limTr.ops < MaxOperacoes
  /\ painelTr' = [painelTr EXCEPT !.arrasto = {envio}]
  /\ UNCHANGED <<abaTr, tentTr, leituras, dlgTr, copias, discos, limTr>>

\* On the other side it is a transfer; on the same one it is nothing.
Soltar(itens) ==
  /\ ComClique /\ painelTr.arrasto # {} /\ limTr.ops < MaxOperacoes
  /\ \E envio \in painelTr.arrasto : itens \in Selecoes(envio) /\ Transferir(itens, envio)
  /\ painelTr' = [painelTr EXCEPT !.arrasto = {}]
  /\ limTr' = [limTr EXCEPT !.ops = @ + 1]
  /\ UNCHANGED <<abaTr, tentTr, leituras, discos>>

SoltarNoMesmoLado ==
  /\ painelTr.arrasto # {}
  /\ painelTr' = [painelTr EXCEPT !.arrasto = {}]
  /\ UNCHANGED <<abaTr, tentTr, leituras, dlgTr, copias, discos, limTr>>

Responder(pular) ==
  /\ dlgTr.tipo = "conflito"
  /\ Disparar(dlgTr.itens, dlgTr.envio, pular)
  /\ dlgTr' = SemDialogo
  /\ UNCHANGED <<abaTr, tentTr, painelTr, leituras, discos, limTr>>

Sobrescrever == Responder({})
Pular == Responder(dlgTr.conf)

Cancelar ==
  /\ dlgTr.tipo # "nenhum"
  /\ dlgTr' = SemDialogo
  /\ UNCHANGED <<abaTr, tentTr, painelTr, leituras, copias, discos, limTr>>

Trocar(c, d) == copias' = (copias \ {c}) \union d

\* transferir: client, paths and plan are read when the goroutine starts.
Comecar(c) ==
  /\ c \in copias /\ c.fase = "nova"
  /\ IF abaTr.cli = Nenhuma
     THEN Trocar(c, {}) /\ UNCHANGED abaTr
     ELSE LET de == Origem(c.envio) IN
          /\ Trocar(c, {[c EXCEPT !.fase = "copiando", !.de = de, !.para = Destino(c.envio),
                !.falta = {ArquivoDe(i) : i \in {j \in c.itens : j = "solto"
                                                  \/ Existe(de[1], de[2], ArquivoDe(j))}}]})
          /\ abaTr' = [abaTr EXCEPT !.ocupado = TRUE]
  /\ UNCHANGED <<tentTr, painelTr, leituras, dlgTr, discos, limTr>>

Gravar(c, f, como) ==
  discos' = [discos EXCEPT ![c.para[1]][c.para[2]][f] = como]

\* Variant: the error of the Close of the destination is not looked at.
CopiarSemClose(c, f) ==
  IF ~Existe(c.de[1], c.de[2], f) THEN {[fica |-> discos[c.para[1]][c.para[2]][f], erro |-> TRUE]}
  ELSE {[fica |-> "inteiro", erro |-> FALSE], [fica |-> "cortado", erro |-> FALSE]}

\* copiarParaRemoto: the source is opened first; the destination ends whole, or
\* cut by an error of the copy or of its final Close.  "erro" is what it returns.
Copiar(c, f) ==
  IF ~Existe(c.de[1], c.de[2], f) THEN {[fica |-> discos[c.para[1]][c.para[2]][f], erro |-> TRUE]}
  ELSE {[fica |-> "inteiro", erro |-> FALSE], [fica |-> "cortado", erro |-> TRUE]}

\* One file of the plan; its error ends the transfer.  A file that was under
\* way when the tab closed fails with the client.
CopiarArquivo(c, f) ==
  /\ c \in copias /\ c.fase = "copiando" /\ f \in c.falta
  /\ \E r \in Copiar(c, f) :
       /\ r.erro \/ ~abaTr.fechado
       /\ Gravar(c, f, r.fica)
       /\ Trocar(c, {[c EXCEPT !.falta = @ \ {f}, !.fase = IF r.erro THEN "erro" ELSE @,
                              !.cortou = IF r.fica = "cortado" THEN @ \union {f} ELSE @]})
  /\ UNCHANGED <<abaTr, tentTr, painelTr, leituras, dlgTr, limTr>>

\* "n arquivo(s) transferido(s)".
Anunciar(c) ==
  /\ c \in copias /\ c.fase = "copiando" /\ c.falta = {}
  /\ Trocar(c, {[c EXCEPT !.fase = "feito"]})
  /\ UNCHANGED <<abaTr, tentTr, painelTr, leituras, dlgTr, discos, limTr>>

\* The defer of transferir, also taken when the tab closes between two files.
Encerrar(c) ==
  /\ c \in copias
  /\ c.fase \in {"erro", "feito"} \/ (c.fase = "copiando" /\ abaTr.fechado)
  /\ Trocar(c, {})
  /\ abaTr' = [abaTr EXCEPT !.ocupado = FALSE]
  /\ leituras' = IF c.envio /\ abaTr.cli # Nenhuma
                 THEN leituras \union {<<abaTr.cli, painelTr.caminho>>} ELSE leituras
  /\ UNCHANGED <<tentTr, painelTr, dlgTr, discos, limTr>>

(***************************************************************************)
(* Deletion.                                                               *)
(***************************************************************************)
\* The button: levantar counts the trees under the path of now.  It calls the
\* client with no test: with a folder chosen and no client the program dies.
Excluir(itens) ==
  /\ ComClique /\ limTr.ops < MaxOperacoes
  /\ itens # {} /\ (abaTr.cli # Nenhuma \/ "pasta" \notin itens)
  /\ dlgTr' = Dialogo("excluir", itens, {}, FALSE)
  /\ limTr' = [limTr EXCEPT !.ops = @ + 1]
  /\ UNCHANGED <<abaTr, tentTr, painelTr, leituras, copias, discos>>

\* excluirRemoto: names of the dialog under the path and the client of now,
\* bottom up; an error stops it half way.
ExcluirRemoto(apagados) ==
  /\ dlgTr.tipo = "excluir"
  /\ dlgTr' = SemDialogo
  /\ IF abaTr.cli = Nenhuma THEN UNCHANGED <<discos, leituras>>
     ELSE /\ discos' = [discos EXCEPT ![abaTr.cli][painelTr.caminho] =
                [f \in Arquivos |-> IF f \in {ArquivoDe(i) : i \in apagados} THEN "nao" ELSE @[f]]]
          /\ leituras' = leituras \union {<<abaTr.cli, painelTr.caminho>>}
  /\ UNCHANGED <<abaTr, tentTr, painelTr, copias, limTr>>

\* criarPasta keeps the client it found; the name is created under the path of
\* the moment of the answer, and the folder listed again.
CriarPasta ==
  /\ ComClique /\ limTr.ops < MaxOperacoes /\ abaTr.cli # Nenhuma
  /\ dlgTr' = Dialogo("pasta", {}, {}, FALSE)
  /\ limTr' = [limTr EXCEPT !.ops = @ + 1]
  /\ UNCHANGED <<abaTr, tentTr, painelTr, leituras, copias, discos>>

PastaCriada ==
  /\ dlgTr.tipo = "pasta"
  /\ dlgTr' = SemDialogo
  /\ leituras' = IF abaTr.cli = Nenhuma THEN leituras
                 ELSE leituras \union {<<abaTr.cli, painelTr.caminho>>}
  /\ UNCHANGED <<abaTr, tentTr, painelTr, copias, discos, limTr>>

DaConexao == Discar \/ PublicarCliente \/ ListarAoConectar
DaCopia(c) == Comecar(c) \/ Anunciar(c) \/ Encerrar(c)
              \/ \E f \in c.falta : CopiarArquivo(c, f)

NextTr ==
  \/ Reconectar \/ (\E m \in Maquinas : ApontarPara(m)) \/ Close
  \/ DaConexao
  \/ \E d \in Pastas : Navegar(d) \/ DigitarCaminho(d)
  \/ (\E l \in leituras : ListarRemoto(l)) \/ AplicarListagens
  \/ \E envio \in BOOLEAN :
       \/ \E s \in Selecoes(envio) : IniciarTransferencia(s, envio)
       \/ Arrastar(envio)
  \/ (\E s \in SUBSET Itens : Soltar(s)) \/ SoltarNoMesmoLado
  \/ \E s \in Selecoes(FALSE) : Excluir(s)
  \/ Sobrescrever \/ Pular \/ Cancelar \/ CriarPasta \/ PastaCriada
  \/ \E c \in copias : DaCopia(c)
  \/ \E s \in SUBSET dlgTr.itens : ExcluirRemoto(s)

SpecTr == InitTr /\ [][NextTr]_varsTr

TiposTr ==
  /\ abaTr \in [host : Maquinas, cli : Maquinas \union {Nenhuma}, fechado : BOOLEAN,
                conectando : BOOLEAN, ocupado : BOOLEAN]
  /\ tentTr \in [fase : {"dial", "cliente", "listar", "parada"}, host : Maquinas]
  /\ painelTr.caminho \in Pastas /\ painelTr.itens \subseteq Itens
  /\ leituras \subseteq Maquinas \X Pastas
  /\ \A c \in copias : c.fase \in {"nova", "copiando", "erro", "feito"} /\ c.falta \subseteq Arquivos

(***************************************************************************)
(* Properties.                                                             *)
(***************************************************************************)
\* sftptab.go:223: a connection that ends after the tab closed is not kept,
\* and there is one attempt exactly while conectando says so.
ConexaoGuardada ==
  /\ abaTr.fechado => abaTr.cli = Nenhuma
  /\ abaTr.conectando <=> tentTr.fase # "parada"

\* sftptab.go:485: "n arquivo(s) transferido(s)" is not said over a file the
\* copy left cut, the error of the Close of the destination included.
SoAnunciaInteiro == \A c \in copias : c.fase = "feito" => c.cortou = {}

\* sftptab.go:436: the mark that refuses another transfer has a transfer
\* behind it: no end of a goroutine, the closed tab's included, leaves it up.
OcupadoTemDono == abaTr.ocupado => \E c \in copias : c.fase # "nova"

TransferenciaCerta == ConexaoGuardada /\ SoAnunciaInteiro /\ OcupadoTemDono

\* sftptab.go:666: the machine the tab works on is the one it names.
MaquinaCerta == abaTr.cli \in {Nenhuma, abaTr.host}
=============================================================================
