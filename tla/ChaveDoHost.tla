---------------------------- MODULE ChaveDoHost ----------------------------
(***************************************************************************)
(* The identity of the servers: the known_hosts file that the SSH and the  *)
(* SFTP tabs check and that the ssh command shares, the certificates of    *)
(* RDP, and the question about a key or a certificate that is new or that  *)
(* changed (src/internal/hostkey, hostkeydlg.go, certificadodlg.go).       *)
(*                                                                         *)
(* The goroutines of the tabs connect; the loop of the window answers the  *)
(* questions and writes the file, step by step; there is one slot for the  *)
(* dialog of the whole program (modal.go). The ssh command may write the   *)
(* same file. All keys here are of one type.                               *)
(***************************************************************************)
EXTENDS Naturals, Sequences, SequencesExt

CONSTANTS
  AbasSsh, AbasSftp, AbasRdp,  \* the tabs, by kind
  HostDe,                      \* the server of each tab
  ChavesCh,                    \* the keys a server may have
  Iniciais,                    \* the files the program may start with
  MaxTentativas,               \* connections of each tab
  MaxAcasos                    \* what happens to it: a server with another key, a line
                               \* the ssh command adds, a step on the disk that fails

AbasCh == AbasSsh \union AbasSftp \union AbasRdp
HostsCh == {HostDe[a] : a \in AbasCh}
LinhasCh == [hosts : SUBSET HostsCh, chave : ChavesCh, forma : {"clara", "hash", "ruim"}]
\* A tab is of one kind; a file that is not there has no lines.
ASSUME ChaveAssumption ==
  /\ \A f \in Iniciais : /\ f.linhas \in Seq(LinhasCh) /\ f.existe \in BOOLEAN
                         /\ f.existe \/ f.linhas = <<>>
  /\ AbasSsh \cap AbasRdp = {} /\ AbasSftp \cap (AbasSsh \union AbasRdp) = {}
  /\ "nenhuma" \notin AbasCh \union ChavesCh
  /\ MaxTentativas \in Nat /\ MaxAcasos \in Nat

VARIABLES
  arqCh,     \* known_hosts: existe, linhas
  certCh,    \* the certificates libfreerdp keeps, by server: a set with at most one
  servCh,    \* the key each server has now
  abaCh,     \* by tab: fase, banco (the lines its connection checks), chave, resposta...
  modalCh,   \* the dialog on the screen: aba, chave, mudou, pronto
  gravaCh,   \* Confiar under way in the loop of the window: fase, aba, chave, linhas
  limCh      \* the bounds, and what the operator or the ssh command trusted

varsCh == <<arqCh, certCh, servCh, abaCh, modalCh, gravaCh, limCh>>

SemModal == [aba |-> "nenhuma", chave |-> "nenhuma", mudou |-> FALSE, pronto |-> TRUE]
Legivel(l) == l.forma # "ruim"
Nomeia(l, h) == h \in l.hosts
\* The keys that the readable lines of a file have for a server.
ChavesNo(linhas, h) ==
  {l.chave : l \in {x \in ToSet(linhas) : Legivel(x) /\ Nomeia(x, h)}}

InitCh ==
  /\ arqCh \in Iniciais
  /\ certCh \in [HostsCh -> {{}} \union {{k} : k \in ChavesCh}]
  /\ servCh \in [HostsCh -> ChavesCh]
  /\ \E abertas \in SUBSET AbasCh :
     abaCh = [a \in AbasCh |->
         [fase |-> IF a \in abertas THEN "parada" ELSE "fim", fechada |-> a \notin abertas,
          banco |-> <<>>, tinha |-> FALSE, noMeio |-> FALSE, chave |-> "nenhuma",
          achou |-> "ok", resposta |-> "nenhuma", confirmada |-> "nenhuma", repetiu |-> FALSE]]
  /\ modalCh = SemModal
  /\ gravaCh = [fase |-> "livre", aba |-> "nenhuma", chave |-> "nenhuma", linhas |-> <<>>]
  /\ limCh = [tent |-> [a \in AbasCh |-> 0], novas |-> 0, outros |-> 0, falhas |-> 0,
              confiadas |-> [h \in HostsCh |-> ChavesNo(arqCh.linhas, h) \union certCh[h]]]

-----------------------------------------------------------------------------
HaAcaso == limCh.novas + limCh.outros + limCh.falhas < MaxAcasos

\* A step on the disk goes well, or fails.
Disco(ok) ==
  /\ ok \/ HaAcaso
  /\ limCh' = [limCh EXCEPT !.falhas = IF ok THEN @ ELSE @ + 1]

\* The loop of sanear and of Remover: the lines that are in quais, in their order.
Ficam(linhas, quais) ==
  LET ate[i \in 0..Len(linhas)] ==
        IF i = 0 THEN <<>>
        ELSE IF linhas[i] \in quais THEN Append(ate[i - 1], linhas[i]) ELSE ate[i - 1]
  IN ate[Len(linhas)]

\* sanear: the lines that parse, when there is one that does not.
Sanear(arq) == Ficam(arq.linhas, {l \in LinhasCh : Legivel(l)})

\* semKnownHosts and knownhosts.New: the lines a connection checks. A file that is
\* not there knows nobody; one with a bad line is read without it; and without
\* the temporary file for that (ok), nobody is known.
Banco(arq, ok) ==
  IF ~arq.existe THEN <<>>
  ELSE IF \A i \in DOMAIN arq.linhas : Legivel(arq.linhas[i]) THEN arq.linhas
  ELSE IF ok THEN Sanear(arq) ELSE <<>>

\* The verifier of x/crypto: the first line of the server decides.
Verificar(banco, h, k) ==
  LET doHost == {i \in DOMAIN banco : Nomeia(banco[i], h)}
  IN IF doHost = {} THEN "desconhecida"
     ELSE IF \E i \in doHost : banco[i].chave = k /\ \A j \in doHost : i <= j THEN "ok"
     ELSE "mudou"
\* libfreerdp asks of a certificate it does not keep, and of one that differs.
VerificarCert(h, k) ==
  IF certCh[h] = {} THEN "desconhecida" ELSE IF k \in certCh[h] THEN "ok" ELSE "mudou"

AbrirDialogo(a, k, m, espera) ==
  modalCh' = [aba |-> a, chave |-> k, mudou |-> m, pronto |-> ~espera]
FecharDialogoCh == modalCh' = SemModal

-----------------------------------------------------------------------------
(* The tabs. *)

\* A connection begins: the file is read here, before the server is dialed.
CarregarCh(a, ok) ==
  /\ abaCh' = [abaCh EXCEPT ![a].fase = "disca", ![a].banco = Banco(arqCh, ok),
                            ![a].tinha = ok /\ ChavesNo(arqCh.linhas, HostDe[a]) # {},
                            ![a].noMeio = gravaCh.fase = "acrescenta" /\ HostDe[gravaCh.aba] = HostDe[a],
                            ![a].resposta = "nenhuma", ![a].repetiu = FALSE]
  /\ UNCHANGED <<arqCh, certCh, servCh, modalCh, gravaCh>>

\* The tab's own start, or a gesture on it with no dialog in the way.
ComecarCh(a) ==
  /\ abaCh[a].fase = "parada" /\ limCh.tent[a] < MaxTentativas
  /\ (limCh.tent[a] = 0 \/ (modalCh = SemModal /\ gravaCh.fase = "livre"))
  /\ \E ok \in BOOLEAN :
       /\ ok \/ HaAcaso
       /\ limCh' = [limCh EXCEPT !.tent[a] = @ + 1, !.falhas = IF ok THEN @ ELSE @ + 1]
       /\ CarregarCh(a, ok)

\* The key of the server arrives. One that is not known stops the connection and
\* opens the question: the SSH tab and the RDP child wait for the answer, the
\* SFTP tab gives up and is started again by it. A tab that was closed meanwhile
\* asks all the same.
ReceberChave(a) ==
  LET h == HostDe[a]
      k == servCh[h]
      r == IF a \in AbasRdp THEN VerificarCert(h, k) ELSE Verificar(abaCh[a].banco, h, k)
  IN /\ abaCh[a].fase = "disca"
     /\ abaCh' = [abaCh EXCEPT ![a].chave = k, ![a].achou = r,
          ![a].fase = IF abaCh[a].fechada THEN "fim" ELSE IF r = "ok" THEN "ligada"
                      ELSE IF a \in AbasSftp THEN "parada" ELSE "espera",
          ![a].repetiu = r # "ok" /\ a \notin AbasRdp /\ k = abaCh[a].confirmada]
     /\ IF r = "ok" THEN UNCHANGED modalCh
        ELSE AbrirDialogo(a, k, r = "mudou", a \in AbasRdp /\ r = "mudou")
     /\ UNCHANGED <<arqCh, certCh, servCh, gravaCh, limCh>>

\* The server is not there, or refuses for another reason.
FalharDiscarCh(a) ==
  /\ abaCh[a].fase = "disca"
  /\ abaCh' = [abaCh EXCEPT ![a].fase = IF abaCh[a].fechada THEN "fim" ELSE "parada"]
  /\ UNCHANGED <<arqCh, certCh, servCh, modalCh, gravaCh, limCh>>

\* The tab was told yes and connects again at once, with the file as it is now:
\* the SSH tab, which waited, and the SFTP tab by a new conectar, which does
\* nothing while another is under way, and does not look at the tab being closed.
Retomar(a) ==
  /\ abaCh[a].resposta = "sim"
  /\ abaCh[a].fase \in IF a \in AbasSftp THEN {"parada", "fim"} ELSE {"espera"}
  /\ \E ok \in BOOLEAN : Disco(ok) /\ CarregarCh(a, ok)

\* The answer crosses the socket to the child, whose handshake goes on or ends.
\* To accept and keep is what libfreerdp does with CertAceitarSalvo.
ReceberResposta(a) ==
  LET v == abaCh[a].resposta
      h == HostDe[a]
  IN /\ a \in AbasRdp /\ abaCh[a].fase = "espera" /\ v # "nenhuma"
     /\ abaCh' = [abaCh EXCEPT ![a].fase = IF v = "recusar" THEN "parada" ELSE "ligada",
                               ![a].resposta = "nenhuma"]
     /\ certCh' = IF v = "salvo" THEN [certCh EXCEPT ![h] = {abaCh[a].chave}] ELSE certCh
     /\ UNCHANGED <<arqCh, servCh, modalCh, gravaCh, limCh>>

CairCh(a) ==
  /\ abaCh[a].fase = "ligada"
  /\ abaCh' = [abaCh EXCEPT ![a].fase = "parada"]
  /\ UNCHANGED <<arqCh, certCh, servCh, modalCh, gravaCh, limCh>>

\* Close: whoever waits for an answer stops waiting, and a child is killed; a dial
\* under way goes on, and the question stays on the screen.
FecharAbaCh(a) ==
  /\ ~abaCh[a].fechada
  /\ abaCh' = [abaCh EXCEPT ![a].fechada = TRUE,
                            ![a].fase = IF @ = "disca" /\ a \notin AbasRdp THEN @ ELSE "fim"]
  /\ UNCHANGED <<arqCh, certCh, servCh, modalCh, gravaCh, limCh>>

-----------------------------------------------------------------------------
(* The loop of the window: the dialogs, and Confiar. *)

\* The button of the key's dialog: Confiar begins, for the key of the question. What
\* another tab had confirmed of that server is no longer what the operator said last.
ClicarConfiar ==
  LET a == modalCh.aba IN
  /\ gravaCh.fase = "livre" /\ a \in AbasSsh \union AbasSftp
  /\ gravaCh' = [fase |-> "remove", aba |-> a, chave |-> modalCh.chave, linhas |-> <<>>]
  /\ limCh' = [limCh EXCEPT !.confiadas[HostDe[a]] = @ \union {modalCh.chave}]
  /\ abaCh' = [x \in AbasCh |-> IF x = a THEN [abaCh[x] EXCEPT !.confirmada = modalCh.chave]
                ELSE IF HostDe[x] = HostDe[a] /\ abaCh[x].confirmada # modalCh.chave
                THEN [abaCh[x] EXCEPT !.confirmada = "nenhuma"] ELSE abaCh[x]]
  /\ UNCHANGED <<arqCh, certCh, servCh, modalCh>>

\* casaHost reads the first field: a line whose names are hashed is nobody's.
CasaHost(l, h) == Nomeia(l, h) /\ l.forma # "hash"
Mantidas(linhas, h) == Ficam(linhas, {l \in LinhasCh : ~CasaHost(l, h)})

\* Remover reads the file and chooses the lines that stay.
LerParaRemover ==
  /\ gravaCh.fase = "remove"
  /\ \E ok \in BOOLEAN :
       /\ Disco(ok)
       /\ gravaCh' = [gravaCh EXCEPT
            !.fase = IF ~ok THEN "fecha" ELSE IF arqCh.existe THEN "troca" ELSE "acrescenta",
            !.linhas = Mantidas(arqCh.linhas, HostDe[gravaCh.aba])]
  /\ UNCHANGED <<arqCh, certCh, servCh, abaCh, modalCh>>

\* The temporary file takes the place of known_hosts, with what was read.
TrocarArquivoCh ==
  /\ gravaCh.fase = "troca"
  /\ \E ok \in BOOLEAN :
       /\ Disco(ok)
       /\ arqCh' = IF ok THEN [existe |-> TRUE, linhas |-> gravaCh.linhas] ELSE arqCh
       /\ gravaCh' = [gravaCh EXCEPT !.fase = IF ok THEN "acrescenta" ELSE "fecha"]
  /\ UNCHANGED <<certCh, servCh, abaCh, modalCh>>

\* The new line goes to the end of the file, whatever it has by now.
AcrescentarCh ==
  LET nova == [hosts |-> {HostDe[gravaCh.aba]}, chave |-> gravaCh.chave, forma |-> "clara"] IN
  /\ gravaCh.fase = "acrescenta"
  /\ \E ok \in BOOLEAN :
       /\ Disco(ok)
       /\ arqCh' = IF ok THEN [existe |-> TRUE, linhas |-> Append(arqCh.linhas, nova)] ELSE arqCh
  /\ gravaCh' = [gravaCh EXCEPT !.fase = "fecha"]
  /\ UNCHANGED <<certCh, servCh, abaCh, modalCh>>

\* With the line written or not, the dialog that is on the screen closes, and the
\* tab is told.
FimDoConfiar ==
  LET a == gravaCh.aba IN
  /\ gravaCh.fase = "fecha"
  /\ gravaCh' = [gravaCh EXCEPT !.fase = "livre"]
  /\ FecharDialogoCh
  /\ abaCh' = [abaCh EXCEPT ![a].resposta = "sim"]
  /\ UNCHANGED <<arqCh, certCh, servCh, limCh>>

\* "Não conectar" of a key, and Esc of any dialog: it closes, and nobody is told.
Calar ==
  /\ gravaCh.fase = "livre" /\ modalCh # SemModal /\ FecharDialogoCh
  /\ UNCHANGED <<arqCh, certCh, servCh, abaCh, gravaCh, limCh>>

\* The three seconds before a certificate that changed can be kept.
PassarEspera ==
  /\ ~modalCh.pronto
  /\ modalCh' = [modalCh EXCEPT !.pronto = TRUE]
  /\ UNCHANGED <<arqCh, certCh, servCh, abaCh, gravaCh, limCh>>

\* The buttons of the certificate's dialog.
ResponderCert(v) ==
  LET a == modalCh.aba IN
  /\ gravaCh.fase = "livre" /\ a \in AbasRdp
  /\ v = "salvo" => modalCh.pronto
  /\ FecharDialogoCh
  /\ abaCh' = [abaCh EXCEPT ![a].resposta = IF abaCh[a].fase = "espera" THEN v ELSE @]
  /\ limCh' = [limCh EXCEPT !.confiadas[HostDe[a]] = IF v = "recusar" THEN @ ELSE @ \union {modalCh.chave}]
  /\ UNCHANGED <<arqCh, certCh, servCh, gravaCh>>

-----------------------------------------------------------------------------
(* The servers and the ssh command. *)

\* A machine that was installed again has another key.
TrocarChave(h) ==
  /\ HaAcaso
  /\ limCh' = [limCh EXCEPT !.novas = @ + 1]
  /\ \E k \in ChavesCh \ {servCh[h]} : servCh' = [servCh EXCEPT ![h] = k]
  /\ UNCHANGED <<arqCh, certCh, abaCh, modalCh, gravaCh>>

\* The ssh command adds the key of a server it does not know, with or without the
\* name hashed.
OutroEscreve(h, forma) ==
  /\ HaAcaso
  /\ Verificar(arqCh.linhas, h, servCh[h]) = "desconhecida"
  /\ arqCh' = [existe |-> TRUE,
               linhas |-> Append(arqCh.linhas, [hosts |-> {h}, chave |-> servCh[h], forma |-> forma])]
  /\ limCh' = [limCh EXCEPT !.outros = @ + 1, !.confiadas[h] = @ \union {servCh[h]}]
  /\ UNCHANGED <<certCh, servCh, abaCh, modalCh, gravaCh>>

NextCh ==
  \/ \E a \in AbasCh : \/ ComecarCh(a) \/ ReceberChave(a) \/ FalharDiscarCh(a) \/ Retomar(a)
                       \/ ReceberResposta(a) \/ CairCh(a) \/ FecharAbaCh(a)
  \/ ClicarConfiar \/ LerParaRemover \/ TrocarArquivoCh \/ AcrescentarCh \/ FimDoConfiar
  \/ Calar \/ PassarEspera \/ \E v \in {"recusar", "salvo", "uma"} : ResponderCert(v)
  \/ \E h \in HostsCh : TrocarChave(h) \/ \E f \in {"clara", "hash"} : OutroEscreve(h, f)

SpecCh == InitCh /\ [][NextCh]_varsCh

(***************************************************************************)
(* Properties.                                                             *)
(***************************************************************************)
FasesCh == {"parada", "disca", "espera", "ligada", "fim"}

TiposCh ==
  /\ arqCh.linhas \in Seq(LinhasCh) /\ arqCh.existe \in BOOLEAN
  /\ certCh \in [HostsCh -> SUBSET ChavesCh] /\ servCh \in [HostsCh -> ChavesCh]
  /\ \A a \in AbasCh : abaCh[a].fase \in FasesCh /\ abaCh[a].banco \in Seq(LinhasCh)
  /\ modalCh.aba \in AbasCh \union {"nenhuma"}
  /\ gravaCh.fase \in {"livre", "remove", "troca", "acrescenta", "fecha"}
  /\ limCh.confiadas \in [HostsCh -> SUBSET ChavesCh]

\* A session is open only with a key that the operator, or the ssh command, trusted
\* for that very server: the answer given is about the key that was asked, however
\* many questions cross (hostkey.go 6-7, hostkeydlg.go 51-54).
SoConfiada ==
  \A a \in AbasCh : abaCh[a].fase = "ligada" => abaCh[a].chave \in limCh.confiadas[HostDe[a]]

\* A server that had a readable line when its file was read is never shown as
\* new: with a bad line elsewhere in the file, a key that changed is still seen to
\* have changed (hostkey.go 179-197).
TrocaDetectada ==
  \A a \in AbasCh \ AbasRdp :
    abaCh[a].tinha => ~(abaCh[a].achou = "desconhecida" /\ abaCh[a].fase \in {"espera", "parada"}
                        /\ modalCh.aba = a)

\* A key that was confirmed is not asked again by the tab it was confirmed for,
\* until another key of that server is, unless the disk failed, the ssh command
\* wrote, the file was read between the two halves of another Confiar for that
\* server, or it has the name hashed, which Remover cannot read (hostkey.go 110-111).
ConfirmaUmaVez ==
  \A a \in AbasCh :
    abaCh[a].repetiu => \/ limCh.falhas > 0 \/ limCh.outros > 0 \/ abaCh[a].noMeio
                        \/ \E i \in DOMAIN arqCh.linhas : /\ Nomeia(arqCh.linhas[i], HostDe[a])
                                                          /\ arqCh.linhas[i].forma = "hash"

ChaveCerta == SoConfiada /\ TrocaDetectada /\ ConfirmaUmaVez

\* What sshtab.go 336-338 expects: while a tab waits, its question is on the screen.
PerguntaNaTela ==
  \A a \in AbasCh : abaCh[a].fase = "espera" /\ abaCh[a].resposta = "nenhuma" => modalCh.aba = a
=============================================================================
