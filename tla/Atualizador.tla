------------------------------ MODULE Atualizador ------------------------------
(***************************************************************************)
(* The updater: the choice of a release among those GitHub lists, the      *)
(* dialog that offers it, the goroutine that downloads and installs it,    *)
(* and the installers that stay on disk on Windows                         *)
(* (internal/atualizador, cmd/acessos/atualizardlg.go).  A version is the  *)
(* tuple of its parts; GitHub, the installer and flatpak are external.     *)
(***************************************************************************)
EXTENDS Integers, Sequences, FiniteSets, FiniteSetsExt

CONSTANTS
  Sistemas,   \* "linux" (inside the Flatpak), "windows", "fora" (neither)
  MaxLista,   \* bound: releases listed
  Datas       \* dates of the installers on disk

ASSUME AtualizadorAssumption ==
  /\ Sistemas \subseteq {"linux", "windows", "fora"} /\ MaxLista \in Nat
  /\ Datas \subseteq Nat

VARIABLES
  mundoAt,  \* the system, the version installed, the releases listed
  checAt,   \* checarAtualizacao: where it is, whether GitHub answered, what it found
  dlgAt,    \* dlgAtualizar: on screen, baixando, instalando, erro
  obraAt,   \* the goroutine of instalar, the package it downloaded, and havia, the
            \* installers there were when it cleaned them
  discoAt,  \* the installers on disk: name -> date
  procAt    \* the process: alive, and whether its closing was confirmed

varsAt == <<mundoAt, checAt, dlgAt, obraAt, discoAt, procAt>>

(***************************************************************************)
(* The choice (MaisNova, montar, escolher).                                *)
(***************************************************************************)
Partes == UNION {[1..n -> 0..1] : n \in 1..2}
Parte(v, i) == IF i \in DOMAIN v THEN v[i] ELSE 0
MaisNova(a, b) ==
  \E i \in 1..2 : /\ Parte(a, i) > Parte(b, i)
                  /\ \A j \in 1..(i - 1) : Parte(a, j) = Parte(b, j)

\* Outside the Flatpak, on Linux, there is nobody to install it.
Suportado(so) == so \in {"linux", "windows"}

\* acharSoma: the file of the sums is read on Windows only.
SomaPodeFalhar(so) == so = "windows"

\* montar: a package for this system; none; or a SHA256SUMS that was not read, which
\* happens on Windows only.
Montagens(so) == {"tem", "sem"} \union {e \in {"erro"} : SomaPodeFalhar(so)}
Releases(so) == [tag : Partes, fora : BOOLEAN, monta : Montagens(so)]
Listas(so) == UNION {[1..n -> Releases(so)] : n \in 0..MaxLista}

\* sort.SliceStable, from the newest to the oldest.
Posicao(lista, i) ==
  1 + Cardinality({j \in DOMAIN lista :
        \/ MaisNova(lista[j].tag, lista[i].tag)
        \/ j < i /\ ~MaisNova(lista[i].tag, lista[j].tag)})
Ordem(lista) == [k \in DOMAIN lista |-> lista[CHOOSE i \in DOMAIN lista : Posicao(lista, i) = k]]

\* The sweep skips drafts and previews and stops at the first that is no newer.
Varridas(ordem, atual) ==
  {k \in DOMAIN ordem : ~ordem[k].fora
     /\ \A m \in 1..k : ordem[m].fora \/ MaisNova(ordem[m].tag, atual)}
Servem(ordem, atual) == {k \in Varridas(ordem, atual) : ordem[k].monta = "tem"}

NenhumaAt == [tag |-> <<>>, tipo |-> "nada"]
ErroAt == [tag |-> <<>>, tipo |-> "erro"]
\* Variant: a list of sums that was not read is left aside without a word.
EscolherCalado(lista, atual) ==
  LET ordem == Ordem(lista) IN
  IF Servem(ordem, atual) # {}
  THEN [tag |-> ordem[Min(Servem(ordem, atual))].tag, tipo |-> "release"]
  ELSE NenhumaAt

EscolherAt(lista, atual) ==
  LET ordem == Ordem(lista) IN
  IF Servem(ordem, atual) # {}
  THEN [tag |-> ordem[Min(Servem(ordem, atual))].tag, tipo |-> "release"]
  ELSE IF \E k \in Varridas(ordem, atual) : ordem[k].monta = "erro"
  THEN ErroAt
  ELSE NenhumaAt

\* Checar: a list that did not come is an error too.
Achado(rede) == IF rede THEN EscolherAt(mundoAt.lista, mundoAt.atual) ELSE ErroAt

(***************************************************************************)
(* The installers on disk (limparPacotes): 2 is the one just downloaded, 1 *)
(* and 3 are of other updates.  Newest date first, ties by name: a date is *)
(* a guess, and the one just downloaded may be the last of them.           *)
(***************************************************************************)
Mantidos == 2   \* pacotesMantidos
Novo == 2
AntesDe(d, q, p) == d[q] > d[p] \/ (d[q] = d[p] /\ q > p)
Guardados(d, preservar) ==
  {p \in DOMAIN d : \/ p = preservar
                    \/ Cardinality({q \in DOMAIN d : AntesDe(d, q, p)}) < Mantidos}
LimparPacotes(d, preservar) == [p \in Guardados(d, preservar) |-> d[p]]

InitAt ==
  /\ \E so \in Sistemas : \E lista \in Listas(so) :
       mundoAt = [so |-> so, atual |-> <<0, 1>>, lista |-> lista]
  /\ checAt = [fase |-> "checa", rede |-> FALSE, rel |-> NenhumaAt]
  /\ dlgAt = [aberto |-> FALSE, baixando |-> FALSE, instalando |-> FALSE, erro |-> FALSE]
  /\ obraAt = [fase |-> "fora", inteiro |-> FALSE, rodou |-> FALSE, havia |-> <<>>]
  /\ discoAt \in UNION {[v -> Datas] : v \in SUBSET {1, 3}}
  /\ mundoAt.so # "windows" => discoAt = <<>>
  /\ procAt = [vivo |-> TRUE, adiou |-> FALSE, fechou |-> "nada"]

Vivo == procAt.vivo

(***************************************************************************)
(* checarAtualizacao: once, at the start, on a goroutine.                  *)
(***************************************************************************)
Checar(rede) ==
  /\ Vivo /\ checAt.fase = "checa" /\ Suportado(mundoAt.so)
  /\ checAt' = [fase |-> "fim", rede |-> rede, rel |-> Achado(rede)]
  /\ dlgAt' = [dlgAt EXCEPT !.aberto = Achado(rede).tipo = "release"]
  /\ UNCHANGED <<mundoAt, obraAt, discoAt, procAt>>

(***************************************************************************)
(* The dialog.  Depois is there, and works, until the install begins.      *)
(***************************************************************************)
Depois ==
  /\ Vivo /\ dlgAt.aberto /\ ~dlgAt.instalando
  /\ dlgAt' = [dlgAt EXCEPT !.aberto = FALSE]
  /\ procAt' = [procAt EXCEPT !.adiou = TRUE]
  /\ UNCHANGED <<mundoAt, checAt, obraAt, discoAt>>

Agora ==
  /\ Vivo /\ dlgAt.aberto /\ ~dlgAt.baixando /\ ~dlgAt.instalando
  /\ dlgAt' = [dlgAt EXCEPT !.baixando = TRUE, !.erro = FALSE]
  /\ obraAt' = [obraAt EXCEPT !.fase = "baixa"]
  /\ UNCHANGED <<mundoAt, checAt, discoAt, procAt>>

\* The single slot of the dialogs: another one takes it.
OutroDialogo ==
  /\ Vivo /\ dlgAt.aberto
  /\ dlgAt' = [dlgAt EXCEPT !.aberto = FALSE]
  /\ UNCHANGED <<mundoAt, checAt, obraAt, discoAt, procAt>>

(***************************************************************************)
(* The goroutine.                                                          *)
(***************************************************************************)
Falhar ==
  /\ obraAt' = [obraAt EXCEPT !.fase = "fora"]
  /\ dlgAt' = [dlgAt EXCEPT !.baixando = FALSE, !.instalando = FALSE, !.erro = TRUE]

\* baixar: an error, before or after the file was made, or all that the server sent;
\* on Windows into the directory of the installers, where a date is what the clock says.
Baixar(ok, inteiro, criou, data) ==
  /\ Vivo /\ obraAt.fase = "baixa"
  /\ (inteiro => ok) /\ (ok => criou)
  /\ discoAt' = IF mundoAt.so = "windows" /\ criou
                THEN [p \in DOMAIN discoAt \union {Novo} |-> IF p = Novo THEN data ELSE discoAt[p]]
                ELSE discoAt
  /\ IF ok THEN /\ obraAt' = [obraAt EXCEPT !.inteiro = inteiro,
                    !.fase = IF mundoAt.so = "windows" THEN "confere" ELSE "instala"]
                /\ dlgAt' = [dlgAt EXCEPT !.instalando = mundoAt.so = "linux"]
     ELSE Falhar
  /\ UNCHANGED <<mundoAt, checAt, procAt>>

\* conferirSha256: the sum is the published one.
SomaConfere == obraAt.inteiro

\* The check, the cleaning of the older ones, and the start of the installer.  A file
\* that cannot be removed stays, which costs disk and nothing else: left out.
InstalarWindows ==
  /\ Vivo /\ obraAt.fase = "confere"
  /\ IF SomaConfere
     THEN /\ discoAt' = LimparPacotes(discoAt, Novo)
          /\ obraAt' = [obraAt EXCEPT !.fase = "instala", !.rodou = TRUE,
                                       !.havia = discoAt]
          /\ dlgAt' = [dlgAt EXCEPT !.instalando = TRUE]
     ELSE /\ Falhar
          /\ discoAt' = [p \in DOMAIN discoAt \ {Novo} |-> discoAt[p]]
  /\ UNCHANGED <<mundoAt, checAt, procAt>>

NaoIniciou ==
  /\ Vivo /\ obraAt.fase = "confere" /\ SomaConfere
  /\ discoAt' = LimparPacotes(discoAt, Novo)
  /\ Falhar
  /\ UNCHANGED <<mundoAt, checAt, procAt>>

\* flatpak install or the installer, to its end; a package that is not whole is one
\* that flatpak refuses.
Instalar(ok) ==
  /\ Vivo /\ obraAt.fase = "instala"
  /\ ok => obraAt.inteiro
  /\ IF ok THEN /\ obraAt' = [obraAt EXCEPT !.fase = "fecha"]
                /\ mundoAt' = [mundoAt EXCEPT !.atual = checAt.rel.tag]
                /\ UNCHANGED dlgAt
     ELSE Falhar /\ UNCHANGED mundoAt
  /\ UNCHANGED <<checAt, discoAt, procAt>>

\* On Linux the new instance did not start.
NaoReabriu ==
  /\ Vivo /\ obraAt.fase = "fecha" /\ mundoAt.so = "linux"
  /\ Falhar
  /\ UNCHANGED <<mundoAt, checAt, discoAt, procAt>>

\* ActionClose.
FecharApp ==
  /\ Vivo /\ obraAt.fase = "fecha"
  /\ procAt' = [procAt EXCEPT !.vivo = FALSE, !.fechou = "atualizou"]
  /\ UNCHANGED <<mundoAt, checAt, dlgAt, obraAt, discoAt>>

\* The Restart Manager: the installer ends this process when it needs the file.
FecharPeloInstalador ==
  /\ Vivo /\ obraAt.fase = "instala" /\ mundoAt.so = "windows"
  /\ procAt' = [procAt EXCEPT !.vivo = FALSE, !.fechou = "atualizou"]
  /\ mundoAt' = [mundoAt EXCEPT !.atual = checAt.rel.tag]
  /\ UNCHANGED <<checAt, dlgAt, obraAt, discoAt>>

Sair ==
  /\ Vivo
  /\ procAt' = [procAt EXCEPT !.vivo = FALSE, !.fechou = "saiu"]
  /\ UNCHANGED <<mundoAt, checAt, dlgAt, obraAt, discoAt>>

Obra == \/ \E ok, inteiro, criou \in BOOLEAN, data \in Datas : Baixar(ok, inteiro, criou, data)
        \/ InstalarWindows \/ NaoIniciou \/ FecharApp \/ FecharPeloInstalador
        \/ \E ok \in BOOLEAN : Instalar(ok)
        \/ NaoReabriu

NextAt ==
  \/ \E rede \in BOOLEAN : Checar(rede)
  \/ Depois \/ Agora \/ OutroDialogo \/ Obra \/ Sair

SpecAt == InitAt /\ [][NextAt]_varsAt

(***************************************************************************)
(* Properties.                                                             *)
(***************************************************************************)
TiposAt ==
  /\ mundoAt.so \in Sistemas /\ mundoAt.atual \in Partes
  /\ checAt.fase \in {"checa", "fim"} /\ checAt.rel.tipo \in {"nada", "erro", "release"}
  /\ obraAt.fase \in {"fora", "baixa", "confere", "instala", "fecha"}
  /\ \A p \in DOMAIN discoAt : p \in 1..3 /\ discoAt[p] \in Datas

\* What is offered is the newest there is for this system, and newer than what is
\* installed; there is an error only when nothing serves and something was not read;
\* and "nothing new" is said only when the list came, nothing in it serves, and no
\* release newer than this one had its sums unread (atualizador.go 20-27, 149-152).
Oferecivel(r) == ~r.fora /\ MaisNova(r.tag, <<0, 1>>)
EscolhaCerta ==
  LET lista == mundoAt.lista  rs == {lista[i] : i \in DOMAIN lista}
      boas == {r \in rs : Oferecivel(r) /\ r.monta = "tem"} IN
  checAt.fase = "fim" =>
    /\ checAt.rel.tipo = "release" =>
         /\ \E r \in boas : r.tag = checAt.rel.tag
         /\ \A r \in boas : ~MaisNova(r.tag, checAt.rel.tag)
    /\ checAt.rel.tipo = "erro" =>
         \/ ~checAt.rede
         \/ boas = {} /\ \E r \in rs : Oferecivel(r) /\ r.monta = "erro"
    /\ checAt.rel.tipo = "nada" =>
         /\ checAt.rede /\ boas = {}
         /\ \A r \in rs : Oferecivel(r) => r.monta = "sem"

\* The installer to go back to: the newest of those there were besides the new one.
Anterior(d) ==
  {p \in DOMAIN d \ {Novo} : \A q \in DOMAIN d \ {Novo} : ~AntesDe(d, q, p)}

\* No installer runs that is not the one published (atualizador.go 26-28).  While it
\* runs it is on disk even if its date is the oldest, with the one to go back to if
\* there was one (397-405, 423-427), and with no other when its date is the newest.
SoConferido ==
  obraAt.rodou /\ obraAt.fase = "instala" =>
    /\ obraAt.inteiro /\ Novo \in DOMAIN discoAt
    /\ Anterior(obraAt.havia) \subseteq DOMAIN discoAt
    /\ (\A q \in DOMAIN obraAt.havia : ~AntesDe(obraAt.havia, q, Novo))
         => DOMAIN discoAt \subseteq {Novo} \union Anterior(obraAt.havia)

\* What is on screen is what the goroutine does: a dialog without the bar has no
\* download under way, and one that hides its buttons is installing.
TelaCerta ==
  /\ dlgAt.baixando <=> obraAt.fase # "fora"
  /\ dlgAt.instalando <=> obraAt.fase \in {"instala", "fecha"}

AtualizacaoCerta == EscolhaCerta /\ SoConferido /\ TelaCerta

\* "com manter=2 ficam o que acabou de chegar e UM anterior" (atualizador.go 468-469):
\* not of the code, which counts the new one in the quota where its date puts it.
CotaRespeitada ==
  obraAt.rodou /\ obraAt.fase = "instala" => Cardinality(DOMAIN discoAt) <= Mantidos

\* "Quem esta no meio de um atendimento decide a hora" (atualizardlg.go 18-21): who
\* answered Depois last is not closed by the update.
SoComConfirmacao == procAt.adiou => procAt.fechou # "atualizou"
=============================================================================
