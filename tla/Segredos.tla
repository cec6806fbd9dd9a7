------------------------------ MODULE Segredos ------------------------------
(***************************************************************************)
(* The secrets: conexoes.ini with the password of each connection and,     *)
(* in old installations, the [cofre] section; chaveiro.ini with the named  *)
(* credentials and, since 1.2.0, the [cofre] section; what the process has *)
(* of both in memory; and the dialogs of the vault, of the keyring and of  *)
(* a connection, which write them (cofredlg.go, chaveirodlg.go,            *)
(* conexaodlg.go, internal/cofre, internal/chaveiro).  A key is its        *)
(* number: every vault created draws a new salt, so it has a new key.      *)
(***************************************************************************)
EXTENDS Integers, FiniteSets

CONSTANTS
  ConexoesSe,   \* the connections, all of one user
  Creds,      \* names a credential may have; the user's name is one of them
  Usuario,    \* that user, whose name importar gives to the credential
  MaxChaves,  \* bound: vaults ever created
  Dano        \* an old version left a sealed alias in conexoes.ini

ASSUME SegredosAssumption ==
  /\ Usuario \in Creds /\ MaxChaves \in Nat \ {0} /\ Dano \in BOOLEAN

VARIABLES
  iniSe,  \* conexoes.ini: the key of its [cofre] (0: no section) and the passwords
  chSe,   \* chaveiro.ini: that it exists, the key of its [cofre], the credentials
  memSe,  \* cofreAberto (0: locked), chaveiroAtual, the inventory of the Panel, and
          \* inicio, the [cofre] of the inventory read at the start
  dlgSe,  \* the dialog on screen, with the [cofre] of the inventory it was given
  obsSe   \* history: see the properties

varsSe == <<iniSe, chSe, memSe, dlgSe, obsSe>>

Nada == [t |-> "nada", n |-> "nada"]
Senha == [t |-> "senha", n |-> "nada"]
Alias(n) == [t |-> "alias", n |-> n]
Aliases == {Alias(n) : n \in Creds}
VazioSe == [k |-> 0, v |-> Nada]
Claro(v) == [k |-> 0, v |-> v]
Ausente == [k |-> -1, v |-> Nada]
Textos == {Senha} \union Aliases

EhAlias(s) == s.k = 0 /\ s.v \in Aliases
Cifrado(s) == s.k > 0

\* Cifrar: a sealed value never equals another, the nonce being new each time; it
\* is known by its key and by what is in it.
Cifrar(k, v) == [k |-> k, v |-> v]

Fecha == [tipo |-> "nenhum", para |-> "nada", cofre |-> 0]

\* One of the three installations the readers accept: nothing yet, the vault in
\* conexoes.ini (old), the vault in chaveiro.ini.
Instalacoes == {"nova", "antiga", "atual"}
InitSe ==
  \E inst \in Instalacoes :
    /\ iniSe = [cofre |-> IF inst = "antiga" THEN 1 ELSE 0,
                seg |-> [c \in ConexoesSe |->
                           IF inst = "nova" THEN Claro(Senha)
                           ELSE Cifrar(1, IF Dano THEN Alias(Usuario) ELSE Senha)]]
    /\ chSe = [existe |-> inst = "atual", cofre |-> IF inst = "atual" THEN 1 ELSE 0,
               cred |-> [n \in Creds |-> Ausente]]
    /\ memSe = [aberto |-> 0, chav |-> chSe, arq |-> iniSe, inicio |-> iniSe.cofre]
    /\ dlgSe = Fecha
    /\ obsSe = [trocou |-> FALSE, importou |-> FALSE, enviado |-> VazioSe, mudo |-> FALSE,
                criou |-> 1]

(***************************************************************************)
(* internal/chaveiro and the [cofre] in force.                             *)
(***************************************************************************)
\* paramsCofre: chaveiroAtual when it has the section, the inventory otherwise.
ParamsCofre(chav, arq) == IF chav.cofre > 0 THEN chav.cofre ELSE arq.cofre
TemCofre == ParamsCofre(memSe.chav, memSe.arq) > 0

\* Resolver: a broken alias comes back as it went.
Resolver(s) ==
  IF ~EhAlias(s) THEN s
  ELSE IF memSe.chav.cred[s.v.n] = Ausente THEN s ELSE memSe.chav.cred[s.v.n]

\* Salvar: an empty password keeps the one that is there.
ComCred(ch, n, s) ==
  [ch EXCEPT !.existe = TRUE,
             !.cred[n] = IF s # VazioSe THEN s ELSE IF @ = Ausente THEN VazioSe ELSE @]
SemCred(ch, n) == [ch EXCEPT !.cred[n] = Ausente]
GravarCofre(ch, k) == [ch EXCEPT !.existe = TRUE, !.cofre = k]

\* migrarChaveiro, as soon as there is a key: the clear passwords are sealed.
Migrado(ch, k) ==
  [ch EXCEPT !.cred = [n \in Creds |->
     IF @[n] \in {Ausente, VazioSe} \/ Cifrado(@[n]) THEN @[n] ELSE Cifrar(k, @[n].v)]]

(***************************************************************************)
(* The process.                                                            *)
(***************************************************************************)
\* Both files are read again; ACESSOS_SENHA_MESTRA may open the vault at once.
Iniciar(comSenha) ==
  LET k == ParamsCofre(chSe, iniSe) IN
  /\ comSenha => k > 0
  /\ chSe' = IF comSenha /\ chSe.existe THEN Migrado(chSe, k) ELSE chSe
  /\ memSe' = [aberto |-> IF comSenha THEN k ELSE 0, chav |-> chSe', arq |-> iniSe,
               inicio |-> iniSe.cofre]
  /\ dlgSe' = Fecha
  /\ obsSe' = [obsSe EXCEPT !.enviado = VazioSe, !.importou = @ /\ ~comSenha]
  /\ UNCHANGED iniSe

SemDialogoSe == dlgSe.tipo = "nenhum"
\* pedirCofre, with the [cofre] section of the inventory it is given.
PedirCofre(para, cofre) == [tipo |-> "cofre", para |-> para, cofre |-> cofre]

\* segredo: what would be sent as the password.  An alias is resolved first; a
\* sealed value is opened with the vault; a sealed alias is resolved too.
Abrivel(s) == ~Cifrado(s) \/ memSe.aberto = s.k
Aberto(s) == IF Cifrado(s) THEN [k |-> 0, v |-> s.v] ELSE s
Segredo(s) ==
  LET r == Aberto(Resolver(s)) IN
  IF EhAlias(r) /\ Cifrado(Resolver(s)) THEN Resolver(r) ELSE r
Quebrado(s) == EhAlias(s) /\ Resolver(s) = s

\* abrirConexao with its password: opened and sent; or, if the vault is locked and
\* the inventory of the start had its section, it is asked for, with that inventory
\* (a broken alias asks for it too); or nothing but a line in stderr.
Usar(c) ==
  /\ SemDialogoSe
  /\ LET s == memSe.arq.seg[c]
         abre == ~Quebrado(s) /\ Abrivel(Resolver(s))
         pede == ~abre /\ memSe.aberto = 0 /\ memSe.inicio > 0 IN
     \/ /\ abre
        /\ obsSe' = [obsSe EXCEPT !.enviado = Segredo(s)] /\ UNCHANGED dlgSe
     \/ pede /\ dlgSe' = PedirCofre("abrir", memSe.inicio) /\ UNCHANGED obsSe
     \/ /\ ~abre /\ ~pede
        /\ obsSe' = [obsSe EXCEPT !.mudo = @ \/ (memSe.aberto = 0 /\ ~Quebrado(s))]
        /\ UNCHANGED dlgSe
  /\ UNCHANGED <<iniSe, chSe, memSe>>

(***************************************************************************)
(* The dialog of the vault (cofredlg.go).                                  *)
(***************************************************************************)
\* The padlock locks an open vault and asks for the password of a locked one;
\* with no vault anywhere the dialog creates one.
Cadeado ==
  /\ SemDialogoSe
  /\ IF memSe.aberto > 0
     THEN memSe' = [memSe EXCEPT !.aberto = 0] /\ UNCHANGED dlgSe
     ELSE /\ dlgSe' = PedirCofre(IF TemCofre THEN "abrir" ELSE "criar", memSe.arq.cofre)
          /\ UNCHANGED memSe
  /\ UNCHANGED <<iniSe, chSe, obsSe>>

QuererTrocar ==
  /\ dlgSe.tipo = "cofre" /\ dlgSe.para = "abrir"
  /\ dlgSe' = [dlgSe EXCEPT !.para = "trocar"]
  /\ UNCHANGED <<iniSe, chSe, memSe, obsSe>>

\* A new salt, so a new key; and the section that holds its verifier.
ChaveNova == obsSe.criou + 1

Criar ==
  /\ dlgSe.tipo = "cofre" /\ dlgSe.para = "criar" /\ ChaveNova <= MaxChaves
  /\ chSe' = GravarCofre(chSe, ChaveNova)
  /\ memSe' = [memSe EXCEPT !.chav = chSe', !.aberto = ChaveNova]
  /\ obsSe' = [obsSe EXCEPT !.criou = ChaveNova]
  /\ dlgSe' = Fecha
  /\ UNCHANGED iniSe

\* paramsCofre of the inventory the dialog was given.
ChaveDoDialogo == ParamsCofre(memSe.chav, dlgSe)

\* The right password gives the key of that section, which is of before the change of
\* the master password when the inventory is that of the start; a wrong one an error.
Destrancar ==
  /\ dlgSe.tipo = "cofre" /\ dlgSe.para = "abrir"
  /\ LET k == ChaveDoDialogo IN
     /\ chSe' = IF chSe.existe THEN Migrado(chSe, k) ELSE chSe
     /\ memSe' = [memSe EXCEPT !.aberto = k, !.chav = chSe']
     /\ obsSe' = [obsSe EXCEPT !.importou = FALSE,
                               !.trocou = @ \/ k # ParamsCofre(chSe, iniSe)]
  /\ dlgSe' = Fecha
  /\ UNCHANGED iniSe

\* TrocarSenhaMestra: every sealed line of conexoes.ini is opened and sealed again,
\* the first that does not open stopping everything; the keys of a [cofre] section
\* found there are replaced.
RecifraTudo(velha, nova) ==
  [cofre |-> IF iniSe.cofre > 0 THEN nova ELSE 0,
   seg |-> [c \in ConexoesSe |-> IF Cifrado(iniSe.seg[c]) THEN Cifrar(nova, iniSe.seg[c].v)
                                 ELSE iniSe.seg[c]]]

DeixaNoChaveiro == chSe.cofre > 0 \/ \E n \in Creds : Cifrado(chSe.cred[n])
TrocarSe ==
  /\ dlgSe.tipo = "cofre" /\ dlgSe.para = "trocar" /\ ChaveNova <= MaxChaves
  /\ LET velha == ChaveDoDialogo IN
     IF \E c \in ConexoesSe : Cifrado(iniSe.seg[c]) /\ iniSe.seg[c].k # velha
     THEN UNCHANGED <<iniSe, memSe, dlgSe, obsSe>>
     ELSE /\ iniSe' = RecifraTudo(velha, ChaveNova)
          /\ memSe' = [memSe EXCEPT !.aberto = ChaveNova, !.arq = iniSe']
          /\ obsSe' = [obsSe EXCEPT !.criou = ChaveNova,
                                    !.trocou = @ \/ DeixaNoChaveiro]
          /\ dlgSe' = Fecha
  /\ UNCHANGED chSe

FecharDialogoSe ==
  /\ ~SemDialogoSe
  /\ dlgSe' = Fecha
  /\ memSe' = IF dlgSe.tipo = "chaveiro" THEN [memSe EXCEPT !.arq = iniSe] ELSE memSe
  /\ UNCHANGED <<iniSe, chSe, obsSe>>

(***************************************************************************)
(* The dialog of the keyring (chaveirodlg.go).                             *)
(***************************************************************************)
AbrirChaveiro ==
  /\ SemDialogoSe
  /\ dlgSe' = [tipo |-> "chaveiro", para |-> "nada", cofre |-> 0]
  /\ memSe' = [memSe EXCEPT !.chav = chSe]
  /\ UNCHANGED <<iniSe, chSe, obsSe>>

NoChaveiro(ch) ==
  /\ dlgSe.tipo = "chaveiro"
  /\ chSe' = ch
  /\ memSe' = [memSe EXCEPT !.chav = ch]
  /\ UNCHANGED <<iniSe, dlgSe>>

\* A password typed here is sealed, and refused while the vault is locked.
SalvarCredencial(n, digitou) ==
  /\ digitou => memSe.aberto > 0
  /\ NoChaveiro(ComCred(chSe, n, IF digitou THEN Cifrar(memSe.aberto, Senha) ELSE VazioSe))
  /\ UNCHANGED obsSe

RemoverCredencial(n) ==
  /\ chSe.cred[n] # Ausente
  /\ NoChaveiro(SemCred(chSe, n))
  /\ UNCHANGED obsSe

\* importar: a pair of user and password that two connections share becomes a
\* credential with the user's name, the password going as it is in the file.
Repetidas == {s \in {iniSe.seg[c] : c \in ConexoesSe} :
                /\ s # VazioSe /\ ~EhAlias(s) /\ ~Cifrado(s)
                /\ Cardinality({c \in ConexoesSe : iniSe.seg[c] = s}) >= 2}
Importar ==
  /\ chSe.cred[Usuario] = Ausente
  /\ \E s \in Repetidas : NoChaveiro(ComCred(chSe, Usuario, s))
  /\ obsSe' = [obsSe EXCEPT !.importou = TRUE]

(***************************************************************************)
(* The dialog of a connection (conexaodlg.go).                             *)
(***************************************************************************)
\* Variant: what is typed is sealed, an alias too.
SempreCifrar(v) == IF memSe.aberto = 0 THEN Claro(v) ELSE Cifrar(memSe.aberto, v)

\* salvar: an alias goes as it is; a password is sealed when the vault is open and
\* goes in clear when it is not; an empty field keeps what is there.
SenhaASalvar(v) ==
  IF v \in Aliases \/ memSe.aberto = 0 THEN Claro(v) ELSE Cifrar(memSe.aberto, v)

\* escolherDoChaveiro puts in the field the alias of a credential that is there.
EscolherDoChaveiro(v) == v \in Aliases => memSe.chav.cred[v.n] # Ausente

SalvarConexao(c, v) ==
  /\ SemDialogoSe /\ EscolherDoChaveiro(v)
  /\ iniSe' = [iniSe EXCEPT !.seg[c] = SenhaASalvar(v)]
  /\ memSe' = [memSe EXCEPT !.arq = iniSe']
  /\ UNCHANGED <<chSe, dlgSe, obsSe>>

NextSe ==
  \/ \E comSenha \in BOOLEAN : Iniciar(comSenha)
  \/ \E c \in ConexoesSe : Usar(c) \/ \E v \in Textos : SalvarConexao(c, v)
  \/ Cadeado \/ QuererTrocar \/ Criar \/ Destrancar \/ TrocarSe \/ FecharDialogoSe
  \/ AbrirChaveiro \/ Importar
  \/ \E n \in Creds : RemoverCredencial(n) \/ \E d \in BOOLEAN : SalvarCredencial(n, d)

SpecSe == InitSe /\ [][NextSe]_varsSe

(***************************************************************************)
(* Properties.                                                             *)
(***************************************************************************)
Segs == [k : 0..MaxChaves, v : Textos \union {Nada}] \union {Ausente}
TiposSe ==
  /\ iniSe.cofre \in 0..MaxChaves /\ iniSe.seg \in [ConexoesSe -> Segs]
  /\ chSe.cofre \in 0..MaxChaves /\ chSe.cred \in [Creds -> Segs]
  /\ memSe.aberto \in 0..MaxChaves /\ memSe.inicio \in 0..MaxChaves
  /\ dlgSe.cofre \in 0..MaxChaves /\ dlgSe.para \in {"nada", "abrir", "criar", "trocar"}

\* Every secret on disk opens with the vault that the next start will find
\* (abrir.go 41-49): what cofredlg.go 297-299 says of the change of the master
\* password, and of everything else.
SegredoAbre ==
  LET k == ParamsCofre(chSe, iniSe) IN
  /\ \A c \in ConexoesSe : Cifrado(iniSe.seg[c]) => iniSe.seg[c].k = k
  /\ \A n \in Creds : Cifrado(chSe.cred[n]) => chSe.cred[n].k = k

\* No operation orphans a secret but two (obsSe.trocou): that change, when the keyring
\* has a vault or a sealed password, which it does not touch; and, after it, a vault
\* opened by a click, with the section of before.
SoTrocarPerde == obsSe.trocou \/ SegredoAbre

\* An alias is never sealed (conexaodlg.go 407-410).
AliasNuncaCifrado ==
  Dano \/ \A c \in ConexoesSe : Cifrado(iniSe.seg[c]) => iniSe.seg[c].v \notin Aliases

\* Once the vault was opened, the keyring has no password in clear, but for one
\* imported since (chaveirodlg.go 376-384).
ClaroSoImportado ==
  memSe.aberto > 0 =>
    obsSe.importou \/ \A n \in Creds : chSe.cred[n].k = 0 => chSe.cred[n].v = Nada

\* What the process has in memory of the keyring is what is on disk.
ChaveiroEmDia == memSe.chav = chSe

SegredosCertos == SoTrocarPerde /\ AliasNuncaCifrado /\ ClaroSoImportado /\ ChaveiroEmDia

\* "Senha do chaveiro e SEMPRE cifrada" (chaveirodlg.go 294-297).
SempreCifrada == \A n \in Creds : chSe.cred[n].k = 0 => chSe.cred[n].v = Nada

\* The vault that is open is the one in force (cofredlg.go 297-299): not when a click
\* asked for it after a change.
CofreEmDia == memSe.aberto \in {0, ParamsCofre(chSe, iniSe)}

\* A locked vault is asked for, never a click that does nothing (abrir.go 154-156).
CofrePedido == ~obsSe.mudo

\* What goes out as a password is a password (abrir.go 93-96, conexaodlg.go 407-410).
SenhaDeVerdade == ~Cifrado(obsSe.enviado) /\ obsSe.enviado.v \notin Aliases
=============================================================================
