----------------------------- MODULE Confianca -----------------------------
(***************************************************************************)
(* What the program is trusted with: the secrets it keeps and the keys of  *)
(* the servers it accepts. The two share no variable.                      *)
(***************************************************************************)
EXTENDS Segredos, ChaveDoHost

\* What the program keeps of passwords and of the servers' keys: no secret is orphaned
\* but by the change of the master password where it leaves something in the keyring
\* (cofredlg.go 297-299) or by the vault of before it (abrir.go 153-160), and no session
\* is open with a key nobody trusted for that server (hostkey.go 6-7).
ConfiancaCerta == SegredosCertos /\ ChaveCerta
=============================================================================
