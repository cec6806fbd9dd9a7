---------------------------- MODULE EspelhoTela ----------------------------
(***************************************************************************)
(* What a remote-screen tab (VNC or RDP) promises to its operator, with no *)
(* mention of processes, sockets or credits: the picture of the tab is     *)
(* made of content the remote screen really had, a column never goes back  *)
(* to something older than what it already showed, and once the remote     *)
(* screen stops changing the tab ends up showing it, unless the session    *)
(* broke.                                                                  *)
(*                                                                         *)
(* A screen is [larg, pix]: its width and, per column, the version of the  *)
(* content (0 is the blank of a new image.RGBA).                           *)
(***************************************************************************)
EXTENDS Integers

VARIABLES
  fonte,    \* the framebuffer of the remote session: [larg, pix]
  versao,   \* the newest version any column of the source has had
  tela,     \* what the tab publishes for drawing: [larg, pix]
  rompida   \* the session is over

vars == <<fonte, versao, tela, rompida>>

Espelha == \/ fonte.larg = 0
           \/ /\ tela.larg = fonte.larg
              /\ \A c \in 0 .. fonte.larg - 1 : tela.pix[c] = fonte.pix[c]

Init == /\ fonte.larg = 0
        /\ tela.larg = 0
        /\ rompida = FALSE

\* The remote side repaints or changes resolution; the tab is untouched.
Mudar == /\ versao' >= versao
         /\ UNCHANGED <<tela, rompida>>

\* A column of the new picture is what was there, or newer.
NaoMaisVelha(c) == tela'.larg = tela.larg => tela'.pix[c] >= tela.pix[c]

\* The tab shows a new picture.
Mostrar == /\ tela'.larg > 0
           /\ \A c \in 0 .. tela'.larg - 1 : /\ tela'.pix[c] <= versao
                                             /\ NaoMaisVelha(c)
           /\ UNCHANGED <<fonte, versao, rompida>>

Romper == rompida' = TRUE /\ UNCHANGED <<fonte, versao, tela>>

Next == Mudar \/ Mostrar \/ Romper

\* When the source is left alone the tab catches up with it.
Alcanca == (<>[][UNCHANGED fonte]_vars) => <>[](Espelha \/ rompida)

Seguranca == Init /\ [][Next]_vars

Spec == Seguranca /\ Alcanca
=============================================================================
