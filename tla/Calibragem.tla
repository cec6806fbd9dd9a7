---------------------------- MODULE Calibragem ----------------------------
(***************************************************************************)
(* The deadlines of the mass execution: what the canary measures           *)
(* (Executar, the loop of phase 1), what is computed from the worst of it  *)
(* (CalcularTimeoutExec, AjustarTimeoutConexao, arredondar) and what       *)
(* rodarHost uses in phase 2, for one command.                             *)
(*                                                                         *)
(* A duration is a natural number of ticks, Segundo of them to a second.   *)
(***************************************************************************)
EXTENDS Integers

CONSTANTS
  Segundo,   \* ticks in a second
  Canario,   \* hosts of the canary
  Duracoes,  \* what a command may take
  Conexoes   \* what a connection may take

ASSUME CalibragemAssumption ==
  /\ Segundo \in Nat \ {0} /\ Canario \in Nat
  /\ Duracoes \subseteq Nat \ {0} /\ Conexoes \subseteq Nat \ {0}

VARIABLES
  fase,      \* "canario" or "fase2"
  feitos,    \* hosts of the canary that are done
  piorCmd,   \* the worst duration of the command; 0: none
  piorConn,  \* the worst duration of the connection
  timeout,   \* cmd.TimeoutExec
  calibrado, \* cmd.Calibrado
  conexao,   \* Cfg.TimeoutConexao
  mediu,     \* history: some host of the canary did run the command
  respondeu  \* history: the worst connection of those that answered; 0: none

vars ==
  <<fase, feitos, piorCmd, piorConn, timeout, calibrado, conexao, mediu, respondeu>>

Minuto == 60 * Segundo

PisoExec == 30 * Segundo

SemBaseline == 30 * Minuto

TetoConexao == 30 * Segundo

\* What massaTab.executar configures.
BaseConexao == 8 * Segundo

\* time.Duration.Round: to the nearest multiple, halves up.
Round(d, m) == IF 2 * (d % m) < m THEN d - (d % m) ELSE d + m - (d % m)

arredondar(d) ==
  CASE d < 10 * Segundo -> Round(d, Segundo)
    [] d >= 10 * Segundo /\ d < 10 * Minuto -> Round(d, 5 * Segundo)
    [] OTHER -> Round(d, Minuto)

\* Variant: the last step of the ladder has no margin.
MargemCurta(pior) ==
  CASE pior < 5 * Segundo -> 10 * pior
    [] pior >= 5 * Segundo /\ pior < Minuto -> 5 * pior
    [] OTHER -> pior + Minuto

\* The margin over a measured duration.
Margem(pior) ==
  CASE pior < 5 * Segundo -> 10 * pior
    [] pior >= 5 * Segundo /\ pior < Minuto -> 5 * pior
    [] OTHER -> 3 * pior

Maior(a, b) == IF a < b THEN b ELSE a

Menor(a, b) == IF a < b THEN a ELSE b

CalcularTimeoutExec(pior) ==
  IF pior <= 0 THEN SemBaseline ELSE arredondar(Maior(Margem(pior), PisoExec))

\* Variant: the suggestion is taken as it is.
AjustarSemTeto(base, pior) ==
  IF pior <= 0 THEN base ELSE arredondar(3 * pior)

AjustarTimeoutConexao(base, pior) ==
  IF pior <= 0 \/ 3 * pior <= base THEN base
  ELSE arredondar(Menor(3 * pior, TetoConexao))

-----------------------------------------------------------------------------
Init ==
  /\ fase = "canario" /\ feitos = 0
  /\ piorCmd = 0 /\ piorConn = 0
  /\ timeout = 0 /\ calibrado = FALSE
  /\ conexao = BaseConexao
  /\ mediu = FALSE /\ respondeu = 0

\* Variant: the canary does not stop at its size.
AnotarTodos(dConn, d) ==
  /\ fase = "canario" /\ feitos <= Canario
  /\ feitos' = feitos + 1
  /\ piorConn' = Maior(piorConn, dConn)
  /\ piorCmd' = Maior(piorCmd, d)
  /\ UNCHANGED <<fase, timeout, calibrado, conexao>>

\* One host of the canary is over, after dConn of connecting and d of the
\* command; d = 0: never reached.
Anotar(dConn, d) ==
  /\ fase = "canario" /\ feitos < Canario
  /\ feitos' = feitos + 1
  /\ piorConn' = Maior(piorConn, dConn)
  /\ piorCmd' = Maior(piorCmd, d)
  /\ UNCHANGED <<fase, timeout, calibrado, conexao>>

\* The host did not connect: the time it took to fail is returned too.
MedirSemConectar ==
  /\ \E dConn \in Conexoes : Anotar(dConn, 0)
  /\ UNCHANGED <<mediu, respondeu>>

\* It connected, and the command ran, or Rodar failed after d without
\* running it, or an earlier step ended the host.
MedirConectado ==
  \E dConn \in Conexoes, d \in Duracoes \cup {0}, rodou \in BOOLEAN :
    /\ rodou => d # 0
    /\ Anotar(dConn, d)
    /\ mediu' = (mediu \/ rodou)
    /\ respondeu' = Maior(respondeu, dConn)

\* The canary is over: the summary is computed and, once the operator lets
\* the execution go on, applied.
Calibrar ==
  /\ fase = "canario" /\ feitos = Canario
  /\ fase' = "fase2"
  /\ timeout' = CalcularTimeoutExec(piorCmd)
  /\ calibrado' = (piorCmd > 0)
  /\ conexao' = AjustarTimeoutConexao(conexao, piorConn)
  /\ UNCHANGED <<feitos, piorCmd, piorConn, mediu, respondeu>>

Next == MedirSemConectar \/ MedirConectado \/ Calibrar

Spec == Init /\ [][Next]_vars

\* The deadline rodarHost gives the command.
TempoExec ==
  IF fase = "canario" \/ timeout <= 0 \/ ~calibrado THEN SemBaseline ELSE timeout

-----------------------------------------------------------------------------
\* The range of every variable.
TypeOK ==
  /\ fase \in {"canario", "fase2"} /\ feitos \in 0..Canario
  /\ piorCmd \in Nat /\ piorConn \in Nat
  /\ timeout \in Nat /\ calibrado \in BOOLEAN /\ conexao \in Nat
  /\ mediu \in BOOLEAN /\ respondeu \in Nat

\* In phase 2 a machine has at least twice the worst time of the canary, and
\* never less than the floor, after the margins and the rounding
\* (CalcularTimeoutExec, rodarHost).
FolgaSobreOPior ==
  fase = "fase2" => TempoExec >= 2 * piorCmd /\ TempoExec >= PisoExec

\* The connection deadline that was configured is never tightened, and the
\* suggestion stays under its ceiling (AjustarTimeoutConexao).
ConexaoNaoAperta == conexao >= BaseConexao /\ conexao <= TetoConexao

\* The deadlines of the two phases, together.
PrazosCertos == FolgaSobreOPior /\ ConexaoNaoAperta

\* What the canary could not measure is given SemBaseline, not the floor: a
\* command that failed before it ran, on every host, was not measured.
FalhaNaoMede == fase = "fase2" /\ ~mediu => TempoExec = SemBaseline

\* The canary only measures the machines that answered: a machine that is
\* off does not change the connection deadline of the others.
SoDeQuemRespondeu ==
  fase = "fase2" => conexao = AjustarTimeoutConexao(BaseConexao, respondeu)
=============================================================================
