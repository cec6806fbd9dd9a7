-------------------------- MODULE LeitorMarcador --------------------------
(***************************************************************************)
(* One session of the mass execution with one machine: the remote shell,   *)
(* the goroutines that pump its pipes (leitor.bombear), the reader that    *)
(* waits for the begin and end markers of each command (leitor.lerAte,     *)
(* Rodar) and the queue of commands over it.  Linux has one pipe, Windows  *)
(* two, and their Rodar differ in what a missing begin marker means.       *)
(*                                                                         *)
(* Abstractions.  What the shell prints is a sequence of marks, three per  *)
(* command: begin, output, end; text is a mark's command.  Deadlines have  *)
(* no length: the absolute one and the idle one are the same choice.  The  *)
(* operator lets the queue go on after a timeout, as the motor allows.     *)
(***************************************************************************)
EXTENDS Integers, FiniteSets, Sequences, SequencesExt

CONSTANTS
  NCmds,        \* commands of the queue
  Cap,          \* capacity of leitor.dados
  MaxTimeouts,  \* bound: deadlines that pass
  MaxLixo       \* bound: pieces on stderr

ASSUME LeitorAssumption ==
  /\ NCmds \in Nat /\ Cap \in Nat \ {0}
  /\ MaxTimeouts \in Nat /\ MaxLixo \in Nat

VARIABLES
  windows,    \* the session is a WindowsExec, or a LinuxSSH: it never changes
  enviados,   \* commands sent to the shell
  emitidas,   \* marks the shell has printed
  viva,       \* the remote process is there
  lixo,       \* pieces printed on stderr
  tubo,       \* each pipe, from the shell to its pump
  mao,        \* the piece each pump holds
  acabou,     \* the pump of each pipe returned
  dados,      \* the channel leitor.dados
  fim,        \* the slot of leitor.fim is taken
  buf,        \* leitor.buf
  acc,        \* what lerAte accumulated
  passo,      \* which marker Rodar waits for
  resultado,  \* how each Rodar ended
  origem,     \* which commands the text it returned comes from
  fechada,    \* Fechar was called
  timeouts    \* deadlines that passed

remoto == <<emitidas, viva, lixo>>
bombas == <<tubo, mao, acabou>>
canais == <<dados, fim>>
leitura == <<buf, acc, passo>>
fila   == <<enviados, resultado, origem>>
vars == <<remoto, bombas, canais, leitura, fila, windows, fechada, timeouts>>

Canos == IF windows THEN {"stdout", "stderr"} ELSE {"stdout"}

\* The n-th mark on stdout, and what comes on stderr.
Marca(n) == [t |-> <<"inic", "saida", "fim">>[((n - 1) % 3) + 1], de |-> (n - 1) \div 3 + 1]

Lixo == [t |-> "lixo", de |-> 0]

\* "timeout" is ErrTimeout or ErrIdle; the others are ErrConexao: no begin
\* marker in time, end of the session, a write that failed.
Resultados == {"nenhum", "ok", "timeout", "surdo", "caiu", "mudo"}

Conexao == {"surdo", "caiu", "mudo"}

-----------------------------------------------------------------------------
\* The session is open and the shell prepared.
Init ==
  /\ windows \in BOOLEAN
  /\ enviados = 0 /\ emitidas = 0 /\ viva = TRUE /\ lixo = 0
  /\ tubo = [c \in Canos |-> <<>>]
  /\ mao = [c \in Canos |-> <<>>]
  /\ acabou = [c \in Canos |-> FALSE]
  /\ dados = <<>> /\ fim = FALSE
  /\ buf = <<>> /\ acc = <<>> /\ passo = "parado"
  /\ resultado = [k \in 1..NCmds |-> "nenhum"]
  /\ origem = [k \in 1..NCmds |-> {}]
  /\ fechada = FALSE /\ timeouts = 0

-----------------------------------------------------------------------------
(* The remote side.                                                        *)

\* The shell runs what it was sent, in order, and prints.
Emitir ==
  /\ viva /\ emitidas < 3 * enviados
  /\ emitidas' = emitidas + 1
  /\ tubo' = [tubo EXCEPT !["stdout"] = Append(@, Marca(emitidas + 1))]
  /\ UNCHANGED <<viva, lixo, mao, acabou, canais, leitura, fila, windows, fechada, timeouts>>

EmitirErro ==
  /\ windows /\ viva /\ lixo < MaxLixo
  /\ lixo' = lixo + 1
  /\ tubo' = [tubo EXCEPT !["stderr"] = Append(@, Lixo)]
  /\ UNCHANGED <<emitidas, viva, mao, acabou, canais, leitura, fila, windows, fechada, timeouts>>

\* The process exits, or the connection is gone.
Morrer ==
  /\ viva /\ viva' = FALSE
  /\ UNCHANGED <<emitidas, lixo, bombas, canais, leitura, fila, windows, fechada, timeouts>>

-----------------------------------------------------------------------------
(* bombear.                                                                *)

\* Variant: the pieces in the channel share the buffer of the pump.
LerSemCopia(c) ==
  /\ mao[c] = <<>>
  /\ \E n \in 1..Len(tubo[c]) :
       /\ mao' = [mao EXCEPT ![c] = SubSeq(tubo[c], 1, n)]
       /\ tubo' = [tubo EXCEPT ![c] = SubSeq(@, n + 1, Len(@))]
       /\ dados' = [i \in DOMAIN dados |-> SubSeq(tubo[c], 1, n)]
  /\ UNCHANGED <<remoto, acabou, fim, leitura, fila, windows, fechada, timeouts>>

\* r.Read: some of what is there.
Ler(c) ==
  /\ mao[c] = <<>>
  /\ \E n \in 1..Len(tubo[c]) :
       /\ mao' = [mao EXCEPT ![c] = SubSeq(tubo[c], 1, n)]
       /\ tubo' = [tubo EXCEPT ![c] = SubSeq(@, n + 1, Len(@))]
  /\ UNCHANGED <<remoto, acabou, canais, leitura, fila, windows, fechada, timeouts>>

\* Variant: the channel has no capacity to respect.
EmpilharSemTeto(c) ==
  /\ mao[c] # <<>>
  /\ dados' = Append(dados, mao[c])
  /\ mao' = [mao EXCEPT ![c] = <<>>]
  /\ UNCHANGED <<remoto, tubo, acabou, fim, leitura, fila, windows, fechada, timeouts>>

\* l.dados <- cp.
Empilhar(c) ==
  /\ mao[c] # <<>> /\ Len(dados) < Cap
  /\ dados' = Append(dados, mao[c])
  /\ mao' = [mao EXCEPT ![c] = <<>>]
  /\ UNCHANGED <<remoto, tubo, acabou, fim, leitura, fila, windows, fechada, timeouts>>

\* EOF: the slot of fim takes one error, the other pump's is dropped.
AvisarFim(c) ==
  /\ ~viva /\ ~acabou[c] /\ mao[c] = <<>> /\ tubo[c] = <<>>
  /\ fim' = TRUE
  /\ acabou' = [acabou EXCEPT ![c] = TRUE]
  /\ UNCHANGED <<remoto, tubo, mao, dados, leitura, fila, windows, fechada, timeouts>>

-----------------------------------------------------------------------------
(* Rodar and lerAte.                                                       *)

\* Where the first marker of that kind is; 0: nowhere.
Onde(s, t) == SelectInSeq(s, LAMBDA m : m.t = t)

Casa(s) == Onde(s, passo) # 0

Depois(s, i) == SubSeq(s, i + 1, Len(s))

\* Rodar of the current command returns.
Devolver(r) ==
  /\ resultado' = [resultado EXCEPT ![enviados] = r]
  /\ passo' = "parado"

\* The previous command ended, and not with the session.
PodeSeguir ==
  /\ passo = "parado" /\ ~fechada /\ enviados < NCmds
  /\ enviados > 0 => resultado[enviados] \notin Conexao

\* Rodar sends the lines and calls lerAte for the begin marker.
Enviar ==
  /\ PodeSeguir
  /\ enviados' = enviados + 1
  /\ acc' = buf /\ buf' = <<>> /\ passo' = "inic"
  /\ UNCHANGED <<remoto, bombas, canais, resultado, origem, windows, fechada, timeouts>>

\* The write finds the session gone.
FalharEnvio ==
  /\ PodeSeguir /\ ~viva
  /\ enviados' = enviados + 1
  /\ resultado' = [resultado EXCEPT ![enviados + 1] = "mudo"]
  /\ UNCHANGED <<remoto, bombas, canais, leitura, origem, windows, fechada, timeouts>>

\* The begin marker: what follows it is read for the end marker.
CasarInicio ==
  /\ passo = "inic" /\ Casa(acc)
  /\ acc' = Depois(acc, Onde(acc, "inic"))
  /\ passo' = "fim"
  /\ UNCHANGED <<remoto, bombas, canais, buf, fila, windows, fechada, timeouts>>

\* The end marker: the text before it is the command's output.
CasarFim ==
  /\ passo = "fim" /\ Casa(acc)
  /\ LET i == Onde(acc, "fim")
     IN /\ buf' = Depois(acc, i)
        /\ origem' = [origem EXCEPT ![enviados] = {acc[j].de : j \in 1..i}]
  /\ acc' = <<>>
  /\ Devolver("ok")
  /\ UNCHANGED <<remoto, bombas, canais, enviados, windows, fechada, timeouts>>

\* lerAte waits: nothing it has matches.
Esperando == passo # "parado" /\ ~Casa(acc)

Receber ==
  /\ Esperando /\ dados # <<>>
  /\ acc' = acc \o Head(dados)
  /\ dados' = Tail(dados)
  /\ UNCHANGED <<remoto, bombas, fim, buf, passo, fila, windows, fechada, timeouts>>

\* Variant: the end of a pipe gives up with what is still in the channel.
VerFimSemDrenar ==
  /\ Esperando /\ fim /\ fim' = FALSE
  /\ acc' = <<>> /\ Devolver("caiu")
  /\ UNCHANGED <<remoto, bombas, dados, buf, enviados, origem, windows, fechada, timeouts>>

\* The end of a pipe: what is in the channel is drained first.
VerFim ==
  /\ Esperando /\ fim /\ fim' = FALSE
  /\ dados' = <<>>
  /\ LET tudo == acc \o FlattenSeq(dados)
     IN IF Casa(tudo)
        THEN acc' = tudo /\ UNCHANGED <<passo, resultado>>
        ELSE acc' = <<>> /\ Devolver("caiu")
  /\ UNCHANGED <<remoto, bombas, buf, enviados, origem, windows, fechada, timeouts>>

\* Variant: on Linux too.
SempreTimeout == "timeout"

\* What a begin marker that does not come in time means.
SemInicio == IF windows THEN "timeout" ELSE "surdo"

\* A deadline passes: what was accumulated goes with the error.
Vencer ==
  /\ Esperando
  /\ timeouts < MaxTimeouts /\ timeouts' = timeouts + 1
  /\ acc' = <<>>
  /\ Devolver(IF passo = "inic" THEN SemInicio ELSE "timeout")
  /\ UNCHANGED <<remoto, bombas, canais, buf, enviados, origem, windows, fechada>>

\* rodarHost is done with the machine: ex.Fechar.
Fechar ==
  /\ passo = "parado" /\ ~fechada
  /\ fechada' = TRUE /\ viva' = FALSE
  /\ UNCHANGED <<emitidas, lixo, bombas, canais, leitura, fila, windows, timeouts>>

-----------------------------------------------------------------------------
Remoto == Emitir \/ EmitirErro \/ Morrer

Bomba(c) == Ler(c) \/ Empilhar(c) \/ AvisarFim(c)

Rodar == \/ Enviar \/ FalharEnvio \/ CasarInicio \/ CasarFim \/ Receber \/ VerFim
         \/ Vencer \/ Fechar

Next == Remoto \/ Rodar \/ \E c \in Canos : Bomba(c)

Spec == Init /\ [][Next]_vars

-----------------------------------------------------------------------------
(* What a session promises.                                                *)

Marcas == {Lixo} \cup {Marca(n) : n \in 1..3 * NCmds}

\* The range of every variable; the channel never holds more than it can.
TypeOK ==
  /\ enviados \in 0..NCmds /\ emitidas \in 0..3 * enviados
  /\ windows \in BOOLEAN /\ viva \in BOOLEAN /\ fechada \in BOOLEAN /\ fim \in BOOLEAN
  /\ lixo \in 0..MaxLixo /\ timeouts \in 0..MaxTimeouts
  /\ tubo \in [Canos -> Seq(Marcas)] /\ mao \in [Canos -> Seq(Marcas)]
  /\ acabou \in [Canos -> BOOLEAN]
  /\ dados \in Seq(Seq(Marcas)) /\ Len(dados) <= Cap
  /\ buf \in Seq(Marcas) /\ acc \in Seq(Marcas)
  /\ passo \in {"parado", "inic", "fim"}
  /\ resultado \in [1..NCmds -> Resultados]
  /\ origem \in [1..NCmds -> SUBSET (0..NCmds)]

\* The text and the exit code of a command come from that command, however
\* late the ones before it were.
SaidaCerta ==
  \A k \in 1..NCmds : resultado[k] = "ok" => k \in origem[k] /\ origem[k] \subseteq {0, k}

\* No session is taken for lost with the end marker of its command printed.
FimLido ==
  \A k \in 1..NCmds : resultado[k] = "caiu" => emitidas < 3 * k

\* On Linux what Rodar returns for a command is that command's output and
\* exit code, whatever deadlines passed before (Rodar, lerAte).
CadaSaidaNoSeu == ~windows => SaidaCerta

\* On Linux a command whose end marker was printed before the session ended
\* is not reported as a lost connection: the last piece is read (lerAte,
\* drenar).
FimNaoSePerde == ~windows => FimLido

\* Every piece is read at most once and in order: of what is under way
\* towards the reader, and of what it keeps, each mark is the one its place
\* from the end says, counting back from the last the shell printed (bombear,
\* lerAte); stderr is left aside.
EmTransito == buf \o acc \o FlattenSeq(dados) \o mao["stdout"] \o tubo["stdout"]

MarcasDepois(s, i) == {j \in i + 1..Len(s) : s[j] # Lixo}

NadaForaDeOrdem ==
  LET s == EmTransito
  IN \A i \in 1..Len(s) :
       s[i] # Lixo => s[i] = Marca(emitidas - Cardinality(MarcasDepois(s, i)))

-----------------------------------------------------------------------------
(* What the comments and the tests say of both platforms and the code does *)
(* not do: SaidaCerta and FimLido, above, and MorteNotada.                 *)

\* The end of the session is noticed at once: no lerAte waits for bytes that
\* nobody will send.
MorteNotada ==
  Esperando => fim \/ dados # <<>> \/ \E c \in Canos : ~acabou[c]
=============================================================================
