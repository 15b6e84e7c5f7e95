------------------------------ MODULE PassNet -------------------------------
(* The processes of MULTPASS.C and HOSTPASS.C, in any network a configuration *)
(* may connect them in.  HostPass starts a round: it sends a value along      *)
(* each of its outputs and adds what comes along each of its inputs, the two  *)
(* at once.  A MultPass process takes the first value that reaches it in the  *)
(* round, takes that pair of channels out of its lists, does the same with    *)
(* the others, puts the pair back and answers along it.  Channels have no     *)
(* buffer: an output and its input are one step.                              *)
EXTENDS ChannelLists

CONSTANTS
  Procs,     \* the processes
  Host,      \* the one that runs HOSTPASS.C
  Wires,     \* the channels
  InputOf,   \* InputOf[p]: the channels of p's Input
  OutputOf,  \* and those of its Output, of the same length
  LongMax,   \* LONG_MAX
  Counted,   \* FALSE: values are left out (all are 0)
  Rounds     \* bound: rounds are counted modulo Rounds

ASSUME NetAssumption ==
  /\ Host \in Procs
  /\ LongMax \in Nat \ {0} /\ Rounds \in Nat \ {0, 1} /\ Counted \in BOOLEAN
  /\ InputOf \in [Procs -> Seq(Wires)] /\ OutputOf \in [Procs -> Seq(Wires)]
  /\ \A p \in Procs : Len(InputOf[p]) = Len(OutputOf[p]) /\ Len(InputOf[p]) > 0

Size(p) == Len(InputOf[p])

\* The places of the lists: <<p, i>> is Input[i] and Output[i] of p.
Ports == UNION {{p} \X (1..Size(p)) : p \in Procs}
InputAt(m) == InputOf[m[1]][m[2]]
OutputAt(m) == OutputOf[m[1]][m[2]]

\* What some of the configurations keep to (SQUARE.CFS, ZIGZAG.CFS): a channel is
\* the output of one place, and the two channels of a place lead to and come
\* from the same place, of another process or of the same.
Paired ==
  /\ \A m, n \in Ports : OutputAt(m) = OutputAt(n) => m = n
  /\ \A m \in Ports : \E n \in Ports : OutputAt(n) = InputAt(m) /\ InputAt(n) = OutputAt(m)

\* Every process can be reached from the host.
Leads(S) == \A m, n \in Ports : m[1] \in S /\ OutputAt(m) = InputAt(n) => n[1] \in S
Connected == \A S \in SUBSET Procs : Host \in S /\ Leads(S) => S = Procs

VARIABLES
  at,      \* where p is: "top", "io", "answer", "print" or "halted"
  ins,     \* its Input array, the NULL at the end included
  outs,    \* its Output array
  value,   \* Value
  sends,   \* the value its OutputProcess sends
  index,   \* InputIndex of main, counted from 1
  got,     \* InputIndex of InputProcess
  put,     \* OutputIndex of OutputProcess
  rounds   \* history: the rounds p has taken part in

vars == <<at, ins, outs, value, sends, index, got, put, rounds>>

Plus(a, b) == IF Counted THEN a + b ELSE 0

\* The channels IOProcesses is called with.
Count(p) == IF p = Host THEN Size(p) ELSE Size(p) - 1

BadOutputAfter(p) == put[p] < Count(p) /\ got[p] = Count(p)  \* mutant: inputs first, then outputs
OutputReady(p) == put[p] < Count(p)

Sends(p, c) ==
  \/ at[p] = "io" /\ OutputReady(p) /\ outs[p][put[p] + 1] = c
  \/ at[p] = "answer" /\ outs[p][index[p]] = c

Carried(p) == IF at[p] = "io" THEN sends[p] ELSE value[p]

\* The sender's side of a communication.
SentPut(s, f) == IF at[s] = "io" THEN [f EXCEPT ![s] = @ + 1] ELSE f
SentAt(s, f) == IF at[s] = "answer" THEN [f EXCEPT ![s] = "top"] ELSE f

Init ==
  /\ at = [p \in Procs |-> IF p = Host THEN "io" ELSE "top"]
  /\ ins = [p \in Procs |-> CreateChannels(InputOf[p])]
  /\ outs = [p \in Procs |-> CreateChannels(OutputOf[p])]
  /\ value = [p \in Procs |-> 0]
  /\ sends = [p \in Procs |-> IF p = Host THEN Plus(0, 1) ELSE 0]
  /\ index = [p \in Procs |-> 1]
  /\ got = [p \in Procs |-> 0]
  /\ put = [p \in Procs |-> 0]
  /\ rounds = [p \in Procs |-> IF p = Host THEN 1 ELSE 0]

Increment(v) == Plus(v, 1)

\* main of a MultPass: the first input of a round and the start of its IOProcesses.
Take(p) ==
  /\ p # Host /\ at[p] = "top"
  /\ \E i \in Listed(ins[p]), s \in Procs :
       LET v == Carried(s) IN
       /\ Sends(s, ins[p][i])
       /\ index' = [index EXCEPT ![p] = i]
       /\ value' = [value EXCEPT ![p] = v]
       /\ ins' = [ins EXCEPT ![p] = DeleteChannel(@, Size(p), i)]
       /\ outs' = [outs EXCEPT ![p] = DeleteChannel(@, Size(p), i)]
       /\ got' = [got EXCEPT ![p] = 0]
       /\ put' = SentPut(s, [put EXCEPT ![p] = 0])
       /\ IF v < LongMax
          THEN /\ sends' = [sends EXCEPT ![p] = Increment(v)]
               /\ at' = SentAt(s, [at EXCEPT ![p] = "io"])
          ELSE /\ at' = SentAt(s, [at EXCEPT ![p] = "halted"])
               /\ UNCHANGED sends
  /\ rounds' = [rounds EXCEPT ![p] = (@ + 1) % Rounds]

Fits(a, b) == a < LongMax - b  \* InputValue < LONG_MAX - *Value

\* One turn of InputProcess.
Add(p) ==
  /\ at[p] = "io" /\ got[p] < Count(p)
  /\ \E i \in Listed(ins[p]), s \in Procs :
       /\ Sends(s, ins[p][i])
       /\ put' = SentPut(s, put)
       /\ IF Fits(Carried(s), value[p])
          THEN /\ value' = [value EXCEPT ![p] = Plus(@, Carried(s))]
               /\ got' = [got EXCEPT ![p] = @ + 1]
               /\ at' = SentAt(s, at)
          ELSE /\ at' = SentAt(s, [at EXCEPT ![p] = "halted"])
               /\ UNCHANGED <<value, got>>
  /\ UNCHANGED <<ins, outs, sends, index, rounds>>

BadBothDone(p) == put[p] = Count(p)  \* mutant: does not wait for InputProcess
BothDone(p) == put[p] = Count(p) /\ got[p] = Count(p)

\* ProcPar ends, and what main does before its next communication.
Join(p) ==
  /\ at[p] = "io" /\ BothDone(p)
  /\ IF p = Host
     THEN at' = [at EXCEPT ![p] = "print"] /\ UNCHANGED <<ins, outs>>
     ELSE /\ at' = [at EXCEPT ![p] = "answer"]
          /\ ins' = [ins EXCEPT ![p] = InsertChannel(@, Size(p), index[p])]
          /\ outs' = [outs EXCEPT ![p] = InsertChannel(@, Size(p), index[p])]
  /\ UNCHANGED <<value, sends, index, got, put, rounds>>

\* main of HostPass: it prints the value and starts the next round.
Report ==
  /\ at[Host] = "print"
  /\ IF value[Host] < LongMax
     THEN /\ at' = [at EXCEPT ![Host] = "io"]
          /\ sends' = [sends EXCEPT ![Host] = Increment(value[Host])]
     ELSE at' = [at EXCEPT ![Host] = "halted"] /\ UNCHANGED sends
  /\ got' = [got EXCEPT ![Host] = 0]
  /\ put' = [put EXCEPT ![Host] = 0]
  /\ rounds' = [rounds EXCEPT ![Host] = (@ + 1) % Rounds]
  /\ UNCHANGED <<ins, outs, value, index>>

\* abort() with ABORT_HALT: the processor stops, and in time all the others wait.
Stopped == (\E p \in Procs : at[p] = "halted") /\ UNCHANGED vars

Next == \/ \E p \in Procs : Take(p) \/ Add(p) \/ Join(p)
        \/ Report
        \/ Stopped

Spec == Init /\ [][Next]_vars

-----------------------------------------------------------------------------
Channels == Wires \union {Null}

\* The types; no value goes past LONG_MAX: main's additions are checked.
TypeOK ==
  /\ at \in [Procs -> {"top", "io", "answer", "print", "halted"}]
  /\ \A p \in Procs : /\ ins[p] \in [1..Size(p) + 1 -> Channels]
                      /\ outs[p] \in [1..Size(p) + 1 -> Channels]
                      /\ index[p] \in 1..Size(p)
                      /\ got[p] \in 0..Size(p) /\ put[p] \in 0..Size(p)
  /\ value \in [Procs -> 0..LongMax] /\ sends \in [Procs -> 0..LongMax]
  /\ rounds \in [Procs -> 0..Rounds - 1]

\* A round is over for all when it is over for the host: every process has
\* taken part in it once and has answered, and none is in a round that the host
\* has not started (the loop of main in both programs).
RoundsAgree ==
  /\ at[Host] = "print" =>
       \A p \in Procs \ {Host} : at[p] = "top" /\ rounds[p] = rounds[Host]
  /\ \A p \in Procs \ {Host} : at[p] \in {"io", "answer"} => rounds[p] = rounds[Host]

\* InsertChannel undoes DeleteChannel: when a process answers, its lists are the
\* ones the configuration gave it, so that the answer goes out on the output
\* that belongs to the input it took.
ListsRestored ==
  \A p \in Procs : at[p] \in {"top", "answer", "print"} =>
    ins[p] = CreateChannels(InputOf[p]) /\ outs[p] = CreateChannels(OutputOf[p])

\* "Overflow error" (MULTPASS.C:104, HOSTPASS.C:66): InputProcess gives up only
\* when the sum does not fit in a long int.
HaltsOnOverflow ==
  [][\A p \in Procs : at[p] = "io" /\ at'[p] = "halted" =>
       \E s \in Procs, i \in Listed(ins[p]) :
         Sends(s, ins[p][i]) /\ value[p] + Carried(s) > LongMax]_vars
=============================================================================
