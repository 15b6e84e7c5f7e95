----------------------------- MODULE LopsMemory -----------------------------
(***************************************************************************)
(* LOPS_Poke16, LOPS_Poke32, LOPS_Peek16 and LOPS_Peek32: the words of a   *)
(* target that has been reset or analysed, read and written one command    *)
(* at a time over the link.  A byte holds B values.  The addresses of a    *)
(* 16 bit target have two bytes, those of a 32 bit target four.            *)
(***************************************************************************)
EXTENDS Integers, Sequences

CONSTANTS
  Kinds,       \* kinds of target: 16 or 32 bits
  B,           \* values of a byte; 256 in the program
  Values,      \* contents of a word
  MaxWords,    \* bound: words of one call
  MaxLate,     \* bound: late answers
  BigEndian,   \* whether the host is built with BIG_ENDIAN
  Late         \* whether an answer may come after its read has timed out

\* What the constants are; the module that gives them assumes it.
MemoryConstants ==
  /\ Kinds \subseteq {16, 32} /\ B \in Nat \ {0} /\ B % 2 = 0 /\ MaxLate \in Nat /\ MaxWords \in Nat \ {0} /\ Values # {}
  /\ {BigEndian, Late} \subseteq BOOLEAN

VARIABLES
  bits,      \* 16 or 32, the kind of the target
  mem,       \* its memory: words by address
  before,    \* the memory when the call began
  call,      \* the running call
  answers,   \* words the target has sent back and nobody has read
  result,    \* what the last call was, with its status and buffer
  sound      \* no call has failed since the last analyse

vars == <<bits, mem, before, call, answers, result, sound>>

Bytes == IF bits = 16 THEN 2 ELSE 4
Space == IF bits = 16 THEN B * B ELSE B * B * B * B
Words == {a \in 0 .. Space - 1 : a % Bytes = 0}
Idle == [op |-> "none", address |-> 0, data |-> << >>, i |-> 0, buffer |-> << >>]
Nothing == [op |-> "none", status |-> "NOERROR", address |-> 0, data |-> << >>]

\* What a byte stands for in a number, lowest byte first.
Weight == <<1, B, B * B, B * B * B>>

\* A short or a long that holds the address a, and its four bytes, lowest first.
Signed(a) == IF 2 * a >= Space THEN a - Space ELSE a
LongBytes(a) == [i \in 1 .. 4 |-> ((Signed(a) % (B * B * B * B)) \div Weight[i]) % B]

\* union { long as_short; unsigned char as_bytes[2] }: as_bytes are the first
\* bytes of the long as the host keeps it.
AsBytes(a) ==
  IF BigEndian THEN [i \in 1 .. Bytes |-> LongBytes(a)[5 - i]]
  ELSE [i \in 1 .. Bytes |-> LongBytes(a)[i]]

CommandUnswapped(a) == [i \in 1 .. Bytes |-> AsBytes(a)[Bytes + 1 - i]] \* mutant: other order
Command(a) ==
  IF BigEndian THEN [i \in 1 .. Bytes |-> AsBytes(a)[Bytes + 1 - i]] ELSE AsBytes(a)

\* The word the target takes from the command, lowest byte of the address first.
Address(bytes) ==
  LET Part(i) == bytes[i] * Weight[i] IN
  LET a == IF bits = 16 THEN Part(1) + Part(2) ELSE Part(1) + Part(2) + Part(3) + Part(4)
  IN a - (a % Bytes)

TypeOK ==
  /\ bits \in Kinds /\ mem \in [Words -> Values] /\ before \in [Words -> Values]
  /\ call.op \in {"none", "poke", "peek", "answer"} /\ call.i \in 0 .. MaxWords
  /\ call.address \in 0 .. Space - 1
  /\ result.status \in {"NOERROR", "LINK_FATAL"} /\ sound \in BOOLEAN
  /\ answers \in Seq(Values)

Init ==
  /\ bits \in Kinds /\ mem \in [Words -> Values] /\ before = mem
  /\ call = Idle /\ answers = << >> /\ result = Nothing /\ sound = TRUE

Call(op, a, data) ==
  /\ call = Idle /\ Len(answers) <= MaxLate
  /\ call' = [Idle EXCEPT !.op = op, !.address = a, !.data = data]
  /\ before' = mem
  /\ UNCHANGED <<bits, mem, answers, result, sound>>

Fails ==
  /\ call' = Idle /\ sound' = FALSE
  /\ result' = [op |-> "none", status |-> "LINK_FATAL", address |-> 0, data |-> << >>]

\* address + 2 or 4, in the width of the variable.
NextAddress(a) == (a + Bytes) % Space

Done == call.i = Len(call.data)

Poke ==
  /\ call.op = "poke" /\ ~ Done
  /\ \/ /\ mem' = [w \in Words |-> IF w = Address(Command(call.address))
                                   THEN call.data[call.i + 1] ELSE mem[w]]
        /\ call' = [call EXCEPT !.i = @ + 1, !.address = NextAddress(@)]
        /\ UNCHANGED <<result, sound>>
     \/ Fails /\ UNCHANGED mem
  /\ UNCHANGED <<bits, before, answers>>

PeekCommand ==
  /\ call.op = "peek" /\ ~ Done
  /\ \/ /\ answers' = Append(answers, mem[Address(Command(call.address))])
        /\ call' = [call EXCEPT !.op = "answer"]
        /\ UNCHANGED <<result, sound>>
     \/ Fails /\ UNCHANGED answers
  /\ UNCHANGED <<bits, mem, before>>

\* The read gets the oldest word there is, or times out.
PeekAnswer ==
  /\ call.op = "answer"
  /\ \/ /\ call' = [call EXCEPT !.op = "peek", !.i = @ + 1, !.address = NextAddress(@),
                                !.buffer = Append(@, Head(answers))]
        /\ answers' = Tail(answers) /\ UNCHANGED <<result, sound>>
     \/ Fails /\ answers' = IF Late THEN answers ELSE << >>
  /\ UNCHANGED <<bits, mem, before>>

Start == (call.address - Bytes * call.i) % Space

Return ==
  /\ call.op \in {"poke", "peek"} /\ Done
  /\ result' = [op |-> call.op, status |-> "NOERROR", address |-> Start,
                data |-> IF call.op = "poke" THEN call.data ELSE call.buffer]
  /\ call' = Idle
  /\ UNCHANGED <<bits, mem, before, answers, sound>>

\* OPS_Analyse stops the target again and empties the link.
Analyse ==
  /\ call = Idle /\ answers' = << >> /\ sound' = TRUE /\ result' = Nothing
  /\ UNCHANGED <<bits, mem, before, call>>

Next ==
  \/ \E a \in Words, n \in 1 .. MaxWords :
       \/ \E data \in [1 .. n -> Values] : Call("poke", a, data)
       \/ \E v \in Values : Call("peek", a, [i \in 1 .. n |-> v])
  \/ Poke \/ PeekCommand \/ PeekAnswer \/ Return \/ Analyse

Spec == Init /\ [][Next]_vars

-----------------------------------------------------------------------------
WordAt(a, i) == (a + Bytes * (i - 1)) % Space

\* A poke that succeeds has changed the words it names, to what it was given,
\* and no other.
PokeLands ==
  call = Idle /\ result.op = "poke" =>
    \A w \in Words :
      LET places == {i \in 1 .. Len(result.data) : WordAt(result.address, i) = w} IN
      /\ places = {} => mem[w] = before[w]
      /\ \A i \in places : (\A j \in places : j <= i) => mem[w] = result.data[i]

\* A peek that succeeds returns what the memory holds, as long as none has
\* failed since the target was stopped.
PeekTells ==
  call = Idle /\ result.op = "peek" /\ sound =>
    \A i \in 1 .. Len(result.data) : result.data[i] = mem[WordAt(result.address, i)]

\* A call that fails half way has changed nothing it was not going to.
PokePrefix ==
  call.op = "poke" =>
    \A w \in Words : mem[w] # before[w]
      => \E i \in 1 .. call.i : WordAt(Start, i) = w
=============================================================================
