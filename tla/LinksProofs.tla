----------------------------- MODULE LinksProofs ------------------------------
(* Proofs about what lies below OPS_*, for every size of a packet and of a   *)
(* fragment, and every width of a timer.                                     *)
EXTENDS MCLinks, SequenceTheorems, TLAPS

-----------------------------------------------------------------------------
(* Pieces of packets.                                                      *)

\* Byte i of packet p.
ByteOf(p, i) == <<p, i>>
Byte == Nat \X Nat

\* n bytes of packet p, those after the first a.
Piece(p, a, n) == [i \in 1 .. n |-> ByteOf(p, a + i)]

\* Each byte of a packet is a byte (TypeOK's Byte).
LEMMA BytesAre == ASSUME NEW p \in Nat, NEW i \in Nat PROVE ByteOf(p, i) \in Byte
BY DEF ByteOf, Byte

\* A piece cut from a packet has the length asked for and the bytes of its place.
LEMMA PieceIs ==
  ASSUME NEW p \in Nat, NEW a \in Nat, NEW n \in Nat
  PROVE  /\ Piece(p, a, n) \in Seq(Byte)
         /\ Len(Piece(p, a, n)) = n
         /\ \A i \in 1 .. n : Piece(p, a, n)[i] = ByteOf(p, a + i)
<1>1. \A i \in 1 .. n : ByteOf(p, a + i) \in Byte
  BY BytesAre
<1>2. Piece(p, a, n) \in [1 .. n -> Byte]
  BY <1>1 DEF Piece
<1>3. Piece(p, a, n) \in Seq(Byte) /\ Len(Piece(p, a, n)) = n
  BY <1>2
<1>4. \A i \in 1 .. n : Piece(p, a, n)[i] = ByteOf(p, a + i)
  BY DEF Piece
<1>5. QED
  BY <1>3, <1>4

\* A sequence is a piece when its members are those of one.
LEMMA IsPiece ==
  ASSUME NEW p \in Nat, NEW a \in Nat, NEW n \in Nat, NEW s \in Seq(Byte), Len(s) = n,
         \A i \in 1 .. n : s[i] = ByteOf(p, a + i)
  PROVE  s = Piece(p, a, n)
<1>1. s = [i \in 1 .. n |-> s[i]]
  OBVIOUS
<1>2. QED
  BY <1>1 DEF Piece

\* What is taken from the front of a piece, and what is left.
LEMMA CutPiece ==
  ASSUME NEW p \in Nat, NEW a \in Nat, NEW n \in Nat, NEW k \in 0 .. n
  PROVE  /\ SubSeq(Piece(p, a, n), 1, k) = Piece(p, a, k)
         /\ SubSeq(Piece(p, a, n), k + 1, n) = Piece(p, a + k, n - k)
<1> DEFINE s == Piece(p, a, n)
<1>1. s \in Seq(Byte) /\ Len(s) = n /\ \A i \in 1 .. n : s[i] = ByteOf(p, a + i)
  BY PieceIs
<1> HIDE DEF s
<1>2. SubSeq(s, 1, k) = Piece(p, a, k)
  <2> DEFINE t == SubSeq(s, 1, k)
  <2>1. t \in Seq(Byte) /\ Len(t) = k /\ \A i \in 1 .. k : t[i] = s[i]
    BY <1>1
  <2> HIDE DEF t
  <2>2. ASSUME NEW i \in 1 .. k PROVE t[i] = ByteOf(p, a + i)
    BY <1>1, <2>1
  <2>3. k \in Nat
    OBVIOUS
  <2>4. t = Piece(p, a, k)
    BY <2>1, <2>2, <2>3, IsPiece
  <2>5. QED
    BY <2>4 DEF t
<1>3. SubSeq(s, k + 1, n) = Piece(p, a + k, n - k)
  <2> DEFINE t == SubSeq(s, k + 1, n)
  <2>1. t \in Seq(Byte) /\ Len(t) = n - k /\ \A i \in 1 .. n - k : t[i] = s[k + i]
    BY <1>1, SMTT(30)
  <2> HIDE DEF t
  <2>2. ASSUME NEW i \in 1 .. n - k PROVE t[i] = ByteOf(p, a + k + i)
    <3>1. k + i \in 1 .. n /\ a + (k + i) = a + k + i
      OBVIOUS
    <3>2. t[i] = ByteOf(p, a + (k + i))
      BY <1>1, <2>1, <3>1
    <3>3. QED
      BY <3>1, <3>2
  <2>3. a + k \in Nat /\ n - k \in Nat
    OBVIOUS
  <2>4. t = Piece(p, a + k, n - k)
    BY <2>1, <2>2, <2>3, IsPiece
  <2>5. QED
    BY <2>4 DEF t
<1>4. QED
  BY <1>2, <1>3 DEF s

\* The rest after the first byte.
LEMMA TailOfPiece ==
  ASSUME NEW p \in Nat, NEW a \in Nat, NEW n \in Nat \ {0}
  PROVE  Tail(Piece(p, a, n)) = Piece(p, a + 1, n - 1)
<1> DEFINE s == Piece(p, a, n)
           t == Tail(s)
<1>1. s \in Seq(Byte) /\ Len(s) = n /\ \A i \in 1 .. n : s[i] = ByteOf(p, a + i)
  BY PieceIs
<1> HIDE DEF s
<1>2. t \in Seq(Byte) /\ Len(t) = n - 1 /\ \A i \in 1 .. n - 1 : t[i] = s[i + 1]
  BY <1>1
<1> HIDE DEF t
<1>3. ASSUME NEW i \in 1 .. n - 1 PROVE t[i] = ByteOf(p, a + 1 + i)
  <2>1. i + 1 \in 1 .. n /\ a + (i + 1) = a + 1 + i
    OBVIOUS
  <2>2. t[i] = ByteOf(p, a + (i + 1))
    BY <1>1, <1>2, <2>1
  <2>3. QED
    BY <2>1, <2>2
<1>4. a + 1 \in Nat /\ n - 1 \in Nat
  OBVIOUS
<1>5. QED
  BY <1>2, <1>3, <1>4, IsPiece DEF s, t

\* One sequence behind the other.
Joined(s, t) == s \o t

\* Two pieces that follow one another are one.
LEMMA JoinPieces ==
  ASSUME NEW p \in Nat, NEW a \in Nat, NEW n \in Nat, NEW k \in Nat, NEW c \in Nat, c = a + n
  PROVE  Joined(Piece(p, a, n), Piece(p, c, k)) = Piece(p, a, n + k)
<1> DEFINE s == Piece(p, a, n)
           t == Piece(p, c, k)
           u == s \o t
<1>1. s \in Seq(Byte) /\ Len(s) = n /\ \A i \in 1 .. n : s[i] = ByteOf(p, a + i)
  BY PieceIs
<1>2. t \in Seq(Byte) /\ Len(t) = k /\ \A i \in 1 .. k : t[i] = ByteOf(p, c + i)
  BY PieceIs
<1> HIDE DEF s, t
<1>3. /\ u \in Seq(Byte) /\ Len(u) = n + k
      /\ \A i \in 1 .. n : u[i] = s[i]
      /\ \A i \in n + 1 .. n + k : u[i] = t[i - n]
  <2>1. u \in Seq(Byte) /\ Len(u) = n + k
    BY <1>1, <1>2, ConcatProperties
  <2>2. \A i \in 1 .. Len(s) + Len(t) : u[i] = IF i <= Len(s) THEN s[i] ELSE t[i - Len(s)]
    BY <1>1, <1>2, ConcatProperties
  <2> HIDE DEF u
  <2>3. QED
    BY <1>1, <1>2, <2>1, <2>2
<1> HIDE DEF u
<1>4. ASSUME NEW i \in 1 .. n + k PROVE u[i] = ByteOf(p, a + i)
  <2>1. CASE i <= n
    BY <1>1, <1>3, <2>1
  <2>2. CASE i > n
    <3>1. i - n \in 1 .. k /\ c + (i - n) = a + i /\ i \in n + 1 .. n + k
      BY <2>2
    <3>2. u[i] = ByteOf(p, c + (i - n))
      BY <1>2, <1>3, <3>1
    <3>3. QED
      BY <3>1, <3>2
  <2>3. QED
    BY <2>1, <2>2
<1> DEFINE m == n + k
<1>5. m \in Nat /\ Len(u) = m /\ \A i \in 1 .. m : u[i] = ByteOf(p, a + i)
  BY <1>3, <1>4
<1> HIDE DEF m
<1>6. u = Piece(p, a, m)
  BY <1>3, <1>5, IsPiece
<1>7. QED
  BY <1>6 DEF Joined, s, t, u, m

\* A byte more.
LEMMA GrowPiece ==
  ASSUME NEW p \in Nat, NEW a \in Nat, NEW n \in Nat
  PROVE  Append(Piece(p, a, n), ByteOf(p, a + n + 1)) = Piece(p, a, n + 1)
<1> DEFINE s == Piece(p, a, n)
           b == ByteOf(p, a + n + 1)
           u == Append(s, b)
<1>1. s \in Seq(Byte) /\ Len(s) = n /\ \A i \in 1 .. n : s[i] = ByteOf(p, a + i)
  BY PieceIs
<1>2. b \in Byte
  BY BytesAre
<1> HIDE DEF s, b
<1>3. /\ u \in Seq(Byte) /\ Len(u) = n + 1
      /\ \A i \in 1 .. n : u[i] = s[i]
      /\ u[n + 1] = b
  BY <1>1, <1>2
<1> HIDE DEF u
<1>4. ASSUME NEW i \in 1 .. n + 1 PROVE u[i] = ByteOf(p, a + i)
  <2>1. CASE i <= n
    BY <1>1, <1>3, <2>1
  <2>2. CASE i = n + 1
    BY <1>3, <2>2 DEF b
  <2>3. QED
    BY <2>1, <2>2
<1>5. n + 1 \in Nat
  OBVIOUS
<1>6. QED
  BY <1>3, <1>4, <1>5, IsPiece DEF s, b, u

-----------------------------------------------------------------------------
(* The invariant behind PacketsInOrder.                                    *)

\* The packets the target has begun, and the calls.
Begun == Len(length)
Booting(n, base) ==
  [op |-> "BootWrite", pc |-> "write", bytes |-> << >>, left |-> n, base |-> base]
Asking(place, front) == [op |-> "GetRequest", pc |-> place, bytes |-> front, left |-> 0]

\* The bytes of the last packet that the running call has taken.
Took ==
  IF call.pc = "rest" THEN 1
  ELSE IF call.pc = "size" THEN Header
  ELSE IF call.pc = "beat" THEN length[Begun]
  ELSE 0

\* The types that TypeOK leaves out, and what is counted.
FieldInv ==
  /\ comms \in {"synchronous", "asynchronous"} /\ errors \in {"detect", "ignore"}
  /\ beat \in BOOLEAN /\ flag \in BOOLEAN /\ sound \in BOOLEAN
  /\ status \in {Ops!NOERROR} \cup Ops!Failures
  /\ given \in 0 .. MaxCode
CountInv ==
  /\ length \in Seq(Lengths) /\ Begun <= MaxPackets
  /\ delivered \in Seq(Seq(Byte)) /\ inflow \in Seq(Byte) /\ sending \in Seq(Byte)
  /\ replies \in Nat /\ replies <= Len(delivered) /\ Len(delivered) <= Begun /\ Begun <= replies + 1

\* A call goes on only while none has failed, and what GetRequest has taken is the
\* front of the last packet, which has not been given to the caller yet.
BootCall == call.op = "BootWrite" /\ call = Booting(call.left, call.base) /\ call.left \in 0 .. Frag /\ call.base \in Nat
              /\ (call.left > 0 => call.base + call.left = given)
CallInv ==
  \/ call = Ops!Idle
  \/ sound /\ BootCall
  \/ sound /\ call \in {Asking("test", << >>), Asking("first", << >>)}
  \/ /\ sound /\ Len(delivered) < Begun
     /\ call \in {Asking("rest", Piece(Begun, 0, Took)), Asking("size", Piece(Begun, 0, Took)),
                  Asking("beat", Piece(Begun, 0, Took))}

\* The link holds what follows of that packet.
Follows ==
  /\ inflow = Piece(Begun, Took, Len(inflow))
  /\ sending = Piece(Begun, Took + Len(inflow), Len(sending))
  /\ Took + Len(inflow) + Len(sending) <= length[Begun]
LinkInv ==
  /\ Len(delivered) = Begun => inflow = << >> /\ sending = << >>
  /\ Len(delivered) < Begun /\ sound => Follows
  /\ Len(delivered) < Begun /\ ~ sound => Len(inflow) + Len(sending) <= length[Begun]

\* The requests that were returned.
OrderInv == \A i \in 1 .. Len(delivered) : delivered[i] = Piece(i, 0, length[i])

\* The boot code that came.
Counted(n) == [i \in 1 .. n |-> i]
CodeInv ==
  sound => code = Counted(IF call.op = "BootWrite" /\ call.left > 0 THEN call.base ELSE given)

OpsInv == FieldInv /\ CountInv /\ CallInv /\ LinkInv /\ OrderInv /\ CodeInv

-----------------------------------------------------------------------------
(* What the pieces of the invariant give.                                  *)

\* What the configuration of Lops is, in this module.
LEMMA OpsConstantsAre ==
  /\ Header \in Nat /\ Header >= 2 /\ MaxSize \in Nat /\ Frag \in Nat /\ Frag > 0
  /\ Codes \subseteq Nat /\ Lengths \subseteq Nat /\ MaxPackets \in Nat /\ MaxCode \in Nat
  /\ \E longest \in Lengths : \A n \in Lengths : n <= longest
BY LinksConstants DEF Ops!LopsConstants

\* The fields of the calls.
LEMMA Fields ==
  ASSUME NEW n, NEW b, NEW place, NEW front
  PROVE  /\ Booting(n, b).op = "BootWrite" /\ Booting(n, b).pc = "write"
         /\ Booting(n, b).bytes = << >> /\ Booting(n, b).left = n /\ Booting(n, b).base = b
         /\ Asking(place, front).op = "GetRequest" /\ Asking(place, front).pc = place
         /\ Asking(place, front).bytes = front
         /\ Ops!Idle.op = "none" /\ Ops!Idle.pc = "none" /\ Ops!Idle.bytes = << >>
         /\ Ops!Idle.left = 0
BY DEF Booting, Asking, Ops!Idle

\* How they move.
LEMMA Moves ==
  ASSUME NEW n, NEW b, NEW m, NEW place, NEW front, NEW to, NEW more
  PROVE  /\ [Booting(n, b) EXCEPT !.left = m] = Booting(m, b)
         /\ [Asking(place, front) EXCEPT !.pc = to] = Asking(to, front)
         /\ [Asking(place, front) EXCEPT !.pc = to, !.bytes = more] = Asking(to, more)
<1>1. [Booting(n, b) EXCEPT !.left = m] = Booting(m, b)
  BY DEF Booting
<1>2. [Asking(place, front) EXCEPT !.pc = to] = Asking(to, front)
  BY DEF Asking
<1>3. [Asking(place, front) EXCEPT !.pc = to, !.bytes = more] = Asking(to, more)
  <2>1. [Asking(to, front) EXCEPT !.bytes = more] = Asking(to, more)
    BY DEF Asking
  <2>2. [Asking(place, front) EXCEPT !.pc = to, !.bytes = more]
          = [[Asking(place, front) EXCEPT !.pc = to] EXCEPT !.bytes = more]
    OBVIOUS
  <2>3. QED
    BY <1>2, <2>1, <2>2
<1>4. QED
  BY <1>1, <1>2, <1>3

\* Where a call is, and what it has taken.
LEMMA CallAt ==
  ASSUME CallInv
  PROVE  /\ ~ sound => call = Ops!Idle
         /\ call = Ops!Idle => call.pc = "none" /\ call.op = "none"
         /\ call.op = "BootWrite" => BootCall /\ sound
         /\ call.pc \in {"test", "first"} => call = Asking(call.pc, << >>) /\ sound
         /\ call.pc \in {"rest", "size", "beat"} =>
              call = Asking(call.pc, Piece(Begun, 0, Took)) /\ sound /\ Len(delivered) < Begun
         /\ call.pc \notin {"rest", "size", "beat"} => Took = 0
<1>1. CASE call = Ops!Idle
  <2>1. call.pc = "none" /\ call.op = "none"
    BY <1>1, Fields
  <2>2. QED
    BY <1>1, <2>1 DEF Took
<1>2. CASE sound /\ BootCall
  <2>1. call.pc = "write" /\ call.op = "BootWrite"
    BY <1>2, Fields DEF BootCall
  <2>2. call # Ops!Idle
    BY <2>1, Fields
  <2>3. QED
    BY <1>2, <2>1, <2>2 DEF Took
<1>3. CASE sound /\ call \in {Asking("test", << >>), Asking("first", << >>)}
  <2>1. call.pc \in {"test", "first"} /\ call.op = "GetRequest" /\ call = Asking(call.pc, << >>)
    BY <1>3, Fields
  <2>2. call # Ops!Idle
    BY <2>1, Fields
  <2>3. QED
    BY <1>3, <2>1, <2>2 DEF Took
<1>4. CASE /\ sound /\ Len(delivered) < Begun
           /\ call \in {Asking("rest", Piece(Begun, 0, Took)), Asking("size", Piece(Begun, 0, Took)),
                        Asking("beat", Piece(Begun, 0, Took))}
  <2>1. call.pc \in {"rest", "size", "beat"} /\ call.op = "GetRequest"
        /\ call = Asking(call.pc, Piece(Begun, 0, Took))
    BY <1>4, Fields
  <2>2. call # Ops!Idle
    BY <2>1, Fields
  <2>3. QED
    BY <1>4, <2>1, <2>2
<1>5. QED
  BY <1>1, <1>2, <1>3, <1>4 DEF CallInv

\* The numbers in the invariant.
LEMMA Numbers ==
  ASSUME CountInv
  PROVE  /\ Begun \in Nat /\ Len(delivered) \in Nat /\ Len(inflow) \in Nat /\ Len(sending) \in Nat
         /\ Len(delivered) < Begun => Begun \in 1 .. Len(length) /\ length[Begun] \in Nat /\ Took \in Nat
         /\ \A i \in 1 .. Len(length) : length[i] \in Nat
<1>1. \A i \in 1 .. Len(length) : length[i] \in Nat
  <2>1. length \in Seq(Lengths) /\ Lengths \subseteq Nat
    BY OpsConstantsAre DEF CountInv
  <2>2. \A i \in 1 .. Len(length) : length[i] \in Lengths
    BY <2>1, ElementOfSeq
  <2>3. QED
    BY <2>1, <2>2
<1>2. Begun \in Nat /\ Len(delivered) \in Nat /\ Len(inflow) \in Nat /\ Len(sending) \in Nat
  BY DEF CountInv, Begun
<1>3. ASSUME Len(delivered) < Begun
      PROVE  Begun \in 1 .. Len(length) /\ length[Begun] \in Nat
  BY <1>1, <1>2, <1>3 DEF Begun
<1>4. Len(delivered) < Begun => Took \in Nat
  BY <1>3, OpsConstantsAre DEF Took
<1>5. QED
  BY <1>1, <1>2, <1>3, <1>4

\* What a call that returns leaves.
LEMMA Returned ==
  ASSUME FieldInv, NEW s \in {Ops!NOERROR} \cup Ops!Failures, Ops!Returns(s)
  PROVE  /\ call' = Ops!Idle /\ status' \in {Ops!NOERROR} \cup Ops!Failures
         /\ sound' \in BOOLEAN /\ (sound' => sound /\ s = Ops!NOERROR)
         /\ (sound /\ s = Ops!NOERROR => sound')
         /\ CallInv' /\ Took' = 0 /\ call'.op = "none"
<1>1. call' = Ops!Idle /\ status' = s /\ sound' = (sound /\ s = Ops!NOERROR)
  BY DEF Ops!Returns
<1>2. sound' \in BOOLEAN /\ (sound' <=> sound /\ s = Ops!NOERROR)
  BY <1>1, Zenon DEF FieldInv
<1>3. CallInv'
  BY <1>1 DEF CallInv, Ops!Idle
<1>4. call'.op = "none" /\ call'.pc = "none"
  BY <1>1, Fields
<1>5. Took' = 0
  BY <1>4 DEF Took
<1>6. QED
  BY <1>1, <1>2, <1>3, <1>4, <1>5

\* What the test of the flag may say.
LEMMA Tests == ASSUME NEW t \in Ops!TestError PROVE t \in {Ops!NOERROR} \cup Ops!Failures
BY DEF Ops!TestError, Ops!Failures

\* A step that takes nothing from the link,
LEMMA LinkRests ==
  ASSUME CountInv, LinkInv, UNCHANGED <<length, sending, inflow, delivered>>,
         sound' => sound /\ Took' = Took
  PROVE  LinkInv'
<1>1. Begun' = Begun
  BY DEF Begun
<1>2. CASE Len(delivered) = Begun
  BY <1>1, <1>2, Numbers DEF LinkInv
<1>3. CASE Len(delivered) < Begun /\ sound'
  <2>1. Follows
    BY <1>3 DEF LinkInv
  <2>2. Follows'
    BY <1>1, <1>3, <2>1 DEF Follows, Piece, ByteOf
  <2>3. QED
    BY <1>1, <1>3, <2>2, Numbers DEF LinkInv
<1>4. CASE Len(delivered) < Begun /\ ~ sound'
  <2>1. Len(inflow) + Len(sending) <= length[Begun]
    BY <1>4, Numbers DEF LinkInv, Follows
  <2>2. QED
    BY <1>1, <1>4, <2>1, Numbers DEF LinkInv
<1>5. QED
  BY <1>2, <1>3, <1>4, Numbers DEF CountInv

\* and one that takes k bytes.
LEMMA LinkGives ==
  ASSUME CountInv, LinkInv, sound, Len(delivered) < Begun, NEW k \in 0 .. Len(inflow),
         inflow' = SubSeq(inflow, k + 1, Len(inflow)), UNCHANGED <<length, sending, delivered>>,
         sound' => Took' = Took + k
  PROVE  /\ LinkInv' /\ inflow' \in Seq(Byte)
         /\ SubSeq(inflow, 1, k) = Piece(Begun, Took, k)
         /\ Took + k <= length[Begun]
<1>1. Begun' = Begun
  BY DEF Begun
<1>2. /\ Begun \in Nat /\ Took \in Nat /\ Len(inflow) \in Nat /\ Len(sending) \in Nat
      /\ length[Begun] \in Nat /\ Len(delivered) \in Nat
  BY Numbers
<1>3. /\ inflow = Piece(Begun, Took, Len(inflow))
      /\ sending = Piece(Begun, Took + Len(inflow), Len(sending))
      /\ Took + Len(inflow) + Len(sending) <= length[Begun]
  BY DEF LinkInv, Follows
<1>4. /\ SubSeq(inflow, 1, k) = Piece(Begun, Took, k)
      /\ inflow' = Piece(Begun, Took + k, Len(inflow) - k)
  <2> DEFINE n == Len(inflow)
  <2>1. n \in Nat /\ k \in 0 .. n /\ inflow = Piece(Begun, Took, n) /\ inflow' = SubSeq(inflow, k + 1, n)
    BY <1>2, <1>3
  <2> HIDE DEF n
  <2>2. /\ SubSeq(Piece(Begun, Took, n), 1, k) = Piece(Begun, Took, k)
        /\ SubSeq(Piece(Begun, Took, n), k + 1, n) = Piece(Begun, Took + k, n - k)
    <3>1. Begun \in Nat /\ Took \in Nat /\ n \in Nat /\ k \in 0 .. n
      BY <1>2, <2>1
    <3>2. QED
      BY <3>1, CutPiece, ZenonT(40)
  <2>3. QED
    BY <2>1, <2>2 DEF n
<1>5. inflow' \in Seq(Byte) /\ Len(inflow') = Len(inflow) - k
  <2>1. Begun \in Nat /\ Took + k \in Nat /\ Len(inflow) - k \in Nat
    BY <1>2
  <2>2. /\ Piece(Begun, Took + k, Len(inflow) - k) \in Seq(Byte)
        /\ Len(Piece(Begun, Took + k, Len(inflow) - k)) = Len(inflow) - k
    BY <2>1, PieceIs
  <2>3. QED
    BY <1>4, <2>2
<1>6. CASE sound'
  <2>1. Took' = Took + k /\ Took' + Len(inflow') = Took + Len(inflow)
    BY <1>2, <1>5, <1>6
  <2>2. Follows'
    <3>1. inflow' = Piece(Begun, Took', Len(inflow'))
      BY <1>4, <1>5, <2>1
    <3>2. sending' = Piece(Begun, Took' + Len(inflow'), Len(sending'))
      BY <1>3, <2>1
    <3>3. Took' + Len(inflow') + Len(sending') <= length'[Begun]
      BY <1>2, <1>3, <2>1
    <3>4. QED
      BY <1>1, <3>1, <3>2, <3>3 DEF Follows, Piece, ByteOf
  <2>3. QED
    BY <1>1, <1>2, <1>3, <1>4, <1>5, <1>6, <2>2 DEF LinkInv
<1>7. CASE ~ sound'
  BY <1>1, <1>2, <1>3, <1>4, <1>5, <1>7 DEF LinkInv
<1>8. QED
  BY <1>2, <1>3, <1>4, <1>5, <1>6, <1>7

\* A step of a call that reads.
LEMMA Reading ==
  ASSUME OpsInv, call.op # "BootWrite", call'.op # "BootWrite", sound' => sound,
         UNCHANGED <<comms, errors, flag, given, length, sending, delivered, replies, code>>,
         beat' \in BOOLEAN, sound' \in BOOLEAN, status' \in {Ops!NOERROR} \cup Ops!Failures,
         inflow' \in Seq(Byte), CallInv', LinkInv'
  PROVE  OpsInv'
<1>1. FieldInv'
  BY DEF OpsInv, FieldInv, Ops!NOERROR, Ops!Failures
<1>2. CountInv'
  BY DEF OpsInv, CountInv, Begun
<1>3. OrderInv'
  BY DEF OpsInv, OrderInv, Piece, ByteOf
<1>4. CodeInv'
  BY DEF OpsInv, CodeInv, Counted
<1>5. QED
  BY <1>1, <1>2, <1>3, <1>4 DEF OpsInv

\* The places of a call that reads.
LEMMA AtTest ==
  ASSUME OpsInv, call.pc \in {"test", "first"}
  PROVE  call = Asking(call.pc, << >>) /\ sound /\ call.op = "GetRequest" /\ Took = 0
<1>1. call = Asking(call.pc, << >>) /\ sound /\ Took = 0
  BY CallAt DEF OpsInv
<1>2. QED
  BY <1>1, Fields

\* And those of one that has a part of a packet.
LEMMA AtPart ==
  ASSUME OpsInv, call.pc \in {"rest", "size", "beat"}
  PROVE  /\ call = Asking(call.pc, Piece(Begun, 0, Took)) /\ sound /\ call.op = "GetRequest"
         /\ Len(delivered) < Begun /\ Took \in Nat /\ Begun \in Nat /\ length[Begun] \in Nat
         /\ Took + Len(inflow) + Len(sending) <= length[Begun]
         /\ Len(inflow) \in Nat /\ Len(sending) \in Nat
<1>1. call = Asking(call.pc, Piece(Begun, 0, Took)) /\ sound /\ Len(delivered) < Begun
  BY CallAt DEF OpsInv
<1>2. call.op = "GetRequest"
  BY <1>1, Fields
<1>3. Took + Len(inflow) + Len(sending) <= length[Begun]
  BY <1>1 DEF OpsInv, LinkInv, Follows
<1>4. QED
  BY <1>1, <1>2, <1>3, Numbers DEF OpsInv

\* A call that reads returns, with nothing more from the link.
LEMMA ReadingReturns ==
  ASSUME OpsInv, call.op # "BootWrite", NEW s \in {Ops!NOERROR} \cup Ops!Failures, Ops!Returns(s),
         UNCHANGED <<comms, errors, flag, given, length, sending, delivered, replies, code, inflow>>,
         beat' \in BOOLEAN, s = Ops!NOERROR => Took = 0
  PROVE  OpsInv'
<1>1. /\ status' \in {Ops!NOERROR} \cup Ops!Failures
      /\ sound' \in BOOLEAN /\ (sound' => sound /\ s = Ops!NOERROR)
      /\ CallInv' /\ Took' = 0 /\ call'.op = "none"
  BY Returned DEF OpsInv
<1>2. sound' => sound /\ Took' = Took
  BY <1>1
<1>3. LinkInv'
  BY <1>2, LinkRests DEF OpsInv
<1>4. inflow' \in Seq(Byte)
  BY DEF OpsInv, CountInv
<1>5. call'.op # "BootWrite" /\ (sound' => sound)
  BY <1>1
<1>6. QED
  BY <1>1, <1>3, <1>4, <1>5, Reading

\* It goes on, with nothing more from the link.
LEMMA ReadingGoes ==
  ASSUME OpsInv, call.op = "GetRequest", UNCHANGED <<status, sound>>, sound, call'.op = "GetRequest",
         UNCHANGED <<comms, errors, flag, given, length, sending, delivered, replies, code, inflow>>,
         beat' \in BOOLEAN, Took' = Took, CallInv'
  PROVE  OpsInv'
<1>1. LinkInv'
  BY LinkRests DEF OpsInv
<1>2. inflow' \in Seq(Byte) /\ sound' \in BOOLEAN /\ status' \in {Ops!NOERROR} \cup Ops!Failures
  BY DEF OpsInv, CountInv, FieldInv
<1>3. QED
  BY <1>1, <1>2, Reading

\* It takes k bytes and returns that something failed.
LEMMA ReadingTakes ==
  ASSUME OpsInv, call.pc \in {"rest", "size"}, NEW k \in 0 .. Len(inflow),
         inflow' = SubSeq(inflow, k + 1, Len(inflow)),
         UNCHANGED <<comms, errors, beat, flag, given, length, sending, delivered, replies, code>>,
         NEW s \in Ops!Failures, Ops!Returns(s)
  PROVE  OpsInv'
<1>1. sound /\ call.op = "GetRequest" /\ Len(delivered) < Begun
  BY AtPart
<1>2. /\ status' \in {Ops!NOERROR} \cup Ops!Failures /\ ~ sound' /\ sound' \in BOOLEAN
      /\ CallInv' /\ call'.op = "none"
  <2>1. s \in {Ops!NOERROR} \cup Ops!Failures /\ s # Ops!NOERROR
    BY DEF Ops!Failures, Ops!NOERROR
  <2>2. QED
    BY <2>1, Returned DEF OpsInv
<1>3. LinkInv' /\ inflow' \in Seq(Byte)
  BY <1>1, <1>2, LinkGives DEF OpsInv
<1>4. beat' \in BOOLEAN
  BY DEF OpsInv, FieldInv
<1>5. QED
  BY <1>1, <1>2, <1>3, <1>4, Reading

\* It takes the k bytes it wants and goes on with them.
LEMMA ReadingGets ==
  ASSUME OpsInv, call.op = "GetRequest", sound, Len(delivered) < Begun, NEW k \in 0 .. Len(inflow),
         inflow' = SubSeq(inflow, k + 1, Len(inflow)),
         UNCHANGED <<comms, errors, beat, flag, given, length, sending, delivered, replies, code,
                     status, sound>>,
         NEW place \in {"rest", "size", "beat"},
         call' = Asking(place, Piece(Begun, 0, Took + k)), Took' = Took + k
  PROVE  OpsInv'
<1>1. LinkInv' /\ inflow' \in Seq(Byte)
  BY LinkGives DEF OpsInv
<1>2. CallInv'
  <2>1. Begun' = Begun
    BY DEF Begun
  <2>2. call' = Asking(place, Piece(Begun', 0, Took'))
    BY <2>1
  <2>3. Len(delivered') < Begun' /\ sound'
    BY <2>1
  <2>4. QED
    BY <2>2, <2>3 DEF CallInv, Asking, Piece, ByteOf
<1>3. call'.op = "GetRequest"
  BY Fields
<1>4. beat' \in BOOLEAN /\ sound' \in BOOLEAN /\ status' \in {Ops!NOERROR} \cup Ops!Failures
  BY DEF OpsInv, FieldInv
<1>5. QED
  BY <1>1, <1>2, <1>3, <1>4, Reading

\* Bytes that were taken, and those that follow them.
LEMMA Longer ==
  ASSUME OpsInv, call.pc \in {"rest", "size"}, NEW k \in 0 .. Len(inflow), NEW place
  PROVE  [call EXCEPT !.pc = place, !.bytes = @ \o SubSeq(inflow, 1, k)]
           = Asking(place, Piece(Begun, 0, Took + k))
<1>1. /\ call = Asking(call.pc, Piece(Begun, 0, Took)) /\ Took \in Nat /\ Begun \in Nat
      /\ Len(inflow) \in Nat /\ k \in Nat /\ Len(delivered) < Begun /\ sound
  BY AtPart
<1>2. call.bytes = Piece(Begun, 0, Took)
  BY <1>1, Fields
<1>3. SubSeq(inflow, 1, k) = Piece(Begun, Took, k)
  <2>1. inflow = Piece(Begun, Took, Len(inflow))
    BY <1>1 DEF OpsInv, LinkInv, Follows
  <2> DEFINE n == Len(inflow)
  <2>2. n \in Nat /\ k \in 0 .. n /\ inflow = Piece(Begun, Took, n)
    BY <1>1, <2>1
  <2> HIDE DEF n
  <2>3. SubSeq(Piece(Begun, Took, n), 1, k) = Piece(Begun, Took, k)
    <3>1. Begun \in Nat /\ Took \in Nat /\ n \in Nat /\ k \in 0 .. n
      BY <1>1, <2>2
    <3>2. QED
      BY <3>1, CutPiece
  <2>4. QED
    BY <2>2, <2>3
<1>4. Piece(Begun, 0, Took) \o Piece(Begun, Took, k) = Piece(Begun, 0, Took + k)
  <2> DEFINE b == Begun
             t == Took
  <2>1. b \in Nat /\ 0 \in Nat /\ t \in Nat /\ k \in Nat /\ t = 0 + t
    BY <1>1
  <2> HIDE DEF b, t
  <2>2. Joined(Piece(b, 0, t), Piece(b, t, k)) = Piece(b, 0, t + k)
    BY <2>1, JoinPieces
  <2>3. QED
    BY <2>2 DEF Joined, b, t
<1> DEFINE more == Piece(Begun, 0, Took + k)
           front == Piece(Begun, 0, Took)
<1>5. [call EXCEPT !.pc = place, !.bytes = @ \o SubSeq(inflow, 1, k)]
        = [call EXCEPT !.pc = place, !.bytes = more]
  <2>1. call.bytes \o SubSeq(inflow, 1, k) = more
    BY <1>2, <1>3, <1>4
  <2> HIDE DEF more
  <2>2. [call EXCEPT !.pc = place].bytes = call.bytes
    <3>1. [Asking(call.pc, front) EXCEPT !.pc = place] = Asking(place, front)
      BY DEF Asking
    <3>2. QED
      BY <1>1, <3>1, Fields
  <2>3. [call EXCEPT !.pc = place, !.bytes = @ \o SubSeq(inflow, 1, k)]
          = [[call EXCEPT !.pc = place] EXCEPT !.bytes = @ \o SubSeq(inflow, 1, k)]
    OBVIOUS
  <2>4. [call EXCEPT !.pc = place, !.bytes = more] = [[call EXCEPT !.pc = place] EXCEPT !.bytes = more]
    OBVIOUS
  <2>5. [[call EXCEPT !.pc = place] EXCEPT !.bytes = @ \o SubSeq(inflow, 1, k)]
          = [[call EXCEPT !.pc = place] EXCEPT !.bytes = more]
    BY <2>1, <2>2
  <2>6. QED
    BY <2>3, <2>4, <2>5
<1> HIDE DEF more, front
<1>6. [Asking(call.pc, front) EXCEPT !.pc = place, !.bytes = more] = Asking(place, more)
  <2>1. [Asking(call.pc, front) EXCEPT !.pc = place, !.bytes = more]
          = [[Asking(call.pc, front) EXCEPT !.pc = place] EXCEPT !.bytes = more]
    OBVIOUS
  <2>2. [Asking(call.pc, front) EXCEPT !.pc = place] = Asking(place, front)
    BY DEF Asking
  <2>3. [Asking(place, front) EXCEPT !.bytes = more] = Asking(place, more)
    BY DEF Asking
  <2>4. QED
    BY <2>1, <2>2, <2>3
<1>7. QED
  BY <1>1, <1>5, <1>6 DEF more, front

-----------------------------------------------------------------------------
(* The steps of LOPS_GetRequest.                                           *)

\* The first test of the error flag.
LEMMA FirstTestKeeps == ASSUME OpsInv, Ops!FirstTest PROVE OpsInv'
<1>1. call = Asking("test", << >>) /\ sound /\ call.op = "GetRequest" /\ Took = 0
  <2>1. call.pc = "test"
    BY DEF Ops!FirstTest
  <2>2. QED
    BY <2>1, AtTest
<1>2. /\ UNCHANGED <<comms, errors, flag, given, length, sending, delivered, replies, code, inflow>>
      /\ beat' \in BOOLEAN
  BY DEF Ops!FirstTest, Ops!modes, Ops!target, OpsInv, FieldInv
<1>3. PICK s \in Ops!TestError : IF s = Ops!NOERROR THEN Ops!Goes("first") ELSE Ops!Returns(s)
  BY DEF Ops!FirstTest
<1>4. CASE s = Ops!NOERROR
  <2>1. call' = [call EXCEPT !.pc = "first"] /\ UNCHANGED <<status, sound>>
    BY <1>3, <1>4 DEF Ops!Goes
  <2>2. call' = Asking("first", << >>)
    BY <1>1, <2>1 DEF Asking
  <2>3. call'.op = "GetRequest" /\ call'.pc = "first"
    BY <2>2, Fields
  <2>4. Took' = 0
    BY <2>3 DEF Took
  <2>5. CallInv'
    BY <1>1, <2>1, <2>2 DEF CallInv, Asking
  <2>6. QED
    BY <1>1, <1>2, <2>1, <2>3, <2>4, <2>5, ReadingGoes
<1>5. CASE s # Ops!NOERROR
  <2>1. Ops!Returns(s) /\ s \in {Ops!NOERROR} \cup Ops!Failures
    BY <1>3, <1>5, Tests
  <2>2. call.op # "BootWrite"
    BY <1>1
  <2>3. QED
    BY <1>1, <1>2, <2>1, <2>2, ReadingReturns
<1>6. QED
  BY <1>4, <1>5

\* The read of the first byte, and the heartbeat.
LEMMA FirstByteKeeps == ASSUME OpsInv, Ops!FirstByte PROVE OpsInv'
<1>1. call = Asking("first", << >>) /\ sound /\ call.op = "GetRequest" /\ Took = 0
  <2>1. call.pc = "first"
    BY DEF Ops!FirstByte
  <2>2. QED
    BY <2>1, AtTest
<1>2. /\ UNCHANGED <<comms, errors, flag, given, length, sending, delivered, replies, code>>
      /\ beat \in BOOLEAN
  BY DEF Ops!FirstByte, Ops!modes, Ops!target, OpsInv, FieldInv
<1>3. ASSUME Ops!Goes("test"), UNCHANGED inflow, beat' \in BOOLEAN PROVE OpsInv'
  <2>1. call' = [call EXCEPT !.pc = "test"] /\ UNCHANGED <<status, sound>>
    BY <1>3 DEF Ops!Goes
  <2>2. call' = Asking("test", << >>)
    BY <1>1, <2>1 DEF Asking
  <2>3. call'.op = "GetRequest" /\ call'.pc = "test"
    BY <2>2, Fields
  <2>4. Took' = 0
    BY <2>3 DEF Took
  <2>5. CallInv'
    BY <1>1, <2>1, <2>2 DEF CallInv, Asking
  <2>6. QED
    BY <1>1, <1>2, <1>3, <2>1, <2>3, <2>4, <2>5, ReadingGoes
<1>4. ASSUME NEW s \in Ops!Failures, Ops!Returns(s), UNCHANGED <<beat, inflow>> PROVE OpsInv'
  <2>1. call.op # "BootWrite" /\ s \in {Ops!NOERROR} \cup Ops!Failures /\ beat' \in BOOLEAN
    BY <1>1, <1>2, <1>4
  <2>2. QED
    BY <1>1, <1>2, <1>4, <2>1, ReadingReturns
<1>5. CASE /\ 1 \in Ops!Takes(1)
           /\ call' = [call EXCEPT !.pc = "rest", !.bytes = Ops!BytesWithFirst]
           /\ inflow' = Tail(inflow) /\ UNCHANGED <<beat, status, sound>>
  <2>1. inflow \in Seq(Byte) /\ Len(inflow) >= 1 /\ Len(inflow) \in Nat /\ 1 \in 0 .. Len(inflow)
    BY <1>5 DEF Ops!Takes, OpsInv, CountInv
  <2>2. Len(delivered) < Begun /\ Begun \in Nat
    BY <2>1, Numbers DEF OpsInv, LinkInv, CountInv
  <2>3. inflow' = SubSeq(inflow, 1 + 1, Len(inflow))
    <3>1. inflow # << >> /\ 1 + 1 = 2
      BY <2>1
    <3>2. Tail(inflow) = SubSeq(inflow, 2, Len(inflow))
      BY <2>1, <3>1, TailIsSubSeq
    <3>3. QED
      BY <1>5, <3>1, <3>2
  <2>4. SubSeq(inflow, 1, 1) = Piece(Begun, 0, 1)
    <3>1. inflow = Piece(Begun, 0, Len(inflow))
      BY <1>1, <2>2 DEF OpsInv, LinkInv, Follows
    <3> DEFINE n == Len(inflow)
    <3>2. n \in Nat /\ 1 \in 0 .. n /\ inflow = Piece(Begun, 0, n) /\ 0 \in Nat
      BY <2>1, <3>1
    <3> HIDE DEF n
    <3>3. SubSeq(Piece(Begun, 0, n), 1, 1) = Piece(Begun, 0, 1)
      BY <2>2, <3>2, CutPiece
    <3>4. QED
      BY <3>2, <3>3
  <2>5. call' = Asking("rest", Piece(Begun, 0, 1))
    <3> DEFINE more == Piece(Begun, 0, 1)
    <3>1. call' = [Asking("first", << >>) EXCEPT !.pc = "rest", !.bytes = more]
      BY <1>1, <1>5, <2>4 DEF Ops!BytesWithFirst
    <3> HIDE DEF more
    <3>2. call' = [[Asking("first", << >>) EXCEPT !.pc = "rest"] EXCEPT !.bytes = more]
      BY <3>1
    <3>3. [Asking("first", << >>) EXCEPT !.pc = "rest"] = Asking("rest", << >>)
      BY DEF Asking
    <3>4. [Asking("rest", << >>) EXCEPT !.bytes = more] = Asking("rest", more)
      BY DEF Asking
    <3>5. QED
      BY <3>2, <3>3, <3>4 DEF more
  <2>6. call'.pc = "rest"
    BY <2>5, Fields
  <2>7. Took' = Took + 1 /\ Took + 1 = 1
    BY <1>1, <2>6 DEF Took
  <2>8. call' = Asking("rest", Piece(Begun, 0, Took + 1))
    BY <2>5, <2>7
  <2>9. QED
    BY <1>1, <1>2, <1>5, <2>1, <2>2, <2>3, <2>7, <2>8, ReadingGets
<1>6. CASE Ops!HeartBeat(Ops!Goes("test")) /\ UNCHANGED inflow
  <2>1. \/ Ops!Goes("test") /\ beat' \in BOOLEAN
        \/ Ops!Returns("BAD_OPERATION") /\ UNCHANGED beat
    BY <1>2, <1>6 DEF Ops!HeartBeat
  <2>2. "BAD_OPERATION" \in Ops!Failures
    BY DEF Ops!Failures
  <2>3. QED
    BY <1>3, <1>4, <1>6, <2>1, <2>2
<1>7. CASE Ops!Goes("test") /\ UNCHANGED <<beat, inflow>>
  BY <1>2, <1>3, <1>7
<1>8. CASE Ops!Returns("LINK_FATAL") /\ UNCHANGED <<beat, inflow>>
  <2>1. "LINK_FATAL" \in Ops!Failures
    BY DEF Ops!Failures
  <2>2. QED
    BY <1>4, <1>8, <2>1
<1>9. QED
  BY <1>5, <1>6, <1>7, <1>8 DEF Ops!FirstByte

\* What Short does.
LEMMA ShortKeeps ==
  ASSUME OpsInv, call.pc \in {"rest", "size"}, NEW k \in 0 .. Len(inflow),
         NEW s \in Ops!Failures, Ops!Short(k, s),
         UNCHANGED <<comms, errors, beat, flag, given, length, sending, delivered, replies, code>>
  PROVE  OpsInv'
<1>1. inflow' = SubSeq(inflow, k + 1, Len(inflow))
  BY DEF Ops!Short
<1>2. PICK t \in Ops!TestError : Ops!Returns(IF t = Ops!NOERROR THEN s ELSE t)
  BY DEF Ops!Short
<1>3. PICK u \in Ops!Failures : Ops!Returns(u)
  <2>1. CASE t = Ops!NOERROR
    BY <1>2, <2>1
  <2>2. CASE t # Ops!NOERROR
    <3>1. t \in Ops!Failures
      BY <2>2, Tests
    <3>2. QED
      BY <1>2, <2>2, <3>1
  <2>3. QED
    BY <2>1, <2>2
<1>4. QED
  BY <1>1, <1>3, ReadingTakes

\* What a read takes is there.
LEMMA TakesAre ==
  ASSUME OpsInv, NEW n \in Nat, NEW k \in Ops!Takes(n)
  PROVE  k \in 0 .. Len(inflow) /\ k \in 0 .. n /\ (k = n => n \in 0 .. Len(inflow))
<1>1. Len(inflow) \in Nat
  BY DEF OpsInv, CountInv
<1>2. k \in 0 .. n /\ k <= Len(inflow)
  BY DEF Ops!Takes
<1>3. QED
  BY <1>1, <1>2

\* The rest of the header.
LEMMA RestKeeps == ASSUME OpsInv, Ops!RestOfHeader PROVE OpsInv'
<1>1. call.pc = "rest"
  BY DEF Ops!RestOfHeader
<1>2. /\ call = Asking("rest", Piece(Begun, 0, Took)) /\ sound /\ call.op = "GetRequest"
      /\ Len(delivered) < Begun /\ Took = 1 /\ Len(inflow) \in Nat
  BY <1>1, AtPart DEF Took
<1>3. UNCHANGED <<comms, errors, beat, flag, given, length, sending, delivered, replies, code>>
  BY DEF Ops!RestOfHeader, Ops!modes, Ops!target
<1>4. Header \in Nat /\ Header >= 2
  BY OpsConstantsAre
<1>5. "SP_ERROR" \in Ops!Failures /\ "LINK_FATAL" \in Ops!Failures
  BY DEF Ops!Failures
<1>6. ASSUME NEW k \in 0 .. Len(inflow), NEW s \in Ops!Failures, Ops!Short(k, s) PROVE OpsInv'
  BY <1>1, <1>3, <1>6, ShortKeeps
<1>7. CASE /\ Header - 1 \in Ops!Takes(Header - 1)
           /\ \E t \in Ops!TestError :
                IF t # Ops!NOERROR THEN Ops!Returns(t)
                ELSE /\ call' = [call EXCEPT !.pc = Ops!AfterHeader,
                                   !.bytes = @ \o SubSeq(inflow, 1, Header - 1)]
                     /\ UNCHANGED <<status, sound>>
           /\ inflow' = SubSeq(inflow, Header, Len(inflow))
  <2>1. Header - 1 \in 0 .. Len(inflow) /\ Header - 1 \in Nat
    <3>1. Header - 1 \in Nat
      BY <1>4
    <3>2. Header - 1 \in 0 .. Len(inflow)
      BY <1>7, <3>1, TakesAre
    <3>3. QED
      BY <3>1, <3>2
  <2>2. inflow' = SubSeq(inflow, (Header - 1) + 1, Len(inflow))
    <3>1. (Header - 1) + 1 = Header
      BY <1>4
    <3>2. QED
      BY <1>7, <3>1
  <2>3. PICK t \in Ops!TestError :
          IF t # Ops!NOERROR THEN Ops!Returns(t)
          ELSE /\ call' = [call EXCEPT !.pc = Ops!AfterHeader,
                             !.bytes = @ \o SubSeq(inflow, 1, Header - 1)]
               /\ UNCHANGED <<status, sound>>
    BY <1>7
  <2>4. CASE t # Ops!NOERROR
    <3>1. t \in Ops!Failures /\ Ops!Returns(t)
      BY <2>3, <2>4, Tests
    <3>2. QED
      BY <1>1, <1>3, <2>1, <2>2, <3>1, ReadingTakes
  <2>5. CASE t = Ops!NOERROR
    <3>1. /\ call' = [call EXCEPT !.pc = "size", !.bytes = @ \o SubSeq(inflow, 1, Header - 1)]
          /\ UNCHANGED <<status, sound>>
      BY <2>3, <2>5 DEF Ops!AfterHeader
    <3>2. call' = Asking("size", Piece(Begun, 0, Took + (Header - 1)))
      <4>1. call.pc \in {"rest", "size"}
        BY <1>1
      <4>2. [call EXCEPT !.pc = "size", !.bytes = @ \o SubSeq(inflow, 1, Header - 1)]
              = Asking("size", Piece(Begun, 0, Took + (Header - 1)))
        BY <2>1, <4>1, Longer
      <4>3. QED
        BY <3>1, <4>2
    <3>3. call'.pc = "size"
      BY <3>2, Fields
    <3>4. Took' = Took + (Header - 1)
      BY <1>2, <1>4, <3>3 DEF Took
    <3>5. QED
      BY <1>2, <1>3, <2>1, <2>2, <3>1, <3>2, <3>4, ReadingGets
  <2>6. QED
    BY <2>4, <2>5
<1>8. CASE \E k \in Ops!Takes(Header - 1) : k < Header - 1 /\ Ops!Short(k, "SP_ERROR")
  <2>1. PICK k \in Ops!Takes(Header - 1) : Ops!Short(k, "SP_ERROR")
    BY <1>8
  <2>2. k \in 0 .. Len(inflow)
    <3>1. Header - 1 \in Nat
      BY <1>4
    <3>2. QED
      BY <3>1, TakesAre
  <2>3. QED
    BY <1>5, <1>6, <2>1, <2>2
<1>9. CASE \E k \in 0 .. Ops!Lower(Header - 1, Len(inflow)) : Ops!Short(k, "LINK_FATAL")
  <2>1. PICK k \in 0 .. Ops!Lower(Header - 1, Len(inflow)) : Ops!Short(k, "LINK_FATAL")
    BY <1>9
  <2>2. k \in 0 .. Len(inflow)
    BY <1>2, <1>4 DEF Ops!Lower
  <2>3. QED
    BY <1>5, <1>6, <2>1, <2>2
<1>10. QED
  BY <1>7, <1>8, <1>9 DEF Ops!RestOfHeader

\* The size a call reads is that of the packet it is in.
LEMMA SizesAre == ASSUME OpsInv, call.pc = "size" PROVE Ops!Sizes = {length[Begun]}
<1>1. /\ call = Asking("size", Piece(Begun, 0, Took)) /\ Took = Header
      /\ Begun \in Nat
  BY AtPart DEF Took
<1>2. call.bytes = Piece(Begun, 0, Header) /\ Header \in Nat /\ Header >= 2 /\ 0 \in Nat
  BY <1>1, Fields, OpsConstantsAre
<1>3. /\ Piece(Begun, 0, Header) \in Seq(Byte) /\ Len(Piece(Begun, 0, Header)) = Header
      /\ \A i \in 1 .. Header : Piece(Begun, 0, Header)[i] = ByteOf(Begun, 0 + i)
  BY <1>1, <1>2, PieceIs
<1> DEFINE s == Piece(Begun, 0, Header)
<1>4. Head(s) = ByteOf(Begun, 1)
  <2>1. s \in Seq(Byte) /\ Len(s) >= 1 /\ 1 \in 1 .. Header /\ 0 + 1 = 1
    BY <1>2, <1>3
  <2>2. s[1] = ByteOf(Begun, 1)
    BY <1>3, <2>1
  <2> HIDE DEF s
  <2>3. Head(s) = s[1]
    BY <2>1
  <2>4. QED
    BY <2>2, <2>3
<1> HIDE DEF s
<1>5. Head(call.bytes) = <<Begun, 1>>
  BY <1>2, <1>4 DEF s, ByteOf
<1>6. Head(call.bytes)[1] = Begun /\ Head(call.bytes)[2] = 1
  BY <1>5
<1>7. QED
  BY <1>6 DEF Ops!Sizes

\* The size, and the body.
LEMMA SizeKeeps == ASSUME OpsInv, Ops!SizeAndBody PROVE OpsInv'
<1>1. call.pc = "size"
  BY DEF Ops!SizeAndBody
<1>2. /\ call = Asking("size", Piece(Begun, 0, Took)) /\ sound /\ call.op = "GetRequest"
      /\ Len(delivered) < Begun /\ Took = Header /\ Len(inflow) \in Nat /\ Len(sending) \in Nat
      /\ Begun \in Nat /\ length[Begun] \in Nat
      /\ Took + Len(inflow) + Len(sending) <= length[Begun]
  BY <1>1, AtPart DEF Took
<1>3. /\ UNCHANGED <<comms, errors, beat, flag, given, length, sending, delivered, replies, code>>
      /\ beat' \in BOOLEAN
  BY DEF Ops!SizeAndBody, Ops!modes, Ops!target, OpsInv, FieldInv
<1>4. Header \in Nat /\ Header >= 2
  BY OpsConstantsAre
<1>5. "SP_ERROR" \in Ops!Failures /\ "LINK_FATAL" \in Ops!Failures
  BY DEF Ops!Failures
<1>6. ASSUME NEW k \in 0 .. Len(inflow), NEW s \in Ops!Failures, Ops!Short(k, s) PROVE OpsInv'
  BY <1>1, <1>3, <1>6, ShortKeeps
<1>7. ASSUME NEW s \in Ops!Failures, Ops!Returns(s), UNCHANGED inflow PROVE OpsInv'
  <2>1. call.op # "BootWrite" /\ s \in {Ops!NOERROR} \cup Ops!Failures /\ s # Ops!NOERROR
    BY <1>2, <1>7 DEF Ops!Failures, Ops!NOERROR
  <2>2. QED
    BY <1>3, <1>7, <2>1, ReadingReturns
<1> DEFINE size == length[Begun]
           body == Ops!Body(size)
<1>8. PICK t \in Ops!TestError :
        \/ t # Ops!NOERROR /\ Ops!Returns(t) /\ UNCHANGED inflow
        \/ t = Ops!NOERROR /\ size > MaxSize /\ Ops!Returns("SP_ERROR") /\ UNCHANGED inflow
        \/ /\ t = Ops!NOERROR /\ size <= MaxSize /\ Ops!Body(size) <= 0 /\ Ops!Goes("beat")
           /\ UNCHANGED inflow
        \/ /\ t = Ops!NOERROR /\ size <= MaxSize /\ Ops!Body(size) > 0
           /\ Ops!ReadBody(Ops!Body(size))
  BY <1>1, SizesAre DEF Ops!SizeAndBody
<1>9. CASE t # Ops!NOERROR /\ Ops!Returns(t) /\ UNCHANGED inflow
  <2>1. t \in Ops!Failures
    BY <1>9, Tests
  <2>2. QED
    BY <1>7, <1>9, <2>1
<1>10. CASE Ops!Returns("SP_ERROR") /\ UNCHANGED inflow
  BY <1>5, <1>7, <1>10
<1>11. CASE Ops!Body(size) <= 0 /\ Ops!Goes("beat") /\ UNCHANGED inflow
  <2>1. call' = [call EXCEPT !.pc = "beat"] /\ UNCHANGED <<status, sound>>
    BY <1>11 DEF Ops!Goes
  <2>2. call' = Asking("beat", Piece(Begun, 0, Took))
    BY <1>2, <2>1 DEF Asking
  <2>3. call'.op = "GetRequest" /\ call'.pc = "beat"
    BY <2>2, Fields
  <2>4. Begun' = Begun
    BY <1>3 DEF Begun
  <2>5. Took' = size
    BY <1>3, <2>3, <2>4 DEF Took
  <2>6. size = Took
    BY <1>2, <1>4, <1>11 DEF Ops!Body
  <2>7. CallInv'
    <3>1. call' = Asking("beat", Piece(Begun', 0, Took')) /\ sound' /\ Len(delivered') < Begun'
      BY <1>2, <1>3, <2>1, <2>2, <2>4, <2>5, <2>6
    <3>2. QED
      BY <3>1 DEF CallInv, Asking, Piece, ByteOf
  <2>8. QED
    BY <1>2, <1>3, <1>11, <2>1, <2>3, <2>5, <2>6, <2>7, ReadingGoes
<1>12. CASE Ops!Body(size) > 0 /\ Ops!ReadBody(Ops!Body(size))
  <2>1. body \in Nat /\ Took + body = size
    BY <1>2, <1>4, <1>12 DEF Ops!Body
  <2> HIDE DEF body
  <2>2. CASE /\ body \in Ops!Takes(body)
             /\ \E u \in Ops!TestError :
                  IF u # Ops!NOERROR THEN Ops!Returns(u)
                  ELSE /\ call' = [call EXCEPT !.pc = "beat", !.bytes = @ \o SubSeq(inflow, 1, body)]
                       /\ UNCHANGED <<status, sound>>
             /\ inflow' = SubSeq(inflow, body + 1, Len(inflow))
    <3>1. body \in 0 .. Len(inflow)
      BY <2>1, <2>2, TakesAre
    <3>2. PICK u \in Ops!TestError :
            IF u # Ops!NOERROR THEN Ops!Returns(u)
            ELSE /\ call' = [call EXCEPT !.pc = "beat", !.bytes = @ \o SubSeq(inflow, 1, body)]
                 /\ UNCHANGED <<status, sound>>
      BY <2>2
    <3>3. CASE u # Ops!NOERROR
      <4>1. u \in Ops!Failures /\ Ops!Returns(u)
        BY <3>2, <3>3, Tests
      <4>2. QED
        BY <1>1, <1>3, <2>2, <3>1, <4>1, ReadingTakes
    <3>4. CASE u = Ops!NOERROR
      <4>1. /\ call' = [call EXCEPT !.pc = "beat", !.bytes = @ \o SubSeq(inflow, 1, body)]
            /\ UNCHANGED <<status, sound>>
        BY <3>2, <3>4
      <4>2. call' = Asking("beat", Piece(Begun, 0, Took + body))
        <5>1. call.pc \in {"rest", "size"}
          BY <1>1
        <5>2. [call EXCEPT !.pc = "beat", !.bytes = @ \o SubSeq(inflow, 1, body)]
                = Asking("beat", Piece(Begun, 0, Took + body))
          BY <3>1, <5>1, Longer
        <5>3. QED
          BY <4>1, <5>2
      <4>3. call'.pc = "beat" /\ Begun' = Begun
        BY <1>3, <4>2, Fields DEF Begun
      <4>4. Took' = Took + body
        BY <1>3, <2>1, <4>3 DEF Took
      <4>5. QED
        BY <1>2, <1>3, <2>2, <3>1, <4>1, <4>2, <4>4, ReadingGets
    <3>5. QED
      BY <3>3, <3>4
  <2>3. CASE \E k \in Ops!Takes(body) : k < body /\ Ops!Short(k, "LINK_FATAL")
    <3>1. PICK k \in Ops!Takes(body) : Ops!Short(k, "LINK_FATAL")
      BY <2>3
    <3>2. k \in 0 .. Len(inflow)
      BY <2>1, TakesAre
    <3>3. QED
      BY <1>5, <1>6, <3>1, <3>2
  <2>4. CASE \E k \in 0 .. Ops!Lower(body, Len(inflow)) : Ops!Short(k, "LINK_FATAL")
    <3>1. PICK k \in 0 .. Ops!Lower(body, Len(inflow)) : Ops!Short(k, "LINK_FATAL")
      BY <2>4
    <3>2. k \in 0 .. Len(inflow)
      BY <1>2, <2>1 DEF Ops!Lower
    <3>3. QED
      BY <1>5, <1>6, <3>1, <3>2
  <2>5. Ops!ReadBody(body)
    BY <1>12 DEF body
  <2>6. QED
    BY <2>2, <2>3, <2>4, <2>5 DEF Ops!ReadBody
<1>13. QED
  BY <1>8, <1>9, <1>10, <1>11, <1>12

\* The request goes to the caller.
LEMMA DeliverKeeps == ASSUME OpsInv, Ops!Deliver PROVE OpsInv'
<1>1. call.pc = "beat"
  BY DEF Ops!Deliver
<1>2. /\ call = Asking("beat", Piece(Begun, 0, Took)) /\ sound /\ call.op = "GetRequest"
      /\ Len(delivered) < Begun /\ Took = length[Begun] /\ Len(inflow) \in Nat /\ Len(sending) \in Nat
      /\ Begun \in Nat /\ length[Begun] \in Nat
      /\ Took + Len(inflow) + Len(sending) <= length[Begun]
  BY <1>1, AtPart DEF Took
<1>3. UNCHANGED <<comms, errors, flag, given, length, sending, replies, code, inflow>>
  BY DEF Ops!Deliver, Ops!modes, Ops!target
<1>4. CASE Ops!Returns("BAD_OPERATION") /\ UNCHANGED <<beat, delivered>>
  <2>1. /\ call.op # "BootWrite" /\ beat' \in BOOLEAN /\ "BAD_OPERATION" # Ops!NOERROR
        /\ "BAD_OPERATION" \in {Ops!NOERROR} \cup Ops!Failures
    BY <1>2, <1>4 DEF OpsInv, FieldInv, Ops!Failures, Ops!NOERROR
  <2>2. QED
    BY <1>3, <1>4, <2>1, ReadingReturns
<1>5. CASE /\ Ops!Returns(Ops!NOERROR) /\ delivered' = Append(delivered, call.bytes)
           /\ beat' \in IF beat THEN BOOLEAN ELSE {beat}
  <2>1. /\ status' \in {Ops!NOERROR} \cup Ops!Failures /\ sound' = sound
        /\ call' = Ops!Idle /\ CallInv' /\ Took' = 0 /\ call'.op = "none"
    <3>1. Ops!NOERROR \in {Ops!NOERROR} \cup Ops!Failures /\ Ops!Returns(Ops!NOERROR) /\ FieldInv
      BY <1>5 DEF OpsInv
    <3>2. QED
      BY <1>2, <3>1, Returned
  <2>2. call.bytes = Piece(Begun, 0, length[Begun])
    BY <1>2, Fields
  <2>3. inflow = << >> /\ sending = << >>
    <3>1. inflow \in Seq(Byte) /\ sending \in Seq(Byte)
      BY DEF OpsInv, CountInv
    <3>2. QED
      BY <1>2, <3>1
  <2>4. Begun' = Begun /\ length \in Seq(Lengths)
    BY <1>3 DEF Begun, OpsInv, CountInv
  <2>5. /\ delivered \in Seq(Seq(Byte)) /\ Len(delivered) \in Nat /\ replies \in Nat
        /\ replies <= Len(delivered) /\ Begun <= replies + 1
    BY DEF OpsInv, CountInv
  <2>6. Len(delivered) + 1 = Begun
    BY <1>2, <2>5
  <2>7. call.bytes \in Seq(Byte)
    <3>1. Begun \in Nat /\ 0 \in Nat /\ length[Begun] \in Nat
      BY <1>2
    <3>2. Piece(Begun, 0, length[Begun]) \in Seq(Byte)
      BY ONLY <3>1, PieceIs
    <3>3. QED
      BY ONLY <2>2, <3>2, Zenon
  <2>8. /\ delivered' \in Seq(Seq(Byte)) /\ Len(delivered') = Len(delivered) + 1
        /\ \A i \in 1 .. Len(delivered) : delivered'[i] = delivered[i]
        /\ delivered'[Len(delivered) + 1] = call.bytes
    BY <1>5, <2>5, <2>7
  <2>9. FieldInv'
    <3>1. beat' \in BOOLEAN
      BY <1>5, Zenon DEF OpsInv, FieldInv
    <3>2. QED
      BY <1>3, <2>1, <3>1 DEF OpsInv, FieldInv, Ops!NOERROR, Ops!Failures
  <2>10. CountInv'
    BY <1>3, <2>4, <2>5, <2>6, <2>8 DEF OpsInv, CountInv
  <2>11. LinkInv'
    BY <1>3, <2>3, <2>4, <2>6, <2>8, <1>2 DEF LinkInv
  <2>12. OrderInv'
    <3>1. ASSUME NEW i \in 1 .. Len(delivered') PROVE delivered'[i] = Piece(i, 0, length[i])
      <4>1. CASE i <= Len(delivered)
        <5>1. i \in 1 .. Len(delivered)
          BY <2>5, <2>8, <4>1
        <5>2. QED
          BY <2>8, <5>1 DEF OpsInv, OrderInv
      <4>2. CASE i = Len(delivered) + 1
        <5>1. i = Begun /\ delivered'[i] = call.bytes
          BY <2>6, <2>8, <4>2
        <5>2. QED
          BY <2>2, <5>1
      <4>3. QED
        BY <2>5, <2>8, <4>1, <4>2
    <3>2. QED
      BY <1>3, <3>1 DEF OrderInv, Piece, ByteOf
  <2>13. CodeInv'
    BY <1>2, <1>3, <2>1 DEF OpsInv, CodeInv, Counted
  <2>14. QED
    BY <2>1, <2>9, <2>10, <2>11, <2>12, <2>13 DEF OpsInv
<1>6. QED
  BY <1>4, <1>5 DEF Ops!Deliver

-----------------------------------------------------------------------------
(* The other calls.                                                        *)

\* The numbers of the code, and what is put behind them.
LEMMA CountedIs ==
  ASSUME NEW n \in Nat
  PROVE  /\ Counted(n) \in Seq(Nat) /\ Len(Counted(n)) = n
         /\ \A i \in 1 .. n : Counted(n)[i] = i
<1>1. Counted(n) \in [1 .. n -> Nat]
  BY DEF Counted
<1>2. QED
  BY <1>1 DEF Counted

\* Code that is sent in order stays so.
LEMMA CountOn ==
  ASSUME NEW a \in Nat, NEW k \in Nat
  PROVE  Counted(a) \o [i \in 1 .. k |-> a + i] = Counted(a + k)
<1> DEFINE s == Counted(a)
           t == [i \in 1 .. k |-> a + i]
           u == s \o t
<1>1. s \in Seq(Nat) /\ Len(s) = a /\ \A i \in 1 .. a : s[i] = i
  BY CountedIs
<1>2. t \in Seq(Nat) /\ Len(t) = k /\ \A i \in 1 .. k : t[i] = a + i
  <2>1. t \in [1 .. k -> Nat]
    OBVIOUS
  <2>2. QED
    BY <2>1
<1> HIDE DEF s, t
<1>3. /\ u \in Seq(Nat) /\ Len(u) = a + k
      /\ \A i \in 1 .. Len(s) + Len(t) : u[i] = IF i <= Len(s) THEN s[i] ELSE t[i - Len(s)]
  BY <1>1, <1>2, ConcatProperties
<1> HIDE DEF u
<1>4. ASSUME NEW i \in 1 .. a + k PROVE u[i] = i
  <2>1. CASE i <= a
    BY <1>1, <1>2, <1>3, <2>1
  <2>2. CASE i > a
    <3>1. i - a \in 1 .. k /\ a + (i - a) = i
      BY <2>2
    <3>2. u[i] = t[i - a]
      BY <1>1, <1>2, <1>3, <2>2
    <3>3. QED
      BY <1>2, <3>1, <3>2
  <2>3. QED
    BY <2>1, <2>2
<1>5. u = [i \in 1 .. a + k |-> u[i]]
  BY <1>3
<1>6. u = Counted(a + k)
  BY <1>4, <1>5 DEF Counted
<1>7. QED
  BY <1>6 DEF s, t, u

\* Nothing of a packet.
LEMMA NoPiece == \A p, a : Piece(p, a, 0) = << >> /\ Counted(0) = << >>
BY DEF Piece, Counted

\* A call is over, and the link and the code are as they were.
LEMMA Ended ==
  ASSUME OpsInv, call.op # "GetRequest", call.op = "BootWrite" => call.left = 0,
         NEW s \in {Ops!NOERROR} \cup Ops!Failures, Ops!Returns(s),
         UNCHANGED <<beat, given, length, sending, flag, code, inflow, delivered>>,
         comms' \in {"synchronous", "asynchronous"}, errors' \in {"detect", "ignore"},
         replies' = replies \/ (replies' = replies + 1 /\ replies < Len(delivered))
  PROVE  OpsInv'
<1>1. /\ call' = Ops!Idle /\ status' \in {Ops!NOERROR} \cup Ops!Failures
      /\ sound' \in BOOLEAN /\ (sound' => sound) /\ CallInv' /\ Took' = 0 /\ call'.op = "none"
  BY Returned DEF OpsInv
<1>2. Took = 0
  <2>1. call.pc \notin {"rest", "size", "beat"}
    BY AtPart
  <2>2. QED
    BY <2>1 DEF Took
<1>3. LinkInv'
  BY <1>1, <1>2, LinkRests DEF OpsInv
<1>4. FieldInv'
  BY <1>1 DEF OpsInv, FieldInv, Ops!NOERROR, Ops!Failures
<1>5. CountInv'
  <2>1. replies \in Nat /\ Len(delivered) \in Nat /\ Begun \in Nat /\ Begun' = Begun
        /\ replies <= Len(delivered) /\ Begun <= replies + 1
    BY DEF OpsInv, CountInv, Begun
  <2>2. replies' \in Nat /\ replies' <= Len(delivered) /\ Begun <= replies' + 1
    BY <2>1
  <2>3. QED
    BY <2>1, <2>2 DEF OpsInv, CountInv
<1>6. OrderInv'
  BY DEF OpsInv, OrderInv, Piece, ByteOf
<1>7. CodeInv'
  <2>1. sound => code = Counted(given)
    <3>1. CASE call.op = "BootWrite"
      <4>1. call.left = 0 /\ ~ (call.left > 0)
        BY <3>1
      <4>2. QED
        BY <4>1 DEF OpsInv, CodeInv
    <3>2. CASE call.op # "BootWrite"
      BY <3>2 DEF OpsInv, CodeInv
    <3>3. QED
      BY <3>1, <3>2
  <2>2. QED
    BY <1>1, <2>1 DEF CodeInv, Counted
<1>8. QED
  BY <1>1, <1>3, <1>4, <1>5, <1>6, <1>7 DEF OpsInv

\* Before a call.
LEMMA AtIdle == ASSUME call = Ops!Idle PROVE call.op = "none" /\ call.pc = "none" /\ Took = 0
<1>1. call.op = "none" /\ call.pc = "none"
  BY Fields
<1>2. QED
  BY <1>1 DEF Took

\* The modes and the restart.
LEMMA ModeKeeps ==
  ASSUME OpsInv, \/ \E m \in {"synchronous", "asynchronous"} : Ops!CommsMode(m)
                 \/ \E m \in {"detect", "ignore"} : Ops!ErrorMode(m)
                 \/ Ops!LOPS_Restart
  PROVE  OpsInv'
<1>1. comms \in {"synchronous", "asynchronous"} /\ errors \in {"detect", "ignore"}
  BY DEF OpsInv, FieldInv
<1>2. Ops!NOERROR \in {Ops!NOERROR} \cup Ops!Failures
  OBVIOUS
<1>3. ASSUME NEW m \in {"synchronous", "asynchronous"}, Ops!CommsMode(m) PROVE OpsInv'
  <2>1. /\ call = Ops!Idle
        /\ UNCHANGED <<beat, given, length, sending, flag, code, inflow, delivered, errors, replies>>
        /\ comms' = m
    BY <1>3 DEF Ops!CommsMode, Ops!MayCall, Ops!target
  <2>2. PICK s \in Ops!TestError : Ops!Returns(s)
    BY <1>3 DEF Ops!CommsMode
  <2>3. s \in {Ops!NOERROR} \cup Ops!Failures
    BY Tests
  <2>4. call.op # "GetRequest" /\ call.op # "BootWrite"
    BY <2>1, AtIdle
  <2>5. QED
    BY <1>1, <2>1, <2>2, <2>3, <2>4, Ended
<1>4. ASSUME NEW m \in {"detect", "ignore"}, Ops!ErrorMode(m) PROVE OpsInv'
  <2>1. /\ call = Ops!Idle /\ Ops!Returns(Ops!NOERROR)
        /\ UNCHANGED <<beat, given, length, sending, flag, code, inflow, delivered, comms, replies>>
        /\ errors' = m
    BY <1>4 DEF Ops!ErrorMode, Ops!MayCall, Ops!target
  <2>2. call.op # "GetRequest" /\ call.op # "BootWrite"
    BY <2>1, AtIdle
  <2>3. QED
    BY <1>1, <1>2, <2>1, <2>2, Ended
<1>5. CASE Ops!LOPS_Restart
  <2>1. /\ call = Ops!Idle /\ Ops!Returns(Ops!NOERROR)
        /\ UNCHANGED <<beat, given, length, sending, flag, code, inflow, delivered, replies>>
        /\ comms' = "synchronous" /\ errors' = "ignore"
    BY <1>5 DEF Ops!LOPS_Restart, Ops!target
  <2>2. call.op # "GetRequest" /\ call.op # "BootWrite"
    BY <2>1, AtIdle
  <2>3. QED
    BY <1>2, <2>1, <2>2, Ended
<1>6. QED
  BY <1>3, <1>4, <1>5

\* What is true when the target has just started.
LEMMA Fresh ==
  ASSUME FieldInv, given = 0, call = Ops!Idle, length = << >>, sending = << >>, code = << >>,
         replies = 0, inflow = << >>, delivered = << >>
  PROVE  OpsInv
<1>1. CountInv
  <2>1. MaxPackets \in Nat
    BY OpsConstantsAre
  <2>2. QED
    BY <2>1 DEF CountInv, Begun
<1>2. CallInv
  BY DEF CallInv
<1>3. LinkInv
  BY DEF LinkInv, Begun
<1>4. OrderInv
  BY DEF OrderInv
<1>5. CodeInv
  <2>1. call.op = "none"
    BY AtIdle
  <2>2. QED
    BY <2>1, NoPiece DEF CodeInv
<1>6. QED
  BY <1>1, <1>2, <1>3, <1>4, <1>5 DEF OpsInv

\* The reset.
LEMMA ResetKeeps == ASSUME OpsInv, Ops!LOPS_Reset PROVE OpsInv'
<1>1. call = Ops!Idle /\ UNCHANGED <<comms, errors, beat>>
  BY DEF Ops!LOPS_Reset, Ops!modes
<1>2. call.op # "GetRequest" /\ call.op # "BootWrite"
  BY <1>1, AtIdle
<1>3. comms \in {"synchronous", "asynchronous"} /\ errors \in {"detect", "ignore"} /\ beat \in BOOLEAN
  BY DEF OpsInv, FieldInv
<1>4. CASE /\ call' = Ops!Idle /\ status' = Ops!NOERROR /\ sound' = TRUE
           /\ length' = << >> /\ sending' = << >> /\ flag' = FALSE /\ code' = << >>
           /\ replies' = 0 /\ inflow' = << >> /\ delivered' = << >> /\ given' = 0
  <2>1. FieldInv'
    <3>1. 0 \in 0 .. MaxCode
      BY OpsConstantsAre
    <3>2. given' \in 0 .. MaxCode
      BY <1>4, <3>1
    <3>3. status' \in {Ops!NOERROR} \cup Ops!Failures
      BY <1>4
    <3>4. QED
      BY <1>1, <1>3, <1>4, <3>2, <3>3 DEF FieldInv, Ops!NOERROR, Ops!Failures
  <2>2. CountInv'
    <3>1. MaxPackets \in Nat
      BY OpsConstantsAre
    <3>2. QED
      BY <1>4, <3>1 DEF CountInv, Begun
  <2>3. CallInv'
    BY <1>4 DEF CallInv, Ops!Idle
  <2>4. LinkInv'
    BY <1>4 DEF LinkInv, Begun
  <2>5. OrderInv'
    BY <1>4 DEF OrderInv
  <2>6. CodeInv'
    <3>1. call'.op = "none"
      BY <1>4, Fields
    <3>2. code' = Counted(0)
      BY <1>4, NoPiece
    <3>3. QED
      BY <1>4, <3>1, <3>2 DEF CodeInv, Counted
  <2>7. QED
    BY <2>1, <2>2, <2>3, <2>4, <2>5, <2>6 DEF OpsInv
<1>5. CASE Ops!Returns("LINK_FATAL") /\ UNCHANGED <<given, Ops!target, inflow, delivered>>
  <2>1. "LINK_FATAL" \in {Ops!NOERROR} \cup Ops!Failures
    BY DEF Ops!Failures
  <2>2. UNCHANGED <<given, length, sending, flag, code, replies, inflow, delivered>>
    BY <1>5 DEF Ops!target
  <2>3. QED
    BY <1>1, <1>2, <1>3, <1>5, <2>1, <2>2, Ended
<1>6. QED
  BY <1>4, <1>5 DEF Ops!LOPS_Reset

\* Boot code longer than a fragment is sent wrong (LOPS.C:230), so this is what
\* the boot write needs.
OneFragment == \A n \in Codes : n <= Frag

\* A step that leaves the link, and the packets, alone, and no call in one.
LEMMA Aside ==
  ASSUME OpsInv, UNCHANGED <<comms, errors, flag, length, sending, replies, inflow, delivered>>,
         beat' \in BOOLEAN, status' \in {Ops!NOERROR} \cup Ops!Failures,
         given' \in 0 .. MaxCode, Took = 0, Took' = 0, sound' \in BOOLEAN, sound' => sound, CallInv', CodeInv'
  PROVE  OpsInv'
<1>1. FieldInv'
  BY DEF OpsInv, FieldInv, Ops!NOERROR, Ops!Failures
<1>2. CountInv'
  BY DEF OpsInv, CountInv, Begun
<1>3. LinkInv'
  BY LinkRests DEF OpsInv
<1>4. OrderInv'
  BY DEF OpsInv, OrderInv, Piece, ByteOf
<1>5. QED
  BY <1>1, <1>2, <1>3, <1>4 DEF OpsInv

\* The boot write begins.
LEMMA BootKeeps == ASSUME OneFragment, OpsInv, NEW n \in Codes, Ops!BootWrite(n) PROVE OpsInv'
<1>1. /\ call = Ops!Idle /\ sound /\ given + n <= MaxCode /\ given' = given + n
      /\ UNCHANGED <<comms, errors, flag, length, sending, replies, inflow, delivered, code,
                     beat, status, sound>>
  BY DEF Ops!BootWrite, Ops!MayCall, Ops!modes, Ops!target
<1>2. n \in Nat /\ n <= Frag /\ given \in Nat /\ Frag \in Nat /\ MaxCode \in Nat
  BY OpsConstantsAre DEF OneFragment, OpsInv, FieldInv
<1>3. call' = Booting(n, given)
  BY DEF Ops!BootWrite, Booting
<1>4. /\ call'.op = "BootWrite" /\ call'.pc = "write" /\ call'.left = n /\ call'.base = given
      /\ call.op = "none" /\ Took = 0
  BY <1>1, <1>3, Fields, AtIdle
<1>5. Took' = 0
  BY <1>4 DEF Took
<1>6. CallInv'
  <2>1. n \in 0 .. Frag /\ (n > 0 => given + n = given')
    BY <1>1, <1>2
  <2>2. BootCall'
    BY <1>2, <1>3, <1>4, <2>1 DEF BootCall, Booting
  <2>3. QED
    BY <1>1, <2>2 DEF CallInv
<1>7. CodeInv'
  <2>1. code = Counted(given)
    BY <1>1, <1>4 DEF OpsInv, CodeInv
  <2>2. n > 0 \/ given' = given
    BY <1>1, <1>2
  <2>3. QED
    BY <1>1, <1>2, <1>4, <2>1, <2>2 DEF CodeInv, Counted
<1>8. given' \in 0 .. MaxCode /\ beat' \in BOOLEAN /\ status' \in {Ops!NOERROR} \cup Ops!Failures
      /\ sound' \in BOOLEAN
  BY <1>1, <1>2 DEF OpsInv, FieldInv
<1>9. QED
  BY <1>1, <1>4, <1>5, <1>6, <1>7, <1>8, Aside

\* A fragment of it goes.
LEMMA FragmentKeeps == ASSUME OpsInv, Ops!BootFragment PROVE OpsInv'
<1>1. /\ call.op = "BootWrite" /\ call.left > 0
      /\ UNCHANGED <<comms, errors, flag, length, sending, replies, inflow, delivered, beat, given>>
  BY DEF Ops!BootFragment, Ops!modes
<1>2. /\ call = Booting(call.left, call.base) /\ call.left \in 0 .. Frag /\ call.base \in Nat
      /\ call.base + call.left = given /\ sound
  BY <1>1, CallAt DEF OpsInv, BootCall
<1>3. Frag \in Nat
  BY OpsConstantsAre
<1>4. Took = 0
  <2>1. call.pc = "write"
    BY <1>2, Fields
  <2>2. QED
    BY <2>1 DEF Took
<1>5. given' \in 0 .. MaxCode /\ beat' \in BOOLEAN
  BY <1>1 DEF OpsInv, FieldInv
<1>6. CASE /\ code' = code \o Ops!Buffer(Ops!FragSize(call.left))
           /\ call' = [call EXCEPT !.left = @ - Ops!Lower(@, Frag)]
           /\ UNCHANGED <<status, sound>>
  <2>1. Ops!FragSize(call.left) = call.left /\ call.left - Ops!Lower(call.left, Frag) = 0
    BY <1>2, <1>3 DEF Ops!FragSize, Ops!Lower
  <2>2. call' = Booting(0, call.base)
    <3>1. call' = [Booting(call.left, call.base) EXCEPT !.left = 0]
      BY <1>2, <1>6, <2>1
    <3>2. QED
      BY <3>1 DEF Booting
  <2>3. /\ call'.op = "BootWrite" /\ call'.pc = "write" /\ call'.left = 0 /\ call'.base = call.base
    BY <2>2, Fields
  <2>4. Took' = 0
    BY <2>3 DEF Took
  <2>5. CallInv'
    <3>1. 0 \in 0 .. Frag /\ ~ (0 > 0)
      BY <1>3
    <3>2. BootCall'
      BY <1>2, <2>2, <2>3, <3>1 DEF BootCall, Booting
    <3>3. QED
      BY <1>2, <1>6, <3>2 DEF CallInv
  <2>6. CodeInv'
    <3>1. code = Counted(call.base)
      BY <1>1, <1>2 DEF OpsInv, CodeInv
    <3>2. code' = Counted(call.base) \o [i \in 1 .. call.left |-> call.base + i]
      BY <1>6, <2>1, <3>1 DEF Ops!Buffer
    <3>3. Counted(call.base) \o [i \in 1 .. call.left |-> call.base + i] = Counted(call.base + call.left)
      <4>1. call.base \in Nat /\ call.left \in Nat
        BY <1>2
      <4>2. QED
        BY <4>1, CountOn
    <3>4. code' = Counted(given)
      BY <1>2, <3>2, <3>3
    <3>5. ~ (call'.left > 0)
      BY <2>3
    <3>6. QED
      BY <1>1, <3>4, <3>5 DEF CodeInv, Counted
  <2>7. status' \in {Ops!NOERROR} \cup Ops!Failures /\ sound' \in BOOLEAN /\ (sound' => sound)
    BY <1>6 DEF OpsInv, FieldInv
  <2>8. QED
    BY <1>1, <1>4, <1>5, <2>4, <2>5, <2>6, <2>7, Aside
<1>7. CASE Ops!Returns("LINK_FATAL")
  <2>1. "LINK_FATAL" \in {Ops!NOERROR} \cup Ops!Failures /\ "LINK_FATAL" # Ops!NOERROR
    BY DEF Ops!Failures, Ops!NOERROR
  <2>2. /\ status' \in {Ops!NOERROR} \cup Ops!Failures /\ ~ sound' /\ sound' \in BOOLEAN
        /\ CallInv' /\ Took' = 0
    BY <1>7, <2>1, Returned DEF OpsInv
  <2>3. CodeInv'
    BY <2>2 DEF CodeInv
  <2>4. QED
    BY <1>1, <1>4, <1>5, <2>2, <2>3, Aside
<1>8. QED
  BY <1>6, <1>7 DEF Ops!BootFragment

\* It ends with the error test.
LEMMA BootEndKeeps == ASSUME OpsInv, Ops!BootEnd PROVE OpsInv'
<1>1. /\ call.op = "BootWrite" /\ call.left = 0
      /\ UNCHANGED <<comms, errors, beat, given, length, sending, flag, code, replies, inflow, delivered>>
  BY DEF Ops!BootEnd, Ops!modes, Ops!target
<1>2. PICK s \in Ops!TestError : Ops!Returns(s)
  BY DEF Ops!BootEnd
<1>3. s \in {Ops!NOERROR} \cup Ops!Failures /\ call.op # "GetRequest"
  BY <1>1, Tests
<1>4. comms' \in {"synchronous", "asynchronous"} /\ errors' \in {"detect", "ignore"}
  BY <1>1 DEF OpsInv, FieldInv
<1>5. QED
  BY <1>1, <1>2, <1>3, <1>4, Ended

\* A request is asked for.
LEMMA RequestKeeps == ASSUME OpsInv, NEW b \in BOOLEAN, Ops!GetRequest(b) PROVE OpsInv'
<1>1. /\ call = Ops!Idle /\ sound /\ call' = Asking("test", << >>) /\ beat' = b
      /\ UNCHANGED <<comms, errors, flag, length, sending, replies, inflow, delivered, code,
                     given, status, sound>>
  BY DEF Ops!GetRequest, Ops!MayCall, Ops!modes, Ops!target, Asking
<1>2. call.op = "none" /\ Took = 0 /\ call'.op = "GetRequest" /\ call'.pc = "test"
  BY <1>1, AtIdle, Fields
<1>3. Took' = 0
  BY <1>2 DEF Took
<1>4. CallInv'
  BY <1>1 DEF CallInv, Asking
<1>5. CodeInv'
  BY <1>1, <1>2 DEF OpsInv, CodeInv, Counted
<1>6. given' \in 0 .. MaxCode /\ beat' \in BOOLEAN /\ status' \in {Ops!NOERROR} \cup Ops!Failures
      /\ sound' \in BOOLEAN
  BY <1>1 DEF OpsInv, FieldInv
<1>7. QED
  BY <1>1, <1>2, <1>3, <1>4, <1>5, <1>6, Aside

\* A reply is sent.
LEMMA ReplyKeeps == ASSUME OpsInv, NEW n \in Replies, Ops!LOPS_SendReply(n) PROVE OpsInv'
<1>1. /\ call = Ops!Idle /\ Len(delivered) > replies
      /\ UNCHANGED <<comms, errors, beat, given, length, sending, flag, code, inflow, delivered>>
  BY DEF Ops!LOPS_SendReply, Ops!MayCall, Ops!modes
<1>2. call.op # "GetRequest" /\ call.op # "BootWrite"
  BY <1>1, AtIdle
<1>3. comms' \in {"synchronous", "asynchronous"} /\ errors' \in {"detect", "ignore"}
  BY <1>1 DEF OpsInv, FieldInv
<1>4. \E s \in {Ops!NOERROR} \cup Ops!Failures :
        Ops!Returns(s) /\ (replies' = replies \/ (replies' = replies + 1 /\ replies < Len(delivered)))
  <2>1. CASE Ops!Returns("SP_ERROR") /\ UNCHANGED replies
    <3>1. "SP_ERROR" \in {Ops!NOERROR} \cup Ops!Failures
      BY DEF Ops!Failures
    <3>2. QED
      BY <2>1, <3>1
  <2>2. ASSUME NEW whole \in BOOLEAN, NEW t \in Ops!TestError
        PROVE  Ops!SendStatus(whole, t) \in {Ops!NOERROR} \cup Ops!Failures
    BY Tests DEF Ops!SendStatus, Ops!Failures
  <2>3. CASE replies' = replies + 1 /\ \E t \in Ops!TestError : Ops!Returns(Ops!SendStatus(TRUE, t))
    <3>1. replies < Len(delivered)
      BY <1>1 DEF OpsInv, CountInv
    <3>2. PICK t \in Ops!TestError : Ops!Returns(Ops!SendStatus(TRUE, t))
      BY <2>3
    <3>3. Ops!SendStatus(TRUE, t) \in {Ops!NOERROR} \cup Ops!Failures
      BY <2>2
    <3>4. QED
      BY <2>3, <3>1, <3>2, <3>3
  <2>4. CASE UNCHANGED replies /\ \E t \in Ops!TestError : Ops!Returns(Ops!SendStatus(FALSE, t))
    <3>1. PICK t \in Ops!TestError : Ops!Returns(Ops!SendStatus(FALSE, t))
      BY <2>4
    <3>2. Ops!SendStatus(FALSE, t) \in {Ops!NOERROR} \cup Ops!Failures
      BY <2>2
    <3>3. QED
      BY <2>4, <3>1, <3>2
  <2>5. QED
    BY <2>1, <2>3, <2>4 DEF Ops!LOPS_SendReply
<1>5. QED
  BY <1>1, <1>2, <1>3, <1>4, Ended

-----------------------------------------------------------------------------
(* The target.                                                             *)

\* It begins a packet.
LEMMA BeginKeeps == ASSUME OpsInv, Ops!BeginPacket PROVE OpsInv'
<1>1. /\ sending = << >> /\ replies = Len(length) /\ Len(length) < MaxPackets /\ call.op # "BootWrite"
      /\ UNCHANGED <<comms, errors, call, beat, status, given, sound, flag, code, replies, inflow, delivered>>
  BY DEF Ops!BeginPacket, Ops!modes
<1>2. PICK n \in Lengths :
        /\ length' = Append(length, n)
        /\ sending' = [i \in 1 .. n |-> <<Len(length) + 1, i>>]
  BY DEF Ops!BeginPacket
<1>3. /\ length \in Seq(Lengths) /\ Begun \in Nat /\ Len(delivered) \in Nat /\ replies \in Nat
      /\ replies <= Len(delivered) /\ Len(delivered) <= Begun /\ Begun = Len(length) /\ MaxPackets \in Nat
  BY OpsConstantsAre DEF OpsInv, CountInv, Begun
<1>4. Len(delivered) = Begun /\ replies = Begun
  BY <1>1, <1>3
<1>5. inflow = << >>
  BY <1>4 DEF OpsInv, LinkInv
<1>6. /\ length' \in Seq(Lengths) /\ Begun' = Begun + 1 /\ length'[Begun + 1] = n
      /\ \A i \in 1 .. Begun : length'[i] = length[i]
  <2>1. /\ length' \in Seq(Lengths) /\ Len(length') = Len(length) + 1
        /\ length'[Len(length) + 1] = n /\ \A i \in 1 .. Len(length) : length'[i] = length[i]
    BY <1>2, <1>3
  <2>2. QED
    BY <1>3, <2>1 DEF Begun
<1>7. n \in Nat
  BY OpsConstantsAre
<1>8. sending' = Piece(Begun + 1, 0, n)
  <2>1. \A i \in 1 .. n : 0 + i = i
    BY <1>7
  <2>2. sending' = [i \in 1 .. n |-> <<Begun + 1, 0 + i>>]
    BY <1>2, <1>3, <2>1
  <2>3. QED
    BY <2>2 DEF Piece, ByteOf
<1>9. sending' \in Seq(Byte) /\ Len(sending') = n
  <2>1. Begun + 1 \in Nat /\ 0 \in Nat
    BY <1>3
  <2>2. QED
    BY <1>7, <1>8, <2>1, PieceIs
<1>10. call.pc \notin {"rest", "size", "beat"} /\ Took = 0 /\ Took' = 0
  <2>1. call.pc \notin {"rest", "size", "beat"}
    BY <1>3, <1>4, AtPart
  <2>2. QED
    BY <1>1, <2>1 DEF Took
<1>11. FieldInv'
  BY <1>1 DEF OpsInv, FieldInv, Ops!NOERROR, Ops!Failures
<1>12. CountInv'
  <2>1. replies' = replies /\ delivered' = delivered /\ inflow' = inflow
    BY <1>1
  <2>2. Begun' <= MaxPackets /\ Len(delivered) <= Begun' /\ Begun' <= replies + 1
    BY <1>1, <1>3, <1>4, <1>6
  <2>3. QED
    BY <1>3, <1>6, <1>9, <2>1, <2>2 DEF OpsInv, CountInv
<1>13. CallInv'
  <2>1. \/ call = Ops!Idle
        \/ sound /\ call \in {Asking("test", << >>), Asking("first", << >>)}
    BY <1>1, <1>3, <1>4 DEF OpsInv, CallInv, BootCall
  <2>2. QED
    BY <1>1, <2>1 DEF CallInv, Asking, Ops!Idle
<1>14. LinkInv'
  <2>1. inflow' = << >> /\ Len(inflow') = 0
    BY <1>1, <1>5
  <2>2. Follows'
    <3>1. inflow' = Piece(Begun', Took', Len(inflow'))
      BY <2>1, NoPiece
    <3>2. Took' + Len(inflow') = 0 /\ Took' + Len(inflow') + Len(sending') = n
      BY <1>7, <1>9, <1>10, <2>1
    <3>3. sending' = Piece(Begun', Took' + Len(inflow'), Len(sending'))
      BY <1>6, <1>8, <1>9, <3>2
    <3>4. Took' + Len(inflow') + Len(sending') <= length'[Begun']
      BY <1>6, <1>7, <3>2
    <3>5. QED
      BY <3>1, <3>3, <3>4 DEF Follows, Piece, ByteOf
  <2>3. Len(inflow') + Len(sending') <= length'[Begun'] /\ Len(delivered') # Begun'
    BY <1>1, <1>3, <1>4, <1>6, <1>7, <1>9, <2>1
  <2>4. QED
    BY <2>2, <2>3 DEF LinkInv
<1>15. OrderInv'
  <2>1. \A i \in 1 .. Len(delivered) : delivered[i] = Piece(i, 0, length'[i])
    BY <1>3, <1>4, <1>6 DEF OpsInv, OrderInv
  <2>2. QED
    BY <1>1, <2>1 DEF OrderInv, Piece, ByteOf
<1>16. CodeInv'
  BY <1>1 DEF OpsInv, CodeInv, Counted
<1>17. QED
  BY <1>11, <1>12, <1>13, <1>14, <1>15, <1>16 DEF OpsInv

\* A call is where it was when the target takes a step in its packet.
LEMMA CallRests ==
  ASSUME CallInv, UNCHANGED <<call, sound, length, delivered, given>>
  PROVE  CallInv' /\ Took' = Took /\ Begun' = Begun
<1>1. Took' = Took /\ Begun' = Begun
  BY DEF Took, Begun
<1>2. CallInv'
  BY <1>1 DEF CallInv, BootCall, Asking, Booting, Piece, ByteOf, Ops!Idle
<1>3. QED
  BY <1>1, <1>2

\* A byte of it goes.
LEMMA ByteKeeps == ASSUME OpsInv, Ops!SendByte PROVE OpsInv'
<1>1. /\ sending # << >> /\ inflow' = Append(inflow, Head(sending)) /\ sending' = Tail(sending)
      /\ UNCHANGED <<comms, errors, call, beat, status, given, sound, length, flag, code, replies, delivered>>
  BY DEF Ops!SendByte, Ops!modes
<1>2. /\ inflow \in Seq(Byte) /\ sending \in Seq(Byte) /\ Len(inflow) \in Nat /\ Len(sending) \in Nat
      /\ Len(sending) > 0
  BY <1>1 DEF OpsInv, CountInv
<1>3. /\ Len(delivered) < Begun /\ Begun \in Nat /\ Took \in Nat /\ length[Begun] \in Nat
      /\ Len(delivered) \in Nat
  BY <1>1, Numbers DEF OpsInv, LinkInv, CountInv
<1>4. CallInv' /\ Took' = Took /\ Begun' = Begun
  BY <1>1, CallRests DEF OpsInv
<1>5. /\ inflow' \in Seq(Byte) /\ sending' \in Seq(Byte)
      /\ Len(inflow') = Len(inflow) + 1 /\ Len(sending') = Len(sending) - 1
  BY <1>1, <1>2
<1>6. FieldInv'
  BY <1>1 DEF OpsInv, FieldInv, Ops!NOERROR, Ops!Failures
<1>7. CountInv'
  BY <1>1, <1>4, <1>5 DEF OpsInv, CountInv
<1>8. LinkInv'
  <2>1. CASE sound
    <3>1. Follows
      BY <1>3, <2>1 DEF OpsInv, LinkInv
    <3> DEFINE n == Len(inflow)
               k == Len(sending)
    <3>2. /\ n \in Nat /\ k \in Nat \ {0} /\ inflow = Piece(Begun, Took, n)
          /\ sending = Piece(Begun, Took + n, k) /\ Took + n + k <= length[Begun]
          /\ Len(inflow') = n + 1 /\ Len(sending') = k - 1
      BY <1>2, <1>5, <3>1 DEF Follows
    <3> HIDE DEF n, k
    <3>3. Head(sending) = ByteOf(Begun, Took + n + 1)
      <4>1. Took + n \in Nat /\ k \in Nat /\ 1 \in 1 .. k
        BY <1>3, <3>2
      <4>2. Piece(Begun, Took + n, k)[1] = ByteOf(Begun, (Took + n) + 1)
        <5>1. \A i \in 1 .. k : Piece(Begun, Took + n, k)[i] = ByteOf(Begun, (Took + n) + i)
          <6> DEFINE b == Begun
                     t == Took + n
          <6>1. b \in Nat /\ t \in Nat /\ k \in Nat
            BY <1>3, <4>1
          <6> HIDE DEF b, t
          <6>2. \A i \in 1 .. k : Piece(b, t, k)[i] = ByteOf(b, t + i)
            BY <6>1, PieceIs
          <6>3. QED
            BY <6>2 DEF b, t
        <5>2. QED
          BY <4>1, <5>1
      <4>3. Head(sending) = sending[1]
        BY <1>1, <1>2
      <4>4. QED
        BY <3>2, <4>2, <4>3
    <3>4. inflow' = Piece(Begun, Took, n + 1)
      <4>1. Append(Piece(Begun, Took, n), ByteOf(Begun, Took + n + 1)) = Piece(Begun, Took, n + 1)
        BY <1>3, <3>2, GrowPiece
      <4>2. QED
        BY <1>1, <3>2, <3>3, <4>1
    <3>5. sending' = Piece(Begun, Took + (n + 1), k - 1)
      <4>1. Took + n \in Nat /\ (Took + n) + 1 = Took + (n + 1)
        BY <1>3, <3>2
      <4>2. Tail(Piece(Begun, Took + n, k)) = Piece(Begun, (Took + n) + 1, k - 1)
        BY <1>3, <3>2, <4>1, TailOfPiece
      <4>3. QED
        BY <1>1, <3>2, <4>1, <4>2
    <3>6. Follows'
      <4>1. inflow' = Piece(Begun', Took', Len(inflow'))
        BY <1>4, <3>2, <3>4
      <4>2. sending' = Piece(Begun', Took' + Len(inflow'), Len(sending'))
        BY <1>4, <3>2, <3>5
      <4>3. Took' + Len(inflow') + Len(sending') <= length'[Begun']
        BY <1>1, <1>3, <1>4, <3>2
      <4>4. QED
        BY <4>1, <4>2, <4>3 DEF Follows, Piece, ByteOf
    <3>7. Len(delivered') # Begun' /\ sound'
      BY <1>1, <1>3, <1>4, <2>1
    <3>8. QED
      BY <3>6, <3>7 DEF LinkInv
  <2>2. CASE ~ sound
    <3>1. Len(inflow) + Len(sending) <= length[Begun]
      BY <1>3, <2>2 DEF OpsInv, LinkInv
    <3>2. Len(inflow') + Len(sending') <= length'[Begun']
      BY <1>1, <1>2, <1>3, <1>4, <1>5, <3>1
    <3>3. Len(delivered') # Begun' /\ ~ sound'
      BY <1>1, <1>3, <1>4, <2>2
    <3>4. QED
      BY <3>2, <3>3 DEF LinkInv
  <2>3. QED
    BY <2>1, <2>2
<1>9. OrderInv'
  BY <1>1 DEF OpsInv, OrderInv, Piece, ByteOf
<1>10. CodeInv'
  BY <1>1 DEF OpsInv, CodeInv, Counted
<1>11. QED
  BY <1>4, <1>6, <1>7, <1>8, <1>9, <1>10 DEF OpsInv

\* An error halts it.
LEMMA FlagKeeps == ASSUME OpsInv, Ops!RaiseFlag PROVE OpsInv'
<1>1. /\ flag' = TRUE /\ sending' \in {sending, << >>}
      /\ UNCHANGED <<comms, errors, call, beat, status, given, sound, length, code, replies, inflow, delivered>>
  BY DEF Ops!RaiseFlag, Ops!modes
<1>2. CallInv' /\ Took' = Took /\ Begun' = Begun
  BY <1>1, CallRests DEF OpsInv
<1>3. sending' \in Seq(Byte) /\ Len(sending') <= Len(sending) /\ Len(sending') \in Nat
      /\ Len(sending) \in Nat /\ Len(inflow) \in Nat /\ (sending' = << >> \/ sending' = sending)
  <2>1. sending \in Seq(Byte) /\ Len(sending) \in Nat /\ Len(inflow) \in Nat
    BY DEF OpsInv, CountInv
  <2>2. << >> \in Seq(Byte) /\ Len(<< >>) = 0
    OBVIOUS
  <2>3. CASE sending' = sending
    BY <2>1, <2>3
  <2>4. CASE sending' = << >>
    BY <2>1, <2>2, <2>4
  <2>5. QED
    BY <1>1, <2>3, <2>4
<1>4. FieldInv'
  BY <1>1 DEF OpsInv, FieldInv, Ops!NOERROR, Ops!Failures
<1>5. CountInv'
  BY <1>1, <1>2, <1>3 DEF OpsInv, CountInv
<1>6. LinkInv'
  <2>1. CASE Len(delivered) = Begun
    <3>1. inflow = << >> /\ sending = << >> /\ Len(delivered) \in Nat
      BY <2>1 DEF OpsInv, LinkInv, CountInv
    <3>2. inflow' = << >> /\ sending' = << >> /\ ~ (Len(delivered') < Begun')
      BY <1>1, <1>2, <2>1, <3>1
    <3>3. QED
      BY <3>2 DEF LinkInv
  <2>2. CASE Len(delivered) < Begun
    <3>1. /\ Begun \in Nat /\ Took \in Nat /\ length[Begun] \in Nat /\ Len(delivered) \in Nat
      BY <2>2, Numbers DEF OpsInv
    <3>2. CASE sound
      <4>1. Follows
        BY <2>2, <3>2 DEF OpsInv, LinkInv
      <4>2. Follows'
        <5>1. inflow' = Piece(Begun', Took', Len(inflow'))
          BY <1>1, <1>2, <4>1 DEF Follows
        <5>2. sending' = Piece(Begun', Took' + Len(inflow'), Len(sending'))
          <6>1. CASE sending' = sending
            BY <1>1, <1>2, <4>1, <6>1 DEF Follows
          <6>2. CASE sending' = << >>
            BY <6>2, NoPiece
          <6>3. QED
            BY <1>3, <6>1, <6>2
        <5>3. Took' + Len(inflow') + Len(sending') <= length'[Begun']
          <6>1. Took + Len(inflow) + Len(sending) <= length[Begun]
            BY <4>1 DEF Follows
          <6>2. QED
            BY <1>1, <1>2, <1>3, <3>1, <6>1
        <5>4. QED
          BY <5>1, <5>2, <5>3 DEF Follows, Piece, ByteOf
      <4>3. Len(delivered') # Begun' /\ sound'
        BY <1>1, <1>2, <2>2, <3>1, <3>2
      <4>4. QED
        BY <4>2, <4>3 DEF LinkInv
    <3>3. CASE ~ sound
      <4>1. Len(inflow) + Len(sending) <= length[Begun]
        BY <2>2, <3>3 DEF OpsInv, LinkInv
      <4>2. Len(inflow') + Len(sending') <= length'[Begun']
        BY <1>1, <1>2, <1>3, <3>1, <4>1
      <4>3. Len(delivered') # Begun' /\ ~ sound'
        BY <1>1, <1>2, <2>2, <3>1, <3>3
      <4>4. QED
        BY <4>2, <4>3 DEF LinkInv
    <3>4. QED
      BY <3>2, <3>3
  <2>3. Len(delivered) \in Nat /\ Begun \in Nat /\ Len(delivered) <= Begun
    BY DEF OpsInv, CountInv, Begun
  <2>4. QED
    BY <2>1, <2>2, <2>3
<1>7. OrderInv'
  BY <1>1 DEF OpsInv, OrderInv, Piece, ByteOf
<1>8. CodeInv'
  BY <1>1 DEF OpsInv, CodeInv, Counted
<1>9. QED
  BY <1>2, <1>4, <1>5, <1>6, <1>7, <1>8 DEF OpsInv

-----------------------------------------------------------------------------
(* PacketsInOrder.                                                         *)

\* The longest packet.
LEMMA LongestIs ==
  /\ Ops!Highest(Lengths) \in Nat /\ \A n \in Lengths : n <= Ops!Highest(Lengths)
<1>1. \E x \in Lengths : \A y \in Lengths : y <= x
  BY OpsConstantsAre
<1>2. Ops!Highest(Lengths) \in Lengths /\ \A y \in Lengths : y <= Ops!Highest(Lengths)
  BY <1>1 DEF Ops!Highest
<1>3. QED
  BY <1>2, OpsConstantsAre

\* The first state of this part.
LEMMA OpsInit == ASSUME Ops!Init PROVE OpsInv
<1>1. 0 \in 0 .. MaxCode
  BY OpsConstantsAre
<1>2. FieldInv
  BY <1>1 DEF Ops!Init, FieldInv
<1>3. QED
  BY <1>2, Fresh DEF Ops!Init

\* Every step of it.
LEMMA OpsNext == ASSUME OneFragment, OpsInv, Ops!Next PROVE OpsInv'
<1>1. CASE \/ \E m \in {"synchronous", "asynchronous"} : Ops!CommsMode(m)
           \/ \E m \in {"detect", "ignore"} : Ops!ErrorMode(m)
           \/ Ops!LOPS_Restart
  BY <1>1, ModeKeeps
<1>2. CASE Ops!LOPS_Reset
  BY <1>2, ResetKeeps
<1>3. CASE \E n \in Codes : Ops!BootWrite(n)
  BY <1>3, BootKeeps
<1>4. CASE \E b \in BOOLEAN : Ops!GetRequest(b)
  BY <1>4, RequestKeeps
<1>5. CASE \E n \in Replies : Ops!LOPS_SendReply(n)
  BY <1>5, ReplyKeeps
<1>6. CASE Ops!Step
  BY <1>6, FragmentKeeps, BootEndKeeps, FirstTestKeeps, FirstByteKeeps, RestKeeps, SizeKeeps,
     DeliverKeeps DEF Ops!Step
<1>7. CASE Ops!BeginPacket \/ Ops!SendByte \/ Ops!RaiseFlag
  BY <1>7, BeginKeeps, ByteKeeps, FlagKeeps
<1>8. QED
  BY <1>1, <1>2, <1>3, <1>4, <1>5, <1>6, <1>7 DEF Ops!Next

\* What the invariant says of the bytes on their way.
LEMMA BytesBounded ==
  ASSUME OpsInv
  PROVE  \A s \in {call.bytes, sending, inflow} : Len(s) <= Ops!Highest(Lengths)
<1>1. Ops!Highest(Lengths) \in Nat
  BY LongestIs
<1>2. CASE Len(delivered) < Begun
  <2>1. Begun \in 1 .. Len(length) /\ length \in Seq(Lengths)
    BY <1>2, Numbers DEF OpsInv, CountInv
  <2>2. length[Begun] \in Lengths
    BY <2>1, ElementOfSeq
  <2>3. length[Begun] <= Ops!Highest(Lengths) /\ length[Begun] \in Nat /\ Begun \in Nat
        /\ Len(inflow) \in Nat /\ Len(sending) \in Nat /\ Took \in Nat
    BY <1>2, <2>2, LongestIs, Numbers DEF OpsInv
  <2>4. Len(inflow) + Len(sending) <= length[Begun] /\ (sound => Took <= length[Begun])
    BY <1>2, <2>3 DEF OpsInv, LinkInv, Follows
  <2>5. Len(call.bytes) <= Ops!Highest(Lengths)
    <3>1. CASE call.pc \in {"rest", "size", "beat"}
      <4>1. call.bytes = Piece(Begun, 0, Took) /\ sound
        BY <3>1, AtPart, Fields
      <4>2. Len(Piece(Begun, 0, Took)) = Took
        <5>1. Begun \in Nat /\ 0 \in Nat /\ Took \in Nat
          BY <2>3
        <5>2. QED
          BY <5>1, PieceIs
      <4>3. QED
        BY <1>1, <2>3, <2>4, <4>1, <4>2
    <3>2. CASE call.pc \notin {"rest", "size", "beat"}
      <4>1. call.bytes = << >>
        BY <3>2, Fields DEF OpsInv, CallInv, BootCall
      <4>2. QED
        BY <1>1, <4>1
    <3>3. QED
      BY <3>1, <3>2
  <2>6. QED
    BY <1>1, <2>3, <2>4, <2>5
<1>3. CASE Len(delivered) = Begun
  <2>1. inflow = << >> /\ sending = << >>
    BY <1>3 DEF OpsInv, LinkInv
  <2>2. call.bytes = << >>
    <3>1. Len(delivered) \in Nat /\ ~ (Len(delivered) < Begun)
      BY <1>3 DEF OpsInv, CountInv
    <3>2. QED
      BY <3>1, Fields DEF OpsInv, CallInv, BootCall
  <2>3. QED
    BY <1>1, <2>1, <2>2
<1>4. Len(delivered) \in Nat /\ Begun \in Nat /\ Len(delivered) <= Begun
  BY DEF OpsInv, CountInv, Begun
<1>5. QED
  BY <1>2, <1>3, <1>4

\* What the run checks of this part follows.
LEMMA OpsFollows ==
  ASSUME OpsInv PROVE Ops!TypeOK /\ Ops!InOrder /\ Ops!Lockstep /\ Ops!BootComplete
<1>1. Ops!InOrder
  <2>1. ASSUME NEW i \in 1 .. Len(delivered) PROVE delivered[i] = Ops!Packet(i)
    <3>1. delivered[i] = Piece(i, 0, length[i])
      BY DEF OpsInv, OrderInv
    <3>2. length[i] \in Nat
      <4>1. i \in 1 .. Len(length)
        BY DEF OpsInv, CountInv, Begun
      <4>2. QED
        BY <4>1, Numbers DEF OpsInv
    <3>3. \A j \in 1 .. length[i] : 0 + j = j
      BY <3>2
    <3>4. Piece(i, 0, length[i]) = [j \in 1 .. length[i] |-> <<i, j>>]
      BY <3>3 DEF Piece, ByteOf
    <3>5. QED
      BY <3>1, <3>4 DEF Ops!Packet
  <2>2. QED
    BY <2>1 DEF Ops!InOrder
<1>2. Ops!Lockstep
  <2>1. ASSUME sound, Len(delivered) > replies
        PROVE  inflow = << >> /\ sending = << >> /\ Len(delivered) = Len(length)
    <3>1. Len(delivered) = Begun
      BY <2>1 DEF OpsInv, CountInv, Begun
    <3>2. QED
      BY <3>1 DEF OpsInv, LinkInv, Begun
  <2>2. QED
    BY <2>1 DEF Ops!Lockstep
<1>3. Ops!BootComplete
  <2>1. ASSUME call = Ops!Idle, sound PROVE code = Counted(given)
    <3>1. call.op = "none"
      BY <2>1, AtIdle
    <3>2. QED
      BY <2>1, <3>1 DEF OpsInv, CodeInv
  <2>2. QED
    BY <2>1 DEF Ops!BootComplete, Counted
<1>4. Ops!TypeOK
  <2>1. /\ comms \in {"synchronous", "asynchronous"} /\ errors \in {"detect", "ignore"}
        /\ beat \in BOOLEAN /\ status \in {Ops!NOERROR} \cup Ops!Failures
        /\ sound \in BOOLEAN /\ flag \in BOOLEAN /\ given \in 0 .. MaxCode
    BY DEF OpsInv, FieldInv
  <2>2. /\ call.op \in {"none", "BootWrite", "GetRequest"}
        /\ call.pc \in {"none", "test", "first", "rest", "size", "beat", "write"}
    BY Fields DEF OpsInv, CallInv, BootCall
  <2>3. length \in Seq(Lengths) /\ Len(length) <= MaxPackets /\ replies \in 0 .. Len(length)
    BY DEF OpsInv, CountInv, Begun
  <2>4. \A s \in {call.bytes, sending, inflow} : Len(s) <= Ops!Highest(Lengths)
    BY BytesBounded
  <2>5. QED
    BY <2>1, <2>2, <2>3, <2>4 DEF Ops!TypeOK
<1>5. QED
  BY <1>1, <1>2, <1>3, <1>4

\* The part that runs stays the same.
LEMMA PartStays == ASSUME [Next]_vars PROVE part' = part
BY DEF Next, vars, StreamOver, LopsAlone, DriverAlone, TimerAlone, MemoryAlone, NetAlone, StreamAlone

\* LOPS_GetRequest gives its caller the packets of the target, whole and in order,
\* for every size of a header and of a packet and whatever driver or target fails
\* or is slow, and the target gets its code whole, when no boot code is longer than
\* a fragment (it is sent wrong then).
THEOREM PacketsAreInOrder == ASSUME OneFragment PROVE Spec => []PacketsInOrder
<1> DEFINE Inv == part = "ops" => OpsInv
<1>1. Init => Inv
  <2>1. Init /\ part = "ops" => Ops!Init
    BY DEF Init, InitOwn, Lops, Driver, Net, Stream
  <2>2. QED
    BY <2>1, OpsInit
<1>2. Inv /\ [Next]_vars => Inv'
  <2> SUFFICES ASSUME Inv, [Next]_vars, part' = "ops" PROVE OpsInv'
    OBVIOUS
  <2>1. part = "ops" /\ OpsInv
    BY PartStays
  <2>2. CASE Ops!Next
    BY <2>1, <2>2, OpsNext
  <2>3. CASE UNCHANGED vars
    <3>1. UNCHANGED <<comms, errors, beat, status, length, sending, flag, code, replies, inflow,
                      delivered, call, given, sound>>
      BY <2>3 DEF vars, lopsOwn, shared
    <3>2. CallInv' /\ Took' = Took /\ Begun' = Begun
      BY <2>1, <3>1, CallRests DEF OpsInv
    <3>3. FieldInv'
      BY <2>1, <3>1 DEF OpsInv, FieldInv, Ops!NOERROR, Ops!Failures
    <3>4. CountInv'
      BY <2>1, <3>1, <3>2 DEF OpsInv, CountInv
    <3>5. LinkInv'
      BY <2>1, <3>1, <3>2, LinkRests DEF OpsInv
    <3>6. OrderInv' /\ CodeInv'
      BY <2>1, <3>1 DEF OpsInv, OrderInv, CodeInv, Piece, ByteOf, Counted
    <3>7. QED
      BY <3>2, <3>3, <3>4, <3>5, <3>6 DEF OpsInv
  <2>4. Ops!Next \/ UNCHANGED vars
    BY <2>1 DEF Next, StreamOver, Stream
  <2>5. QED
    BY <2>2, <2>3, <2>4
<1>3. Inv => PacketsInOrder
  BY OpsFollows DEF PacketsInOrder
<1>4. QED
  BY <1>1, <1>2, <1>3, PTL DEF Spec

-----------------------------------------------------------------------------
(* The timer of the B004.                                                  *)

\* No delay is so long that its ticks, ten times over, do not fit in a word:
\* six minutes in the program.
DelaysFit == \A d \in Delays : d * 18 < Word

\* While a wait goes on its deadline and the timer have not wrapped.
TimerInv ==
  /\ now \in 0 .. Word - 1 /\ deadline \in 0 .. Word - 1
  /\ pc \in {"idle", "wait", "poll"} /\ asked \in Nat /\ waited \in 0 .. Word
  /\ ended \in {"none", "byte", "time"}
  /\ pc # "idle" => /\ ended = "none" /\ waited <= asked + 2
                    /\ now - waited = deadline - asked /\ now - waited >= 0
                    /\ deadline + 2 < Word
  /\ ended = "time" => waited >= asked

\* The timer starts at any count.
LEMMA TimerInit == ASSUME Timer!Init PROVE TimerInv
<1>1. Word \in Nat \ {0}
  BY LinksConstants DEF Timer!TimerConstants
<1>2. QED
  BY <1>1 DEF Timer!Init, TimerInv

\* Every step of a wait.
LEMMA TimerNext == ASSUME DelaysFit, TimerInv, Timer!Next PROVE TimerInv'
<1>1. Word \in Nat \ {0} /\ Delays \subseteq Nat
  BY LinksConstants DEF Timer!TimerConstants
<1>2. ASSUME NEW d \in Delays, NEW place \in {"wait", "poll"}, Timer!Begin(d, place) PROVE TimerInv'
  <2>1. d \in Nat /\ d * 18 \in Nat /\ d * 18 < Word
    BY <1>1 DEF DelaysFit
  <2> DEFINE n == (d * 18) \div 10
  <2>2. n \in Nat
    BY <2>1
  <2>3. (d * 18) % Word = d * 18
    BY <1>1, <2>1
  <2>4. Timer!Ticks(d) = n /\ Timer!Nticks(d) = n
    BY <2>3 DEF Timer!Ticks, Timer!Nticks, Timer!TICKS_PER_SEC
  <2> HIDE DEF n
  <2>5. now \in Nat /\ now + n + 2 < Word
    BY <1>1, <1>2, <2>4 DEF TimerInv, Timer!Begin
  <2>6. Timer!TimeAfter(d) = now + n
    <3>1. now + n \in 0 .. Word - 1
      BY <1>1, <2>2, <2>5
    <3>2. (now + n) % Word = now + n
      BY <1>1, <3>1
    <3>3. QED
      BY <2>4, <3>2 DEF Timer!TimeAfter
  <2>7. /\ pc' = place /\ deadline' = now + n /\ asked' = n /\ waited' = 0 /\ ended' = "none"
        /\ now' = now
    BY <1>2, <2>4, <2>6 DEF Timer!Begin
  <2>8. QED
    BY <1>1, <2>2, <2>5, <2>7 DEF TimerInv
<1>3. CASE Timer!Tick
  <2>1. CASE pc = "idle"
    <3>1. (now + 1) % Word \in 0 .. Word - 1
      BY <1>1 DEF TimerInv
    <3>2. QED
      BY <1>3, <2>1, <3>1 DEF TimerInv, Timer!Tick
  <2>2. CASE pc # "idle"
    <3>1. now <= deadline /\ now + 1 \in 0 .. Word - 1
      BY <1>1, <1>3, <2>2 DEF TimerInv, Timer!Tick, Timer!Passed
    <3>2. (now + 1) % Word = now + 1
      BY <1>1, <3>1
    <3>3. waited < Word /\ waited + 1 <= asked + 1
      BY <1>1, <2>2, <3>1 DEF TimerInv
    <3>4. now' = now + 1 /\ waited' = waited + 1 /\ UNCHANGED <<pc, deadline, asked, ended>>
      BY <1>3, <2>2, <3>2, <3>3 DEF Timer!Tick
    <3>5. QED
      BY <1>1, <2>2, <3>1, <3>3, <3>4 DEF TimerInv
  <2>3. QED
    BY <2>1, <2>2
<1>4. CASE Timer!HeldUp
  <2>1. pc # "idle" /\ waited = asked + 1
    BY <1>4 DEF Timer!HeldUp
  <2>2. now + 1 \in 0 .. Word - 1 /\ waited < Word
    BY <1>1, <2>1 DEF TimerInv
  <2>3. (now + 1) % Word = now + 1
    BY <1>1, <2>2
  <2>4. now' = now + 1 /\ waited' = waited + 1 /\ UNCHANGED <<pc, deadline, asked, ended>>
    BY <1>4, <2>3 DEF Timer!HeldUp
  <2>5. QED
    BY <1>1, <2>1, <2>2, <2>4 DEF TimerInv
<1>5. CASE Timer!TimeUp
  <2>1. waited >= asked
    BY <1>1, <1>5 DEF TimerInv, Timer!TimeUp, Timer!Passed
  <2>2. QED
    BY <1>5, <2>1 DEF TimerInv, Timer!TimeUp
<1>6. CASE Timer!Byte
  BY <1>6 DEF TimerInv, Timer!Byte
<1>7. QED
  BY <1>2, <1>3, <1>4, <1>5, <1>6 DEF Timer!Next

\* What the run checks of the timer.
LEMMA TimerFollows == ASSUME TimerInv PROVE Timer!TypeOK /\ Timer!NeverEarly /\ Timer!NeverLate
BY DEF TimerInv, Timer!TypeOK, Timer!NeverEarly, Timer!NeverLate

-----------------------------------------------------------------------------
(* The drivers of the boards.                                              *)

\* A running call of a driver, and how long its register writes are.
CallShape == call \in [op : Io!Ops, count : Nat, timeout : Nat, n : Nat]
Steps(op) == Len(Io!Pulses(op))

\* A B011 has the VME device open while its link is; no other board opens it.
VmeHeld ==
  /\ vme \in 0 .. MaxVme
  /\ board = "B011" /\ active => vme > 0
  /\ vme > 0 => board = "B011"

\* What the driver keeps: it holds a descriptor or a lock while a link is open; the
\* device has the timeout that was set last, B008 sets it every time; the position
\* is never ahead of the bytes that are counted.
KeptInv ==
  /\ board \in BoardsOfIserver /\ active \in BOOLEAN /\ handles = IF active THEN 1 ELSE 0
  /\ VmeHeld
  /\ current \in Timeouts \cup {-1} /\ devtimeout \in Timeouts \cup {-1}
  /\ board # "B008" => devtimeout = current
  /\ bytes \in 0 .. Threshold /\ position \in 0 .. bytes /\ lost = 0

\* The lines, and the transputer.
WiresInv ==
  /\ lines \in [{"reset", "analyse"} -> 0 .. 1]
  /\ target \in {"running", "reset", "analysed"} /\ flag \in 0 .. 1

\* The running call, and what the last one returned.
RunningInv ==
  /\ CallShape /\ call.count \in Counts \cup {0} /\ call.timeout \in Timeouts \cup {0}
  /\ Io!Transferring => call.n < call.count /\ call.count \in Counts /\ call.timeout \in Timeouts
  /\ Io!Pulsing => call.n <= Steps(call.op)
  /\ ~ Io!Transferring /\ ~ Io!Pulsing => call.n = 0
  /\ Io!TimeoutInForce
AnswerInv ==
  /\ result \in [op : Io!Ops, code : Int] /\ result.code >= -8
  /\ result.code <= 1 \/ \E c \in Counts : result.code <= c

IoInv == KeptInv /\ WiresInv /\ RunningInv /\ AnswerInv

\* What the configuration of LinkDriver is, in this module.
LEMMA DriverConstantsAre ==
  /\ Counts \subseteq Nat /\ Timeouts \subseteq Nat /\ Threshold \in Nat /\ MaxLost \in Nat /\ MaxVme \in Nat
  /\ \E most \in Counts : \A c \in Counts : c <= most
BY LinksConstants DEF Io!LinkDriverConstants

\* The most that is asked for, or another number if that is more.
LEMMA MostIs ==
  ASSUME NEW x \in Nat
  PROVE  /\ Io!Highest(Counts \cup {x}) \in Nat /\ x <= Io!Highest(Counts \cup {x})
         /\ \A c \in Counts : c <= Io!Highest(Counts \cup {x})
         /\ Io!Highest(Counts) \in Nat /\ \A c \in Counts : c <= Io!Highest(Counts)
<1>1. PICK most \in Counts : \A c \in Counts : c <= most
  BY DriverConstantsAre
<1>2. Counts \subseteq Nat /\ most \in Nat
  BY <1>1, DriverConstantsAre
<1>3. \E m \in Counts \cup {x} : \A c \in Counts \cup {x} : c <= m
  <2>1. CASE x <= most
    BY <1>1, <2>1
  <2>2. CASE x > most
    <3>1. \A c \in Counts \cup {x} : c <= x
      BY <1>1, <1>2, <2>2
    <3>2. QED
      BY <3>1
  <2>3. QED
    BY <1>2, <2>1, <2>2
<1>4. Io!Highest(Counts \cup {x}) \in Counts \cup {x}
      /\ \A c \in Counts \cup {x} : c <= Io!Highest(Counts \cup {x})
  BY <1>3 DEF Io!Highest
<1>5. Io!Highest(Counts) \in Counts /\ \A c \in Counts : c <= Io!Highest(Counts)
  BY <1>1 DEF Io!Highest
<1>6. QED
  BY <1>2, <1>4, <1>5

\* The fields of a call, and how it moves.
LEMMA CallMoves ==
  ASSUME CallShape, NEW k \in Nat, NEW o \in Io!Ops
  PROVE  /\ [call EXCEPT !.n = k] \in [op : Io!Ops, count : Nat, timeout : Nat, n : Nat]
         /\ [call EXCEPT !.n = k].op = call.op /\ [call EXCEPT !.n = k].count = call.count
         /\ [call EXCEPT !.n = k].timeout = call.timeout /\ [call EXCEPT !.n = k].n = k
         /\ Io!NoCall \in [op : Io!Ops, count : Nat, timeout : Nat, n : Nat]
         /\ Io!NoCall.op = "none" /\ Io!NoCall.count = 0 /\ Io!NoCall.timeout = 0 /\ Io!NoCall.n = 0
         /\ [Io!NoCall EXCEPT !.op = o] = [op |-> o, count |-> 0, timeout |-> 0, n |-> 0]
<1>1. call.op \in Io!Ops /\ call.count \in Nat /\ call.timeout \in Nat /\ call.n \in Nat
  BY DEF CallShape
<1>2. /\ [call EXCEPT !.n = k] \in [op : Io!Ops, count : Nat, timeout : Nat, n : Nat]
      /\ [call EXCEPT !.n = k].op = call.op /\ [call EXCEPT !.n = k].count = call.count
      /\ [call EXCEPT !.n = k].timeout = call.timeout /\ [call EXCEPT !.n = k].n = k
  BY DEF CallShape
<1>3. /\ Io!NoCall \in [op : Io!Ops, count : Nat, timeout : Nat, n : Nat]
      /\ Io!NoCall.op = "none" /\ Io!NoCall.count = 0 /\ Io!NoCall.timeout = 0 /\ Io!NoCall.n = 0
  BY DEF Io!NoCall, Io!Ops
<1>4. [Io!NoCall EXCEPT !.op = o] = [op |-> o, count |-> 0, timeout |-> 0, n |-> 0]
  BY DEF Io!NoCall
<1>5. QED
  BY <1>2, <1>3, <1>4

\* The registers are written at most five times.
LEMMA StepsAre ==
  ASSUME board \in BoardsOfIserver, NEW op
  PROVE  Steps(op) \in 0 .. 5
<1>1. Len(Io!ResetPulses) \in 0 .. 5
  <2>1. CASE board \in Io!Polled
    BY <2>1 DEF Io!ResetPulses, Io!Polled, Io!Device
  <2>2. CASE board \in Io!Device
    <3>1. Io!ResetPulses = << >>
      BY <2>2 DEF Io!ResetPulses, Io!Polled, Io!Device
    <3>2. QED
      BY <3>1
  <2>3. QED
    BY <2>1, <2>2 DEF BoardsOfIserver, Io!Polled, Io!Device
<1>2. Len(Io!AnalysePulses) \in 0 .. 5
  <2>1. CASE board = "B004"
    BY <2>1 DEF Io!AnalysePulses, Io!Device
  <2>2. CASE board = "B011"
    BY <2>2 DEF Io!AnalysePulses, Io!Device
  <2>3. CASE board \in Io!Device
    <3>1. Io!AnalysePulses = << >>
      BY <2>3 DEF Io!AnalysePulses, Io!Device
    <3>2. QED
      BY <3>1
  <2>4. QED
    BY <2>1, <2>2, <2>3 DEF BoardsOfIserver, Io!Device
<1>3. QED
  BY <1>1, <1>2 DEF Steps, Io!Pulses

\* A call returns.
LEMMA AnswerIs ==
  ASSUME CallShape, NEW told \in Int, told >= -8, told <= 1 \/ \E c \in Counts : told <= c,
         Io!Return(told)
  PROVE  RunningInv' /\ AnswerInv'
<1>1. call' = Io!NoCall /\ result' = [op |-> call.op, code |-> told]
  BY DEF Io!Return, Io!Answer
<1>2. AnswerInv'
  <2>1. call.op \in Io!Ops
    BY DEF CallShape
  <2>2. result' \in [op : Io!Ops, code : Int] /\ result'.code = told
    BY <1>1, <2>1
  <2>3. QED
    BY <2>2 DEF AnswerInv, Io!Ops
<1>3. RunningInv'
  <2>1. /\ call' \in [op : Io!Ops, count : Nat, timeout : Nat, n : Nat]
        /\ call'.op = "none" /\ call'.count = 0 /\ call'.timeout = 0 /\ call'.n = 0
    <3>1. 0 \in Nat /\ "none" \in Io!Ops
      BY DEF Io!Ops
    <3>2. QED
      BY <1>1, <3>1, CallMoves
  <2>2. QED
    BY <2>1 DEF RunningInv, CallShape, Io!Transferring, Io!Pulsing, Io!TimeoutInForce, Io!Ops
<1>4. QED
  BY <1>2, <1>3

\* An answer outside a call.
LEMMA PlainAnswer ==
  ASSUME NEW op \in Io!Ops, NEW told \in -8 .. 1, Io!Answer(op, told) PROVE AnswerInv'
<1>1. result' = [op |-> op, code |-> told]
  BY DEF Io!Answer
<1>2. result' \in [op : Io!Ops, code : Int] /\ result'.code = told
  BY <1>1
<1>3. QED
  BY <1>2 DEF AnswerInv, Io!Ops

\* The running call stays as it is.
LEMMA RunningStays ==
  ASSUME RunningInv, UNCHANGED <<call, board>>, devtimeout' = devtimeout \/ ~ Io!Transferring
  PROVE  RunningInv'
BY DEF RunningInv, CallShape, Io!Transferring, Io!Pulsing, Io!TimeoutInForce, Steps, Io!Pulses,
   Io!ResetPulses, Io!AnalysePulses, Io!Device, Io!Polled, Io!Ops, Io!R, Io!A, Io!RA

\* What a driver keeps, and the wires, stay as they are.
LEMMA KeptStays == ASSUME KeptInv, UNCHANGED <<board, active, handles, vme, current, devtimeout, bytes, position, lost>>
  PROVE KeptInv'
BY DEF KeptInv, BoardsOfIserver, VmeHeld
\* A step that leaves the lines, the target and the error flag alone keeps WiresInv.
LEMMA WiresStay == ASSUME WiresInv, UNCHANGED <<lines, target, flag>> PROVE WiresInv'
BY DEF WiresInv
\* A step that leaves the result of the last call alone keeps AnswerInv.
LEMMA AnswerStays == ASSUME AnswerInv, UNCHANGED result PROVE AnswerInv'
BY DEF AnswerInv, Io!Ops

\* Between calls.
LEMMA NoneRuns == ASSUME Io!Idle PROVE ~ Io!Transferring /\ ~ Io!Pulsing
BY DEF Io!Idle, Io!Transferring, Io!Pulsing

\* The errors of the drivers.
LEMMA ErrorsAre ==
  /\ {Io!SUCCEEDED, Io!ER_LINK_BAD, Io!ER_LINK_CANT, Io!ER_LINK_NOSYNC, Io!ER_LINK_BUSY, Io!ER_NO_LINK,
      Io!ER_LINK_SYNTAX} \subseteq -8 .. 1
BY DEF Io!SUCCEEDED, Io!ER_LINK_BAD, Io!ER_LINK_CANT, Io!ER_LINK_NOSYNC, Io!ER_LINK_BUSY, Io!ER_NO_LINK,
   Io!ER_LINK_SYNTAX
\* The errors an open can end with (B004LINK.C and the others) are the small codes of LINKIO.H.
LEMMA OpenErrorsAre == ASSUME board \in BoardsOfIserver, NEW e \in Io!OpenErrors PROVE e \in -8 .. 1
<1>1. CASE board = "B004"
  BY <1>1, ErrorsAre DEF Io!OpenErrors
<1>2. CASE board = "B008"
  BY <1>2, ErrorsAre DEF Io!OpenErrors
<1>3. CASE board = "B011"
  BY <1>3, ErrorsAre DEF Io!OpenErrors
<1>4. CASE board \in {"B014", "B016", "S386"}
  BY <1>4, ErrorsAre DEF Io!OpenErrors
<1>5. QED
  BY <1>1, <1>2, <1>3, <1>4 DEF BoardsOfIserver

\* Opening and closing.
LEMMA OpeningKeeps ==
  ASSUME IoInv, Io!OpenLink \/ Io!OpenFails \/ Io!AlreadyOpen \/ Io!CloseLink
  PROVE  IoInv'
<1>1. /\ Io!Idle /\ board \in BoardsOfIserver /\ board # "QT0" /\ board # "HELIOS"
      /\ UNCHANGED <<board, call, current, devtimeout, bytes, lost, lines, target, flag>>
  <2>1. board \in BoardsOfIserver
    BY DEF IoInv, KeptInv
  <2>2. Io!Idle /\ UNCHANGED <<board, call, current, bytes, lost, lines, target, flag>>
    BY DEF Io!OpenLink, Io!OpenFails, Io!AlreadyOpen, Io!CloseLink, Io!device, Io!wires
  <2>3. devtimeout' = devtimeout
    BY DEF Io!OpenLink, Io!OpenFails, Io!AlreadyOpen, Io!CloseLink, Io!device
  <2>4. QED
    BY <2>1, <2>2, <2>3 DEF BoardsOfIserver
<1>2. RunningInv'
  BY <1>1, RunningStays DEF IoInv
<1>3. WiresInv'
  BY <1>1, WiresStay DEF IoInv
<1>4. AnswerInv'
  <2>1. \E op \in Io!Ops, e \in -8 .. 1 : Io!Answer(op, e)
    <3>1. "open" \in Io!Ops /\ "close" \in Io!Ops
      BY DEF Io!Ops
    <3>2. CASE Io!OpenLink
      BY <3>1, <3>2, ErrorsAre DEF Io!OpenLink
    <3>3. CASE Io!OpenFails
      BY <1>1, <3>1, <3>3, OpenErrorsAre DEF Io!OpenFails
    <3>4. CASE Io!AlreadyOpen
      BY <1>1, <3>1, <3>4, ErrorsAre DEF Io!AlreadyOpen
    <3>5. CASE Io!CloseLink
      BY <3>1, <3>5, ErrorsAre DEF Io!CloseLink
    <3>6. QED
      BY <3>2, <3>3, <3>4, <3>5
  <2>2. QED
    BY <2>1, PlainAnswer
<1>5. KeptInv'
  <2>1. /\ active' \in BOOLEAN /\ handles' = IF active' THEN 1 ELSE 0
        /\ position' = 0 \/ position' = position
    <3>1. active \in BOOLEAN /\ handles = IF active THEN 1 ELSE 0
      BY DEF IoInv, KeptInv
    <3>2. CASE Io!OpenLink
      BY <1>1, <3>1, <3>2 DEF Io!OpenLink
    <3>3. CASE Io!OpenFails
      <4>1. (active' <=> active) /\ active' \in BOOLEAN
        BY <1>1, <3>1, <3>3, Zenon DEF Io!OpenFails
      <4>2. handles' = handles /\ position' = position
        BY <1>1, <3>3 DEF Io!OpenFails, Io!UnlockBoard, Io!device
      <4>3. QED
        BY <3>1, <4>1, <4>2
    <3>4. CASE Io!AlreadyOpen
      BY <3>1, <3>4 DEF Io!AlreadyOpen, Io!device
    <3>5. CASE Io!CloseLink
      BY <1>1, <3>1, <3>5 DEF Io!CloseLink, Io!device
    <3>6. QED
      BY <3>2, <3>3, <3>4, <3>5
  <2>2. position' \in 0 .. bytes
    BY <2>1, DriverConstantsAre DEF IoInv, KeptInv
  <2>3. VmeHeld'
    <3>1. VmeHeld /\ vme \in Nat /\ MaxVme \in Nat
      BY DriverConstantsAre DEF IoInv, KeptInv, VmeHeld
    <3>2. CASE Io!OpensVme
      BY <1>1, <3>1, <3>2 DEF Io!OpensVme, VmeHeld
    <3>3. CASE UNCHANGED vme /\ (active' => active \/ board # "B011")
      BY <1>1, <3>1, <3>3 DEF VmeHeld
    <3>4. CASE Io!OpenLink
      <4>1. CASE board = "B011"
        BY <3>2, <3>4, <4>1 DEF Io!OpenLink
      <4>2. CASE board # "B011"
        BY <3>3, <3>4, <4>2 DEF Io!OpenLink
      <4>3. QED
        BY <4>1, <4>2
    <3>5. CASE Io!OpenFails
      <4>1. active' => active
        BY <1>1, <3>5 DEF Io!OpenFails
      <4>2. UNCHANGED vme \/ Io!OpensVme
        BY <3>5 DEF Io!OpenFails
      <4>3. QED
        BY <3>2, <3>3, <4>1, <4>2
    <3>6. CASE Io!AlreadyOpen
      BY <3>3, <3>6 DEF Io!AlreadyOpen
    <3>7. CASE Io!CloseLink
      BY <1>1, <3>3, <3>7 DEF Io!CloseLink
    <3>8. QED
      BY <3>4, <3>5, <3>6, <3>7
  <2>4. QED
    BY <1>1, <2>1, <2>2, <2>3 DEF IoInv, KeptInv
<1>6. QED
  BY <1>2, <1>3, <1>4, <1>5 DEF IoInv

\* A transfer begins, or is refused.
LEMMA TransferKeeps ==
  ASSUME IoInv, NEW op \in {"read", "write"}, NEW c \in Counts, NEW t \in Timeouts, Io!Transfer(op, c, t)
  PROVE  IoInv'
<1>1. /\ Io!Idle /\ ~ Io!Transferring /\ board \in BoardsOfIserver /\ c \in Nat /\ t \in Nat
      /\ UNCHANGED <<board, active, handles, vme, lines, target, flag, lost, bytes, position>>
  BY NoneRuns, DriverConstantsAre DEF Io!Transfer, Io!wires, Io!device, IoInv, KeptInv
<1>2. WiresInv'
  BY <1>1, WiresStay DEF IoInv
<1>3. op \in Io!Ops
  BY DEF Io!Ops
<1>4. \A e \in -8 .. 1 : Io!Answer(op, e) => AnswerInv'
  BY <1>3, PlainAnswer
<1>5. CASE c = 0
  <2>1. Io!Answer(op, Io!NothingToDo(op)) /\ UNCHANGED <<call, current, devtimeout>>
    BY <1>5 DEF Io!Transfer, Io!device
  <2>2. Io!NothingToDo(op) \in -8 .. 1
    <3>1. CASE board = "S386" /\ op = "write"
      BY <3>1, ErrorsAre DEF Io!NothingToDo
    <3>2. CASE ~ (board = "S386" /\ op = "write")
      <4>1. board \notin {"HELIOS", "QT0"}
        BY <1>1 DEF BoardsOfIserver
      <4>2. Io!NothingToDo(op) = Io!ER_LINK_CANT
        BY <3>2, <4>1, Zenon DEF Io!NothingToDo
      <4>3. QED
        BY <4>2, ErrorsAre
    <3>3. QED
      BY <3>1, <3>2
  <2>3. AnswerInv'
    BY <1>4, <2>1, <2>2
  <2>4. KeptInv' /\ RunningInv'
    BY <1>1, <2>1, KeptStays, RunningStays DEF IoInv
  <2>5. QED
    BY <1>2, <2>3, <2>4 DEF IoInv
<1>6. ASSUME c # 0, call' = [op |-> op, count |-> c, timeout |-> t, n |-> 0], UNCHANGED result,
             devtimeout' \in Timeouts \cup {-1},
             board \in Io!Device /\ (board = "S386" => t # 0) => devtimeout' = t
      PROVE  RunningInv' /\ AnswerInv'
  <2>1. /\ call' \in [op : Io!Ops, count : Nat, timeout : Nat, n : Nat] /\ call'.op = op
        /\ call'.count = c /\ call'.timeout = t /\ call'.n = 0
    BY <1>1, <1>3, <1>6
  <2>2. 0 < c
    BY <1>1, <1>6
  <2>3. Io!TimeoutInForce'
    BY <1>1, <1>6, <2>1 DEF Io!TimeoutInForce, Io!Transferring, Io!Device
  <2>4. RunningInv'
    BY <1>1, <2>1, <2>2, <2>3 DEF RunningInv, CallShape, Io!Transferring, Io!Pulsing, Io!Ops
  <2>5. QED
    BY <1>6, <2>4, AnswerStays DEF IoInv
<1>7. CASE c # 0
  <2>1. \/ /\ Io!MustSet(t) /\ devtimeout' = t /\ current' = (IF board = "B008" THEN current ELSE t)
           /\ call' = [op |-> op, count |-> c, timeout |-> t, n |-> 0] /\ UNCHANGED result
        \/ /\ Io!MustSet(t) /\ UNCHANGED <<current, devtimeout, call>>
           /\ Io!Answer(op, IF board = "S386" THEN Io!ER_LINK_BAD ELSE Io!ER_LINK_CANT)
        \/ /\ ~ Io!MustSet(t) /\ call' = [op |-> op, count |-> c, timeout |-> t, n |-> 0]
           /\ UNCHANGED <<current, devtimeout, result>>
    BY <1>7 DEF Io!Transfer, Io!SetFails
  <2>2. CASE /\ devtimeout' = t /\ current' = (IF board = "B008" THEN current ELSE t)
             /\ call' = [op |-> op, count |-> c, timeout |-> t, n |-> 0] /\ UNCHANGED result
    <3>1. devtimeout' \in Timeouts \cup {-1}
      BY <2>2
    <3>2. RunningInv' /\ AnswerInv'
      BY <1>6, <1>7, <2>2, <3>1
    <3>3. KeptInv'
      BY <1>1, <2>2, <3>1 DEF IoInv, KeptInv, BoardsOfIserver, VmeHeld
    <3>4. QED
      BY <1>2, <3>2, <3>3 DEF IoInv
  <2>3. CASE /\ UNCHANGED <<current, devtimeout, call>>
             /\ Io!Answer(op, IF board = "S386" THEN Io!ER_LINK_BAD ELSE Io!ER_LINK_CANT)
    <3>1. AnswerInv'
      BY <1>4, <2>3, ErrorsAre
    <3>2. KeptInv' /\ RunningInv'
      BY <1>1, <2>3, KeptStays, RunningStays DEF IoInv
    <3>3. QED
      BY <1>2, <3>1, <3>2 DEF IoInv
  <2>4. CASE /\ ~ Io!MustSet(t) /\ call' = [op |-> op, count |-> c, timeout |-> t, n |-> 0]
             /\ UNCHANGED <<current, devtimeout, result>>
    <3>1. devtimeout' \in Timeouts \cup {-1} /\ devtimeout' = devtimeout
      BY <2>4 DEF IoInv, KeptInv
    <3>2. ASSUME board \in Io!Device, board = "S386" => t # 0 PROVE devtimeout = t
      <4>1. CASE board = "B008"
        BY <2>4, <4>1 DEF Io!MustSet, Io!Rewinding
      <4>2. CASE board \in Io!Rewinding
        <5>1. t = current
          BY <2>4, <4>2 DEF Io!MustSet, Io!Rewinding
        <5>2. QED
          BY <4>2, <5>1 DEF IoInv, KeptInv, Io!Rewinding
      <4>3. CASE board = "S386"
        <5>1. t = current
          BY <2>4, <3>2, <4>3 DEF Io!MustSet, Io!Rewinding
        <5>2. QED
          BY <4>3, <5>1 DEF IoInv, KeptInv
      <4>4. QED
        BY <3>2, <4>1, <4>2, <4>3 DEF Io!Device, Io!Rewinding
    <3>3. RunningInv' /\ AnswerInv'
      BY <1>6, <1>7, <2>4, <3>1, <3>2
    <3>4. KeptInv'
      BY <1>1, <2>4, KeptStays DEF IoInv
    <3>5. QED
      BY <1>2, <3>3, <3>4 DEF IoInv
  <2>5. QED
    BY <2>1, <2>2, <2>3, <2>4
<1>8. QED
  BY <1>5, <1>7

\* What a transfer that runs is.
LEMMA InTransfer ==
  ASSUME IoInv, Io!Transferring
  PROVE  /\ CallShape /\ call.count \in Counts /\ call.n \in Nat /\ call.n < call.count
         /\ call.count \in Nat /\ ~ Io!Pulsing
         /\ \A k \in 0 .. call.count : k \in Int /\ k >= -8 /\ \E c \in Counts : k <= c
<1>1. CallShape /\ call.count \in Counts /\ call.n < call.count
  BY DEF IoInv, RunningInv
<1>2. call.n \in Nat /\ call.count \in Nat
  BY <1>1 DEF CallShape
<1>3. ~ Io!Pulsing
  BY DEF Io!Transferring, Io!Pulsing
<1>4. QED
  BY <1>1, <1>2, <1>3

\* The polled boards.
LEMMA PollKeeps == ASSUME IoInv, Io!PollByte \/ Io!PollTimeout PROVE IoInv'
<1>1. /\ Io!Transferring /\ UNCHANGED <<board, active, handles, vme, current, devtimeout, bytes, position, lines, target, flag>>
      /\ lost' = lost
  <2>1. Io!Transferring /\ UNCHANGED <<board, active, handles, vme, current, devtimeout, bytes, position, lines, target, flag>>
    BY DEF Io!PollByte, Io!PollTimeout, Io!device, Io!wires
  <2>2. call.n \in Nat /\ lost = 0
    BY <2>1, InTransfer DEF IoInv, KeptInv
  <2>3. QED
    BY <2>1, <2>2 DEF Io!PollByte, Io!PollTimeout, Io!DoneSoFar
<1>2. KeptInv' /\ WiresInv'
  BY <1>1, KeptStays, WiresStay DEF IoInv
<1>3. ASSUME NEW k \in 0 .. call.count, Io!Return(k) PROVE RunningInv' /\ AnswerInv'
  BY <1>1, <1>3, InTransfer, AnswerIs
<1>4. RunningInv' /\ AnswerInv'
  <2>1. CASE Io!PollTimeout
    <3>1. call.n \in 0 .. call.count /\ Io!Return(call.n)
      BY <1>1, <2>1, InTransfer DEF Io!PollTimeout, Io!DoneSoFar
    <3>2. QED
      BY <1>3, <3>1
  <2>2. CASE Io!PollByte /\ call.n + 1 = call.count
    <3>1. call.count \in 0 .. call.count /\ Io!Return(call.count)
      BY <1>1, <2>2, InTransfer DEF Io!PollByte
    <3>2. QED
      BY <1>3, <3>1
  <2>3. CASE Io!PollByte /\ call.n + 1 # call.count
    <3>1. call' = [call EXCEPT !.n = call.n + 1] /\ UNCHANGED result
      BY <2>3 DEF Io!PollByte
    <3>2. /\ call.n + 1 \in Nat /\ call.n + 1 < call.count /\ CallShape
          /\ call.op \in {"read", "write"} /\ board \in Io!Polled
      BY <1>1, <2>3, InTransfer DEF Io!Transferring, Io!PollByte
    <3>3. /\ call' \in [op : Io!Ops, count : Nat, timeout : Nat, n : Nat] /\ call'.op = call.op
          /\ call'.count = call.count /\ call'.timeout = call.timeout /\ call'.n = call.n + 1
      <4>1. "read" \in Io!Ops
        BY DEF Io!Ops
      <4>2. QED
        BY <3>1, <3>2, <4>1, CallMoves
    <3>4. Io!TimeoutInForce'
      BY <1>1, <3>2, <3>3 DEF Io!TimeoutInForce, Io!Device, Io!Polled
    <3>5. call.count \in Counts /\ call.timeout \in Timeouts
      BY <1>1 DEF IoInv, RunningInv
    <3>6. RunningInv'
      BY <3>2, <3>3, <3>4, <3>5 DEF RunningInv, CallShape, Io!Transferring, Io!Pulsing, Io!Ops
    <3>7. QED
      BY <3>1, <3>6, AnswerStays DEF IoInv
  <2>4. QED
    BY <2>1, <2>2, <2>3
<1>5. QED
  BY <1>2, <1>4 DEF IoInv

\* The devices, and the rewinding.
LEMMA DeviceKeeps == ASSUME IoInv, Io!DeviceTransfer \/ Io!DeviceError \/ Io!HostTransfer PROVE IoInv'
<1>1. /\ Io!Transferring /\ board \in BoardsOfIserver
      /\ UNCHANGED <<board, active, handles, vme, current, devtimeout, lines, target, flag>>
  BY DEF Io!DeviceTransfer, Io!DeviceError, Io!HostTransfer, Io!device, Io!wires, IoInv, KeptInv
<1>2. WiresInv' /\ CallShape
  BY <1>1, WiresStay, InTransfer DEF IoInv
<1>3. ~ Io!HostTransfer
  BY <1>1 DEF Io!HostTransfer, BoardsOfIserver
<1>4. CASE Io!DeviceError
  <2>1. KeptInv'
    BY <1>1, <1>4, KeptStays DEF Io!DeviceError, Io!device, IoInv
  <2>2. \E e \in -8 .. 1 : Io!Return(e)
    BY <1>4, ErrorsAre DEF Io!DeviceError
  <2>3. RunningInv' /\ AnswerInv'
    <3>1. PICK e \in -8 .. 1 : Io!Return(e)
      BY <2>2
    <3>2. e \in Int /\ e >= -8 /\ e <= 1
      OBVIOUS
    <3>3. QED
      BY <1>2, <3>1, <3>2, AnswerIs
  <2>4. QED
    BY <1>2, <2>1, <2>3 DEF IoInv
<1>5. CASE Io!DeviceTransfer
  <2>1. PICK k \in 0 .. call.count :
          \/ /\ ~ Io!Rewinds(k)
             /\ bytes' = IF board \in Io!Rewinding THEN bytes + k ELSE bytes
             /\ position' = IF board \in Io!Rewinding THEN position + k ELSE position
             /\ Io!Return(k) /\ UNCHANGED lost
          \/ /\ Io!Rewinds(k) /\ bytes' = 0 /\ position' = 0 /\ Io!Return(k) /\ UNCHANGED lost
    BY <1>5 DEF Io!DeviceTransfer
  <2>2. k \in Nat
    BY <1>1, InTransfer
  <2>3. bytes' \in 0 .. Threshold /\ position' \in 0 .. bytes'
    <3>1. bytes \in 0 .. Threshold /\ position \in 0 .. bytes /\ Threshold \in Nat
      BY DriverConstantsAre DEF IoInv, KeptInv
    <3>2. QED
      BY <2>1, <2>2, <3>1 DEF Io!Rewinds
  <2>4. KeptInv'
    BY <1>1, <2>1, <2>3 DEF IoInv, KeptInv, VmeHeld
  <2>5. RunningInv' /\ AnswerInv'
    <3>1. k \in Int /\ k >= -8 /\ \E c \in Counts : k <= c
      BY <1>1, InTransfer
    <3>2. Io!Return(k)
      BY <2>1
    <3>3. QED
      BY <1>2, <3>1, <3>2, AnswerIs
  <2>6. QED
    BY <1>2, <2>4, <2>5 DEF IoInv
<1>6. QED
  BY <1>3, <1>4, <1>5

\* The registers of a board hold zeros and ones.
LEMMA PulsesAre ==
  ASSUME board \in BoardsOfIserver, NEW o \in {"reset", "analyse"}, NEW i \in 1 .. Steps(o)
  PROVE  \E v \in 0 .. 1 : Io!Pulses(o)[i] \in {Io!R(v), Io!A(v)}
<1>1. CASE board \in Io!Device
  <2>1. Io!Pulses(o) = << >>
    BY <1>1 DEF Io!Pulses, Io!ResetPulses, Io!AnalysePulses, Io!Device, Io!Polled
  <2>2. QED
    BY <2>1 DEF Steps
<1>2. CASE o = "reset" /\ board \in Io!Polled
  <2>1. Io!Pulses(o) = <<Io!A(0), Io!R(0), Io!R(1), Io!R(0)>>
    BY <1>2 DEF Io!Pulses, Io!ResetPulses, Io!Device, Io!Polled
  <2>2. Steps(o) = 4
    BY <2>1 DEF Steps
  <2>3. Io!Pulses(o)[i] \in {Io!A(0), Io!R(0), Io!R(1)}
    BY <2>1, <2>2
  <2>4. QED
    BY <2>3
<1>3. CASE o = "analyse" /\ board = "B004"
  <2>1. Io!Pulses(o) = <<Io!A(0), Io!A(1), Io!R(1), Io!R(0), Io!A(0)>>
    BY <1>3 DEF Io!Pulses, Io!AnalysePulses, Io!Device
  <2>2. Steps(o) = 5
    BY <2>1 DEF Steps
  <2>3. Io!Pulses(o)[i] \in {Io!A(0), Io!A(1), Io!R(0), Io!R(1)}
    BY <2>1, <2>2
  <2>4. QED
    BY <2>3
<1>4. CASE o = "analyse" /\ board = "B011"
  <2>1. Io!Pulses(o) = <<Io!A(1), Io!R(1), Io!R(0), Io!A(0)>>
    BY <1>4 DEF Io!Pulses, Io!AnalysePulses, Io!Device
  <2>2. Steps(o) = 4
    BY <2>1 DEF Steps
  <2>3. Io!Pulses(o)[i] \in {Io!A(0), Io!A(1), Io!R(0), Io!R(1)}
    BY <2>1, <2>2
  <2>4. QED
    BY <2>3
<1>5. QED
  BY <1>1, <1>2, <1>3, <1>4 DEF BoardsOfIserver, Io!Device, Io!Polled

\* Reset and analyse.
LEMMA PulsingKeeps ==
  ASSUME IoInv, \/ \E op \in {"reset", "analyse"} : Io!StartPulses(op)
                \/ Io!WriteRegister \/ Io!PulsesEnd \/ Io!PulsesFail
  PROVE  IoInv'
<1>1. /\ UNCHANGED <<board, active, handles, vme, current, devtimeout, bytes, position, flag, lost>>
      /\ board \in BoardsOfIserver /\ CallShape
  BY DEF Io!StartPulses, Io!WriteRegister, Io!PulsesEnd, Io!PulsesFail, Io!device, Io!wires, IoInv, KeptInv,
     RunningInv
<1>2. KeptInv'
  BY <1>1, KeptStays DEF IoInv
<1>3. ASSUME NEW e \in -8 .. 1, Io!Return(e) PROVE RunningInv' /\ AnswerInv'
  <2>1. e \in Int /\ e >= -8 /\ e <= 1
    OBVIOUS
  <2>2. QED
    BY <1>1, <1>3, <2>1, AnswerIs
<1>4. ASSUME NEW op \in {"reset", "analyse"}, Io!StartPulses(op) PROVE IoInv'
  <2>1. op \in Io!Ops
    BY DEF Io!Ops
  <2>2. call' = [op |-> op, count |-> 0, timeout |-> 0, n |-> 0]
        /\ UNCHANGED <<lines, target, flag, result>>
    BY <1>1, <1>4, <2>1, CallMoves DEF Io!StartPulses, Io!wires
  <2>3. /\ call' \in [op : Io!Ops, count : Nat, timeout : Nat, n : Nat] /\ call'.op = op
        /\ call'.count = 0 /\ call'.timeout = 0 /\ call'.n = 0
    BY <2>1, <2>2
  <2>4. Steps(op) \in 0 .. 5
    BY <1>1, StepsAre
  <2>5. (call.n <= Steps(call.op))'
    <3>1. \A o \in {"reset", "analyse"} : Steps(o)' = Steps(o)
      BY <1>1 DEF Steps, Io!Pulses, Io!ResetPulses, Io!AnalysePulses, Io!Device, Io!Polled,
         Io!R, Io!A, Io!RA
    <3>2. QED
      BY <2>3, <2>4, <3>1
  <2>6. RunningInv'
    BY <2>3, <2>5 DEF RunningInv, CallShape, Io!Transferring, Io!Pulsing, Io!TimeoutInForce, Io!Ops
  <2>7. QED
    BY <1>2, <2>2, <2>6, WiresStay, AnswerStays DEF IoInv
<1>5. CASE Io!WriteRegister
  <2>1. /\ Io!Pulsing /\ call.n < Steps(call.op) /\ call' = [call EXCEPT !.n = call.n + 1]
        /\ UNCHANGED result /\ lines' = Io!Written(Io!Pulses(call.op)[call.n + 1])
        /\ target' = Io!Sampled(lines, lines')
    BY <1>5 DEF Io!WriteRegister, Steps
  <2>2. /\ call.op \in {"reset", "analyse"} /\ call.n \in Nat /\ Steps(call.op) \in 0 .. 5
        /\ call.n + 1 \in 1 .. Steps(call.op)
    BY <1>1, <2>1, StepsAre DEF Io!Pulsing, CallShape
  <2>3. PICK v \in 0 .. 1 : Io!Pulses(call.op)[call.n + 1] \in {Io!R(v), Io!A(v)}
    BY <1>1, <2>2, PulsesAre
  <2>4. lines \in [{"reset", "analyse"} -> 0 .. 1] /\ target \in {"running", "reset", "analysed"}
    BY DEF IoInv, WiresInv
  <2>5. lines' \in [{"reset", "analyse"} -> 0 .. 1]
    BY <2>1, <2>3, <2>4 DEF Io!Written, Io!R, Io!A
  <2>6. target' \in {"running", "reset", "analysed"}
    BY <2>1, <2>4 DEF Io!Sampled
  <2>7. WiresInv'
    BY <1>1, <2>5, <2>6 DEF IoInv, WiresInv
  <2>8. /\ call' \in [op : Io!Ops, count : Nat, timeout : Nat, n : Nat] /\ call'.op = call.op
        /\ call'.count = call.count /\ call'.timeout = call.timeout /\ call'.n = call.n + 1
    <3>1. "read" \in Io!Ops /\ call.n + 1 \in Nat
      BY <2>2 DEF Io!Ops
    <3>2. QED
      BY <1>1, <2>1, <3>1, CallMoves
  <2>9. (call.n <= Steps(call.op))'
    <3>1. \A o \in {"reset", "analyse"} : Steps(o)' = Steps(o)
      BY <1>1 DEF Steps, Io!Pulses, Io!ResetPulses, Io!AnalysePulses, Io!Device, Io!Polled,
         Io!R, Io!A, Io!RA
    <3>2. QED
      BY <2>2, <2>8, <3>1
  <2>10. call.count \in Counts \cup {0} /\ call.timeout \in Timeouts \cup {0}
    BY DEF IoInv, RunningInv
  <2>11. RunningInv'
    BY <2>2, <2>8, <2>9, <2>10 DEF RunningInv, CallShape, Io!Transferring, Io!Pulsing, Io!TimeoutInForce, Io!Ops
  <2>12. QED
    BY <1>2, <2>1, <2>7, <2>11, AnswerStays DEF IoInv
<1>6. CASE Io!PulsesEnd
  <2>1. Io!Return(Io!SUCCEEDED)
    BY <1>6 DEF Io!PulsesEnd
  <2>2. lines' \in {lines, Io!RA(0, 0)} /\ target' \in {target, "reset", "analysed"}
    BY <1>6 DEF Io!PulsesEnd
  <2>3. WiresInv'
    BY <1>1, <2>2 DEF IoInv, WiresInv, Io!RA
  <2>4. QED
    BY <1>2, <1>3, <2>1, <2>3, ErrorsAre DEF IoInv
<1>7. CASE Io!PulsesFail
  <2>1. \E e \in -8 .. 1 : Io!Return(e)
    BY <1>7, ErrorsAre DEF Io!PulsesFail
  <2>2. WiresInv'
    BY <1>7, WiresStay DEF Io!PulsesFail, Io!wires, IoInv
  <2>3. QED
    BY <1>2, <1>3, <2>1, <2>2 DEF IoInv
<1>8. QED
  BY <1>4, <1>5, <1>6, <1>7

\* The error test, and the program that boots the transputer.
LEMMA TestKeeps == ASSUME IoInv, Io!TestError \/ Io!Boot PROVE IoInv'
<1>1. UNCHANGED <<board, active, handles, vme, current, devtimeout, bytes, position, lost, call, lines>>
  BY DEF Io!TestError, Io!Boot, Io!device, Io!wires
<1>2. KeptInv' /\ RunningInv'
  BY <1>1, KeptStays, RunningStays DEF IoInv
<1>3. CASE Io!TestError
  <2>1. flag \in 0 .. 1
    BY DEF IoInv, WiresInv
  <2>2. Io!ErrorBit(Io!Register) \in -8 .. 1
    BY <2>1 DEF Io!ErrorBit, Io!Register
  <2>3. \E e \in -8 .. 1 : Io!Answer("test", e)
    BY <1>3, <2>2, ErrorsAre DEF Io!TestError
  <2>4. AnswerInv'
    <3>1. "test" \in Io!Ops
      BY DEF Io!Ops
    <3>2. QED
      BY <2>3, <3>1, PlainAnswer
  <2>5. WiresInv'
    BY <1>3, WiresStay DEF Io!TestError, Io!wires, IoInv
  <2>6. QED
    BY <1>2, <2>4, <2>5 DEF IoInv
<1>4. CASE Io!Boot
  <2>1. WiresInv'
    BY <1>1, <1>4 DEF Io!Boot, IoInv, WiresInv
  <2>2. AnswerInv'
    BY <1>4, AnswerStays DEF Io!Boot, IoInv
  <2>3. QED
    BY <1>2, <2>1, <2>2 DEF IoInv
<1>5. QED
  BY <1>3, <1>4

\* The first state.
LEMMA IoInit == ASSUME Io!Init PROVE IoInv
<1>1. Threshold \in Nat
  BY DriverConstantsAre
<1>2. KeptInv
  <2>1. active = FALSE /\ handles = 0 /\ vme = 0 /\ bytes = 0 /\ position = 0 /\ lost = 0 /\ current = -1
        /\ devtimeout = -1 /\ board \in BoardsOfIserver
    BY DEF Io!Init
  <2>2. bytes \in 0 .. Threshold /\ position \in 0 .. bytes
    BY <1>1, <2>1
  <2>3. active \in BOOLEAN /\ handles = IF active THEN 1 ELSE 0
    BY <2>1
  <2>4. VmeHeld
    BY <2>1, DriverConstantsAre DEF VmeHeld
  <2>5. QED
    BY <2>1, <2>2, <2>3, <2>4 DEF KeptInv
<1>3. WiresInv
  BY DEF Io!Init, WiresInv
<1>4. RunningInv
  BY DEF Io!Init, RunningInv, CallShape, Io!NoCall, Io!Ops, Io!Transferring, Io!Pulsing, Io!TimeoutInForce
<1>5. AnswerInv
  BY DEF Io!Init, AnswerInv, Io!Ops, Io!SUCCEEDED
<1>6. QED
  BY <1>2, <1>3, <1>4, <1>5 DEF IoInv

\* Every step of a driver.
LEMMA IoNext == ASSUME IoInv, Io!Next PROVE IoInv'
<1>1. CASE \E op \in {"read", "write"}, c \in Counts, t \in Timeouts : Io!Transfer(op, c, t)
  BY <1>1, TransferKeeps
<1>2. CASE Io!OpenLink \/ Io!OpenFails \/ Io!AlreadyOpen \/ Io!CloseLink
  BY <1>2, OpeningKeeps
<1>3. CASE Io!PollByte \/ Io!PollTimeout
  BY <1>3, PollKeeps
<1>4. CASE Io!DeviceTransfer \/ Io!DeviceError \/ Io!HostTransfer
  BY <1>4, DeviceKeeps
<1>5. CASE \/ \E op \in {"reset", "analyse"} : Io!StartPulses(op)
           \/ Io!WriteRegister \/ Io!PulsesEnd \/ Io!PulsesFail
  BY <1>5, PulsingKeeps
<1>6. CASE Io!TestError \/ Io!Boot
  BY <1>6, TestKeeps
<1>7. QED
  BY <1>1, <1>2, <1>3, <1>4, <1>5, <1>6 DEF Io!Next

\* What the run checks of the drivers.
LEMMA IoFollows ==
  ASSUME IoInv
  PROVE  Io!TypeOK /\ Io!TimeoutInForce /\ Io!HandleAgrees /\ Io!NothingLost /\ Io!PositionBounded
<1>1. Io!TimeoutInForce
  BY DEF IoInv, RunningInv
<1>2. Io!HandleAgrees
  BY DEF IoInv, KeptInv, VmeHeld, Io!HandleAgrees
<1>3. Io!NothingLost
  BY DEF IoInv, KeptInv, Io!NothingLost
<1>4. Io!Highest(Counts) \in Nat
  <2>1. 1 \in Nat
    OBVIOUS
  <2>2. QED
    BY <2>1, MostIs
<1>5. Io!PositionBounded
  BY <1>4, DriverConstantsAre DEF IoInv, KeptInv, Io!PositionBounded
<1>6. Io!TypeOK
  <2>1. /\ board \in BoardsOfIserver /\ active \in BOOLEAN /\ handles \in Nat /\ vme \in 0 .. MaxVme
        /\ current \in Timeouts \cup {-1} /\ devtimeout \in Timeouts \cup {-1}
        /\ bytes \in 0 .. Threshold /\ position \in Nat
    BY DriverConstantsAre DEF IoInv, KeptInv, VmeHeld
  <2>2. /\ lines \in [{"reset", "analyse"} -> 0 .. 1]
        /\ target \in {"running", "reset", "analysed"} /\ flag \in 0 .. 1
    BY DEF IoInv, WiresInv
  <2>3. lost \in 0 .. MaxLost + Io!Highest(Counts)
    BY <1>4, DriverConstantsAre DEF IoInv, KeptInv
  <2>4. call \in [op : Io!Ops, count : Counts \cup {0}, timeout : Timeouts \cup {0},
                  n : 0 .. Io!Highest(Counts \cup {5})]
    <3> DEFINE top == Io!Highest(Counts \cup {5})
    <3>1. top \in Nat /\ 5 <= top /\ \A c \in Counts : c <= top
      <4>1. 5 \in Nat
        OBVIOUS
      <4>2. QED
        BY <4>1, MostIs
    <3> HIDE DEF top
    <3>2. CallShape /\ call.count \in Counts \cup {0} /\ call.timeout \in Timeouts \cup {0}
      BY DEF IoInv, RunningInv
    <3>3. call.n \in Nat
      BY <3>2 DEF CallShape
    <3>4. call.n <= top
      <4>1. CASE Io!Transferring
        <5>1. call.n < call.count /\ call.count \in Counts /\ Counts \subseteq Nat
          BY <4>1, DriverConstantsAre DEF IoInv, RunningInv
        <5>2. call.count \in Nat /\ call.count <= top
          BY <3>1, <5>1
        <5>3. QED
          BY <3>1, <3>3, <5>1, <5>2
      <4>2. CASE Io!Pulsing
        <5>1. call.n <= Steps(call.op) /\ Steps(call.op) \in 0 .. 5
          BY <2>1, <4>2, StepsAre DEF IoInv, RunningInv
        <5>2. QED
          BY <3>1, <3>3, <5>1
      <4>3. CASE ~ Io!Transferring /\ ~ Io!Pulsing
        <5>1. call.n = 0
          BY <4>3 DEF IoInv, RunningInv
        <5>2. QED
          BY <3>1, <5>1
      <4>4. QED
        BY <4>1, <4>2, <4>3
    <3>5. call.n \in 0 .. top
      BY <3>1, <3>3, <3>4
    <3>6. QED
      BY <3>2, <3>5 DEF CallShape, top
  <2>5. result \in [op : Io!Ops, code : -8 .. Io!Highest(Counts \cup {1})]
    <3> DEFINE top == Io!Highest(Counts \cup {1})
    <3>1. top \in Nat /\ 1 <= top /\ (\A c \in Counts : c <= top) /\ Counts \subseteq Nat
      <4>1. 1 \in Nat
        OBVIOUS
      <4>2. QED
        BY <4>1, MostIs, DriverConstantsAre
    <3> HIDE DEF top
    <3>2. result \in [op : Io!Ops, code : Int] /\ result.code >= -8
          /\ (result.code <= 1 \/ \E c \in Counts : result.code <= c)
      BY DEF IoInv, AnswerInv
    <3>3. result.code \in -8 .. top
      BY <3>1, <3>2
    <3>4. QED
      BY <3>2, <3>3 DEF top
  <2>6. QED
    BY <2>1, <2>2, <2>3, <2>4, <2>5 DEF Io!TypeOK
<1>7. QED
  BY <1>1, <1>2, <1>3, <1>5, <1>6

\* A running call of a driver of the second part.
FaultyShape == call \in [op : Faulty!Ops, count : Nat, timeout : Nat, n : Nat]

\* The lines, and the transputer, after n registers of a reset or an analyse.
AfterReset(b, ls, t, n) ==
  /\ b \in {"B004", "B011", "HELIOS"} =>
       /\ n >= 2 \/ (n = 1 /\ b # "HELIOS") => ls["analyse"] = 0
       /\ n = 3 => ls["reset"] = 1
       /\ n = 4 => ls["reset"] = 0 /\ t = "reset"
  /\ b = "QT0" =>
       /\ n >= 1 => ls["analyse"] = 0
       /\ n = 1 => ls["reset"] = 1
       /\ n = 2 => ls["reset"] = 0 /\ t = "reset"
AfterAnalyse(b, ls, t, n) ==
  /\ b \in {"B004", "HELIOS"} =>
       /\ n \in 2 .. 4 => ls["analyse"] = 1
       /\ n = 3 => ls["reset"] = 1
       /\ n >= 4 => ls["reset"] = 0 /\ t = "analysed"
       /\ n = 5 => ls["analyse"] = 0
  /\ b \in {"B011", "QT0"} =>
       /\ n \in 1 .. 3 => ls["analyse"] = 1
       /\ n = 2 => ls["reset"] = 1
       /\ n >= 3 => ls["reset"] = 0 /\ t = "analysed"
       /\ n = 4 => ls["analyse"] = 0

PulseInv ==
  /\ board \in AllBoards /\ FaultyShape /\ lines \in [{"reset", "analyse"} -> 0 .. 1]
  /\ call.op = "reset" => call.n <= Len(Faulty!ResetPulses) /\ AfterReset(board, lines, target, call.n)
  /\ call.op = "analyse" => call.n <= Len(Faulty!AnalysePulses) /\ AfterAnalyse(board, lines, target, call.n)
FaultyInv == PulseInv /\ Faulty!PulsesWork

\* The registers, board by board.
LEMMA ResetIs ==
  /\ board \in {"B004", "B011"} => Faulty!ResetPulses = <<Faulty!A(0), Faulty!R(0), Faulty!R(1), Faulty!R(0)>>
  /\ board = "HELIOS" => Faulty!ResetPulses = <<Faulty!R(0), Faulty!A(0), Faulty!R(1), Faulty!R(0)>>
  /\ board = "QT0" => Faulty!ResetPulses = <<Faulty!RA(1, 0), Faulty!RA(0, 0)>>
  /\ board \in Faulty!Device => Faulty!ResetPulses = << >>
<1>1. board \in {"B004", "B011"} => Faulty!ResetPulses = <<Faulty!A(0), Faulty!R(0), Faulty!R(1), Faulty!R(0)>>
  BY DEF Faulty!ResetPulses, Faulty!Polled, Faulty!Device
<1>2. board = "HELIOS" => Faulty!ResetPulses = <<Faulty!R(0), Faulty!A(0), Faulty!R(1), Faulty!R(0)>>
  BY DEF Faulty!ResetPulses, Faulty!Polled, Faulty!Device
<1>3. board = "QT0" => Faulty!ResetPulses = <<Faulty!RA(1, 0), Faulty!RA(0, 0)>>
  BY DEF Faulty!ResetPulses, Faulty!Polled, Faulty!Device
<1>4. board \in Faulty!Device => Faulty!ResetPulses = << >>
  BY DEF Faulty!ResetPulses, Faulty!Polled, Faulty!Device
<1>5. QED
  BY <1>1, <1>2, <1>3, <1>4
\* The registers each driver writes to analyse its board, one by one.
LEMMA AnalyseIs ==
  /\ board \in {"B004", "HELIOS"} =>
       Faulty!AnalysePulses = <<Faulty!A(0), Faulty!A(1), Faulty!R(1), Faulty!R(0), Faulty!A(0)>>
  /\ board = "B011" => Faulty!AnalysePulses = <<Faulty!A(1), Faulty!R(1), Faulty!R(0), Faulty!A(0)>>
  /\ board = "QT0" =>
       Faulty!AnalysePulses = <<Faulty!RA(0, 1), Faulty!RA(1, 1), Faulty!RA(0, 1), Faulty!RA(0, 0)>>
  /\ board \in Faulty!Device => Faulty!AnalysePulses = << >>
<1>1. board \in {"B004", "HELIOS"} =>
        Faulty!AnalysePulses = <<Faulty!A(0), Faulty!A(1), Faulty!R(1), Faulty!R(0), Faulty!A(0)>>
  BY DEF Faulty!AnalysePulses, Faulty!Device
<1>2. board = "B011" => Faulty!AnalysePulses = <<Faulty!A(1), Faulty!R(1), Faulty!R(0), Faulty!A(0)>>
  BY DEF Faulty!AnalysePulses, Faulty!Device
<1>3. board = "QT0" =>
        Faulty!AnalysePulses = <<Faulty!RA(0, 1), Faulty!RA(1, 1), Faulty!RA(0, 1), Faulty!RA(0, 0)>>
  BY DEF Faulty!AnalysePulses, Faulty!Device
<1>4. board \in Faulty!Device => Faulty!AnalysePulses = << >>
  BY DEF Faulty!AnalysePulses, Faulty!Device
<1>5. QED
  BY <1>1, <1>2, <1>3, <1>4

\* What writing a register does to the lines.
LEMMA WrittenIs ==
  ASSUME lines \in [{"reset", "analyse"} -> 0 .. 1], NEW v \in 0 .. 1, NEW w \in 0 .. 1
  PROVE  /\ Faulty!Written(Faulty!R(v)) \in [{"reset", "analyse"} -> 0 .. 1]
         /\ Faulty!Written(Faulty!R(v))["reset"] = v
         /\ Faulty!Written(Faulty!R(v))["analyse"] = lines["analyse"]
         /\ Faulty!Written(Faulty!A(v)) \in [{"reset", "analyse"} -> 0 .. 1]
         /\ Faulty!Written(Faulty!A(v))["analyse"] = v
         /\ Faulty!Written(Faulty!A(v))["reset"] = lines["reset"]
         /\ Faulty!Written(Faulty!RA(v, w)) \in [{"reset", "analyse"} -> 0 .. 1]
         /\ Faulty!Written(Faulty!RA(v, w))["reset"] = v
         /\ Faulty!Written(Faulty!RA(v, w))["analyse"] = w
BY DEF Faulty!Written, Faulty!R, Faulty!A, Faulty!RA

\* A register of a reset.
LEMMA ResetWrites ==
  ASSUME PulseInv, call.op = "reset", Faulty!WriteRegister
  PROVE  /\ lines' \in [{"reset", "analyse"} -> 0 .. 1] /\ call.n + 1 <= Len(Faulty!ResetPulses)
         /\ AfterReset(board, lines', target', call.n + 1)
<1> DEFINE n == call.n
<1>1. /\ n \in Nat /\ n < Len(Faulty!ResetPulses) /\ lines \in [{"reset", "analyse"} -> 0 .. 1]
      /\ lines' = Faulty!Written(Faulty!ResetPulses[n + 1])
      /\ target' = Faulty!Sampled(lines, lines') /\ AfterReset(board, lines, target, n)
      /\ board \in AllBoards
  BY DEF Faulty!WriteRegister, Faulty!Pulses, PulseInv, FaultyShape
<1> HIDE DEF n
<1>2. CASE board \in {"B004", "B011"}
  <2>1. Faulty!ResetPulses = <<Faulty!A(0), Faulty!R(0), Faulty!R(1), Faulty!R(0)>>
    BY <1>2, ResetIs
  <2>2. Len(Faulty!ResetPulses) = 4 /\ n \in 0 .. 3
    BY <1>1, <2>1
  <2>3. CASE n = 0
    <3>1. lines' = Faulty!Written(Faulty!A(0))
      BY <1>1, <2>1, <2>3
    <3>2. lines' \in [{"reset", "analyse"} -> 0 .. 1]
          /\ lines'["reset"] = lines["reset"] /\ lines'["analyse"] = 0
      BY <1>1, <3>1, WrittenIs
    <3>3. AfterReset(board, lines', target', 1)
      BY <1>2, <3>2 DEF AfterReset
    <3>4. QED
      BY <2>2, <2>3, <3>2, <3>3 DEF n
  <2>4. CASE n = 1
    <3>1. lines' = Faulty!Written(Faulty!R(0))
      BY <1>1, <2>1, <2>4
    <3>2. lines' \in [{"reset", "analyse"} -> 0 .. 1]
          /\ lines'["reset"] = 0 /\ lines'["analyse"] = lines["analyse"]
      BY <1>1, <3>1, WrittenIs
    <3>3. lines["analyse"] = 0
      BY <1>1, <1>2, <2>4 DEF AfterReset
    <3>4. AfterReset(board, lines', target', 2)
      BY <1>2, <3>2, <3>3 DEF AfterReset
    <3>5. QED
      BY <2>2, <2>4, <3>2, <3>4 DEF n
  <2>5. CASE n = 2
    <3>1. lines' = Faulty!Written(Faulty!R(1))
      BY <1>1, <2>1, <2>5
    <3>2. lines' \in [{"reset", "analyse"} -> 0 .. 1]
          /\ lines'["reset"] = 1 /\ lines'["analyse"] = lines["analyse"]
      BY <1>1, <3>1, WrittenIs
    <3>3. lines["analyse"] = 0
      BY <1>1, <1>2, <2>5 DEF AfterReset
    <3>4. AfterReset(board, lines', target', 3)
      BY <1>2, <3>2, <3>3 DEF AfterReset
    <3>5. QED
      BY <2>2, <2>5, <3>2, <3>4 DEF n
  <2>6. CASE n = 3
    <3>1. lines' = Faulty!Written(Faulty!R(0))
      BY <1>1, <2>1, <2>6
    <3>2. lines' \in [{"reset", "analyse"} -> 0 .. 1]
          /\ lines'["reset"] = 0 /\ lines'["analyse"] = lines["analyse"]
      BY <1>1, <3>1, WrittenIs
    <3>3. lines["analyse"] = 0 /\ lines["reset"] = 1
      BY <1>1, <1>2, <2>6 DEF AfterReset
    <3>4. target' = "reset"
      BY <1>1, <3>2, <3>3 DEF Faulty!Sampled
    <3>5. AfterReset(board, lines', target', 4)
      BY <1>2, <3>2, <3>3, <3>4 DEF AfterReset
    <3>6. QED
      BY <2>2, <2>6, <3>2, <3>5 DEF n
  <2>7. QED
    BY <2>2, <2>3, <2>4, <2>5, <2>6
<1>3. CASE board = "HELIOS"
  <2>1. Faulty!ResetPulses = <<Faulty!R(0), Faulty!A(0), Faulty!R(1), Faulty!R(0)>>
    BY <1>3, ResetIs
  <2>2. Len(Faulty!ResetPulses) = 4 /\ n \in 0 .. 3
    BY <1>1, <2>1
  <2>3. CASE n = 0
    <3>1. lines' = Faulty!Written(Faulty!R(0))
      BY <1>1, <2>1, <2>3
    <3>2. lines' \in [{"reset", "analyse"} -> 0 .. 1]
          /\ lines'["reset"] = 0 /\ lines'["analyse"] = lines["analyse"]
      BY <1>1, <3>1, WrittenIs
    <3>3. AfterReset(board, lines', target', 1)
      BY <1>3, <3>2 DEF AfterReset
    <3>4. QED
      BY <2>2, <2>3, <3>2, <3>3 DEF n
  <2>4. CASE n = 1
    <3>1. lines' = Faulty!Written(Faulty!A(0))
      BY <1>1, <2>1, <2>4
    <3>2. lines' \in [{"reset", "analyse"} -> 0 .. 1]
          /\ lines'["reset"] = lines["reset"] /\ lines'["analyse"] = 0
      BY <1>1, <3>1, WrittenIs
    <3>3. AfterReset(board, lines', target', 2)
      BY <1>3, <3>2 DEF AfterReset
    <3>4. QED
      BY <2>2, <2>4, <3>2, <3>3 DEF n
  <2>5. CASE n = 2
    <3>1. lines' = Faulty!Written(Faulty!R(1))
      BY <1>1, <2>1, <2>5
    <3>2. lines' \in [{"reset", "analyse"} -> 0 .. 1]
          /\ lines'["reset"] = 1 /\ lines'["analyse"] = lines["analyse"]
      BY <1>1, <3>1, WrittenIs
    <3>3. lines["analyse"] = 0
      BY <1>1, <1>3, <2>5 DEF AfterReset
    <3>4. AfterReset(board, lines', target', 3)
      BY <1>3, <3>2, <3>3 DEF AfterReset
    <3>5. QED
      BY <2>2, <2>5, <3>2, <3>4 DEF n
  <2>6. CASE n = 3
    <3>1. lines' = Faulty!Written(Faulty!R(0))
      BY <1>1, <2>1, <2>6
    <3>2. lines' \in [{"reset", "analyse"} -> 0 .. 1]
          /\ lines'["reset"] = 0 /\ lines'["analyse"] = lines["analyse"]
      BY <1>1, <3>1, WrittenIs
    <3>3. lines["analyse"] = 0 /\ lines["reset"] = 1
      BY <1>1, <1>3, <2>6 DEF AfterReset
    <3>4. target' = "reset"
      BY <1>1, <3>2, <3>3 DEF Faulty!Sampled
    <3>5. AfterReset(board, lines', target', 4)
      BY <1>3, <3>2, <3>3, <3>4 DEF AfterReset
    <3>6. QED
      BY <2>2, <2>6, <3>2, <3>5 DEF n
  <2>7. QED
    BY <2>2, <2>3, <2>4, <2>5, <2>6
<1>4. CASE board = "QT0"
  <2>1. Faulty!ResetPulses = <<Faulty!RA(1, 0), Faulty!RA(0, 0)>>
    BY <1>4, ResetIs
  <2>2. Len(Faulty!ResetPulses) = 2 /\ n \in 0 .. 1
    BY <1>1, <2>1
  <2>3. CASE n = 0
    <3>1. lines' = Faulty!Written(Faulty!RA(1, 0))
      BY <1>1, <2>1, <2>3
    <3>2. lines' \in [{"reset", "analyse"} -> 0 .. 1]
          /\ lines'["reset"] = 1 /\ lines'["analyse"] = 0
      BY <1>1, <3>1, WrittenIs
    <3>3. AfterReset(board, lines', target', 1)
      BY <1>4, <3>2 DEF AfterReset
    <3>4. QED
      BY <2>2, <2>3, <3>2, <3>3 DEF n
  <2>4. CASE n = 1
    <3>1. lines' = Faulty!Written(Faulty!RA(0, 0))
      BY <1>1, <2>1, <2>4
    <3>2. lines' \in [{"reset", "analyse"} -> 0 .. 1]
          /\ lines'["reset"] = 0 /\ lines'["analyse"] = 0
      BY <1>1, <3>1, WrittenIs
    <3>3. lines["analyse"] = 0 /\ lines["reset"] = 1
      BY <1>1, <1>4, <2>4 DEF AfterReset
    <3>4. target' = "reset"
      BY <1>1, <3>2, <3>3 DEF Faulty!Sampled
    <3>5. AfterReset(board, lines', target', 2)
      BY <1>4, <3>2, <3>3, <3>4 DEF AfterReset
    <3>6. QED
      BY <2>2, <2>4, <3>2, <3>5 DEF n
  <2>5. QED
    BY <2>2, <2>3, <2>4
<1>5. CASE board \in Faulty!Device
  <2>1. Faulty!ResetPulses = << >>
    BY <1>5, ResetIs
  <2>2. Len(Faulty!ResetPulses) = 0
    BY <2>1
  <2>3. QED
    BY <1>1, <2>2
<1>6. QED
  BY <1>1, <1>2, <1>3, <1>4, <1>5 DEF AllBoards, BoardsOfIserver, Faulty!Device

\* A register of an analyse.
LEMMA AnalyseWrites ==
  ASSUME PulseInv, call.op = "analyse", Faulty!WriteRegister
  PROVE  /\ lines' \in [{"reset", "analyse"} -> 0 .. 1] /\ call.n + 1 <= Len(Faulty!AnalysePulses)
         /\ AfterAnalyse(board, lines', target', call.n + 1)
<1> DEFINE n == call.n
<1>1. /\ n \in Nat /\ n < Len(Faulty!AnalysePulses) /\ lines \in [{"reset", "analyse"} -> 0 .. 1]
      /\ lines' = Faulty!Written(Faulty!AnalysePulses[n + 1])
      /\ target' = Faulty!Sampled(lines, lines') /\ AfterAnalyse(board, lines, target, n)
      /\ board \in AllBoards
  BY DEF Faulty!WriteRegister, Faulty!Pulses, PulseInv, FaultyShape
<1> HIDE DEF n
<1>2. CASE board \in {"B004", "HELIOS"}
  <2>1. Faulty!AnalysePulses = <<Faulty!A(0), Faulty!A(1), Faulty!R(1), Faulty!R(0), Faulty!A(0)>>
    BY <1>2, AnalyseIs
  <2>2. Len(Faulty!AnalysePulses) = 5 /\ n \in 0 .. 4
    BY <1>1, <2>1
  <2>3. CASE n = 0
    <3>1. lines' = Faulty!Written(Faulty!A(0))
      BY <1>1, <2>1, <2>3
    <3>2. lines' \in [{"reset", "analyse"} -> 0 .. 1]
          /\ lines'["reset"] = lines["reset"] /\ lines'["analyse"] = 0
      BY <1>1, <3>1, WrittenIs
    <3>3. AfterAnalyse(board, lines', target', 1)
      BY <1>2, <3>2 DEF AfterAnalyse
    <3>4. QED
      BY <2>2, <2>3, <3>2, <3>3 DEF n
  <2>4. CASE n = 1
    <3>1. lines' = Faulty!Written(Faulty!A(1))
      BY <1>1, <2>1, <2>4
    <3>2. lines' \in [{"reset", "analyse"} -> 0 .. 1]
          /\ lines'["reset"] = lines["reset"] /\ lines'["analyse"] = 1
      BY <1>1, <3>1, WrittenIs
    <3>3. AfterAnalyse(board, lines', target', 2)
      BY <1>2, <3>2 DEF AfterAnalyse
    <3>4. QED
      BY <2>2, <2>4, <3>2, <3>3 DEF n
  <2>5. CASE n = 2
    <3>1. lines' = Faulty!Written(Faulty!R(1))
      BY <1>1, <2>1, <2>5
    <3>2. lines' \in [{"reset", "analyse"} -> 0 .. 1]
          /\ lines'["reset"] = 1 /\ lines'["analyse"] = lines["analyse"]
      BY <1>1, <3>1, WrittenIs
    <3>3. lines["analyse"] = 1
      BY <1>1, <1>2, <2>5 DEF AfterAnalyse
    <3>4. AfterAnalyse(board, lines', target', 3)
      BY <1>2, <3>2, <3>3 DEF AfterAnalyse
    <3>5. QED
      BY <2>2, <2>5, <3>2, <3>4 DEF n
  <2>6. CASE n = 3
    <3>1. lines' = Faulty!Written(Faulty!R(0))
      BY <1>1, <2>1, <2>6
    <3>2. lines' \in [{"reset", "analyse"} -> 0 .. 1]
          /\ lines'["reset"] = 0 /\ lines'["analyse"] = lines["analyse"]
      BY <1>1, <3>1, WrittenIs
    <3>3. lines["analyse"] = 1 /\ lines["reset"] = 1
      BY <1>1, <1>2, <2>6 DEF AfterAnalyse
    <3>4. target' = "analysed"
      BY <1>1, <3>2, <3>3 DEF Faulty!Sampled
    <3>5. AfterAnalyse(board, lines', target', 4)
      BY <1>2, <3>2, <3>3, <3>4 DEF AfterAnalyse
    <3>6. QED
      BY <2>2, <2>6, <3>2, <3>5 DEF n
  <2>7. CASE n = 4
    <3>1. lines' = Faulty!Written(Faulty!A(0))
      BY <1>1, <2>1, <2>7
    <3>2. lines' \in [{"reset", "analyse"} -> 0 .. 1]
          /\ lines'["reset"] = lines["reset"] /\ lines'["analyse"] = 0
      BY <1>1, <3>1, WrittenIs
    <3>3. lines["analyse"] = 1 /\ lines["reset"] = 0 /\ target = "analysed"
      BY <1>1, <1>2, <2>7 DEF AfterAnalyse
    <3>4. target' = "analysed"
      BY <1>1, <3>2, <3>3 DEF Faulty!Sampled
    <3>5. AfterAnalyse(board, lines', target', 5)
      BY <1>2, <3>2, <3>3, <3>4 DEF AfterAnalyse
    <3>6. QED
      BY <2>2, <2>7, <3>2, <3>5 DEF n
  <2>8. QED
    BY <2>2, <2>3, <2>4, <2>5, <2>6, <2>7
<1>3. CASE board = "B011"
  <2>1. Faulty!AnalysePulses = <<Faulty!A(1), Faulty!R(1), Faulty!R(0), Faulty!A(0)>>
    BY <1>3, AnalyseIs
  <2>2. Len(Faulty!AnalysePulses) = 4 /\ n \in 0 .. 3
    BY <1>1, <2>1
  <2>3. CASE n = 0
    <3>1. lines' = Faulty!Written(Faulty!A(1))
      BY <1>1, <2>1, <2>3
    <3>2. lines' \in [{"reset", "analyse"} -> 0 .. 1]
          /\ lines'["reset"] = lines["reset"] /\ lines'["analyse"] = 1
      BY <1>1, <3>1, WrittenIs
    <3>3. AfterAnalyse(board, lines', target', 1)
      BY <1>3, <3>2 DEF AfterAnalyse
    <3>4. QED
      BY <2>2, <2>3, <3>2, <3>3 DEF n
  <2>4. CASE n = 1
    <3>1. lines' = Faulty!Written(Faulty!R(1))
      BY <1>1, <2>1, <2>4
    <3>2. lines' \in [{"reset", "analyse"} -> 0 .. 1]
          /\ lines'["reset"] = 1 /\ lines'["analyse"] = lines["analyse"]
      BY <1>1, <3>1, WrittenIs
    <3>3. lines["analyse"] = 1
      BY <1>1, <1>3, <2>4 DEF AfterAnalyse
    <3>4. AfterAnalyse(board, lines', target', 2)
      BY <1>3, <3>2, <3>3 DEF AfterAnalyse
    <3>5. QED
      BY <2>2, <2>4, <3>2, <3>4 DEF n
  <2>5. CASE n = 2
    <3>1. lines' = Faulty!Written(Faulty!R(0))
      BY <1>1, <2>1, <2>5
    <3>2. lines' \in [{"reset", "analyse"} -> 0 .. 1]
          /\ lines'["reset"] = 0 /\ lines'["analyse"] = lines["analyse"]
      BY <1>1, <3>1, WrittenIs
    <3>3. lines["analyse"] = 1 /\ lines["reset"] = 1
      BY <1>1, <1>3, <2>5 DEF AfterAnalyse
    <3>4. target' = "analysed"
      BY <1>1, <3>2, <3>3 DEF Faulty!Sampled
    <3>5. AfterAnalyse(board, lines', target', 3)
      BY <1>3, <3>2, <3>3, <3>4 DEF AfterAnalyse
    <3>6. QED
      BY <2>2, <2>5, <3>2, <3>5 DEF n
  <2>6. CASE n = 3
    <3>1. lines' = Faulty!Written(Faulty!A(0))
      BY <1>1, <2>1, <2>6
    <3>2. lines' \in [{"reset", "analyse"} -> 0 .. 1]
          /\ lines'["reset"] = lines["reset"] /\ lines'["analyse"] = 0
      BY <1>1, <3>1, WrittenIs
    <3>3. lines["analyse"] = 1 /\ lines["reset"] = 0 /\ target = "analysed"
      BY <1>1, <1>3, <2>6 DEF AfterAnalyse
    <3>4. target' = "analysed"
      BY <1>1, <3>2, <3>3 DEF Faulty!Sampled
    <3>5. AfterAnalyse(board, lines', target', 4)
      BY <1>3, <3>2, <3>3, <3>4 DEF AfterAnalyse
    <3>6. QED
      BY <2>2, <2>6, <3>2, <3>5 DEF n
  <2>7. QED
    BY <2>2, <2>3, <2>4, <2>5, <2>6
<1>4. CASE board = "QT0"
  <2>1. Faulty!AnalysePulses = <<Faulty!RA(0, 1), Faulty!RA(1, 1), Faulty!RA(0, 1), Faulty!RA(0, 0)>>
    BY <1>4, AnalyseIs
  <2>2. Len(Faulty!AnalysePulses) = 4 /\ n \in 0 .. 3
    BY <1>1, <2>1
  <2>3. CASE n = 0
    <3>1. lines' = Faulty!Written(Faulty!RA(0, 1))
      BY <1>1, <2>1, <2>3
    <3>2. lines' \in [{"reset", "analyse"} -> 0 .. 1]
          /\ lines'["reset"] = 0 /\ lines'["analyse"] = 1
      BY <1>1, <3>1, WrittenIs
    <3>3. AfterAnalyse(board, lines', target', 1)
      BY <1>4, <3>2 DEF AfterAnalyse
    <3>4. QED
      BY <2>2, <2>3, <3>2, <3>3 DEF n
  <2>4. CASE n = 1
    <3>1. lines' = Faulty!Written(Faulty!RA(1, 1))
      BY <1>1, <2>1, <2>4
    <3>2. lines' \in [{"reset", "analyse"} -> 0 .. 1]
          /\ lines'["reset"] = 1 /\ lines'["analyse"] = 1
      BY <1>1, <3>1, WrittenIs
    <3>3. lines["analyse"] = 1
      BY <1>1, <1>4, <2>4 DEF AfterAnalyse
    <3>4. AfterAnalyse(board, lines', target', 2)
      BY <1>4, <3>2, <3>3 DEF AfterAnalyse
    <3>5. QED
      BY <2>2, <2>4, <3>2, <3>4 DEF n
  <2>5. CASE n = 2
    <3>1. lines' = Faulty!Written(Faulty!RA(0, 1))
      BY <1>1, <2>1, <2>5
    <3>2. lines' \in [{"reset", "analyse"} -> 0 .. 1]
          /\ lines'["reset"] = 0 /\ lines'["analyse"] = 1
      BY <1>1, <3>1, WrittenIs
    <3>3. lines["analyse"] = 1 /\ lines["reset"] = 1
      BY <1>1, <1>4, <2>5 DEF AfterAnalyse
    <3>4. target' = "analysed"
      BY <1>1, <3>2, <3>3 DEF Faulty!Sampled
    <3>5. AfterAnalyse(board, lines', target', 3)
      BY <1>4, <3>2, <3>3, <3>4 DEF AfterAnalyse
    <3>6. QED
      BY <2>2, <2>5, <3>2, <3>5 DEF n
  <2>6. CASE n = 3
    <3>1. lines' = Faulty!Written(Faulty!RA(0, 0))
      BY <1>1, <2>1, <2>6
    <3>2. lines' \in [{"reset", "analyse"} -> 0 .. 1]
          /\ lines'["reset"] = 0 /\ lines'["analyse"] = 0
      BY <1>1, <3>1, WrittenIs
    <3>3. lines["analyse"] = 1 /\ lines["reset"] = 0 /\ target = "analysed"
      BY <1>1, <1>4, <2>6 DEF AfterAnalyse
    <3>4. target' = "analysed"
      BY <1>1, <3>2, <3>3 DEF Faulty!Sampled
    <3>5. AfterAnalyse(board, lines', target', 4)
      BY <1>4, <3>2, <3>3, <3>4 DEF AfterAnalyse
    <3>6. QED
      BY <2>2, <2>6, <3>2, <3>5 DEF n
  <2>7. QED
    BY <2>2, <2>3, <2>4, <2>5, <2>6
<1>5. CASE board \in Faulty!Device
  <2>1. Faulty!AnalysePulses = << >>
    BY <1>5, AnalyseIs
  <2>2. Len(Faulty!AnalysePulses) = 0
    BY <2>1
  <2>3. QED
    BY <1>1, <2>2
<1>6. QED
  BY <1>1, <1>2, <1>3, <1>4, <1>5 DEF AllBoards, BoardsOfIserver, Faulty!Device

\* A step that leaves the lines alone and runs no reset and no analyse.
LEMMA QuietStep ==
  ASSUME FaultyInv, UNCHANGED <<board, lines>>, FaultyShape', call'.op \notin {"reset", "analyse"},
         \/ call'.op # "none"
         \/ result'.op \notin {"reset", "analyse"}
         \/ call.op = "none" /\ UNCHANGED <<result, target>>
  PROVE  FaultyInv'
<1>1. PulseInv'
  BY DEF FaultyInv, PulseInv
<1>2. Faulty!PulsesWork'
  BY DEF FaultyInv, Faulty!PulsesWork, Faulty!Idle, Faulty!RA
<1>3. QED
  BY <1>1, <1>2 DEF FaultyInv

\* Calls that are no reset and no analyse.
LEMMA QuietCalls ==
  ASSUME FaultyInv,
         \/ Faulty!OpenLink \/ Faulty!OpenFails \/ Faulty!AlreadyOpen \/ Faulty!CloseLink
         \/ Faulty!TestError \/ Faulty!Boot
  PROVE  FaultyInv'
<1>1. call.op = "none" /\ UNCHANGED <<board, lines, call>> /\ FaultyShape
  BY DEF Faulty!OpenLink, Faulty!OpenFails, Faulty!AlreadyOpen, Faulty!CloseLink, Faulty!TestError,
     Faulty!Boot, Faulty!Idle, Faulty!wires, FaultyInv, PulseInv
<1>2. FaultyShape' /\ call'.op \notin {"reset", "analyse"}
  BY <1>1 DEF FaultyShape, Faulty!Ops
<1>3. ASSUME NEW op \in {"open", "close", "test"}, NEW e, Faulty!Answer(op, e) PROVE FaultyInv'
  <2>1. result'.op \notin {"reset", "analyse"}
    BY <1>3 DEF Faulty!Answer
  <2>2. QED
    BY <1>1, <1>2, <2>1, QuietStep
<1>4. CASE Faulty!OpenLink
  BY <1>3, <1>4 DEF Faulty!OpenLink
<1>5. CASE Faulty!OpenFails
  BY <1>3, <1>5 DEF Faulty!OpenFails
<1>6. CASE Faulty!AlreadyOpen
  BY <1>3, <1>6 DEF Faulty!AlreadyOpen
<1>7. CASE Faulty!CloseLink
  BY <1>3, <1>7 DEF Faulty!CloseLink
<1>8. CASE Faulty!TestError
  BY <1>3, <1>8 DEF Faulty!TestError
<1>9. CASE Faulty!Boot
  <2>1. result'.op \notin {"reset", "analyse"}
    BY <1>9 DEF Faulty!Boot
  <2>2. QED
    BY <1>1, <1>2, <2>1, QuietStep
<1>10. QED
  BY <1>4, <1>5, <1>6, <1>7, <1>8, <1>9

\* Reads and writes.
LEMMA QuietTransfers ==
  ASSUME FaultyInv,
         \/ \E op \in {"read", "write"}, c \in {0, 2}, t \in {1} : Faulty!Transfer(op, c, t)
         \/ Faulty!PollByte \/ Faulty!PollTimeout \/ Faulty!DeviceTransfer \/ Faulty!DeviceError
         \/ Faulty!HostTransfer
  PROVE  FaultyInv'
<1>1. UNCHANGED <<board, lines>> /\ FaultyShape
  BY DEF Faulty!Transfer, Faulty!PollByte, Faulty!PollTimeout, Faulty!DeviceTransfer, Faulty!DeviceError,
     Faulty!HostTransfer, Faulty!wires, FaultyInv, PulseInv
<1>2. ASSUME call.op \in {"read", "write"}, NEW told, Faulty!Return(told) PROVE FaultyInv'
  <2>1. call' = Faulty!NoCall /\ result'.op \notin {"reset", "analyse"}
    BY <1>2 DEF Faulty!Return, Faulty!Answer
  <2>2. FaultyShape' /\ call'.op = "none"
    BY <2>1 DEF FaultyShape, Faulty!NoCall, Faulty!Ops
  <2>3. QED
    BY <1>1, <2>1, <2>2, QuietStep
<1>3. ASSUME NEW op \in {"read", "write"}, NEW c \in {0, 2}, NEW t \in {1}, Faulty!Transfer(op, c, t)
      PROVE FaultyInv'
  <2>1. CASE call' = [op |-> op, count |-> c, timeout |-> t, n |-> 0]
    <3>1. FaultyShape' /\ call'.op \notin {"reset", "analyse", "none"}
      BY <2>1 DEF FaultyShape, Faulty!Ops
    <3>2. QED
      BY <1>1, <3>1, QuietStep
  <2>2. CASE call' = call /\ \E e : Faulty!Answer(op, e)
    <3>1. call.op = "none"
      BY <1>3 DEF Faulty!Transfer, Faulty!Idle
    <3>2. FaultyShape' /\ call'.op \notin {"reset", "analyse"} /\ result'.op \notin {"reset", "analyse"}
      BY <1>1, <2>2, <3>1 DEF FaultyShape, Faulty!Ops, Faulty!Answer
    <3>3. QED
      BY <1>1, <3>2, QuietStep
  <2>3. QED
    BY <1>3, <2>1, <2>2 DEF Faulty!Transfer
<1>4. CASE Faulty!PollByte
  <2>1. CASE \E told : Faulty!Return(told)
    BY <1>2, <1>4, <2>1 DEF Faulty!PollByte, Faulty!Transferring
  <2>2. CASE call' = [call EXCEPT !.n = @ + 1]
    <3>1. call.op \in {"read", "write"}
      BY <1>4 DEF Faulty!PollByte, Faulty!Transferring
    <3>2. FaultyShape' /\ call'.op = call.op
      BY <1>1, <2>2 DEF FaultyShape
    <3>3. QED
      BY <1>1, <3>1, <3>2, QuietStep
  <2>3. QED
    BY <1>4, <2>1, <2>2 DEF Faulty!PollByte
<1>5. CASE Faulty!PollTimeout
  BY <1>2, <1>5 DEF Faulty!PollTimeout, Faulty!Transferring
<1>6. CASE Faulty!DeviceTransfer
  BY <1>2, <1>6 DEF Faulty!DeviceTransfer, Faulty!Transferring
<1>7. CASE Faulty!DeviceError
  BY <1>2, <1>7 DEF Faulty!DeviceError, Faulty!Transferring
<1>8. CASE Faulty!HostTransfer
  BY <1>2, <1>8 DEF Faulty!HostTransfer, Faulty!Transferring
<1>9. QED
  BY <1>3, <1>4, <1>5, <1>6, <1>7, <1>8

\* A reset or an analyse goes on, or ends.
LEMMA PulsesKeep ==
  ASSUME FaultyInv,
         \/ \E op \in {"reset", "analyse"} : Faulty!StartPulses(op)
         \/ Faulty!WriteRegister \/ Faulty!PulsesEnd \/ Faulty!PulsesFail
  PROVE  FaultyInv'
<1>1. board' = board /\ board \in AllBoards /\ FaultyShape /\ lines \in [{"reset", "analyse"} -> 0 .. 1]
  BY DEF Faulty!StartPulses, Faulty!WriteRegister, Faulty!PulsesEnd, Faulty!PulsesFail, FaultyInv, PulseInv
<1>2. Faulty!ResetPulses' = Faulty!ResetPulses /\ Faulty!AnalysePulses' = Faulty!AnalysePulses
  BY <1>1 DEF Faulty!ResetPulses, Faulty!AnalysePulses, Faulty!R, Faulty!A, Faulty!RA, Faulty!Polled,
     Faulty!Device
<1>3. Len(Faulty!ResetPulses) \in Nat /\ Len(Faulty!AnalysePulses) \in Nat
  BY <1>1, ResetIs, AnalyseIs DEF AllBoards, BoardsOfIserver, Faulty!Device
<1>4. ASSUME NEW op \in {"reset", "analyse"}, Faulty!StartPulses(op) PROVE FaultyInv'
  <2>1. call' = [Faulty!NoCall EXCEPT !.op = op] /\ UNCHANGED <<lines, target>>
    BY <1>4 DEF Faulty!StartPulses, Faulty!wires
  <2>2. FaultyShape' /\ call'.op = op /\ call'.n = 0
    BY <2>1 DEF FaultyShape, Faulty!NoCall, Faulty!Ops
  <2>3. AfterReset(board, lines, target, 0) /\ AfterAnalyse(board, lines, target, 0)
    BY DEF AfterReset, AfterAnalyse
  <2>4. PulseInv'
    BY <1>1, <1>2, <1>3, <2>1, <2>2, <2>3 DEF PulseInv
  <2>5. Faulty!PulsesWork'
    BY <2>2 DEF Faulty!PulsesWork, Faulty!Idle
  <2>6. QED
    BY <2>4, <2>5 DEF FaultyInv
<1>5. CASE Faulty!WriteRegister
  <2>1. call' = [call EXCEPT !.n = call.n + 1] /\ call.op \in {"reset", "analyse"}
    BY <1>5 DEF Faulty!WriteRegister, Faulty!Pulsing
  <2>2. FaultyShape' /\ call'.op = call.op /\ call'.n = call.n + 1
    BY <1>1, <2>1 DEF FaultyShape
  <2>3. CASE call.op = "reset"
    <3>1. /\ lines' \in [{"reset", "analyse"} -> 0 .. 1] /\ call.n + 1 <= Len(Faulty!ResetPulses)
          /\ AfterReset(board, lines', target', call.n + 1)
      BY <1>5, <2>3, ResetWrites DEF FaultyInv
    <3>2. QED
      BY <1>1, <1>2, <2>2, <2>3, <3>1 DEF PulseInv, FaultyInv, Faulty!PulsesWork, Faulty!Idle
  <2>4. CASE call.op = "analyse"
    <3>1. /\ lines' \in [{"reset", "analyse"} -> 0 .. 1] /\ call.n + 1 <= Len(Faulty!AnalysePulses)
          /\ AfterAnalyse(board, lines', target', call.n + 1)
      BY <1>5, <2>4, AnalyseWrites DEF FaultyInv
    <3>2. QED
      BY <1>1, <1>2, <2>2, <2>4, <3>1 DEF PulseInv, FaultyInv, Faulty!PulsesWork, Faulty!Idle
  <2>5. QED
    BY <2>1, <2>3, <2>4
<1>6. ASSUME NEW told, Faulty!Return(told), lines' \in [{"reset", "analyse"} -> 0 .. 1], Faulty!PulsesWork'
      PROVE  FaultyInv'
  <2>1. call' = Faulty!NoCall
    BY <1>6 DEF Faulty!Return
  <2>2. FaultyShape' /\ call'.op = "none"
    BY <2>1 DEF FaultyShape, Faulty!NoCall, Faulty!Ops
  <2>3. PulseInv'
    BY <1>1, <1>6, <2>2 DEF PulseInv
  <2>4. QED
    BY <1>6, <2>3 DEF FaultyInv
<1>7. CASE Faulty!PulsesEnd
  <2>1. /\ call.op \in {"reset", "analyse"} /\ call.n = Len(Faulty!Pulses(call.op))
        /\ Faulty!Return(Faulty!SUCCEEDED)
        /\ IF board \in Faulty!Device
           THEN /\ target' = IF call.op = "reset" THEN "reset" ELSE "analysed"
                /\ lines' = Faulty!RA(0, 0)
           ELSE UNCHANGED <<lines, target>>
    BY <1>7 DEF Faulty!PulsesEnd, Faulty!Pulsing
  <2>2. lines' = Faulty!RA(0, 0) /\ target' = IF call.op = "reset" THEN "reset" ELSE "analysed"
    <3>1. CASE board \in Faulty!Device
      BY <2>1, <3>1
    <3>2. CASE board \notin Faulty!Device
      <4>1. UNCHANGED <<lines, target>> /\ board \in {"B004", "B011", "HELIOS", "QT0"}
        BY <1>1, <2>1, <3>2 DEF AllBoards, BoardsOfIserver, Faulty!Device
      <4>2. lines["reset"] = 0 /\ lines["analyse"] = 0
            /\ target = IF call.op = "reset" THEN "reset" ELSE "analysed"
        <5>1. CASE call.op = "reset"
          <6>1. call.n = Len(Faulty!ResetPulses) /\ AfterReset(board, lines, target, call.n)
            BY <2>1, <5>1 DEF Faulty!Pulses, FaultyInv, PulseInv
          <6>2. CASE board = "QT0"
            <7>1. call.n = 2
              BY <6>1, <6>2, ResetIs
            <7>2. QED
              BY <5>1, <6>1, <6>2, <7>1 DEF AfterReset
          <6>3. CASE board # "QT0"
            <7>1. call.n = 4
              BY <4>1, <6>1, <6>3, ResetIs
            <7>2. QED
              BY <4>1, <5>1, <6>1, <6>3, <7>1 DEF AfterReset
          <6>4. QED
            BY <6>2, <6>3
        <5>2. CASE call.op = "analyse"
          <6>1. call.n = Len(Faulty!AnalysePulses) /\ AfterAnalyse(board, lines, target, call.n)
            BY <2>1, <5>2 DEF Faulty!Pulses, FaultyInv, PulseInv
          <6>2. CASE board \in {"B004", "HELIOS"}
            <7>1. call.n = 5
              BY <6>1, <6>2, AnalyseIs
            <7>2. QED
              BY <5>2, <6>1, <6>2, <7>1 DEF AfterAnalyse
          <6>3. CASE board \in {"B011", "QT0"}
            <7>1. call.n = 4
              BY <6>1, <6>3, AnalyseIs
            <7>2. QED
              BY <5>2, <6>1, <6>3, <7>1 DEF AfterAnalyse
          <6>4. QED
            BY <4>1, <6>2, <6>3
        <5>3. QED
          BY <2>1, <5>1, <5>2
      <4>3. lines = Faulty!RA(0, 0)
        BY <1>1, <4>2 DEF Faulty!RA
      <4>4. QED
        BY <4>1, <4>2, <4>3
    <3>3. QED
      BY <3>1, <3>2
  <2>3. lines' \in [{"reset", "analyse"} -> 0 .. 1]
    BY <2>2 DEF Faulty!RA
  <2>4. result'.op = call.op
    BY <2>1 DEF Faulty!Return, Faulty!Answer
  <2>5. Faulty!PulsesWork'
    <3>1. Faulty!RA(0, 0)' = Faulty!RA(0, 0)
      BY DEF Faulty!RA
    <3>2. QED
      BY <2>1, <2>2, <2>4, <3>1 DEF Faulty!PulsesWork
  <2>6. QED
    BY <1>6, <2>1, <2>3, <2>5
<1>8. CASE Faulty!PulsesFail
  <2>1. PICK told \in {Faulty!ER_LINK_BAD, Faulty!ER_LINK_CANT} : Faulty!Return(told)
    BY <1>8 DEF Faulty!PulsesFail
  <2>2. result'.code = told /\ lines' = lines
    BY <1>8, <2>1 DEF Faulty!Return, Faulty!Answer, Faulty!PulsesFail, Faulty!wires
  <2>3. told # Faulty!SUCCEEDED
    BY DEF Faulty!ER_LINK_BAD, Faulty!ER_LINK_CANT, Faulty!SUCCEEDED
  <2>4. Faulty!PulsesWork'
    BY <2>2, <2>3 DEF Faulty!PulsesWork, Faulty!SUCCEEDED
  <2>5. QED
    BY <1>1, <1>6, <2>1, <2>2, <2>4
<1>9. QED
  BY <1>4, <1>5, <1>7, <1>8

\* The first state, and every step.
LEMMA FaultyInit == ASSUME Faulty!Init PROVE FaultyInv
<1>1. FaultyShape /\ call.op = "none" /\ result.op = "none"
  BY DEF Faulty!Init, FaultyShape, Faulty!NoCall, Faulty!Ops
<1>2. board \in AllBoards /\ lines \in [{"reset", "analyse"} -> 0 .. 1]
  BY DEF Faulty!Init
<1>3. QED
  BY <1>1, <1>2 DEF FaultyInv, PulseInv, Faulty!PulsesWork
\* Every step of the boards whose transputer has the error flag keeps FaultyInv.
LEMMA FaultyNext == ASSUME FaultyInv, Faulty!Next PROVE FaultyInv'
<1>1. \/ \E op \in {"read", "write"}, c \in {0, 2}, t \in {1} : Faulty!Transfer(op, c, t)
      \/ Faulty!PollByte \/ Faulty!PollTimeout \/ Faulty!DeviceTransfer \/ Faulty!DeviceError
      \/ Faulty!HostTransfer
      \/ Faulty!OpenLink \/ Faulty!OpenFails \/ Faulty!AlreadyOpen \/ Faulty!CloseLink
      \/ Faulty!TestError \/ Faulty!Boot
      \/ \E op \in {"reset", "analyse"} : Faulty!StartPulses(op)
      \/ Faulty!WriteRegister \/ Faulty!PulsesEnd \/ Faulty!PulsesFail
  BY DEF Faulty!Next
<1>2. QED
  BY <1>1, QuietCalls, QuietTransfers, PulsesKeep

-----------------------------------------------------------------------------
(* BoardsRight.                                                            *)

\* Nothing happens.
LEMMA BoardsStutter ==
  ASSUME UNCHANGED vars
  PROVE  (IoInv => IoInv') /\ (FaultyInv => FaultyInv') /\ (TimerInv => TimerInv')
<1>1. /\ UNCHANGED <<board, active, handles, vme, current, devtimeout, bytes, position, lines, target, lost>>
      /\ UNCHANGED <<flag, call, result>>
      /\ UNCHANGED <<now, pc, deadline, asked, waited, ended>>
  BY DEF vars, driverOwn, timerOwn, shared
<1>2. IoInv => IoInv'
  BY <1>1, KeptStays, WiresStay, RunningStays, AnswerStays DEF IoInv
<1>3. FaultyInv => FaultyInv'
  <2>1. Faulty!ResetPulses' = Faulty!ResetPulses /\ Faulty!AnalysePulses' = Faulty!AnalysePulses
    BY <1>1 DEF Faulty!ResetPulses, Faulty!AnalysePulses, Faulty!R, Faulty!A, Faulty!RA, Faulty!Polled,
       Faulty!Device
  <2>2. PulseInv => PulseInv'
    BY <1>1, <2>1 DEF PulseInv, FaultyShape, AfterReset, AfterAnalyse, AllBoards, Faulty!Ops
  <2>3. Faulty!PulsesWork => Faulty!PulsesWork'
    BY <1>1 DEF Faulty!PulsesWork, Faulty!Idle, Faulty!RA, Faulty!SUCCEEDED
  <2>4. QED
    BY <2>2, <2>3 DEF FaultyInv
<1>4. TimerInv => TimerInv'
  BY <1>1 DEF TimerInv
<1>5. QED
  BY <1>2, <1>3, <1>4

\* A board is read and written under the timeout it was given and held exactly
\* while its link is open, though the VME device of a B011, which its driver never
\* closes, also after; no byte is lost and the position stays near the
\* threshold, for all lengths, timeouts and thresholds; the reset and analyse of
\* every board work, whatever calls fail in between; and a wait of the B004 ends
\* neither early nor late, for all delays that fit in a word.
THEOREM BoardsAreRight == ASSUME DelaysFit PROVE Spec => []BoardsRight
<1> DEFINE Inv == /\ part = "io" => IoInv
                  /\ part = "faulty" => FaultyInv
                  /\ part = "timer" => TimerInv
<1>1. Init => Inv
  <2>1. Init => /\ part = "io" => Io!Init
                /\ part = "faulty" => Faulty!Init
                /\ part = "timer" => Timer!Init
    BY DEF Init, InitOwn, Lops, Driver, Net, Stream
  <2>2. QED
    BY <2>1, IoInit, FaultyInit, TimerInit
<1>2. Inv /\ [Next]_vars => Inv'
  <2> SUFFICES ASSUME Inv, [Next]_vars PROVE Inv'
    OBVIOUS
  <2>1. part' = part
    BY PartStays
  <2>2. \/ UNCHANGED vars
        \/ /\ part = "io" => Io!Next
           /\ part = "faulty" => Faulty!Next
           /\ part = "timer" => Timer!Next
    BY DEF Next, StreamOver
  <2>3. CASE UNCHANGED vars
    BY <2>1, <2>3, BoardsStutter
  <2>4. CASE /\ part = "io" => Io!Next
             /\ part = "faulty" => Faulty!Next
             /\ part = "timer" => Timer!Next
    BY <2>1, <2>4, IoNext, FaultyNext, TimerNext
  <2>5. QED
    BY <2>2, <2>3, <2>4
<1>3. Inv => BoardsRight
  <2>1. FaultyInv => Faulty!PulsesWork
    BY DEF FaultyInv
  <2>2. QED
    BY <2>1, IoFollows, TimerFollows DEF BoardsRight
<1>4. QED
  BY <1>1, <1>2, <1>3, PTL DEF Spec

-----------------------------------------------------------------------------
(* The words of a stopped target.                                          *)

\* A number is what division leaves of it.
LEMMA Divided ==
  ASSUME NEW m \in Nat \ {0}, NEW x \in Int
  PROVE  x = (x \div m) * m + (x % m) /\ x \div m \in Int /\ x % m \in 0 .. m - 1
OBVIOUS

\* A quotient and a remainder are the only ones.
LEMMA Division ==
  ASSUME NEW m \in Nat \ {0}, NEW q \in Int, NEW r \in 0 .. m - 1
  PROVE  (q * m + r) \div m = q /\ (q * m + r) % m = r
<1>1. (q * m + r) \div m = q
  OBVIOUS
<1>2. (q * m + r) % m = r
  OBVIOUS
<1>3. QED
  BY <1>1, <1>2

\* Numbers that differ by a multiple leave the same remainder.
LEMMA SameRest ==
  ASSUME NEW m \in Nat \ {0}, NEW x \in Int, NEW q \in Int
  PROVE  (q * m + x) % m = x % m /\ (q * m + x) \div m = q + (x \div m)
<1> DEFINE r == x % m
<1> DEFINE d == x \div m
<1>1. x = d * m + r /\ d \in Int /\ r \in 0 .. m - 1
  BY Divided
<1> HIDE DEF r, d
<1>2. q * m + x = (q + d) * m + r /\ q + d \in Int
  BY <1>1
<1>3. ((q + d) * m + r) % m = r /\ ((q + d) * m + r) \div m = q + d
  BY <1>1, <1>2, Division
<1>4. QED
  BY <1>2, <1>3 DEF r, d

\* A sum may be reduced before or after it is taken.
LEMMA RestOfSum ==
  ASSUME NEW m \in Nat \ {0}, NEW x \in Int, NEW y \in Int
  PROVE  ((x % m) + y) % m = (x + y) % m
<1> DEFINE r == x % m
<1> DEFINE d == x \div m
<1>1. x = d * m + r /\ d \in Int /\ r \in 0 .. m - 1
  BY Divided
<1> HIDE DEF r, d
<1>2. r + y \in Int /\ x + y = d * m + (r + y)
  BY <1>1
<1>3. (d * m + (r + y)) % m = (r + y) % m
  BY <1>1, <1>2, SameRest
<1>4. QED
  BY <1>2, <1>3 DEF r

\* To divide by a product is to divide by its factors in turn.
LEMMA DividedTwice ==
  ASSUME NEW m \in Nat \ {0}, NEW n \in Nat \ {0}, NEW x \in Int
  PROVE  x \div (m * n) = (x \div m) \div n
<1> DEFINE r == x % m
<1> DEFINE d == x \div m
<1> DEFINE s == d % n
<1> DEFINE e == d \div n
<1>1. x = d * m + r /\ d \in Int /\ r \in 0 .. m - 1
  BY Divided
<1>2. d = e * n + s /\ e \in Int /\ s \in 0 .. n - 1
  BY <1>1, Divided
<1> HIDE DEF r, d, s, e
<1>3. x = e * (m * n) + (s * m + r)
  BY <1>1, <1>2
<1>4. s * m + r \in 0 .. m * n - 1
  <2>1. s * m \in Nat /\ s * m <= (n - 1) * m
    BY <1>2
  <2>2. (n - 1) * m = m * n - m
    OBVIOUS
  <2>3. QED
    BY <1>1, <2>1, <2>2
<1>5. m * n \in Nat \ {0}
  OBVIOUS
<1>6. (e * (m * n) + (s * m + r)) \div (m * n) = e
  BY <1>2, <1>4, <1>5, Division
<1>7. QED
  BY <1>3, <1>6 DEF d, e

\* What is less than a product has a quotient less than the other factor.
LEMMA SmallQuotient ==
  ASSUME NEW m \in Nat \ {0}, NEW n \in Nat \ {0}, NEW x \in 0 .. m * n - 1
  PROVE  x \div m \in 0 .. n - 1
<1> DEFINE r == x % m
<1> DEFINE d == x \div m
<1>1. x \in Int /\ x = d * m + r /\ d \in Int /\ r \in 0 .. m - 1
  BY Divided
<1> HIDE DEF r, d
<1>2. d >= 0
  <2> SUFFICES ASSUME d <= -1 PROVE FALSE
    BY <1>1
  <2>1. d * m <= -m
    BY <1>1
  <2>2. QED
    BY <1>1, <2>1
<1>3. d < n
  <2> SUFFICES ASSUME d >= n PROVE FALSE
    BY <1>1
  <2>1. d * m >= n * m
    BY <1>1
  <2>2. QED
    BY <1>1, <2>1
<1>4. QED
  BY <1>1, <1>2, <1>3 DEF d

\* The constants of the words.
LEMMA WordConstants == /\ Kinds \subseteq {16, 32} /\ B \in Nat \ {0} /\ B % 2 = 0
                         /\ MaxWords \in Nat \ {0}
BY LinksConstants DEF Memory!MemoryConstants

\* A number of two bytes is put together of them again.
LEMMA TwoBytes ==
  ASSUME NEW a \in 0 .. B * B - 1
  PROVE  (a % B) + ((a \div B) % B) * B = a
<1>1. B \in Nat \ {0} /\ a \in Int
  BY WordConstants
<1>2. a \div B \in 0 .. B - 1
  BY <1>1, SmallQuotient
<1>3. (a \div B) % B = a \div B
  <2>1. \A d \in 0 .. B - 1 : (0 * B + d) % B = d
    BY <1>1, Division
  <2>2. \A d \in 0 .. B - 1 : d % B = d
    BY <1>1, <2>1
  <2>3. QED
    BY <1>2, <2>2
<1>4. a = (a \div B) * B + (a % B) /\ a \div B \in Int /\ a % B \in Int
  BY <1>1, Divided
<1>5. QED
  BY <1>1, <1>3, <1>4

\* The four bytes of a number are put together to it again.
LEMMA FourBytes ==
  ASSUME NEW a \in 0 .. B * B * B * B - 1
  PROVE  (a % B) + ((a \div B) % B) * B + ((a \div (B * B)) % B) * (B * B)
           + ((a \div (B * B * B)) % B) * (B * B * B) = a
<1>1. B \in Nat \ {0} /\ a \in Int /\ B * B \in Nat \ {0} /\ B * B * B \in Nat \ {0}
  BY WordConstants
<1> DEFINE d == a \div B
<1> DEFINE e == d \div B
<1> DEFINE f == e \div B
<1> DEFINE p == a % B
<1> DEFINE q == d % B
<1> DEFINE r == e % B
<1>2. a = d * B + p /\ d \in Int /\ p \in Int
  BY <1>1, Divided
<1>3. d = e * B + q /\ e \in Int /\ q \in Int
  BY <1>1, <1>2, Divided
<1>4. e = f * B + r /\ f \in Int /\ r \in Int
  BY <1>1, <1>3, Divided
<1>5. a \div (B * B) = e
  BY <1>1, DividedTwice
<1>6. a \div (B * B * B) = f
  BY <1>1, <1>5, DividedTwice
<1>7. f \in 0 .. B - 1
  BY <1>1, <1>6, SmallQuotient
<1>8. f % B = f
  <2> HIDE DEF f
  <2>1. (0 * B + f) % B = f
    BY <1>1, <1>7, Division
  <2>2. 0 * B + f = f
    BY <1>1, <1>4
  <2>3. QED
    BY <2>1, <2>2
<1> HIDE DEF d, e, f, p, q, r
<1>9. p + q * B + r * (B * B) + f * (B * B * B) = a
  <2>1. e * (B * B) = (f * B + r) * (B * B)
    BY <1>4
  <2>2. (f * B + r) * (B * B) = f * (B * B * B) + r * (B * B)
    BY <1>1, <1>4
  <2>3. d * B = e * (B * B) + q * B
    BY <1>1, <1>3
  <2>4. QED
    BY <1>1, <1>2, <1>3, <1>4, <2>1, <2>2, <2>3
<1>10. QED
  BY <1>5, <1>6, <1>8, <1>9 DEF d, e, p, q, r, f

\* The width of the target: how many bytes a word of it has, and how many addresses.
LEMMA Widths ==
  ASSUME bits \in Kinds
  PROVE  /\ \/ bits = 16 /\ Memory!Bytes = 2 /\ Memory!Space = B * B
            \/ bits = 32 /\ Memory!Bytes = 4 /\ Memory!Space = B * B * B * B
         /\ Memory!Bytes \in Nat \ {0} /\ Memory!Space \in Nat \ {0}
         /\ Memory!Space % Memory!Bytes = 0
         /\ 0 \in Memory!Words
<1>1. PICK n \in Nat \ {0} : B = 2 * n
  <2>1. B = (B \div 2) * 2 + (B % 2) /\ B \div 2 \in Int /\ B > 0
    BY WordConstants, Divided
  <2>2. B = 2 * (B \div 2) /\ B \div 2 \in Nat \ {0}
    BY <2>1, WordConstants
  <2>3. QED
    BY <2>2
<1>2. B * B \in Nat \ {0} /\ B * B * B * B \in Nat \ {0}
  BY WordConstants
<1>3. (B * B) % 2 = 0
  <2> DEFINE k == n * B
  <2>1. B * B = k * 2 + 0 /\ k \in Int
    BY <1>1
  <2> HIDE DEF k
  <2>2. (k * 2 + 0) % 2 = 0
    BY <2>1, Division
  <2>3. QED
    BY <2>1, <2>2
<1>4. (B * B * B * B) % 4 = 0
  <2> DEFINE k == n * n * B * B
  <2>1. B * B * B * B = k * 4 + 0 /\ k \in Int
    BY <1>1
  <2> HIDE DEF k
  <2>2. (k * 4 + 0) % 4 = 0
    BY <2>1, Division
  <2>3. QED
    BY <2>1, <2>2
<1>5. \/ bits = 16 /\ Memory!Bytes = 2 /\ Memory!Space = B * B
      \/ bits = 32 /\ Memory!Bytes = 4 /\ Memory!Space = B * B * B * B
  BY WordConstants DEF Memory!Bytes, Memory!Space
<1>6. Memory!Bytes \in Nat \ {0} /\ Memory!Space \in Nat \ {0} /\ Memory!Space % Memory!Bytes = 0
  BY <1>2, <1>3, <1>4, <1>5
<1>7. 0 \in Memory!Words
  BY <1>5, <1>6 DEF Memory!Words
<1>8. QED
  BY <1>5, <1>6, <1>7

\* The target takes from a command the address it was made of.
LEMMA AddressTold ==
  ASSUME bits \in Kinds, NEW a \in Memory!Words
  PROVE  Memory!Address(Memory!Command(a)) = a
<1> DEFINE s == Memory!Signed(a)
<1> DEFINE m == B * B * B * B
<1> DEFINE x == s % m
<1> DEFINE W == <<1, B, B * B, B * B * B>>
<1>1. a \in 0 .. Memory!Space - 1 /\ a % Memory!Bytes = 0
  BY DEF Memory!Words
<1>2. B \in Nat \ {0} /\ m \in Nat \ {0} /\ B * B \in Nat \ {0} /\ B * B * B \in Nat \ {0}
  BY WordConstants
<1>3. s = a \/ s = a - Memory!Space
  BY <1>1 DEF Memory!Signed
<1>4. W[1] = 1 /\ W[2] = B /\ W[3] = B * B /\ W[4] = B * B * B
  OBVIOUS
<1>5. Memory!Command(a) = [i \in 1 .. Memory!Bytes |-> (x \div W[i]) % B]
  <2>1. Memory!LongBytes(a) = [i \in 1 .. 4 |-> (x \div W[i]) % B]
    BY DEF Memory!LongBytes, Memory!Weight
  <2>2. Memory!Bytes \in {2, 4}
    BY Widths
  <2>3. Memory!Command(a) = [i \in 1 .. Memory!Bytes |-> Memory!LongBytes(a)[i]]
    BY DEF Memory!Command, Memory!AsBytes
  <2>4. \A i \in 1 .. Memory!Bytes : Memory!LongBytes(a)[i] = (x \div W[i]) % B
    <3> HIDE DEF x, W
    <3>1. 1 .. Memory!Bytes \subseteq 1 .. 4
      BY <2>2
    <3>2. QED
      BY <2>1, <3>1
  <2>5. QED
    BY <2>3, <2>4
<1> HIDE DEF W
<1>6. \A i \in 1 .. Memory!Bytes : Memory!Command(a)[i] = (x \div W[i]) % B
  <2> HIDE DEF x
  <2>1. QED
    BY <1>5
<1>7. x \div 1 = x /\ x \in Int
  BY <1>1, <1>2, <1>3, Widths
<1>8. CASE bits = 16
  <2>1. Memory!Bytes = 2 /\ Memory!Space = B * B
    BY <1>8, Widths
  <2>2. \E k \in Int : x = (k * B) * B + a
    <3>1. CASE s = a
      <4>1. a < m
        <5>1. B * B <= (B * B) * (B * B)
          BY <1>2
        <5>2. QED
          BY <1>1, <1>2, <2>1, <5>1
      <4>2. (0 * m + a) % m = a
        BY <1>1, <1>2, <2>1, <4>1, Division
      <4>3. x = (0 * B) * B + a
        BY <1>1, <1>2, <2>1, <3>1, <4>2
      <4>4. QED
        BY <4>3
    <3>2. CASE s = a - Memory!Space
      <4>1. m - B * B >= 0 /\ m = (B * B) * (B * B)
        BY <1>2
      <4>2. a - B * B + m \in 0 .. m - 1
        BY <1>1, <1>2, <2>1, <4>1
      <4>3. ((-1) * m + (a - B * B + m)) % m = a - B * B + m
        <5> DEFINE y == a - B * B + m
        <5> HIDE DEF y, m
        <5>1. y \in 0 .. m - 1
          BY <4>2 DEF y
        <5>2. ((-1) * m + y) % m = y
          BY <1>2, <5>1, Division
        <5>3. QED
          BY <5>2 DEF y
      <4>4. s = (-1) * m + (a - B * B + m)
        BY <1>1, <1>2, <2>1, <3>2
      <4>5. x = a - B * B + m
        BY <4>3, <4>4
      <4>6. a - B * B + m = ((B * B - 1) * B) * B + a /\ B * B - 1 \in Int
        BY <1>1, <1>2, <2>1
      <4>7. QED
        BY <4>5, <4>6
    <3>3. QED
      BY <1>3, <3>1, <3>2
  <2>3. PICK k \in Int : x = (k * B) * B + a
    BY <2>2
  <2> HIDE DEF x
  <2>4. x % B = a % B /\ x \div B = k * B + (a \div B)
    <3>1. k * B \in Int /\ a \in Int
      BY <1>1, <1>2
    <3>2. QED
      BY <1>2, <2>3, <3>1, SameRest
  <2>5. (x \div B) % B = (a \div B) % B
    <3> DEFINE y == a \div B
    <3>1. y \in Int
      BY <1>1, <1>2
    <3> HIDE DEF y
    <3>2. (k * B + y) % B = y % B
      BY <1>2, <3>1, SameRest
    <3>3. QED
      BY <2>4, <3>2 DEF y
  <2>6. Memory!Command(a)[1] = x % B /\ Memory!Command(a)[2] = (x \div B) % B
    <3>1. 1 \in 1 .. Memory!Bytes /\ 2 \in 1 .. Memory!Bytes
      BY <2>1
    <3>2. Memory!Command(a)[1] = (x \div W[1]) % B /\ Memory!Command(a)[2] = (x \div W[2]) % B
      BY <1>6, <3>1
    <3>3. QED
      BY <1>4, <1>7, <3>2
  <2>7. (a % B) * 1 + ((a \div B) % B) * B = a
    <3>1. a \in 0 .. B * B - 1
      BY <1>1, <2>1
    <3>2. (a % B) + ((a \div B) % B) * B = a /\ a % B \in Int
      BY <1>2, <3>1, TwoBytes
    <3>3. QED
      BY <3>2
  <2>8. Memory!Address(Memory!Command(a)) = a - (a % Memory!Bytes)
    <3>1. Memory!Command(a)[1] * W[1] + Memory!Command(a)[2] * W[2] = a
      BY <1>4, <2>4, <2>5, <2>6, <2>7
    <3>2. QED
      BY <1>8, <3>1 DEF Memory!Address, Memory!Weight, W
  <2>9. QED
    BY <1>1, <2>1, <2>8
<1>9. CASE bits = 32
  <2>1. Memory!Bytes = 4 /\ Memory!Space = m
    BY <1>9, Widths
  <2>2. x = a
    <3>1. CASE s = a
      <4>1. (0 * m + a) % m = a
        BY <1>1, <1>2, <2>1, Division
      <4>2. QED
        BY <1>1, <1>2, <2>1, <3>1, <4>1
    <3>2. CASE s = a - Memory!Space
      <4>1. ((-1) * m + a) % m = a
        BY <1>1, <1>2, <2>1, Division
      <4>2. s = (-1) * m + a
        BY <1>1, <1>2, <2>1, <3>2
      <4>3. QED
        BY <4>1, <4>2
    <3>3. QED
      BY <1>3, <3>1, <3>2
  <2> HIDE DEF x
  <2>3. /\ Memory!Command(a)[1] = a % B /\ Memory!Command(a)[2] = (a \div B) % B
        /\ Memory!Command(a)[3] = (a \div (B * B)) % B
        /\ Memory!Command(a)[4] = (a \div (B * B * B)) % B
    <3>1. \A i \in 1 .. 4 : Memory!Command(a)[i] = (x \div W[i]) % B
      BY <1>6, <2>1
    <3>2. QED
      BY <1>4, <1>7, <2>2, <3>1
  <2>4. (a % B) * 1 + ((a \div B) % B) * B + ((a \div (B * B)) % B) * (B * B)
          + ((a \div (B * B * B)) % B) * (B * B * B) = a
    <3>1. a \in 0 .. B * B * B * B - 1
      BY <1>1, <2>1
    <3>2. (a % B) * 1 = a % B
      BY <1>2, <3>1
    <3>3. QED
      BY <3>1, <3>2, FourBytes
  <2>5. Memory!Address(Memory!Command(a)) = a - (a % Memory!Bytes)
    <3>1. Memory!Command(a)[1] * W[1] + Memory!Command(a)[2] * W[2] + Memory!Command(a)[3] * W[3]
            + Memory!Command(a)[4] * W[4] = a
      BY <1>4, <2>3, <2>4
    <3>2. QED
      BY <1>9, <3>1 DEF Memory!Address, Memory!Weight, W
  <2>6. QED
    BY <1>1, <2>1, <2>5
<1>10. QED
  BY <1>8, <1>9, Widths

\* The address behind a word is that of a word, also behind the last.
LEMMA NextIsWord ==
  ASSUME bits \in Kinds, NEW a \in Memory!Words
  PROVE  Memory!NextAddress(a) \in Memory!Words
<1> DEFINE m == Memory!Space
<1> DEFINE n == Memory!Bytes
<1>1. m \in Nat \ {0} /\ n \in Nat \ {0} /\ m % n = 0
  BY Widths
<1>2. a \in 0 .. m - 1 /\ a % n = 0
  BY DEF Memory!Words
<1> HIDE DEF m, n
<1>3. PICK j \in Int, k \in Int : a = j * n /\ m = k * n
  <2>1. a = (a \div n) * n + (a % n) /\ a \div n \in Int
    BY <1>1, <1>2, Divided
  <2>2. m = (m \div n) * n + (m % n) /\ m \div n \in Int
    BY <1>1, Divided
  <2>3. a = (a \div n) * n /\ m = (m \div n) * n
    BY <1>1, <1>2, <2>1, <2>2
  <2>4. QED
    BY <2>1, <2>2, <2>3
<1> DEFINE b == a + n
<1> DEFINE q == b \div m
<1> DEFINE r == b % m
<1>4. b = q * m + r /\ q \in Int /\ r \in 0 .. m - 1
  <2>1. b \in Int
    BY <1>1, <1>2
  <2> HIDE DEF b
  <2>2. QED
    BY <1>1, <2>1, Divided
<1> HIDE DEF q, r
<1>5. r = (j + 1 - q * k) * n + 0 /\ j + 1 - q * k \in Int
  <2>1. r \in Int /\ q \in Int /\ a + n = q * m + r
    BY <1>1, <1>4
  <2>2. q * m = (q * k) * n
    BY <1>1, <1>3, <2>1
  <2>3. QED
    BY <1>1, <1>3, <2>1, <2>2
<1>6. ((j + 1 - q * k) * n + 0) % n = 0
  BY <1>1, <1>5, Division
<1>7. r \in 0 .. m - 1 /\ r % n = 0
  BY <1>4, <1>5, <1>6
<1>8. QED
  BY <1>7 DEF Memory!NextAddress, Memory!Words, r, m, n

\* Where the words of a call began, and that its address is the next of them.
LEMMA Places ==
  ASSUME bits \in Kinds, NEW a \in Memory!Words, NEW i \in Nat
  PROVE  /\ Memory!WordAt((a - Memory!Bytes * i) % Memory!Space, i + 1) = a
         /\ (Memory!NextAddress(a) - Memory!Bytes * (i + 1)) % Memory!Space
              = (a - Memory!Bytes * i) % Memory!Space
<1> DEFINE m == Memory!Space
<1> DEFINE n == Memory!Bytes
<1>1. m \in Nat \ {0} /\ n \in Nat \ {0}
  BY Widths
<1>2. a \in 0 .. m - 1
  BY DEF Memory!Words
<1> HIDE DEF m, n
<1>3. (0 * m + a) % m = a /\ 0 * m + a = a
  BY <1>1, <1>2, Division
<1> DEFINE x == n * i
<1>4. x \in Int /\ n * (i + 1) = x + n /\ n * ((i + 1) - 1) = x
  BY <1>1
<1> HIDE DEF x
<1>5. (((a - x) % m) + x) % m = ((a - x) + x) % m
  <2> DEFINE b == a - x
  <2>1. b \in Int
    BY <1>2, <1>4
  <2> HIDE DEF b
  <2>2. ((b % m) + x) % m = (b + x) % m
    BY <1>1, <1>4, <2>1, RestOfSum
  <2>3. QED
    BY <2>2 DEF b
<1>6. (((a - x) % m) + x) % m = a
  <2>1. (a - x) + x = a
    BY <1>2, <1>4
  <2>2. QED
    BY <1>3, <1>5, <2>1
<1>7. (((a + n) % m) + (-(x + n))) % m = (a - x) % m
  <2> DEFINE b == a + n
  <2> DEFINE c == -(x + n)
  <2>1. b \in Int /\ c \in Int /\ b + c = a - x
    BY <1>1, <1>2, <1>4
  <2> HIDE DEF b, c
  <2>2. ((b % m) + c) % m = (b + c) % m
    BY <1>1, <2>1, RestOfSum
  <2>3. QED
    BY <2>1, <2>2 DEF b, c
<1>8. ((a + n) % m) - (x + n) = ((a + n) % m) + (-(x + n))
  BY <1>1, <1>2, <1>4
<1>9. QED
  BY <1>4, <1>6, <1>7, <1>8 DEF Memory!WordAt, Memory!NextAddress, m, n, x

\* The types, with those of the running call.
MemoryTypes ==
  /\ bits \in Kinds /\ mem \in [Memory!Words -> Values] /\ before \in [Memory!Words -> Values]
  /\ answers \in Seq(Values) /\ sound \in BOOLEAN
  /\ call \in [op : {"none", "poke", "peek", "answer"}, address : Memory!Words,
               data : Seq(Values), i : Nat, buffer : Seq(Values)]
  /\ call.i <= Len(call.data) /\ Len(call.data) <= MaxWords
  /\ call.op = "none" => call = Memory!Idle
  /\ call.op = "answer" => call.i < Len(call.data)
  /\ result \in [op : {"none", "poke", "peek"}, status : {"NOERROR", "LINK_FATAL"},
                 address : Nat, data : Seq(Values)]

\* Where word j of a call c goes, with words of n bytes and a memory of m.
Place(n, m, c, j) == (((c.address - n * c.i) % m) + n * (j - 1)) % m

\* Each word holds what the last of the commands so far that names it has put there.
PokeInv ==
  call.op = "poke" =>
    \A w \in Memory!Words :
      /\ (\A j \in 1 .. call.i : Place(Memory!Bytes, Memory!Space, call, j) # w) => mem[w] = before[w]
      /\ \A j \in 1 .. call.i :
           /\ Place(Memory!Bytes, Memory!Space, call, j) = w
           /\ \A k \in 1 .. call.i : Place(Memory!Bytes, Memory!Space, call, k) = w => k <= j
           => mem[w] = call.data[j]

\* The answer on the way is that to the last command, and the answers before it
\* are in the buffer, unless a call has failed.
PeekInv ==
  /\ call.op \in {"peek", "answer"} => Len(call.buffer) = call.i
  /\ call.op = "answer" => answers # << >>
  /\ sound /\ call.op \in {"peek", "answer"}
       => \A j \in 1 .. call.i : call.buffer[j] = mem[Place(Memory!Bytes, Memory!Space, call, j)]
  /\ sound => answers = IF call.op = "answer" THEN <<mem[call.address]>> ELSE << >>

MemoryInv == MemoryTypes /\ PokeInv /\ PeekInv /\ Memory!PokeLands /\ Memory!PeekTells

\* Before the first call.
LEMMA MemoryInit == ASSUME Memory!Init PROVE MemoryInv
<1>1. bits \in Kinds /\ call = Memory!Idle /\ call.op = "none" /\ call.i = 0 /\ answers = << >>
      /\ result = Memory!Nothing /\ result.op = "none" /\ sound = TRUE
  BY DEF Memory!Init, Memory!Idle, Memory!Nothing
<1>2. MemoryTypes
  BY <1>1, Widths, WordConstants DEF Memory!Init, MemoryTypes, Memory!Idle, Memory!Nothing
<1>3. PokeInv /\ PeekInv
  BY <1>1 DEF PokeInv, PeekInv
<1>4. Memory!PokeLands /\ Memory!PeekTells
  BY <1>1 DEF Memory!PokeLands, Memory!PeekTells
<1>5. QED
  BY <1>2, <1>3, <1>4 DEF MemoryInv

\* What the run checks of the words.
LEMMA MemoryFollows ==
  ASSUME MemoryInv
  PROVE  Memory!TypeOK /\ Memory!PokeLands /\ Memory!PokePrefix /\ Memory!PeekTells
<1>1. Memory!TypeOK
  <2>1. call.address \in 0 .. Memory!Space - 1 /\ call.i \in 0 .. MaxWords
    BY WordConstants DEF MemoryInv, MemoryTypes, Memory!Words
  <2>2. QED
    BY <2>1 DEF MemoryInv, MemoryTypes, Memory!TypeOK
<1>2. Memory!PokePrefix
  BY DEF MemoryInv, PokeInv, Memory!PokePrefix, Place, Memory!WordAt, Memory!Start
<1>3. QED
  BY <1>1, <1>2 DEF MemoryInv

\* A call that has done one more word keeps the places of its words, and has just
\* done the one its address named.
LEMMA WordMoves ==
  ASSUME MemoryTypes, NEW c, c.i = call.i + 1, c.address = Memory!NextAddress(call.address)
  PROVE  /\ \A j : Place(Memory!Bytes, Memory!Space, c, j) = Place(Memory!Bytes, Memory!Space, call, j)
         /\ Place(Memory!Bytes, Memory!Space, call, call.i + 1) = call.address
         /\ c.address \in Memory!Words
<1>1. bits \in Kinds /\ call.address \in Memory!Words /\ call.i \in Nat
  BY DEF MemoryTypes
<1>2. /\ Memory!WordAt((call.address - Memory!Bytes * call.i) % Memory!Space, call.i + 1) = call.address
      /\ (c.address - Memory!Bytes * c.i) % Memory!Space
           = (call.address - Memory!Bytes * call.i) % Memory!Space
  BY <1>1, Places
<1>3. c.address \in Memory!Words
  BY <1>1, NextIsWord
<1>4. Place(Memory!Bytes, Memory!Space, call, call.i + 1) = call.address
  BY <1>2 DEF Place, Memory!WordAt
<1>5. \A j : Place(Memory!Bytes, Memory!Space, c, j) = Place(Memory!Bytes, Memory!Space, call, j)
  BY <1>2 DEF Place
<1>6. QED
  BY <1>3, <1>4, <1>5

\* A call begins.
LEMMA MemoryCall ==
  ASSUME MemoryInv, NEW op \in {"poke", "peek"}, NEW a \in Memory!Words,
         NEW n \in 1 .. MaxWords, NEW data \in [1 .. n -> Values], Memory!Call(op, a, data)
  PROVE  MemoryInv'
<1> DEFINE new == [Memory!Idle EXCEPT !.op = op, !.address = a, !.data = data]
<1>1. call = Memory!Idle /\ call.op = "none" /\ call' = new /\ before' = mem
      /\ UNCHANGED <<bits, mem, answers, result, sound>>
  BY DEF Memory!Call, Memory!Idle
<1>2. new = [op |-> op, address |-> a, data |-> data, i |-> 0, buffer |-> << >>]
  <2> DEFINE r1 == [Memory!Idle EXCEPT !.op = op]
  <2> DEFINE r2 == [r1 EXCEPT !.address = a]
  <2>1. r1 = [op |-> op, address |-> 0, data |-> << >>, i |-> 0, buffer |-> << >>]
    BY DEF Memory!Idle
  <2>2. [r2 EXCEPT !.data = data] = new
    OBVIOUS
  <2> HIDE DEF r1
  <2>3. r2 = [op |-> op, address |-> a, data |-> << >>, i |-> 0, buffer |-> << >>]
    BY <2>1
  <2> HIDE DEF r2, new
  <2>4. QED
    BY <2>2, <2>3
<1>3. data \in Seq(Values) /\ Len(data) = n /\ n <= MaxWords
  BY WordConstants
<1> HIDE DEF new
<1>4. call'.op = op /\ call'.i = 0 /\ call'.data = data /\ call'.buffer = << >> /\ call' # Memory!Idle
  BY <1>1, <1>2 DEF Memory!Idle
<1>5. Memory!Words' = Memory!Words
  BY <1>1 DEF Memory!Words, Memory!Space, Memory!Bytes
<1>6. MemoryTypes'
  <2>1. call' \in [op : {"none", "poke", "peek", "answer"}, address : Memory!Words,
                   data : Seq(Values), i : Nat, buffer : Seq(Values)]
    BY <1>1, <1>2, <1>3
  <2>2. call'.i <= Len(call'.data) /\ Len(call'.data) <= MaxWords /\ call'.op \notin {"none", "answer"}
    BY <1>3, <1>4
  <2>3. QED
    BY <1>1, <1>5, <2>1, <2>2 DEF MemoryInv, MemoryTypes
<1>7. PokeInv'
  BY <1>1, <1>4 DEF PokeInv
<1>8. PeekInv'
  BY <1>1, <1>4 DEF MemoryInv, PeekInv
<1>9. Memory!PokeLands' /\ Memory!PeekTells'
  BY <1>4 DEF Memory!PokeLands, Memory!PeekTells, Memory!Idle
<1>10. QED
  BY <1>6, <1>7, <1>8, <1>9 DEF MemoryInv

\* A call that fails leaves nothing behind but late answers.
LEMMA MemoryFails ==
  ASSUME MemoryInv, Memory!Fails, UNCHANGED <<bits, mem, before>>, answers' \in Seq(Values)
  PROVE  MemoryInv'
<1>1. call' = Memory!Idle /\ call'.op = "none" /\ call'.i = 0 /\ call'.data = << >> /\ sound' = FALSE
      /\ result'.op = "none"
      /\ result' = [op |-> "none", status |-> "LINK_FATAL", address |-> 0, data |-> << >>]
  BY DEF Memory!Fails, Memory!Idle
<1>2. Memory!Words' = Memory!Words /\ Memory!Idle' = Memory!Idle
  BY DEF Memory!Words, Memory!Space, Memory!Bytes, Memory!Idle
<1>3. MemoryTypes'
  <2>1. 0 \in Memory!Words /\ bits \in Kinds
    BY Widths DEF MemoryInv, MemoryTypes
  <2>2. /\ call' \in [op : {"none", "poke", "peek", "answer"}, address : Memory!Words,
                      data : Seq(Values), i : Nat, buffer : Seq(Values)]
    BY <1>1, <2>1 DEF Memory!Idle
  <2>3. result' \in [op : {"none", "poke", "peek"}, status : {"NOERROR", "LINK_FATAL"},
                     address : Nat, data : Seq(Values)]
    BY <1>1, <2>1
  <2>4. Len(call'.data) = 0 /\ MaxWords \in Nat
    BY <1>1, WordConstants
  <2>5. /\ bits' \in Kinds /\ mem' \in [Memory!Words -> Values] /\ before' \in [Memory!Words -> Values]
        /\ answers' \in Seq(Values) /\ sound' \in BOOLEAN
    BY <1>1 DEF MemoryInv, MemoryTypes
  <2>6. call'.i <= Len(call'.data) /\ Len(call'.data) <= MaxWords /\ call'.op # "answer"
    BY <1>1, <2>4
  <2>7. QED
    BY <1>1, <1>2, <2>2, <2>3, <2>5, <2>6 DEF MemoryTypes
<1>4. PokeInv' /\ PeekInv'
  BY <1>1 DEF PokeInv, PeekInv
<1>5. Memory!PokeLands' /\ Memory!PeekTells'
  BY <1>1 DEF Memory!PokeLands, Memory!PeekTells
<1>6. QED
  BY <1>3, <1>4, <1>5 DEF MemoryInv

\* A word is poked, or the link fails.
LEMMA MemoryPoke == ASSUME MemoryInv, Memory!Poke PROVE MemoryInv'
<1>1. CASE Memory!Fails /\ UNCHANGED mem
  <2>1. UNCHANGED <<bits, mem, before, answers>> /\ answers' \in Seq(Values)
    BY <1>1 DEF Memory!Poke, MemoryInv, MemoryTypes
  <2>2. QED
    BY <1>1, <2>1, MemoryFails
<1>2. CASE ~ (Memory!Fails /\ UNCHANGED mem)
  <2> DEFINE v == call.data[call.i + 1]
  <2>1. /\ call.op = "poke" /\ call.i # Len(call.data)
        /\ mem' = [w \in Memory!Words |-> IF w = Memory!Address(Memory!Command(call.address)) THEN v ELSE mem[w]]
        /\ call' = [call EXCEPT !.i = @ + 1, !.address = Memory!NextAddress(@)]
        /\ UNCHANGED <<result, sound, bits, before, answers>>
    BY <1>2 DEF Memory!Poke, Memory!Done
  <2>2. /\ bits \in Kinds /\ call.address \in Memory!Words /\ call.i \in Nat /\ call.data \in Seq(Values)
        /\ call.i < Len(call.data) /\ call.buffer \in Seq(Values)
        /\ call \in [op : {"none", "poke", "peek", "answer"}, address : Memory!Words,
                     data : Seq(Values), i : Nat, buffer : Seq(Values)]
    BY <2>1 DEF MemoryInv, MemoryTypes
  <2>3. mem' = [w \in Memory!Words |-> IF w = call.address THEN v ELSE mem[w]]
    BY <2>1, <2>2, AddressTold
  <2>4. v \in Values
    BY <2>2
  <2>5. /\ call'.op = "poke" /\ call'.i = call.i + 1 /\ call'.data = call.data /\ call'.buffer = call.buffer
        /\ call'.address = Memory!NextAddress(call.address)
    BY <2>1, <2>2
  <2>6. /\ \A j : Place(Memory!Bytes, Memory!Space, call', j) = Place(Memory!Bytes, Memory!Space, call, j)
        /\ Place(Memory!Bytes, Memory!Space, call, call.i + 1) = call.address
        /\ call'.address \in Memory!Words
    BY <2>5, WordMoves DEF MemoryInv
  <2>7. Memory!Words' = Memory!Words /\ Memory!Space' = Memory!Space /\ Memory!Bytes' = Memory!Bytes
    BY <2>1 DEF Memory!Words, Memory!Space, Memory!Bytes
  <2>8. MemoryTypes'
    <3>1. call' \in [op : {"none", "poke", "peek", "answer"}, address : Memory!Words,
                     data : Seq(Values), i : Nat, buffer : Seq(Values)]
      <4> DEFINE r == [call EXCEPT !.i = call.i + 1]
      <4>1. r \in [op : {"none", "poke", "peek", "answer"}, address : Memory!Words,
                   data : Seq(Values), i : Nat, buffer : Seq(Values)] /\ r.address = call.address
        BY <2>2
      <4>2. call' = [r EXCEPT !.address = Memory!NextAddress(call.address)]
        BY <2>1, <2>2
      <4> HIDE DEF r
      <4>3. Memory!NextAddress(call.address) \in Memory!Words
        BY <2>5, <2>6
      <4>4. QED
        BY <4>1, <4>2, <4>3
    <3>2. mem' \in [Memory!Words -> Values]
      <4> HIDE DEF v
      <4>1. QED
        BY <2>3, <2>4 DEF MemoryInv, MemoryTypes
    <3>3. call'.i <= Len(call'.data) /\ Len(call'.data) <= MaxWords /\ call'.op \notin {"none", "answer"}
      BY <2>2, <2>5 DEF MemoryInv, MemoryTypes
    <3>4. bits' \in Kinds /\ before' \in [Memory!Words -> Values] /\ answers' \in Seq(Values) /\ sound' \in BOOLEAN
      BY <2>1 DEF MemoryInv, MemoryTypes
    <3>5. result' \in [op : {"none", "poke", "peek"}, status : {"NOERROR", "LINK_FATAL"},
                       address : Nat, data : Seq(Values)]
      BY <2>1 DEF MemoryInv, MemoryTypes
    <3>6. QED
      BY <2>7, <3>1, <3>2, <3>3, <3>4, <3>5 DEF MemoryTypes
  <2>9. PokeInv'
    <3> DEFINE P(j) == Place(Memory!Bytes, Memory!Space, call, j)
    <3>1. SUFFICES ASSUME NEW w \in Memory!Words
          PROVE  /\ (\A j \in 1 .. call.i + 1 : P(j) # w) => mem'[w] = before[w]
                 /\ \A j \in 1 .. call.i + 1 :
                      P(j) = w /\ (\A k \in 1 .. call.i + 1 : P(k) = w => k <= j) => mem'[w] = call.data[j]
      <4> HIDE DEF P
      <4>1. \A j : Place(Memory!Bytes', Memory!Space', call', j) = P(j)
        BY <2>6, <2>7 DEF P
      <4>2. QED
        BY <2>1, <2>5, <2>7, <4>1 DEF PokeInv
    <3>2. P(call.i + 1) = call.address
      BY <2>6
    <3> HIDE DEF P, v
    <3>3. /\ (\A j \in 1 .. call.i : P(j) # w) => mem[w] = before[w]
          /\ \A j \in 1 .. call.i :
               P(j) = w /\ (\A k \in 1 .. call.i : P(k) = w => k <= j) => mem[w] = call.data[j]
      BY <2>1 DEF MemoryInv, PokeInv, P
    <3>4. mem'[w] = IF w = call.address THEN v ELSE mem[w]
      BY <2>3
    <3>5. CASE w = call.address
      <4>1. call.i + 1 \in 1 .. call.i + 1 /\ P(call.i + 1) = w /\ mem'[w] = v
        BY <2>2, <3>2, <3>4, <3>5
      <4>2. ASSUME NEW j \in 1 .. call.i + 1, \A k \in 1 .. call.i + 1 : P(k) = w => k <= j
            PROVE  j = call.i + 1
        BY <2>2, <4>1, <4>2
      <4>3. QED
        BY <4>1, <4>2 DEF v
    <3>6. CASE w # call.address
      <4>1. mem'[w] = mem[w]
        BY <3>4, <3>6
      <4>2. \A j \in 1 .. call.i + 1 : P(j) = w => j \in 1 .. call.i
        BY <2>2, <3>2, <3>6
      <4>3. 1 .. call.i \subseteq 1 .. call.i + 1
        BY <2>2
      <4>4. QED
        BY <3>3, <4>1, <4>2, <4>3
    <3>7. QED
      BY <3>5, <3>6
  <2>10. PeekInv'
    BY <2>1, <2>5 DEF MemoryInv, PeekInv
  <2>11. Memory!PokeLands' /\ Memory!PeekTells'
    <3>1. call' # Memory!Idle
      BY <2>5 DEF Memory!Idle
    <3>2. QED
      BY <3>1 DEF Memory!PokeLands, Memory!PeekTells, Memory!Idle
  <2>12. QED
    BY <2>8, <2>9, <2>10, <2>11 DEF MemoryInv
<1>3. QED
  BY <1>1, <1>2

\* A word is asked for, or the link fails.
LEMMA MemoryPeekCommand == ASSUME MemoryInv, Memory!PeekCommand PROVE MemoryInv'
<1>1. CASE Memory!Fails /\ UNCHANGED answers
  <2>1. UNCHANGED <<bits, mem, before, answers>> /\ answers' \in Seq(Values)
    BY <1>1 DEF Memory!PeekCommand, MemoryInv, MemoryTypes
  <2>2. QED
    BY <1>1, <2>1, MemoryFails
<1>2. CASE ~ (Memory!Fails /\ UNCHANGED answers)
  <2>1. /\ call.op = "peek" /\ call.i # Len(call.data)
        /\ answers' = Append(answers, mem[Memory!Address(Memory!Command(call.address))])
        /\ call' = [call EXCEPT !.op = "answer"]
        /\ UNCHANGED <<result, sound, bits, mem, before>>
    BY <1>2 DEF Memory!PeekCommand, Memory!Done
  <2>2. /\ bits \in Kinds /\ call.address \in Memory!Words /\ call.i \in Nat /\ call.data \in Seq(Values)
        /\ call.i < Len(call.data) /\ mem \in [Memory!Words -> Values] /\ answers \in Seq(Values)
        /\ call \in [op : {"none", "poke", "peek", "answer"}, address : Memory!Words,
                     data : Seq(Values), i : Nat, buffer : Seq(Values)]
    BY <2>1 DEF MemoryInv, MemoryTypes
  <2>3. answers' = Append(answers, mem[call.address]) /\ mem[call.address] \in Values
    BY <2>1, <2>2, AddressTold
  <2>4. /\ call'.op = "answer" /\ call'.i = call.i /\ call'.data = call.data /\ call'.buffer = call.buffer
        /\ call'.address = call.address
    BY <2>1, <2>2
  <2>5. Memory!Words' = Memory!Words /\ Memory!Space' = Memory!Space /\ Memory!Bytes' = Memory!Bytes
    BY <2>1 DEF Memory!Words, Memory!Space, Memory!Bytes
  <2>6. MemoryTypes'
    <3>1. call' \in [op : {"none", "poke", "peek", "answer"}, address : Memory!Words,
                     data : Seq(Values), i : Nat, buffer : Seq(Values)]
      BY <2>1, <2>2
    <3>2. answers' \in Seq(Values)
      BY <2>2, <2>3
    <3>3. call'.i < Len(call'.data) /\ Len(call'.data) <= MaxWords /\ call'.op # "none"
      BY <2>2, <2>4 DEF MemoryInv, MemoryTypes
    <3>4. /\ bits' \in Kinds /\ before' \in [Memory!Words -> Values] /\ mem' \in [Memory!Words -> Values]
          /\ sound' \in BOOLEAN
      BY <2>1 DEF MemoryInv, MemoryTypes
    <3>5. result' \in [op : {"none", "poke", "peek"}, status : {"NOERROR", "LINK_FATAL"},
                       address : Nat, data : Seq(Values)]
      BY <2>1 DEF MemoryInv, MemoryTypes
    <3>6. call'.i <= Len(call'.data)
      BY <2>2, <2>4
    <3>7. QED
      BY <2>5, <3>1, <3>2, <3>3, <3>4, <3>5, <3>6 DEF MemoryTypes
  <2>7. PokeInv'
    BY <2>4 DEF PokeInv
  <2>8. PeekInv'
    <3>1. \A j : Place(Memory!Bytes', Memory!Space', call', j) = Place(Memory!Bytes, Memory!Space, call, j)
      BY <2>4, <2>5 DEF Place
    <3>2. answers' # << >>
      BY <2>2, <2>3
    <3>3. sound => answers' = <<mem[call.address]>>
      <4>1. sound => answers = << >>
        BY <2>1 DEF MemoryInv, PeekInv
      <4>2. QED
        BY <2>3, <4>1
    <3>4. Len(call.buffer) = call.i
          /\ (sound => \A j \in 1 .. call.i : call.buffer[j] = mem[Place(Memory!Bytes, Memory!Space, call, j)])
      BY <2>1 DEF MemoryInv, PeekInv
    <3>5. QED
      BY <2>1, <2>4, <3>1, <3>2, <3>3, <3>4 DEF PeekInv
  <2>9. Memory!PokeLands' /\ Memory!PeekTells'
    <3>1. call' # Memory!Idle
      BY <2>4 DEF Memory!Idle
    <3>2. QED
      BY <3>1 DEF Memory!PokeLands, Memory!PeekTells, Memory!Idle
  <2>10. QED
    BY <2>6, <2>7, <2>8, <2>9 DEF MemoryInv
<1>3. QED
  BY <1>1, <1>2

\* The oldest answer is read, or none comes in time.
LEMMA MemoryPeekAnswer == ASSUME MemoryInv, Memory!PeekAnswer PROVE MemoryInv'
<1>1. CASE Memory!Fails /\ answers' = answers
  <2>1. UNCHANGED <<bits, mem, before>> /\ answers' \in Seq(Values)
    BY <1>1 DEF Memory!PeekAnswer, MemoryInv, MemoryTypes
  <2>2. QED
    BY <1>1, <2>1, MemoryFails
<1>2. CASE ~ (Memory!Fails /\ answers' = answers)
  <2> DEFINE v == Head(answers)
  <2>1. /\ call.op = "answer"
        /\ call' = [call EXCEPT !.op = "peek", !.i = @ + 1, !.address = Memory!NextAddress(@),
                                !.buffer = Append(@, v)]
        /\ answers' = Tail(answers)
        /\ UNCHANGED <<result, sound, bits, mem, before>>
    BY <1>2 DEF Memory!PeekAnswer
  <2>2. /\ bits \in Kinds /\ call.address \in Memory!Words /\ call.i \in Nat /\ call.data \in Seq(Values)
        /\ call.i < Len(call.data) /\ answers \in Seq(Values) /\ answers # << >>
        /\ call.buffer \in Seq(Values) /\ Len(call.buffer) = call.i
        /\ call \in [op : {"none", "poke", "peek", "answer"}, address : Memory!Words,
                     data : Seq(Values), i : Nat, buffer : Seq(Values)]
    BY <2>1 DEF MemoryInv, MemoryTypes, PeekInv
  <2>3. v \in Values /\ Tail(answers) \in Seq(Values)
    BY <2>2
  <2>4. /\ call'.op = "peek" /\ call'.i = call.i + 1 /\ call'.data = call.data
        /\ call'.address = Memory!NextAddress(call.address) /\ call'.buffer = Append(call.buffer, v)
    <3> HIDE DEF v
    <3>1. QED
      BY <2>1, <2>2
  <2>5. /\ \A j : Place(Memory!Bytes, Memory!Space, call', j) = Place(Memory!Bytes, Memory!Space, call, j)
        /\ Place(Memory!Bytes, Memory!Space, call, call.i + 1) = call.address
        /\ call'.address \in Memory!Words
    BY <2>4, WordMoves DEF MemoryInv
  <2>6. Memory!Words' = Memory!Words /\ Memory!Space' = Memory!Space /\ Memory!Bytes' = Memory!Bytes
    BY <2>1 DEF Memory!Words, Memory!Space, Memory!Bytes
  <2>7. Append(call.buffer, v) \in Seq(Values) /\ Len(Append(call.buffer, v)) = call.i + 1
        /\ Append(call.buffer, v)[call.i + 1] = v
        /\ \A j \in 1 .. call.i : Append(call.buffer, v)[j] = call.buffer[j]
    <3> HIDE DEF v
    <3>1. QED
      BY <2>2, <2>3
  <2> HIDE DEF v
  <2>8. MemoryTypes'
    <3>1. call' \in [op : {"none", "poke", "peek", "answer"}, address : Memory!Words,
                     data : Seq(Values), i : Nat, buffer : Seq(Values)]
      <4> DEFINE S == [op : {"none", "poke", "peek", "answer"}, address : Memory!Words,
                       data : Seq(Values), i : Nat, buffer : Seq(Values)]
      <4> DEFINE r1 == [call EXCEPT !.op = "peek"]
      <4> DEFINE r2 == [r1 EXCEPT !.i = call.i + 1]
      <4> DEFINE r3 == [r2 EXCEPT !.address = Memory!NextAddress(call.address)]
      <4>1. call' = [r3 EXCEPT !.buffer = Append(call.buffer, v)]
        BY <2>1, <2>2
      <4>2. r1 \in S /\ r1.i = call.i /\ r1.address = call.address /\ r1.buffer = call.buffer
        BY <2>2
      <4> HIDE DEF r1
      <4>3. r2 \in S
        <5>1. call.i + 1 \in Nat
          BY <2>2
        <5>2. QED
          BY <4>2, <5>1
      <4>4. r2.address = call.address /\ r2.buffer = call.buffer
        BY <4>2
      <4> HIDE DEF r2
      <4>5. Memory!NextAddress(call.address) \in Memory!Words
        BY <2>4, <2>5
      <4>6. r3 \in S
        BY <4>3, <4>5
      <4> HIDE DEF r3
      <4>7. QED
        BY <2>7, <4>1, <4>6
    <3>2. answers' \in Seq(Values)
      BY <2>1, <2>3
    <3>3. call'.i <= Len(call'.data) /\ Len(call'.data) <= MaxWords /\ call'.op \notin {"none", "answer"}
      BY <2>2, <2>4 DEF MemoryInv, MemoryTypes
    <3>4. /\ bits' \in Kinds /\ before' \in [Memory!Words -> Values] /\ mem' \in [Memory!Words -> Values]
          /\ sound' \in BOOLEAN
      BY <2>1 DEF MemoryInv, MemoryTypes
    <3>5. result' \in [op : {"none", "poke", "peek"}, status : {"NOERROR", "LINK_FATAL"},
                       address : Nat, data : Seq(Values)]
      BY <2>1 DEF MemoryInv, MemoryTypes
    <3>6. QED
      BY <2>6, <3>1, <3>2, <3>3, <3>4, <3>5 DEF MemoryTypes
  <2>9. PokeInv'
    BY <2>4 DEF PokeInv
  <2>10. PeekInv'
    <3> DEFINE P(j) == Place(Memory!Bytes, Memory!Space, call, j)
    <3>1. \A j : Place(Memory!Bytes', Memory!Space', call', j) = P(j)
      BY <2>5, <2>6
    <3>2. P(call.i + 1) = call.address
      BY <2>5
    <3> HIDE DEF P
    <3>3. sound => answers = <<mem[call.address]>>
                   /\ \A j \in 1 .. call.i : call.buffer[j] = mem[P(j)]
      BY <2>1 DEF MemoryInv, PeekInv, P
    <3>4. ASSUME sound PROVE v = mem[call.address] /\ Tail(answers) = << >>
      <4> DEFINE x == mem[call.address]
      <4>1. answers = <<x>>
        BY <3>3, <3>4
      <4> HIDE DEF x
      <4>2. Head(<<x>>) = x /\ Tail(<<x>>) = << >>
        OBVIOUS
      <4>3. QED
        BY <4>1, <4>2 DEF v, x
    <3>5. ASSUME sound PROVE \A j \in 1 .. call.i + 1 : Append(call.buffer, v)[j] = mem[P(j)]
      <4>1. \A j \in 1 .. call.i + 1 : j \in 1 .. call.i \/ j = call.i + 1
        BY <2>2
      <4>2. Append(call.buffer, v)[call.i + 1] = mem[P(call.i + 1)]
        BY <2>7, <3>2, <3>4, <3>5
      <4>3. \A j \in 1 .. call.i : Append(call.buffer, v)[j] = mem[P(j)]
        BY <2>7, <3>3, <3>5
      <4>4. QED
        BY <4>1, <4>2, <4>3
    <3>6. Len(call'.buffer) = call'.i
      BY <2>4, <2>7
    <3>7. sound => answers' = << >>
      BY <2>1, <3>4
    <3>8. QED
      BY <2>1, <2>4, <3>1, <3>5, <3>6, <3>7 DEF PeekInv
  <2>11. Memory!PokeLands' /\ Memory!PeekTells'
    <3>1. call' # Memory!Idle
      BY <2>4 DEF Memory!Idle
    <3>2. QED
      BY <3>1 DEF Memory!PokeLands, Memory!PeekTells, Memory!Idle
  <2>12. QED
    BY <2>8, <2>9, <2>10, <2>11 DEF MemoryInv
<1>3. QED
  BY <1>1, <1>2

\* A call that has done all its words ends with them in its result.
LEMMA MemoryReturn == ASSUME MemoryInv, Memory!Return PROVE MemoryInv'
<1>1. /\ call.op \in {"poke", "peek"} /\ call.i = Len(call.data) /\ call' = Memory!Idle
      /\ result' = [op |-> call.op, status |-> "NOERROR", address |-> Memory!Start,
                    data |-> IF call.op = "poke" THEN call.data ELSE call.buffer]
      /\ UNCHANGED <<bits, mem, before, answers, sound>>
  BY DEF Memory!Return, Memory!Done
<1>2. call'.op = "none" /\ call'.i = 0 /\ call'.data = << >> /\ call'.address = 0 /\ call'.buffer = << >>
  BY <1>1 DEF Memory!Idle
<1>3. Memory!Words' = Memory!Words /\ Memory!Space' = Memory!Space /\ Memory!Bytes' = Memory!Bytes
      /\ Memory!Idle' = Memory!Idle
  BY <1>1 DEF Memory!Words, Memory!Space, Memory!Bytes, Memory!Idle
<1>4. /\ bits \in Kinds /\ call.address \in Memory!Words /\ call.i \in Nat /\ call.data \in Seq(Values)
      /\ call.buffer \in Seq(Values)
  BY DEF MemoryInv, MemoryTypes
<1> DEFINE P(j) == Place(Memory!Bytes, Memory!Space, call, j)
<1>5. \A j : (Memory!Start + Memory!Bytes * (j - 1)) % Memory!Space = P(j)
  BY DEF Memory!Start, Place
<1>6. Memory!Start \in Nat
  <2>1. call.address \in Nat /\ Memory!Bytes \in Nat /\ Memory!Space \in Nat \ {0}
    BY <1>4, Widths DEF Memory!Words
  <2>2. call.address - Memory!Bytes * call.i \in Int
    BY <1>4, <2>1
  <2>3. QED
    BY <2>1, <2>2 DEF Memory!Start
<1> HIDE DEF P
<1>7. MemoryTypes'
  <2>1. 0 \in Memory!Words /\ Len(<< >>) = 0 /\ MaxWords \in Nat
    BY <1>4, Widths, WordConstants
  <2>2. call' \in [op : {"none", "poke", "peek", "answer"}, address : Memory!Words,
                   data : Seq(Values), i : Nat, buffer : Seq(Values)]
    BY <1>1, <2>1 DEF Memory!Idle
  <2>3. result' \in [op : {"none", "poke", "peek"}, status : {"NOERROR", "LINK_FATAL"},
                     address : Nat, data : Seq(Values)]
    <3> DEFINE d == IF call.op = "poke" THEN call.data ELSE call.buffer
    <3>1. d \in Seq(Values)
      BY <1>4
    <3> HIDE DEF d
    <3>2. result' = [op |-> call.op, status |-> "NOERROR", address |-> Memory!Start, data |-> d]
      BY <1>1 DEF d
    <3>3. QED
      BY <1>1, <1>6, <3>1, <3>2
  <2>4. call'.i <= Len(call'.data) /\ Len(call'.data) <= MaxWords /\ call'.op # "answer"
    BY <1>2, <2>1
  <2>5. /\ bits' \in Kinds /\ before' \in [Memory!Words -> Values] /\ mem' \in [Memory!Words -> Values]
        /\ sound' \in BOOLEAN /\ answers' \in Seq(Values)
    BY <1>1 DEF MemoryInv, MemoryTypes
  <2>6. QED
    BY <1>1, <1>3, <2>2, <2>3, <2>4, <2>5 DEF MemoryTypes
<1>8. PokeInv'
  BY <1>2 DEF PokeInv
<1>9. PeekInv'
  BY <1>1, <1>2 DEF MemoryInv, PeekInv
<1>10. /\ result'.op = call.op /\ result'.address = Memory!Start
       /\ call.op = "poke" => result'.data = call.data
       /\ call.op = "peek" => result'.data = call.buffer
  BY <1>1
<1>11. \A j : Memory!WordAt(result.address, j)' = P(j)
  BY <1>3, <1>5, <1>10 DEF Memory!WordAt
<1>12. Memory!PokeLands'
  <2> SUFFICES ASSUME call.op = "poke", NEW w \in Memory!Words
               PROVE  LET places == {i \in 1 .. Len(call.data) : P(i) = w} IN
                      /\ places = {} => mem[w] = before[w]
                      /\ \A i \in places : (\A j \in places : j <= i) => mem[w] = call.data[i]
    BY <1>1, <1>3, <1>5, <1>10 DEF Memory!PokeLands, Memory!WordAt
  <2>1. /\ (\A j \in 1 .. call.i : P(j) # w) => mem[w] = before[w]
        /\ \A j \in 1 .. call.i :
             P(j) = w /\ (\A k \in 1 .. call.i : P(k) = w => k <= j) => mem[w] = call.data[j]
    BY DEF MemoryInv, PokeInv, P
  <2>2. QED
    BY <1>1, <2>1
<1>13. Memory!PeekTells'
  <2> SUFFICES ASSUME call.op = "peek", sound, NEW i \in 1 .. Len(call.buffer)
               PROVE  call.buffer[i] = mem[P(i)]
    BY <1>1, <1>3, <1>5, <1>10 DEF Memory!PeekTells, Memory!WordAt
  <2>1. Len(call.buffer) = call.i /\ \A j \in 1 .. call.i : call.buffer[j] = mem[P(j)]
    BY DEF MemoryInv, PeekInv, P
  <2>2. QED
    BY <2>1
<1>14. QED
  BY <1>7, <1>8, <1>9, <1>12, <1>13 DEF MemoryInv

\* The target is stopped again.
LEMMA MemoryAnalyse == ASSUME MemoryInv, Memory!Analyse PROVE MemoryInv'
<1>1. /\ call = Memory!Idle /\ call.op = "none" /\ answers' = << >> /\ sound' = TRUE /\ result'.op = "none"
      /\ result' = [op |-> "none", status |-> "NOERROR", address |-> 0, data |-> << >>]
      /\ UNCHANGED <<bits, mem, before, call>>
  BY DEF Memory!Analyse, Memory!Idle, Memory!Nothing
<1>2. Memory!Words' = Memory!Words /\ Memory!Idle' = Memory!Idle
  BY <1>1 DEF Memory!Words, Memory!Space, Memory!Bytes, Memory!Idle
<1>3. MemoryTypes'
  <2>1. result' \in [op : {"none", "poke", "peek"}, status : {"NOERROR", "LINK_FATAL"},
                     address : Nat, data : Seq(Values)]
    BY <1>1
  <2>2. answers' \in Seq(Values) /\ sound' \in BOOLEAN
    BY <1>1
  <2>3. QED
    BY <1>1, <1>2, <2>1, <2>2 DEF MemoryInv, MemoryTypes
<1>4. PokeInv' /\ PeekInv'
  BY <1>1 DEF PokeInv, PeekInv
<1>5. Memory!PokeLands' /\ Memory!PeekTells'
  BY <1>1 DEF Memory!PokeLands, Memory!PeekTells
<1>6. QED
  BY <1>3, <1>4, <1>5 DEF MemoryInv

\* A step that leaves the words alone.
LEMMA MemoryRests ==
  ASSUME MemoryInv, UNCHANGED <<bits, mem, before, call, answers, result, sound>>
  PROVE  MemoryInv'
<1>1. Memory!Words' = Memory!Words /\ Memory!Space' = Memory!Space /\ Memory!Bytes' = Memory!Bytes
      /\ Memory!Idle' = Memory!Idle
  BY DEF Memory!Words, Memory!Space, Memory!Bytes, Memory!Idle
<1>2. MemoryTypes'
  BY <1>1 DEF MemoryInv, MemoryTypes
<1>3. PokeInv' /\ PeekInv'
  BY <1>1 DEF MemoryInv, PokeInv, PeekInv
<1>4. Memory!PokeLands' /\ Memory!PeekTells'
  BY <1>1 DEF MemoryInv, Memory!PokeLands, Memory!PeekTells, Memory!WordAt
<1>5. QED
  BY <1>2, <1>3, <1>4 DEF MemoryInv

\* Every step of a peek or poke.
LEMMA MemoryNext == ASSUME MemoryInv, Memory!Next PROVE MemoryInv'
<1>1. ASSUME NEW a \in Memory!Words, NEW n \in 1 .. MaxWords, NEW data \in [1 .. n -> Values],
             Memory!Call("poke", a, data)
      PROVE  MemoryInv'
  BY <1>1, MemoryCall
<1>2. ASSUME NEW a \in Memory!Words, NEW n \in 1 .. MaxWords, NEW v \in Values,
             Memory!Call("peek", a, [i \in 1 .. n |-> v])
      PROVE  MemoryInv'
  <2>1. [i \in 1 .. n |-> v] \in [1 .. n -> Values]
    OBVIOUS
  <2>2. QED
    BY <1>2, <2>1, MemoryCall
<1>3. QED
  BY <1>1, <1>2, MemoryPoke, MemoryPeekCommand, MemoryPeekAnswer, MemoryReturn, MemoryAnalyse DEF Memory!Next

\* A poke changes the words it names and no others, also when it fails half way,
\* and a peek returns what the memory holds, for every number of words, every
\* size of a byte and both widths of the target.
THEOREM WordsAreRight == Spec => []WordsRight
<1> DEFINE Inv == part = "memory" => MemoryInv
<1>1. Init => Inv
  <2>1. Init /\ part = "memory" => Memory!Init
    BY DEF Init, InitOwn, Lops, Driver, Net, Stream
  <2>2. QED
    BY <2>1, MemoryInit
<1>2. Inv /\ [Next]_vars => Inv'
  <2> SUFFICES ASSUME Inv, [Next]_vars, part' = "memory" PROVE MemoryInv'
    OBVIOUS
  <2>1. part = "memory" /\ MemoryInv
    BY PartStays
  <2>2. CASE Memory!Next
    BY <2>1, <2>2, MemoryNext
  <2>3. CASE UNCHANGED vars
    <3>1. UNCHANGED <<bits, mem, before, call, answers, result, sound>>
      BY <2>3 DEF vars, memoryOwn, shared
    <3>2. QED
      BY <2>1, <3>1, MemoryRests
  <2>4. Memory!Next \/ UNCHANGED vars
    BY <2>1 DEF Next, StreamOver, Stream
  <2>5. QED
    BY <2>2, <2>3, <2>4
<1>3. Inv => WordsRight
  BY MemoryFollows DEF WordsRight
<1>4. QED
  BY <1>1, <1>2, <1>3, PTL DEF Spec

-----------------------------------------------------------------------------
(* StreamsRight: the TCP link driver, while the connection holds.          *)

\* What the driver sends and what comes back, and the running call.
Command == [tag : {"Open", "read", "write", "test", "reset", "Close"}, n : Nat, t : Nat]
Answer == [tag : {"Open", "read", "write", "test", "Close", "Message", "Fatal"}, n : Nat,
           status : {"NOERROR", "UNAVAILABLE", "BAD_NAME", "BAD_SERVICE", "LINK_FATAL"}]
TcpCall ==
  [op : {"none", "open", "close", "read", "write", "test"}, pc : {"none", "send", "reply"}, togo : Nat,
   done : Nat, frags : Nat, each : Nat, limit : Nat, waited : Nat]

\* All entries of a queue have a tag.
AllAre(s, tag) == \A i \in 1 .. Len(s) : s[i].tag = tag

\* Commands: the last one is waited for, the others are resets.
Owed(s, tag, m) ==
  /\ Len(s) \in 1 .. 3 /\ s[Len(s)].tag = tag /\ s[Len(s)].n <= m
  /\ \A i \in 1 .. Len(s) - 1 : s[i].tag = "reset"

\* Replies: one is waited for, the others are messages.
Answered(s, tag, m) ==
  \E p \in 1 .. Len(s) : /\ s[p].tag = tag /\ s[p].n <= m
                         /\ \A i \in 1 .. Len(s) : i # p => s[i].tag = "Message"

\* One reply is to come, and it is the last that is.
Pending(cs, rs, tag, m, k) ==
  \/ Owed(cs, tag, m) /\ AllAre(rs, "Message") /\ Len(rs) <= k
  \/ cs = << >> /\ Answered(rs, tag, m) /\ Len(rs) <= k + 1

\* The tag of the reply that ends a call.
Awaited(op) == IF op = "close" THEN "Close" ELSE op

\* No reply is to come.
Quiet(cs, rs, k) == AllAre(cs, "reset") /\ Len(cs) <= 2 /\ AllAre(rs, "Message") /\ Len(rs) <= k

TcpTypes ==
  /\ commands \in Seq(Command) /\ inbox \in Seq(Answer) /\ call \in TcpCall
  /\ call.op = "none" => call = Tcp!None
  /\ said \in 0 .. MaxMessages /\ isopen \in BOOLEAN /\ leaked \in 0 .. MaxLeaked

\* Not open, being opened, and open: in a call or not.
ShutInv ==
  ~ isopen /\ call.op # "open" =>
    call.op = "none" /\ state = "Closed" /\ commands = << >> /\ inbox = << >> /\ conn = "none" /\ sockets = leaked
OpeningInv ==
  call.op = "open" =>
    /\ ~ isopen /\ call.pc = "reply" /\ call.done = 0 /\ state = "OpenCheck" /\ conn = "up" /\ sockets = leaked + 1
    /\ call.togo = 0
    /\ Len(commands) + Len(inbox) = 1 /\ AllAre(commands, "Open") /\ AllAre(inbox, "Open")
OpenInv ==
  isopen =>
    /\ conn = "up" /\ sockets = leaked + 1 /\ call.op # "open"
    /\ call.op = "none" \/ call.pc = "send" => state = "Synchronous" /\ Quiet(commands, inbox, said)
    /\ call.pc = "send" => call.op \in {"read", "write", "test"}
    /\ call.op # "none" /\ call.pc = "reply" =>
         /\ state = IF call.op = "close" THEN "SyncClosing" ELSE "SynchronousReply"
         /\ Pending(commands, inbox, Awaited(call.op), Tcp!Fragment, said)
    /\ call.op # "none" => call.pc # "none"

\* How far a transfer is, and the time its fragments have taken.
TransferInv ==
  /\ call.op \in {"read", "write"} =>
       /\ call.togo + call.done \in TcpCounts
       /\ call.limit \in TcpTimeouts
  /\ call.op \in {"close", "test"} => call.togo = 0 /\ call.done = 0
  /\ call.op = "read" =>
       /\ call.frags <= Tcp!Frags(call.togo + call.done)
       /\ call.each = Tcp!FragTimeout("read", call.togo + call.done, call.limit)
       /\ call.waited <= (Tcp!Frags(call.togo + call.done) - call.frags) * call.each
ResultInv ==
  /\ result.code \in -8 .. Tcp!Higher(255, Tcp!Highest(TcpCounts))
  /\ Tcp!ResultHonest

TcpInv == TcpTypes /\ ShutInv /\ OpeningInv /\ OpenInv /\ TransferInv /\ ResultInv

\* The tail of a queue and its head.
LEMMA TailOf ==
  ASSUME NEW S, NEW s \in Seq(S), s # << >>
  PROVE  /\ Head(s) = s[1] /\ Head(s) \in S /\ Tail(s) \in Seq(S) /\ Len(s) \in Nat \ {0}
         /\ Len(Tail(s)) = Len(s) - 1 /\ \A i \in 1 .. Len(s) - 1 : Tail(s)[i] = s[i + 1]
OBVIOUS

\* One more entry of a queue.
LEMMA OneMore ==
  ASSUME NEW S, NEW s \in Seq(S), NEW c \in S
  PROVE  /\ Append(s, c) \in Seq(S) /\ Len(s) \in Nat /\ Len(Append(s, c)) = Len(s) + 1
         /\ Append(s, c)[Len(s) + 1] = c /\ \A i \in 1 .. Len(s) : Append(s, c)[i] = s[i]
OBVIOUS

\* A tag that all entries have, all but the first have.
LEMMA AllTail ==
  ASSUME NEW S, NEW s \in Seq(S), s # << >>, NEW x, AllAre(s, x)
  PROVE  AllAre(Tail(s), x) /\ Head(s).tag = x
<1>1. Len(s) \in Nat \ {0} /\ Len(Tail(s)) = Len(s) - 1 /\ Head(s) = s[1]
      /\ \A i \in 1 .. Len(s) - 1 : Tail(s)[i] = s[i + 1]
  BY TailOf
<1>2. \A i \in 1 .. Len(s) - 1 : i + 1 \in 1 .. Len(s)
  BY <1>1
<1>3. \A i \in 1 .. Len(s) - 1 : s[i + 1].tag = x
  BY <1>2 DEF AllAre
<1>4. \A i \in 1 .. Len(s) - 1 : Tail(s)[i].tag = x
  BY <1>1, <1>3
<1>5. 1 \in 1 .. Len(s)
  BY <1>1
<1>6. QED
  BY <1>1, <1>4, <1>5 DEF AllAre

\* All entries and one more.
LEMMA AllMore ==
  ASSUME NEW S, NEW s \in Seq(S), NEW c \in S, AllAre(s, c.tag)
  PROVE  AllAre(Append(s, c), c.tag)
<1> DEFINE n == Len(s)
           t == Append(s, c)
<1>1. n \in Nat /\ Len(t) = n + 1 /\ t[n + 1] = c /\ \A i \in 1 .. n : t[i] = s[i]
  BY OneMore
<1>2. \A i \in 1 .. n : s[i].tag = c.tag
  BY DEF AllAre
<1> HIDE DEF n, t
<1>3. ASSUME NEW i \in 1 .. n + 1 PROVE t[i].tag = c.tag
  <2>1. CASE i \in 1 .. n
    BY <1>1, <1>2, <2>1
  <2>2. CASE i = n + 1
    BY <1>1, <2>2
  <2>3. QED
    BY <1>1, <2>1, <2>2
<1>4. AllAre(t, c.tag)
  BY <1>1, <1>3 DEF AllAre
<1>5. QED
  BY <1>4 DEF t

\* Behind resets goes a command that is answered.
LEMMA OwedMore ==
  ASSUME NEW s \in Seq(Command), NEW c \in Command, AllAre(s, "reset"), Len(s) <= 2
  PROVE  Owed(Append(s, c), c.tag, c.n)
<1> DEFINE n == Len(s)
           t == Append(s, c)
<1>1. n \in Nat /\ Len(t) = n + 1 /\ t[n + 1] = c /\ \A i \in 1 .. n : t[i] = s[i]
  BY OneMore
<1>2. (\A i \in 1 .. n : s[i].tag = "reset") /\ n <= 2
  BY DEF AllAre
<1>3. c.n \in Nat
  BY DEF Command
<1> HIDE DEF n, t
<1>4. Len(t) \in 1 .. 3 /\ t[Len(t)].tag = c.tag /\ t[Len(t)].n <= c.n
  BY <1>1, <1>2, <1>3
<1>5. \A i \in 1 .. Len(t) - 1 : t[i].tag = "reset"
  BY <1>1, <1>2
<1>6. Owed(t, c.tag, c.n)
  BY <1>4, <1>5 DEF Owed
<1>7. QED
  BY <1>6 DEF t

\* The oldest command is a reset, or it is the one that is answered.
LEMMA OwedTail ==
  ASSUME NEW s \in Seq(Command), NEW x, NEW m, Owed(s, x, m)
  PROVE  /\ s # << >> /\ Head(s) \in Command
         /\ \/ Head(s).tag = "reset" /\ Owed(Tail(s), x, m)
            \/ Head(s).tag = x /\ Head(s).n <= m /\ Tail(s) = << >>
<1> DEFINE n == Len(s)
           t == Tail(s)
<1>1. n \in 1 .. 3 /\ s[n].tag = x /\ s[n].n <= m /\ \A i \in 1 .. n - 1 : s[i].tag = "reset"
  BY DEF Owed
<1>2. s # << >>
  <2>1. Len(s) \in 1 .. 3
    BY DEF Owed
  <2>2. QED
    BY <2>1
<1>3. Head(s) = s[1] /\ Head(s) \in Command /\ t \in Seq(Command) /\ Len(t) = n - 1
      /\ \A i \in 1 .. n - 1 : t[i] = s[i + 1]
  BY <1>2, TailOf
<1> HIDE DEF n, t
<1>4. CASE n = 1
  <2>1. t = << >>
    BY <1>3, <1>4
  <2>2. QED
    BY <1>1, <1>2, <1>3, <1>4, <2>1 DEF t
<1>5. CASE n > 1
  <2>1. Len(t) \in 1 .. 3 /\ t[Len(t)] = s[n]
    BY <1>1, <1>3, <1>5
  <2>2. \A i \in 1 .. Len(t) - 1 : i \in 1 .. n - 1 /\ i + 1 \in 1 .. n - 1
    BY <1>1, <1>3
  <2>3. \A i \in 1 .. Len(t) - 1 : t[i].tag = "reset"
    BY <1>1, <1>3, <2>2
  <2>4. Owed(t, x, m)
    BY <1>1, <2>1, <2>3 DEF Owed
  <2>5. s[1].tag = "reset"
    BY <1>1, <1>5
  <2>6. QED
    BY <1>2, <1>3, <2>4, <2>5 DEF t
<1>6. QED
  BY <1>1, <1>4, <1>5

\* The reply comes after messages.
LEMMA AnswerComes ==
  ASSUME NEW s \in Seq(Answer), NEW c \in Answer, NEW m, AllAre(s, "Message"), c.n <= m
  PROVE  Answered(Append(s, c), c.tag, m)
<1> DEFINE n == Len(s)
           t == Append(s, c)
<1>1. n \in Nat /\ Len(t) = n + 1 /\ t[n + 1] = c /\ \A i \in 1 .. n : t[i] = s[i]
  BY OneMore
<1>2. \A i \in 1 .. n : s[i].tag = "Message"
  BY DEF AllAre
<1> HIDE DEF n, t
<1>3. n + 1 \in 1 .. Len(t)
  BY <1>1
<1>4. \A i \in 1 .. Len(t) : i # n + 1 => i \in 1 .. n
  BY <1>1
<1>5. \A i \in 1 .. Len(t) : i # n + 1 => t[i].tag = "Message"
  BY <1>1, <1>2, <1>4
<1>6. Answered(t, c.tag, m)
  BY <1>1, <1>3, <1>5 DEF Answered
<1>7. QED
  BY <1>6 DEF t

\* A message comes after the reply.
LEMMA MessageComes ==
  ASSUME NEW s \in Seq(Answer), NEW c \in Answer, NEW x, NEW m, Answered(s, x, m), c.tag = "Message"
  PROVE  Answered(Append(s, c), x, m)
<1> DEFINE n == Len(s)
           t == Append(s, c)
<1>1. n \in Nat /\ Len(t) = n + 1 /\ t[n + 1] = c /\ \A i \in 1 .. n : t[i] = s[i]
  BY OneMore
<1>2. PICK p \in 1 .. n : /\ s[p].tag = x /\ s[p].n <= m
                          /\ \A i \in 1 .. n : i # p => s[i].tag = "Message"
  BY DEF Answered
<1> HIDE DEF n, t
<1>3. p \in 1 .. Len(t) /\ t[p] = s[p]
  BY <1>1, <1>2
<1>4. ASSUME NEW i \in 1 .. Len(t), i # p PROVE t[i].tag = "Message"
  <2>1. CASE i \in 1 .. n
    BY <1>1, <1>2, <1>4, <2>1
  <2>2. CASE i = n + 1
    BY <1>1, <2>2
  <2>3. QED
    BY <1>1, <2>1, <2>2
<1>5. Answered(t, x, m)
  BY <1>2, <1>3, <1>4 DEF Answered
<1>6. QED
  BY <1>5 DEF t

\* What comes first is a message, or the reply.
LEMMA AnsweredTail ==
  ASSUME NEW s \in Seq(Answer), NEW x, NEW m, Answered(s, x, m), x # "Message"
  PROVE  /\ s # << >> /\ Head(s) \in Answer /\ Tail(s) \in Seq(Answer) /\ Len(Tail(s)) = Len(s) - 1
         /\ \/ Head(s).tag = "Message" /\ Answered(Tail(s), x, m)
            \/ Head(s).tag = x /\ Head(s).n <= m /\ AllAre(Tail(s), "Message")
<1> DEFINE n == Len(s)
           t == Tail(s)
<1>1. n \in Nat
  OBVIOUS
<1>2. PICK p \in 1 .. n : /\ s[p].tag = x /\ s[p].n <= m
                          /\ \A i \in 1 .. n : i # p => s[i].tag = "Message"
  BY DEF Answered
<1>3. s # << >>
  BY <1>2
<1>4. Head(s) = s[1] /\ Head(s) \in Answer /\ t \in Seq(Answer) /\ Len(t) = n - 1
      /\ \A i \in 1 .. n - 1 : t[i] = s[i + 1]
  BY <1>3, TailOf
<1> HIDE DEF n, t
<1>5. CASE p = 1
  <2>1. \A i \in 1 .. n - 1 : i + 1 \in 1 .. n /\ i + 1 # p
    BY <1>1, <1>5
  <2>2. \A i \in 1 .. n - 1 : t[i].tag = "Message"
    BY <1>2, <1>4, <2>1
  <2>3. AllAre(t, "Message")
    BY <1>4, <2>2 DEF AllAre
  <2>4. QED
    BY <1>2, <1>3, <1>4, <1>5, <2>3 DEF t, n
<1>6. CASE p > 1
  <2>1. p - 1 \in 1 .. Len(t) /\ t[p - 1] = s[p] /\ 1 \in 1 .. n
    <3>1. p - 1 \in 1 .. n - 1 /\ (p - 1) + 1 = p
      BY <1>1, <1>6
    <3>2. t[p - 1] = s[(p - 1) + 1]
      BY <1>4, <3>1
    <3>3. QED
      BY <1>1, <1>4, <3>1, <3>2
  <2>2. \A i \in 1 .. n - 1 : i # p - 1 => i + 1 \in 1 .. n /\ i + 1 # p
    BY <1>1, <1>6
  <2>3. \A i \in 1 .. Len(t) : i # p - 1 => t[i].tag = "Message"
    BY <1>2, <1>4, <2>2
  <2>4. Answered(t, x, m)
    BY <1>2, <2>1, <2>3 DEF Answered
  <2>5. s[1].tag = "Message"
    BY <1>2, <1>6, <2>1
  <2>6. QED
    BY <1>3, <1>4, <2>4, <2>5 DEF t, n
<1>7. QED
  BY <1>1, <1>5, <1>6

\* What the constants of the link are.
LEMMA TcpConstantsAre ==
  /\ TcpCounts \subseteq Nat /\ TcpTimeouts \subseteq Nat /\ TcpFrag \in Nat \ {0} /\ MaxMessages \in Nat
  /\ MaxLeaked \in Nat
  /\ \E most \in TcpCounts : \A n \in TcpCounts : n <= most
BY LinksConstants DEF Tcp!TcpLinkConstants

\* The most that is transferred, and the codes results have.
LEMMA TcpMost ==
  /\ Tcp!Highest(TcpCounts) \in Nat /\ \A n \in TcpCounts : n <= Tcp!Highest(TcpCounts)
  /\ Tcp!Higher(255, Tcp!Highest(TcpCounts)) \in Nat /\ 255 <= Tcp!Higher(255, Tcp!Highest(TcpCounts))
  /\ \A n \in TcpCounts : n <= Tcp!Higher(255, Tcp!Highest(TcpCounts))
<1>1. Tcp!Highest(TcpCounts) \in TcpCounts /\ \A n \in TcpCounts : n <= Tcp!Highest(TcpCounts)
  BY TcpConstantsAre DEF Tcp!Highest
<1>2. \A x \in Nat : /\ Tcp!Higher(255, x) \in Nat /\ 255 <= Tcp!Higher(255, x) /\ x <= Tcp!Higher(255, x)
  BY DEF Tcp!Higher
<1> DEFINE h == Tcp!Highest(TcpCounts)
           top == Tcp!Higher(255, h)
<1>3. h \in Nat /\ TcpCounts \subseteq Nat /\ \A n \in TcpCounts : n <= h
  BY <1>1, TcpConstantsAre
<1> HIDE DEF h
<1>4. top \in Nat /\ 255 <= top /\ h <= top
  BY <1>2, <1>3
<1> HIDE DEF top
<1>5. \A n \in TcpCounts : n <= top
  BY <1>3, <1>4
<1>6. QED
  BY <1>3, <1>4, <1>5 DEF h, top

\* A result that is a status.
LEMMA StatusResult ==
  ASSUME NEW r, r = result', NEW op, NEW c \in -8 .. 1, NEW x,
         r = [op |-> op, code |-> c, moved |-> x],
         op \notin {"read", "write"} \/ c < 0 \/ c = x
  PROVE  ResultInv'
BY TcpMost DEF ResultInv, Tcp!ResultHonest

\* Such a result of a call that returns.
LEMMA Returns ==
  ASSUME NEW c \in -8 .. 1, Tcp!Return(c), call.op \notin {"read", "write"} \/ c < 0
  PROVE  ResultInv' /\ call' = Tcp!None
<1>1. result' = [op |-> call.op, code |-> c, moved |-> call.done] /\ call' = Tcp!None
  BY DEF Tcp!Return
<1>2. QED
  BY <1>1, StatusResult

\* Or of one that answers at once.
LEMMA Answers ==
  ASSUME NEW op, NEW c \in -8 .. 1, Tcp!Answer(op, c), op \notin {"read", "write"} \/ c <= 0
  PROVE  ResultInv'
<1>1. result' = [op |-> op, code |-> c, moved |-> 0]
  BY DEF Tcp!Answer
<1>2. op \notin {"read", "write"} \/ c < 0 \/ c = 0
  OBVIOUS
<1>3. QED
  BY <1>1, <1>2, StatusResult

\* No call.
LEMMA NoTcpCall ==
  /\ Tcp!None \in TcpCall /\ Tcp!None.op = "none" /\ Tcp!None.pc = "none" /\ Tcp!None.togo = 0 /\ Tcp!None.done = 0
BY DEF Tcp!None, TcpCall

\* The first state of the link.
LEMMA TcpInit == ASSUME Tcp!Init PROVE TcpInv
<1>1. /\ state = "Closed" /\ isopen = FALSE /\ sockets = 0 /\ leaked = 0 /\ conn = "none" /\ call = Tcp!None
      /\ commands = << >> /\ inbox = << >> /\ said = 0
      /\ result = [op |-> "none", code |-> 0, moved |-> 0]
  BY DEF Tcp!Init, Tcp!SUCCEEDED
<1>2. TcpTypes
  <2>1. commands \in Seq(Command) /\ inbox \in Seq(Answer)
    BY <1>1
  <2>2. said \in 0 .. MaxMessages /\ leaked \in 0 .. MaxLeaked
    BY <1>1, TcpConstantsAre
  <2>3. QED
    BY <1>1, <2>1, <2>2, NoTcpCall DEF TcpTypes
<1>3. ShutInv /\ OpeningInv /\ OpenInv /\ TransferInv
  BY <1>1, NoTcpCall DEF ShutInv, OpeningInv, OpenInv, TransferInv
<1>4. ResultInv
  BY <1>1, TcpMost DEF ResultInv, Tcp!ResultHonest
<1>5. QED
  BY <1>2, <1>3, <1>4 DEF TcpInv

\* The link is closed, and its socket.
LEMMA Shuts ==
  ASSUME TcpInv, sockets = leaked + 1, Tcp!Disconnect, state' = "Closed", isopen' = FALSE, call' = Tcp!None,
         leaked' = leaked, said' = said, ResultInv'
  PROVE  TcpInv'
<1>1. commands' = << >> /\ inbox' = << >> /\ conn' = "none" /\ sockets' = sockets - 1
  BY DEF Tcp!Disconnect, Tcp!CloseSocket
<1>2. leaked' \in 0 .. MaxLeaked /\ sockets' = leaked'
  BY <1>1, TcpConstantsAre DEF TcpTypes, TcpInv
<1>3. TcpTypes'
  <2>1. commands' \in Seq(Command) /\ inbox' \in Seq(Answer)
    BY <1>1
  <2>2. call' \in TcpCall /\ (call'.op = "none" => call' = Tcp!None)
    BY NoTcpCall
  <2>3. said' \in 0 .. MaxMessages
    BY DEF TcpTypes, TcpInv
  <2>4. Tcp!None' = Tcp!None
    BY DEF Tcp!None
  <2>5. QED
    BY <1>2, <2>1, <2>2, <2>3, <2>4 DEF TcpTypes
<1>4. ShutInv' /\ OpeningInv' /\ OpenInv' /\ TransferInv'
  BY <1>1, <1>2, NoTcpCall DEF ShutInv, OpeningInv, OpenInv, TransferInv
<1>5. QED
  BY <1>3, <1>4 DEF TcpInv

\* The link is open, and no call runs.
LEMMA Calms ==
  ASSUME TcpInv, commands' \in Seq(Command), inbox' \in Seq(Answer), Quiet(commands', inbox', said'),
         said' \in 0 .. MaxMessages, leaked' \in 0 .. MaxLeaked, sockets' = leaked' + 1, conn' = "up", state' = "Synchronous",
         isopen' = TRUE, call' = Tcp!None, ResultInv'
  PROVE  TcpInv'
<1>1. TcpTypes'
  BY NoTcpCall DEF TcpTypes
<1>2. ShutInv' /\ OpeningInv' /\ TransferInv'
  BY NoTcpCall DEF ShutInv, OpeningInv, TransferInv
<1>3. OpenInv'
  BY NoTcpCall DEF OpenInv
<1>4. QED
  BY <1>1, <1>2, <1>3 DEF TcpInv

\* An open leaves a socket behind.
OneMoreLeaked ==
  /\ call.op = "none" /\ ~ isopen /\ leaked < MaxLeaked
  /\ sockets' = sockets + 1 /\ leaked' = leaked + 1

\* Only the result changes, and a socket is left behind.
LEMMA OnlyResult ==
  ASSUME TcpInv, UNCHANGED <<state, isopen, conn, call, commands, inbox, said>>, ResultInv',
         UNCHANGED <<sockets, leaked>> \/ OneMoreLeaked
  PROVE  TcpInv'
<1>1. TcpTypes'
  <2>1. leaked' \in 0 .. MaxLeaked
    BY TcpConstantsAre DEF TcpTypes, TcpInv, OneMoreLeaked
  <2>2. QED
    BY <2>1 DEF TcpTypes, TcpInv, Tcp!None
<1>2. Tcp!Fragment' = Tcp!Fragment
  BY DEF Tcp!Fragment
<1>3. ShutInv' /\ OpeningInv'
  BY TcpConstantsAre DEF ShutInv, OpeningInv, TcpInv, TcpTypes, OneMoreLeaked
<1>4. OpenInv'
  BY <1>2 DEF OpenInv, TcpInv, OneMoreLeaked
<1>5. TransferInv'
  BY DEF TransferInv, TcpInv
<1>6. QED
  BY <1>1, <1>3, <1>4, <1>5 DEF TcpInv

\* Nothing changes.
LEMMA TcpRests ==
  ASSUME TcpInv, UNCHANGED <<state, isopen, sockets, leaked, conn, call, commands, inbox, said, result>>
  PROVE  TcpInv'
<1>1. ResultInv'
  BY DEF TcpInv, ResultInv, Tcp!ResultHonest
<1>2. QED
  BY <1>1, OnlyResult

-----------------------------------------------------------------------------
\* An open that is refused or fails.
LEMMA RefusedKeeps == ASSUME TcpInv, Tcp!OpenRefused \/ Tcp!OpenLeaks \/ Tcp!OpenFails PROVE TcpInv'
<1>1. PICK c \in -8 .. 1 : Tcp!Answer("open", c)
  BY DEF Tcp!OpenRefused, Tcp!OpenLeaks, Tcp!OpenFails, Tcp!ER_LINK_CANT, Tcp!ER_LINK_SOFT, Tcp!ER_LINK_SYNTAX
<1>2. ResultInv'
  BY <1>1, Answers
<1>3. /\ UNCHANGED <<state, isopen, conn, call, commands, inbox, said>>
      /\ UNCHANGED <<sockets, leaked>> \/ OneMoreLeaked
  BY DEF Tcp!OpenRefused, Tcp!OpenLeaks, Tcp!OpenFails, Tcp!Idle, OneMoreLeaked
<1>4. QED
  BY <1>2, <1>3, OnlyResult

\* The socket is connected and the open command sent.
LEMMA ConnectKeeps == ASSUME TcpInv, Tcp!TCPOpenLink PROVE TcpInv'
<1>1. /\ call.op = "none" /\ ~ isopen /\ sockets' = sockets + 1 /\ leaked' = leaked /\ conn' = "up" /\ state' = "OpenCheck"
      /\ commands' = <<[tag |-> "Open", n |-> 0, t |-> 0]>> /\ inbox' = << >>
      /\ UNCHANGED <<isopen, said, result>>
  BY DEF Tcp!TCPOpenLink, Tcp!Idle
<1>2. call' = [op |-> "open", pc |-> "reply", togo |-> 0, done |-> 0, frags |-> 0, each |-> 0, limit |-> 0, waited |-> 0]
  BY DEF Tcp!TCPOpenLink, Tcp!None
<1>3. sockets = leaked
  BY <1>1 DEF TcpInv, TcpTypes, ShutInv
<1>4. call'.op = "open" /\ call'.pc = "reply" /\ call'.togo = 0 /\ call'.done = 0 /\ call' \in TcpCall
  BY <1>2 DEF TcpCall
<1>5. commands' \in Seq(Command) /\ inbox' \in Seq(Answer) /\ Len(commands') = 1 /\ Len(inbox') = 0
      /\ commands'[1].tag = "Open"
  BY <1>1 DEF Command
<1>6. TcpTypes'
  BY <1>1, <1>3, <1>4, <1>5 DEF TcpInv, TcpTypes
<1>7. AllAre(commands', "Open") /\ AllAre(inbox', "Open")
  BY <1>5 DEF AllAre
<1>8. OpeningInv'
  BY <1>1, <1>3, <1>4, <1>5, <1>7 DEF OpeningInv
<1>9. ShutInv' /\ OpenInv' /\ TransferInv'
  BY <1>1, <1>4 DEF ShutInv, OpenInv, TransferInv
<1>10. ResultInv'
  BY <1>1 DEF TcpInv, ResultInv, Tcp!ResultHonest
<1>11. QED
  BY <1>6, <1>8, <1>9, <1>10 DEF TcpInv

\* The reply to the open command, or none.
LEMMA OpenedKeeps == ASSUME TcpInv, Tcp!OpenReplied \/ Tcp!OpenTimesOut PROVE TcpInv'
<1>1. call.op = "open" /\ UNCHANGED <<leaked, said>>
  BY DEF Tcp!OpenReplied, Tcp!OpenTimesOut
<1>2. ~ isopen /\ conn = "up" /\ sockets = leaked + 1
  BY <1>1 DEF TcpInv, OpeningInv
<1>2a. Len(commands) + Len(inbox) = 1
  BY <1>1 DEF TcpInv, OpeningInv
<1>3. /\ said \in 0 .. MaxMessages /\ commands \in Seq(Command) /\ inbox \in Seq(Answer) /\ MaxMessages \in Nat
      /\ leaked \in 0 .. MaxLeaked
  BY TcpConstantsAre DEF TcpInv, TcpTypes
<1>4. CASE inbox # << >> /\ call' = Tcp!None /\ result' = [op |-> "open", code |-> 1, moved |-> 0]
           /\ state' = "Synchronous" /\ isopen' = TRUE /\ inbox' = Tail(inbox) /\ UNCHANGED <<sockets, leaked, conn, commands>>
  <2>1. ResultInv'
    BY <1>4, StatusResult
  <2>2. Len(inbox) \in Nat \ {0} /\ Len(commands) \in Nat
    BY <1>3, <1>4
  <2>3. Len(commands) = 0 /\ Len(inbox) = 1
    BY <1>2a, <2>2
  <2>4. Len(Tail(inbox)) = 0 /\ Tail(inbox) \in Seq(Answer)
    BY <1>3, <1>4, <2>3
  <2>5. Quiet(commands', inbox', said')
    BY <1>1, <1>3, <1>4, <2>3, <2>4 DEF Quiet, AllAre
  <2>6. QED
    BY <1>1, <1>2, <1>3, <1>4, <2>1, <2>4, <2>5, Calms
<1>5. CASE Tcp!Disconnect /\ state' = "Closed" /\ UNCHANGED isopen /\ \E c \in -8 .. 1 : Tcp!Return(c)
  <2>1. ResultInv' /\ call' = Tcp!None
    BY <1>1, <1>5, Returns
  <2>2. isopen' = FALSE
    BY <1>2, <1>5 DEF TcpInv, TcpTypes
  <2>3. Tcp!Disconnect /\ state' = "Closed"
    BY <1>5
  <2>4. QED
    BY <1>1, <1>2, <2>1, <2>2, <2>3, Shuts
<1>6. QED
  <2>1. CASE Tcp!OpenReplied
    <3> DEFINE good == Head(inbox).tag = "Open" /\ Head(inbox).status = "NOERROR"
               c == CASE Head(inbox).status = "UNAVAILABLE" -> Tcp!ER_LINK_BUSY
                      [] Head(inbox).status = "BAD_NAME" -> Tcp!ER_NO_LINK
                      [] OTHER -> Tcp!ER_LINK_SOFT
    <3>1. c \in -8 .. 1
      BY DEF Tcp!ER_LINK_BUSY, Tcp!ER_NO_LINK, Tcp!ER_LINK_SOFT
    <3>2. CASE good
      BY <1>4, <2>1, <3>2 DEF Tcp!OpenReplied
    <3>3. CASE ~ good
      <4>1. Tcp!Disconnect /\ state' = "Closed" /\ UNCHANGED isopen /\ Tcp!Return(c)
        BY <2>1, <3>3 DEF Tcp!OpenReplied
      <4> HIDE DEF c
      <4>2. QED
        BY <1>5, <3>1, <4>1
    <3>4. QED
      BY <3>2, <3>3
  <2>2. CASE Tcp!OpenTimesOut
    BY <1>5, <2>2 DEF Tcp!OpenTimesOut, Tcp!ER_LINK_SOFT
  <2>3. QED
    BY <2>1, <2>2

-----------------------------------------------------------------------------
\* A call that waits for a reply, on a link that is open.
LEMMA Replying ==
  ASSUME TcpInv, call.pc = "reply", call.op # "open"
  PROVE  /\ isopen /\ conn = "up" /\ sockets = leaked + 1 /\ call.op \in {"read", "write", "test", "close"}
         /\ state = IF call.op = "close" THEN "SyncClosing" ELSE "SynchronousReply"
         /\ Pending(commands, inbox, Awaited(call.op), Tcp!Fragment, said)
<1>1. call.op \in {"none", "open", "close", "read", "write", "test"} /\ call.op # "none"
  BY NoTcpCall DEF TcpInv, TcpTypes, TcpCall
<1>2. isopen
  BY <1>1 DEF TcpInv, ShutInv
<1>3. QED
  BY <1>1, <1>2 DEF TcpInv, OpenInv

\* A link that is open and does not wait.
LEMMA Resting ==
  ASSUME TcpInv, isopen, call.op = "none" \/ call.pc = "send"
  PROVE  conn = "up" /\ sockets = leaked + 1 /\ state = "Synchronous" /\ Quiet(commands, inbox, said)
BY DEF TcpInv, OpenInv

\* A call that has not sent its command yet.
LEMMA Sending ==
  ASSUME TcpInv, call.pc = "send"
  PROVE  isopen /\ call.op \in {"read", "write", "test"}
<1>1. call.op # "none"
  BY NoTcpCall DEF TcpInv, TcpTypes
<1>2. isopen
  BY <1>1 DEF TcpInv, ShutInv, OpeningInv
<1>3. QED
  BY <1>2 DEF TcpInv, OpenInv

\* The types of what the link has.
LEMMA TcpFields ==
  ASSUME TcpInv
  PROVE  /\ commands \in Seq(Command) /\ inbox \in Seq(Answer) /\ call \in TcpCall
         /\ said \in Nat /\ said <= MaxMessages /\ MaxMessages \in Nat /\ isopen \in BOOLEAN
         /\ call.togo \in Nat /\ call.done \in Nat /\ call.frags \in Nat /\ call.each \in Nat
         /\ call.limit \in Nat /\ call.waited \in Nat
BY TcpConstantsAre DEF TcpInv, TcpTypes, TcpCall

\* A call goes on waiting.
LEMMA Waits ==
  ASSUME TcpInv, call.pc = "reply", call.op # "open",
         UNCHANGED <<state, isopen, sockets, leaked, conn, call, result>>,
         commands' \in Seq(Command), inbox' \in Seq(Answer), said' \in 0 .. MaxMessages,
         Pending(commands', inbox', Awaited(call.op), Tcp!Fragment, said')
  PROVE  TcpInv'
<1>1. isopen /\ conn = "up" /\ sockets = leaked + 1 /\ call.op \in {"read", "write", "test", "close"}
      /\ state = IF call.op = "close" THEN "SyncClosing" ELSE "SynchronousReply"
  BY Replying
<1>2. TcpTypes'
  BY DEF TcpInv, TcpTypes, Tcp!None
<1>3. Tcp!Fragment' = Tcp!Fragment
  BY DEF Tcp!Fragment
<1>4. ShutInv' /\ OpeningInv'
  BY <1>1 DEF ShutInv, OpeningInv
<1>5. OpenInv'
  BY <1>1, <1>3 DEF OpenInv
<1>6. TransferInv' /\ ResultInv'
  BY DEF TcpInv, TransferInv, ResultInv, Tcp!ResultHonest
<1>7. QED
  BY <1>2, <1>4, <1>5, <1>6 DEF TcpInv

\* A link that does not wait stays so.
LEMMA StaysQuiet ==
  ASSUME TcpInv, isopen, call.op = "none" \/ call.pc = "send",
         UNCHANGED <<state, isopen, sockets, leaked, conn, call>>, ResultInv',
         commands' \in Seq(Command), inbox' \in Seq(Answer), said' \in 0 .. MaxMessages,
         Quiet(commands', inbox', said')
  PROVE  TcpInv'
<1>1. conn = "up" /\ sockets = leaked + 1 /\ state = "Synchronous"
  BY Resting
<1>2. TcpTypes'
  BY DEF TcpInv, TcpTypes, Tcp!None
<1>3. call.op # "none" => call.op \in {"read", "write", "test"} /\ call.pc = "send"
  BY DEF TcpInv, OpenInv
<1>4. ShutInv' /\ OpeningInv'
  BY <1>3 DEF ShutInv, OpeningInv
<1>5. OpenInv'
  <2>1. call.op = "none" => call.pc = "none"
    BY NoTcpCall DEF TcpInv, TcpTypes
  <2>2. QED
    BY <1>1, <1>3, <2>1 DEF OpenInv
<1>6. TransferInv'
  BY DEF TcpInv, TransferInv
<1>7. QED
  BY <1>2, <1>4, <1>5, <1>6 DEF TcpInv

\* A call begins, or goes on to its next fragment.
LEMMA SendsNext ==
  ASSUME TcpInv, call' \in TcpCall, call'.op \in {"read", "write", "test"}, call'.pc = "send",
         isopen' = TRUE, sockets' = leaked' + 1, conn' = "up", state' = "Synchronous", said' = said,
         commands' \in Seq(Command), inbox' \in Seq(Answer), Quiet(commands', inbox', said'),
         leaked' = leaked, TransferInv', ResultInv'
  PROVE  TcpInv'
<1>1. TcpTypes'
  BY DEF TcpInv, TcpTypes
<1>2. ShutInv' /\ OpeningInv'
  BY DEF ShutInv, OpeningInv
<1>3. OpenInv'
  BY DEF OpenInv
<1>4. QED
  BY <1>1, <1>2, <1>3 DEF TcpInv

\* A message in between.
LEMMA MessageKeeps == ASSUME TcpInv, Tcp!Message PROVE TcpInv'
<1> DEFINE x == Awaited(call.op)
           m == Tcp!Fragment
<1>1. /\ call.pc = "reply" /\ call.op # "open" /\ inbox # << >> /\ Head(inbox).tag = "Message"
      /\ inbox' = Tail(inbox) /\ UNCHANGED <<state, isopen, sockets, leaked, conn, call, commands, said, result>>
  BY DEF Tcp!Message
<1>2. Pending(commands, inbox, x, m, said) /\ call.op \in {"read", "write", "test", "close"}
  BY <1>1, Replying
<1>3. x # "Message"
  BY <1>2 DEF Awaited
<1>4. commands \in Seq(Command) /\ inbox \in Seq(Answer) /\ said \in Nat /\ said <= MaxMessages /\ MaxMessages \in Nat
  BY TcpFields
<1> HIDE DEF x, m
<1>5. Tail(inbox) \in Seq(Answer) /\ Len(Tail(inbox)) = Len(inbox) - 1 /\ Len(inbox) \in Nat
  BY <1>1, <1>4, TailOf
<1>6. ASSUME Owed(commands, x, m) /\ AllAre(inbox, "Message") /\ Len(inbox) <= said
      PROVE  Pending(commands, Tail(inbox), x, m, said)
  <2>1. AllAre(Tail(inbox), "Message")
    BY <1>1, <1>4, <1>6, AllTail
  <2>2. Len(Tail(inbox)) <= said
    BY <1>4, <1>5, <1>6
  <2>3. QED
    BY <1>6, <2>1, <2>2 DEF Pending
<1>7. ASSUME commands = << >> /\ Answered(inbox, x, m) /\ Len(inbox) <= said + 1
      PROVE  Pending(commands, Tail(inbox), x, m, said)
  <2>1. Answered(Tail(inbox), x, m)
    BY <1>1, <1>3, <1>4, <1>7, AnsweredTail
  <2>2. Len(Tail(inbox)) <= said + 1
    BY <1>4, <1>5, <1>7
  <2>3. QED
    BY <1>7, <2>1, <2>2 DEF Pending
<1>8. Pending(commands, Tail(inbox), x, m, said) => TcpInv'
  <2>1. ASSUME Pending(commands, Tail(inbox), x, m, said) PROVE Pending(commands', inbox', x, m, said')
    BY <1>1, <2>1
  <2>2. commands' \in Seq(Command) /\ inbox' \in Seq(Answer) /\ said' \in 0 .. MaxMessages
    BY <1>1, <1>4, <1>5
  <2>3. QED
    BY <1>1, <2>1, <2>2, Waits DEF x, m
<1>9. Pending(commands, Tail(inbox), x, m, said)
  BY <1>2, <1>6, <1>7 DEF Pending
<1>10. QED
  BY <1>8, <1>9

\* What comes only when a connection breaks, or out of step, does not.
LEMMA NeverHere ==
  ASSUME TcpInv
  PROVE  ~ Tcp!FatalMessage /\ ~ Tcp!NoReply /\ ~ Tcp!WriteFails /\ ~ Tcp!Lose /\ ~ Tcp!CloseAtOnce /\ ~ Tcp!CloseSkips
<1>1. ASSUME inbox # << >>, call.pc = "reply", call.op # "open"
      PROVE  Head(inbox).tag \in {"Message", Awaited(call.op)}
  <2>1. Pending(commands, inbox, Awaited(call.op), Tcp!Fragment, said) /\ call.op \in {"read", "write", "test", "close"}
    BY <1>1, Replying
  <2>2. Awaited(call.op) # "Message"
    BY <2>1 DEF Awaited
  <2>3. inbox \in Seq(Answer)
    BY TcpFields
  <2>4. CASE AllAre(inbox, "Message")
    BY <1>1, <2>3, <2>4, AllTail
  <2>5. CASE Answered(inbox, Awaited(call.op), Tcp!Fragment)
    <3> DEFINE x == Awaited(call.op)
               m == Tcp!Fragment
    <3> HIDE DEF x, m
    <3>1. Answered(inbox, x, m) /\ x # "Message"
      BY <2>2, <2>5 DEF x, m
    <3>2. Head(inbox).tag \in {"Message", x}
      BY <2>3, <3>1, AnsweredTail
    <3>3. QED
      BY <3>2 DEF x
  <2>6. QED
    BY <2>1, <2>4, <2>5 DEF Pending
<1>2. call.pc = "reply" /\ call.op # "open" => conn = "up"
  BY Replying
<1>3. call.pc = "send" => conn = "up"
  BY Sending, Resting
<1>4. isopen /\ call.op = "none" => conn = "up" /\ state = "Synchronous"
  BY Resting
<1>5. call.op = "close" => call.pc = "reply"
  BY Sending DEF TcpInv, OpenInv, ShutInv, TcpTypes, TcpCall
<1>6. ~ Tcp!FatalMessage
  BY <1>1 DEF Tcp!FatalMessage, Awaited
<1>7. ~ Tcp!NoReply
  BY <1>1, <1>2 DEF Tcp!NoReply, Tcp!Broken, Awaited
<1>8. ~ Tcp!WriteFails
  BY <1>3 DEF Tcp!WriteFails
<1>9. ~ Tcp!Lose
  BY DEF Tcp!Lose
<1>10. ~ Tcp!CloseAtOnce
  BY <1>4 DEF Tcp!CloseAtOnce, Tcp!Idle, Tcp!NextState
<1>11. ~ Tcp!CloseSkips
  BY <1>1, <1>5 DEF Tcp!CloseSkips, Awaited
<1>12. QED
  BY <1>6, <1>7, <1>8, <1>9, <1>10, <1>11

\* A transfer that returns at once, or begins.
LEMMA BeginsTransfer ==
  ASSUME TcpInv, NEW op \in {"read", "write"}, NEW n \in TcpCounts, NEW t \in TcpTimeouts, Tcp!Transfer(op, n, t)
  PROVE  TcpInv'
<1>1. call.op = "none" /\ isopen /\ UNCHANGED <<state, isopen, sockets, leaked, conn, commands, inbox, said>>
  BY DEF Tcp!Transfer, Tcp!Idle
<1>2. conn = "up" /\ sockets = leaked + 1 /\ state = "Synchronous" /\ Quiet(commands, inbox, said)
  BY <1>1, Resting
<1>3. n \in Nat /\ t \in Nat /\ TcpFrag \in Nat \ {0}
  BY TcpConstantsAre
<1>4. CASE n = 0
  <2>1. Tcp!Answer(op, 0) /\ call' = call
    BY <1>2, <1>4 DEF Tcp!Transfer
  <2>2. ResultInv'
    BY <2>1, Answers
  <2>3. QED
    BY <1>1, <2>1, <2>2, OnlyResult
<1>5. CASE n # 0
  <2> DEFINE f == Tcp!Frags(n)
             e == Tcp!FragTimeout(op, n, t)
  <2>1. f \in Nat /\ f > 0
    <3>1. n > TcpFrag => n \div TcpFrag \in Nat /\ n \div TcpFrag > 0
      BY <1>3
    <3>2. QED
      BY <3>1 DEF Tcp!Frags
  <2>2. e \in Nat
    <3>1. \A a \in Nat, b \in Nat \ {0} : Tcp!Higher(1, a \div b) \in Nat
      BY DEF Tcp!Higher
    <3>2. n >= TcpFrag => n \div TcpFrag \in Nat \ {0}
      BY <1>3
    <3>3. CASE op = "read"
      BY <1>3, <2>1, <3>1, <3>3 DEF Tcp!FragTimeout
    <3>4. CASE op = "write"
      BY <1>3, <3>1, <3>2, <3>4 DEF Tcp!FragTimeout
    <3>5. QED
      BY <3>3, <3>4
  <2> HIDE DEF f, e
  <2>3. call' = [op |-> op, pc |-> "send", togo |-> n, done |-> 0, frags |-> f, each |-> e, limit |-> t, waited |-> 0]
        /\ result' = result
    BY <1>2, <1>5 DEF Tcp!Transfer, Tcp!None, f, e
  <2>4. /\ call'.op = op /\ call'.pc = "send" /\ call'.togo = n /\ call'.done = 0 /\ call'.frags = f
        /\ call'.each = e /\ call'.limit = t /\ call'.waited = 0 /\ call' \in TcpCall
    BY <1>3, <2>1, <2>2, <2>3 DEF TcpCall
  <2>5. TransferInv'
    <3>1. call'.togo + call'.done = n
      BY <1>3, <2>4
    <3>2. (f - f) * e = 0
      BY <2>1, <2>2
    <3>3. op = "read" => e = Tcp!FragTimeout("read", n, t)
      BY DEF e
    <3>4. QED
      BY <2>1, <2>4, <3>1, <3>2, <3>3 DEF TransferInv, f
  <2>6. ResultInv'
    BY <2>3 DEF TcpInv, ResultInv, Tcp!ResultHonest
  <2>7. commands \in Seq(Command) /\ inbox \in Seq(Answer)
    BY TcpFields
  <2>8. isopen' = TRUE
    BY <1>1 DEF TcpInv, TcpTypes
  <2>9. call'.op \in {"read", "write", "test"}
    BY <2>4
  <2>10. QED
    BY <1>1, <1>2, <2>4, <2>5, <2>6, <2>7, <2>8, <2>9, SendsNext
<1>6. QED
  BY <1>4, <1>5

\* The error test begins, whatever the state is.
LEMMA TestBegins == ASSUME TcpInv, Tcp!TCPTestError PROVE TcpInv'
<1>1. call.op = "none" /\ isopen /\ UNCHANGED <<state, isopen, sockets, leaked, conn, commands, inbox, said, result>>
  BY DEF Tcp!TCPTestError, Tcp!Idle
<1>2. conn = "up" /\ sockets = leaked + 1 /\ state = "Synchronous" /\ Quiet(commands, inbox, said)
  BY <1>1, Resting
<1>3. call' = [op |-> "test", pc |-> "send", togo |-> 0, done |-> 0, frags |-> 0, each |-> 0, limit |-> 0, waited |-> 0]
  BY DEF Tcp!TCPTestError, Tcp!None
<1>4. call'.op = "test" /\ call'.pc = "send" /\ call'.togo = 0 /\ call'.done = 0 /\ call' \in TcpCall
  BY <1>3 DEF TcpCall
<1>5. TransferInv'
  BY <1>4 DEF TransferInv
<1>6. ResultInv'
  BY <1>1 DEF TcpInv, ResultInv, Tcp!ResultHonest
<1>7. commands \in Seq(Command) /\ inbox \in Seq(Answer) /\ isopen = TRUE
  BY <1>1, TcpFields
<1>8. QED
  BY <1>1, <1>2, <1>4, <1>5, <1>6, <1>7, SendsNext

\* A command that waits for a reply goes out.
LEMMA GoesOut ==
  ASSUME TcpInv, isopen, conn = "up", sockets = leaked + 1, Quiet(commands, inbox, said), NEW c \in Command,
         commands' = Append(commands, c), call' \in TcpCall, call'.pc = "reply",
         call'.op \in {"read", "write", "test", "close"}, c.tag = Awaited(call'.op), c.n = Tcp!Fragment',
         state' = IF call'.op = "close" THEN "SyncClosing" ELSE "SynchronousReply",
         UNCHANGED <<isopen, sockets, leaked, conn, inbox, said, result>>, TransferInv'
  PROVE  TcpInv'
<1> DEFINE q == Append(commands, c)
<1>1. AllAre(commands, "reset") /\ Len(commands) <= 2 /\ AllAre(inbox, "Message") /\ Len(inbox) <= said
  BY DEF Quiet
<1>2. commands \in Seq(Command) /\ inbox \in Seq(Answer)
  BY TcpFields
<1>3. q \in Seq(Command) /\ Owed(q, c.tag, c.n)
  BY <1>1, <1>2, OwedMore, OneMore
<1> HIDE DEF q
<1>4. Pending(q, inbox, c.tag, c.n, said)
  BY <1>1, <1>3 DEF Pending
<1>5. commands' = q
  BY DEF q
<1>6. Pending(commands', inbox', Awaited(call'.op), Tcp!Fragment', said')
  BY <1>4, <1>5
<1>7. TcpTypes'
  BY <1>2, <1>3, <1>5 DEF TcpInv, TcpTypes
<1>8. ShutInv' /\ OpeningInv'
  BY DEF ShutInv, OpeningInv
<1>9. OpenInv'
  BY <1>6 DEF OpenInv
<1>10. ResultInv'
  BY DEF TcpInv, ResultInv, Tcp!ResultHonest
<1>11. QED
  BY <1>7, <1>8, <1>9, <1>10 DEF TcpInv

\* What a fragment is.
LEMMA FragmentIs ==
  ASSUME TcpInv
  PROVE  Tcp!Fragment \in Nat /\ Tcp!Fragment <= call.togo /\ (call.togo = 0 => Tcp!Fragment = 0)
<1>1. call.togo \in Nat /\ TcpFrag \in Nat
  BY TcpFields, TcpConstantsAre
<1>2. QED
  BY <1>1 DEF Tcp!Fragment, Tcp!Lower

\* The command of a fragment, or of the error test.
LEMMA CommandKeeps == ASSUME TcpInv, Tcp!SendCommand PROVE TcpInv'
<1> DEFINE c == [tag |-> call.op, n |-> Tcp!Fragment, t |-> call.each]
<1>1. /\ call.pc = "send" /\ call.op \in {"read", "write", "test"} /\ commands' = commands \o <<c>>
      /\ state' = "SynchronousReply" /\ call' = [call EXCEPT !.pc = "reply"]
      /\ UNCHANGED <<isopen, sockets, leaked, conn, inbox, said, result>>
  BY DEF Tcp!SendCommand, Tcp!Sent
<1>2. isopen /\ conn = "up" /\ sockets = leaked + 1 /\ Quiet(commands, inbox, said)
  BY <1>1, Sending, Resting
<1>3. commands \in Seq(Command) /\ call \in TcpCall /\ call.each \in Nat
  BY TcpFields
<1>4. c \in Command /\ c.tag = call.op /\ c.n = Tcp!Fragment
  BY <1>1, <1>3, FragmentIs DEF Command
<1> HIDE DEF c
<1>5. commands' = Append(commands, c)
  BY <1>1, <1>3, <1>4
<1>6. /\ call' \in TcpCall /\ call'.op = call.op /\ call'.pc = "reply" /\ call'.togo = call.togo
      /\ call'.done = call.done /\ call'.frags = call.frags /\ call'.each = call.each /\ call'.limit = call.limit
      /\ call'.waited = call.waited
  BY <1>1, <1>3 DEF TcpCall
<1>7. Tcp!Fragment' = Tcp!Fragment
  BY <1>6 DEF Tcp!Fragment
<1>8. TransferInv'
  BY <1>6 DEF TcpInv, TransferInv
<1>9. c.tag = Awaited(call'.op) /\ call'.op \in {"read", "write", "test", "close"}
      /\ state' = IF call'.op = "close" THEN "SyncClosing" ELSE "SynchronousReply"
  BY <1>1, <1>4, <1>6 DEF Awaited
<1>10. QED
  BY <1>1, <1>2, <1>4, <1>5, <1>6, <1>7, <1>8, <1>9, GoesOut

\* The close command.
LEMMA CloseBegins == ASSUME TcpInv, Tcp!TCPCloseLink PROVE TcpInv'
<1> DEFINE c == [tag |-> "Close", n |-> 0, t |-> 0]
<1>1. /\ call.op = "none" /\ isopen /\ commands' = Append(commands, c) /\ state' = Tcp!NextState
      /\ UNCHANGED <<isopen, sockets, leaked, conn, inbox, said, result>>
  BY DEF Tcp!TCPCloseLink, Tcp!Idle
<1>2. conn = "up" /\ sockets = leaked + 1 /\ state = "Synchronous" /\ Quiet(commands, inbox, said)
  BY <1>1, Resting
<1>3. call' = [op |-> "close", pc |-> "reply", togo |-> 0, done |-> 0, frags |-> 0, each |-> 0, limit |-> 0, waited |-> 0]
  BY DEF Tcp!TCPCloseLink, Tcp!None
<1>4. call'.op = "close" /\ call'.pc = "reply" /\ call'.togo = 0 /\ call'.done = 0 /\ call' \in TcpCall
  BY <1>3 DEF TcpCall
<1>5. c \in Command /\ c.tag = "Close" /\ c.n = 0
  BY DEF Command
<1>6. Tcp!Fragment' = 0
  <2>1. \A y \in Nat : Tcp!Lower(0, y) = 0
    BY DEF Tcp!Lower
  <2>2. QED
    BY <1>4, <2>1, TcpConstantsAre DEF Tcp!Fragment
<1> HIDE DEF c
<1>7. state' = "SyncClosing"
  BY <1>1, <1>2 DEF Tcp!NextState
<1>8. c.tag = Awaited(call'.op) /\ c.n = Tcp!Fragment' /\ call'.op \in {"read", "write", "test", "close"}
      /\ state' = IF call'.op = "close" THEN "SyncClosing" ELSE "SynchronousReply"
  BY <1>4, <1>5, <1>6, <1>7 DEF Awaited
<1>9. TransferInv'
  BY <1>4 DEF TransferInv
<1>10. QED
  BY <1>1, <1>2, <1>4, <1>5, <1>8, <1>9, GoesOut

\* The reply that is waited for is the last of what is to come.
LEMMA GotReply ==
  ASSUME TcpInv, call.pc = "reply", call.op # "open", inbox # << >>, Head(inbox).tag = Awaited(call.op)
  PROVE  /\ Head(inbox) \in Answer /\ Head(inbox).n <= Tcp!Fragment /\ Tail(inbox) \in Seq(Answer)
         /\ Quiet(commands, Tail(inbox), said)
<1> DEFINE x == Awaited(call.op)
           m == Tcp!Fragment
<1>1. Pending(commands, inbox, x, m, said) /\ call.op \in {"read", "write", "test", "close"}
  BY Replying
<1>2. x # "Message" /\ Head(inbox).tag = x
  BY <1>1 DEF Awaited
<1>3. inbox \in Seq(Answer) /\ said \in Nat /\ Len(inbox) \in Nat
  BY TcpFields
<1> HIDE DEF x, m
<1>4. ~ AllAre(inbox, "Message")
  BY <1>2, <1>3, AllTail
<1>5. commands = << >> /\ Answered(inbox, x, m) /\ Len(inbox) <= said + 1
  BY <1>1, <1>4 DEF Pending
<1>6. Head(inbox).n <= m /\ AllAre(Tail(inbox), "Message") /\ Tail(inbox) \in Seq(Answer)
      /\ Len(Tail(inbox)) = Len(inbox) - 1 /\ Head(inbox) \in Answer
  BY <1>2, <1>3, <1>5, AnsweredTail
<1>7. Len(Tail(inbox)) <= said
  BY <1>3, <1>5, <1>6
<1>8. AllAre(<< >>, "reset") /\ Len(<< >>) <= 2
  BY DEF AllAre
<1>9. QED
  BY <1>5, <1>6, <1>7, <1>8 DEF Quiet, m

\* One fragment more: the time of the fragments that have been tried.
LEMMA TimeSpent ==
  ASSUME NEW f \in Nat, NEW g \in Nat, g + 1 <= f, NEW e \in Nat, NEW w \in Nat, NEW v \in Nat,
         w <= (f - (g + 1)) * e, v <= w + e
  PROVE  v <= (f - g) * e
<1> DEFINE d == f - (g + 1)
<1>1. d \in Nat /\ f - g = d + 1
  OBVIOUS
<1>2. (d + 1) * e = d * e + e
  BY <1>1
<1> DEFINE p == d * e
<1>3. p \in Nat /\ w <= p
  BY <1>1
<1>4. (f - g) * e = p + e
  BY <1>1, <1>2
<1> HIDE DEF p
<1>5. QED
  BY <1>3, <1>4

\* The end of a fragment: the next one, or the end of the transfer.
LEMMA RepliedKeeps == ASSUME TcpInv, Tcp!Replied PROVE TcpInv'
<1> DEFINE k == Head(inbox).n
           togo == call.togo - k
           done == call.done + k
           frags == Tcp!FragsLeft(call.op)
<1>1. /\ call.pc = "reply" /\ call.op \in {"read", "write"} /\ inbox # << >> /\ Head(inbox).tag = call.op
      /\ inbox' = Tail(inbox) /\ state' = "Synchronous" /\ UNCHANGED <<isopen, sockets, leaked, conn, commands, said>>
  BY DEF Tcp!Replied
<1>2. isopen /\ conn = "up" /\ sockets = leaked + 1
  BY <1>1, Replying
<1>3. /\ k \in Nat /\ k <= Tcp!Fragment /\ Tail(inbox) \in Seq(Answer)
      /\ Quiet(commands, Tail(inbox), said)
  <2>1. Head(inbox).tag = Awaited(call.op)
    BY <1>1 DEF Awaited
  <2>2. Head(inbox) \in Answer /\ k <= Tcp!Fragment /\ Tail(inbox) \in Seq(Answer) /\ Quiet(commands, Tail(inbox), said)
    BY <1>1, <2>1, GotReply
  <2>3. QED
    BY <2>2 DEF Answer
<1>4. /\ call \in TcpCall /\ call.togo \in Nat /\ call.done \in Nat /\ call.frags \in Nat /\ call.each \in Nat
      /\ call.limit \in Nat /\ call.waited \in Nat /\ commands \in Seq(Command)
      /\ said \in 0 .. MaxMessages /\ isopen = TRUE
  BY <1>2, TcpFields
<1>5. togo \in Nat /\ done \in Nat /\ togo + done = call.togo + call.done
  <2> DEFINE m == Tcp!Fragment
             a == call.togo
             d == call.done
  <2>1. m <= a /\ m \in Nat /\ k <= m /\ k \in Nat /\ a \in Nat /\ d \in Nat
    BY <1>3, <1>4, FragmentIs
  <2> HIDE DEF k, m, a, d
  <2>2. a - k \in Nat /\ d + k \in Nat /\ (a - k) + (d + k) = a + d
    BY <2>1
  <2>3. QED
    BY <2>2 DEF a, d
<1>6. call.togo + call.done \in TcpCounts /\ call.limit \in TcpTimeouts
  BY <1>1 DEF TcpInv, TransferInv
<1>7. Quiet(commands', inbox', said') /\ inbox' \in Seq(Answer) /\ commands' \in Seq(Command)
      /\ said' \in 0 .. MaxMessages /\ sockets' = leaked' + 1 /\ conn' = "up" /\ isopen' = TRUE
      /\ leaked' = leaked /\ leaked' \in 0 .. MaxLeaked
  BY <1>1, <1>2, <1>3, <1>4 DEF TcpInv, TcpTypes
<1> HIDE DEF k
<1>8. CASE Tcp!Return(Tcp!ER_LINK_SOFT)
  <2>1. ResultInv' /\ call' = Tcp!None
    BY <1>8, Returns DEF Tcp!ER_LINK_SOFT
  <2>2. QED
    BY <1>1, <1>7, <2>1, Calms
<1>9. CASE /\ Tcp!MoreToDo(togo, frags) /\ result' = result
           /\ call' = [call EXCEPT !.pc = "send", !.togo = togo, !.frags = frags,
                             !.done = @ + k, !.waited = Tcp!Waited(@, k)]
  <2> DEFINE w == Tcp!Waited(call.waited, k)
  <2>1. frags \in Nat /\ (call.op = "read" => frags + 1 = call.frags)
    <3>1. call.op = "read" => frags = call.frags - 1 /\ frags >= 0
      BY <1>9 DEF Tcp!MoreToDo, Tcp!FragsLeft
    <3>2. call.op = "write" => frags = call.frags
      BY DEF Tcp!FragsLeft
    <3> HIDE DEF frags
    <3>3. QED
      BY <1>1, <1>4, <3>1, <3>2, SMTT(30)
  <2>2. w \in Nat /\ w <= call.waited + call.each
    <3>1. \A a \in Nat, b \in Nat : Tcp!Higher(a, b) \in Nat /\ Tcp!Lower(a, b) \in Nat /\ Tcp!Lower(a, b) <= a
      BY DEF Tcp!Higher, Tcp!Lower
    <3> DEFINE h == 3 * Tcp!Higher(call.limit, call.frags)
               s == call.waited + call.each
               top == Tcp!Higher(call.limit, call.frags)
    <3>2. h \in Nat /\ s \in Nat
      <4>1. top \in Nat
        BY <1>4, <3>1
      <4>2. s \in Nat
        BY <1>4
      <4> HIDE DEF top
      <4>3. 3 * top \in Nat
        BY <4>1
      <4>4. QED
        BY <4>2, <4>3 DEF top
    <3>3. w = Tcp!Lower(s, h) \/ w = call.waited
      BY DEF Tcp!Waited
    <3> HIDE DEF h, w
    <3>4. Tcp!Lower(s, h) \in Nat /\ Tcp!Lower(s, h) <= s
      BY <3>1, <3>2
    <3>5. QED
      BY <1>4, <3>3, <3>4
  <2> HIDE DEF w, frags, togo, done
  <2>3. call' = [op |-> call.op, pc |-> "send", togo |-> togo, done |-> done, frags |-> frags,
                 each |-> call.each, limit |-> call.limit, waited |-> w]
    BY <1>4, <1>9 DEF TcpCall, done, w
  <2>4. /\ call'.op = call.op /\ call'.pc = "send" /\ call'.togo = togo /\ call'.done = done /\ call'.frags = frags
        /\ call'.each = call.each /\ call'.limit = call.limit /\ call'.waited = w /\ call' \in TcpCall
    BY <1>1, <1>4, <1>5, <2>1, <2>2, <2>3 DEF TcpCall
  <2>5. TransferInv'
    <3> DEFINE n == call.togo + call.done
               f == Tcp!Frags(n)
    <3>1. call'.togo + call'.done = n
      BY <1>5, <2>4
    <3> HIDE DEF n
    <3>2. call.op = "read" =>
            /\ call.frags <= f /\ call.each = Tcp!FragTimeout("read", n, call.limit)
            /\ call.waited <= (f - call.frags) * call.each
      BY DEF TcpInv, TransferInv, n
    <3>3. n \in Nat /\ f \in Nat
      <4>1. n \in Nat
        BY <1>4 DEF n
      <4>2. QED
        BY <4>1, TcpConstantsAre DEF Tcp!Frags
    <3> HIDE DEF f
    <3>4. ASSUME call.op = "read" PROVE frags <= f /\ w <= (f - frags) * call.each
      <4>1. frags + 1 = call.frags /\ frags + 1 <= f
        BY <2>1, <3>2, <3>4
      <4>2. call.waited <= (f - (frags + 1)) * call.each
        BY <3>2, <3>4, <4>1
      <4>3. frags <= f
        BY <2>1, <3>3, <4>1
      <4>4. QED
        BY <1>4, <2>1, <2>2, <3>3, <4>1, <4>2, <4>3, TimeSpent
    <3>5. call'.togo + call'.done \in TcpCounts /\ call'.limit \in TcpTimeouts
      BY <1>6, <2>4, <3>1 DEF n
    <3>6. call'.op = "read" =>
            /\ call'.frags <= Tcp!Frags(call'.togo + call'.done)
            /\ call'.each = Tcp!FragTimeout("read", call'.togo + call'.done, call'.limit)
            /\ call'.waited <= (Tcp!Frags(call'.togo + call'.done) - call'.frags) * call'.each
      BY <2>4, <3>1, <3>2, <3>4 DEF f
    <3>7. call'.op \notin {"close", "test"}
      BY <1>1, <2>4
    <3>8. QED
      BY <3>5, <3>6, <3>7 DEF TransferInv
  <2>6. ResultInv'
    BY <1>9 DEF TcpInv, ResultInv, Tcp!ResultHonest
  <2>7. call'.op \in {"read", "write", "test"} /\ said' = said
    BY <1>1, <2>4
  <2>8. QED
    BY <1>1, <1>7, <2>4, <2>5, <2>6, <2>7, SendsNext
<1>10. CASE call' = Tcp!None /\ result' = [op |-> call.op, code |-> done, moved |-> done]
  <2> DEFINE top == Tcp!Higher(255, Tcp!Highest(TcpCounts))
             n == call.togo + call.done
  <2>1. top \in Nat /\ n \in TcpCounts /\ \A a \in TcpCounts : a <= top
    BY <1>6, TcpMost
  <2>2. done <= n
    BY <1>4, <1>5
  <2> HIDE DEF top, n, done
  <2>3. done \in -8 .. top
    <3>1. n \in Nat /\ n <= top
      BY <2>1, TcpConstantsAre
    <3>2. QED
      BY <1>5, <2>1, <2>2, <3>1
  <2>4. result'.code = done /\ result'.moved = done
    BY <1>10
  <2>5. ResultInv'
    BY <2>3, <2>4 DEF ResultInv, Tcp!ResultHonest, top
  <2>6. QED
    BY <1>1, <1>7, <1>10, <2>5, Calms
<1>11. QED
  BY <1>8, <1>9, <1>10 DEF Tcp!Replied, Tcp!MovedUp, k

\* The error test is answered.
LEMMA TestedKeeps == ASSUME TcpInv, Tcp!ErrorTested PROVE TcpInv'
<1>1. /\ call.op = "test" /\ call.pc = "reply" /\ inbox # << >> /\ Head(inbox).tag = "test"
      /\ inbox' = Tail(inbox) /\ state' = "Synchronous" /\ UNCHANGED <<isopen, sockets, leaked, conn, commands, said>>
  BY DEF Tcp!ErrorTested
<1>2. PICK c \in -8 .. 1 : Tcp!Return(c)
  BY DEF Tcp!ErrorTested, Tcp!ER_LINK_SOFT
<1>3. ResultInv' /\ call' = Tcp!None
  BY <1>1, <1>2, Returns
<1>4. Head(inbox).tag = Awaited(call.op)
  BY <1>1 DEF Awaited
<1>5. Tail(inbox) \in Seq(Answer) /\ Quiet(commands, Tail(inbox), said)
  BY <1>1, <1>4, GotReply
<1>6. isopen /\ conn = "up" /\ sockets = leaked + 1
  BY <1>1, Replying
<1>7. /\ commands \in Seq(Command) /\ said \in 0 .. MaxMessages /\ isopen = TRUE
      /\ leaked \in 0 .. MaxLeaked
  BY <1>6, TcpFields DEF TcpInv, TcpTypes
<1>8. QED
  BY <1>1, <1>3, <1>5, <1>6, <1>7, Calms

\* A reset, which no reply is to.
LEMMA ResetQueues == ASSUME TcpInv, Tcp!ResetLink PROVE TcpInv'
<1> DEFINE c == [tag |-> "reset", n |-> 0, t |-> 0]
           q == Append(commands, c)
<1>1. /\ call.op = "none" /\ isopen /\ Len(commands) < 2
      /\ UNCHANGED <<state, isopen, sockets, leaked, conn, call, inbox, said>>
  BY DEF Tcp!ResetLink, Tcp!Idle
<1>2. conn = "up" /\ sockets = leaked + 1 /\ state = "Synchronous" /\ Quiet(commands, inbox, said)
  BY <1>1, Resting
<1>3. commands' = q /\ Tcp!Answer("reset", 0)
  BY <1>2 DEF Tcp!ResetLink, Tcp!SUCCEEDED
<1>4. ResultInv'
  BY <1>3, Answers
<1>5. c \in Command /\ c.tag = "reset"
  BY DEF Command
<1> HIDE DEF c
<1>6. commands \in Seq(Command) /\ inbox \in Seq(Answer) /\ said \in 0 .. MaxMessages
  BY TcpFields
<1>7. q \in Seq(Command) /\ Len(q) = Len(commands) + 1 /\ Len(commands) \in Nat
  BY <1>5, <1>6, OneMore
<1>8. AllAre(commands, "reset")
  BY <1>2 DEF Quiet
<1>9. AllAre(q, "reset")
  <2>1. AllAre(commands, c.tag)
    BY <1>5, <1>8
  <2>2. AllAre(q, c.tag)
    BY <1>5, <1>6, <2>1, AllMore
  <2>3. QED
    BY <1>5, <2>2
<1> HIDE DEF q
<1>10. Len(q) <= 2
  BY <1>1, <1>7
<1>11. Quiet(commands', inbox', said')
  BY <1>1, <1>2, <1>3, <1>9, <1>10 DEF Quiet
<1>12. QED
  BY <1>1, <1>3, <1>4, <1>6, <1>7, <1>11, StaysQuiet

\* The end of a close.
LEMMA ClosedKeeps == ASSUME TcpInv, Tcp!CloseReplied PROVE TcpInv'
<1>1. call.op = "close" /\ Tcp!Disconnect /\ state' = "Closed" /\ isopen' = FALSE /\ call' = Tcp!None
      /\ Tcp!Answer("close", 0) /\ UNCHANGED <<leaked, said>>
  BY DEF Tcp!CloseReplied, Tcp!CloseEnd, Tcp!SUCCEEDED
<1>2. ResultInv'
  BY <1>1, Answers
<1>3. call.pc = "reply"
  BY <1>1, Sending DEF TcpInv, OpenInv, ShutInv, TcpTypes, TcpCall
<1>4. sockets = leaked + 1
  BY <1>1, <1>3, Replying
<1>5. QED
  BY <1>1, <1>2, <1>4, Shuts

-----------------------------------------------------------------------------
\* What the server answers to the oldest command.
LEMMA ServerSays ==
  ASSUME TcpInv, Tcp!Serve
  PROVE  /\ conn = "up" /\ commands # << >> /\ commands' = Tail(commands)
         /\ UNCHANGED <<state, isopen, sockets, leaked, conn, call, said, result>>
         /\ \/ Head(commands).tag = "reset" /\ inbox' = inbox
            \/ Head(commands).tag # "reset"
               /\ \E r \in Answer : r.tag = Head(commands).tag /\ r.n <= Head(commands).n /\ inbox' = Append(inbox, r)
<1> DEFINE c == Head(commands)
           Says(r) == r \in Answer /\ r.tag = c.tag /\ r.n <= c.n /\ inbox' = Append(inbox, r)
<1>1. /\ conn = "up" /\ commands # << >> /\ commands' = Tail(commands)
      /\ UNCHANGED <<state, isopen, sockets, leaked, conn, call, said, result>>
  BY DEF Tcp!Serve
<1>2. c \in Command
  BY <1>1, TcpFields, TailOf
<1>3. c.n \in Nat
  BY <1>2 DEF Command
<1>4. ASSUME NEW k \in Nat, k <= c.n, c.tag \in {"Open", "read", "write", "test", "Close"},
             NEW st \in {"NOERROR", "UNAVAILABLE", "BAD_NAME", "BAD_SERVICE", "LINK_FATAL"},
             inbox' = Append(inbox, Tcp!Reply(c.tag, k, st))
      PROVE  c.tag # "reset" /\ \E r \in Answer : Says(r)
  <2>1. Says(Tcp!Reply(c.tag, k, st))
    BY <1>4 DEF Tcp!Reply, Answer
  <2>2. QED
    BY <1>4, <2>1
<1>5. CASE c.tag = "reset" /\ inbox' = inbox
  BY <1>1, <1>5
<1>6. CASE c.tag = "Open" /\ \E s \in {"NOERROR", "UNAVAILABLE", "BAD_NAME", "BAD_SERVICE"} :
             inbox' = Append(inbox, Tcp!Reply("Open", 0, s))
  <2>1. c.tag # "reset" /\ \E r \in Answer : Says(r)
    BY <1>3, <1>4, <1>6
  <2>2. QED
    BY <1>1, <2>1
<1>7. CASE c.tag \in {"read", "write"} /\ \E k \in 0 .. c.n : inbox' = Append(inbox, Tcp!Reply(c.tag, k, "NOERROR"))
  <2>1. c.tag # "reset" /\ \E r \in Answer : Says(r)
    BY <1>3, <1>4, <1>7
  <2>2. QED
    BY <1>1, <2>1
<1>8. CASE /\ c.tag \in {"read", "write", "test", "Close"}
           /\ \E s \in {"NOERROR", "LINK_FATAL"} : inbox' = Append(inbox, Tcp!Reply(c.tag, 0, s))
  <2>1. c.tag # "reset" /\ \E r \in Answer : Says(r)
    BY <1>3, <1>4, <1>8
  <2>2. QED
    BY <1>1, <2>1
<1>9. QED
  BY <1>5, <1>6, <1>7, <1>8 DEF Tcp!Serve

\* The server answers the open command.
LEMMA OpeningServed == ASSUME TcpInv, Tcp!Serve, call.op = "open" PROVE TcpInv'
<1>1. /\ commands # << >> /\ commands' = Tail(commands)
      /\ UNCHANGED <<state, isopen, sockets, leaked, conn, call, said, result>>
  BY ServerSays
<1>2. /\ ~ isopen /\ call.pc = "reply" /\ call.done = 0 /\ state = "OpenCheck" /\ conn = "up" /\ sockets = leaked + 1
      /\ call.togo = 0 /\ Len(commands) + Len(inbox) = 1 /\ AllAre(commands, "Open")
  BY DEF TcpInv, OpeningInv
<1>3. commands \in Seq(Command) /\ inbox \in Seq(Answer)
  BY TcpFields
<1>4. Len(commands) \in Nat \ {0} /\ Len(inbox) \in Nat /\ Len(Tail(commands)) = Len(commands) - 1
      /\ Tail(commands) \in Seq(Command)
  BY <1>1, <1>3, TailOf
<1>5. Len(commands) = 1 /\ Len(inbox) = 0 /\ Len(Tail(commands)) = 0
  BY <1>2, <1>4
<1>6. Head(commands).tag = "Open"
  BY <1>1, <1>2, <1>3, AllTail
<1>7. PICK r \in Answer : r.tag = "Open" /\ inbox' = Append(inbox, r)
  BY <1>6, ServerSays
<1> DEFINE q == Append(inbox, r)
<1>8. q \in Seq(Answer) /\ Len(q) = Len(inbox) + 1 /\ q[Len(inbox) + 1] = r
  BY <1>3, OneMore
<1>9. inbox' = q
  BY <1>7
<1> HIDE DEF q
<1>10. Len(q) = 1 /\ q[1].tag = "Open"
  BY <1>5, <1>7, <1>8
<1>11. AllAre(inbox', "Open") /\ AllAre(commands', "Open") /\ Len(commands') + Len(inbox') = 1
  <2>1. \A i \in 1 .. Len(q) : i = 1
    BY <1>10
  <2>2. AllAre(q, "Open")
    BY <1>10, <2>1 DEF AllAre
  <2>3. AllAre(Tail(commands), "Open")
    BY <1>1, <1>2, <1>3, AllTail
  <2>4. QED
    BY <1>1, <1>5, <1>9, <1>10, <2>2, <2>3
<1>12. OpeningInv'
  BY <1>1, <1>2, <1>11 DEF OpeningInv
<1>13. TcpTypes'
  BY <1>1, <1>4, <1>8, <1>9 DEF TcpInv, TcpTypes, Tcp!None
<1>14. ShutInv' /\ OpenInv' /\ TransferInv' /\ ResultInv'
  BY <1>1, <1>2 DEF TcpInv, ShutInv, OpenInv, TransferInv, ResultInv, Tcp!ResultHonest
<1>15. QED
  BY <1>12, <1>13, <1>14 DEF TcpInv

\* It takes a reset, or answers the command that waits for it.
LEMMA ServedKeeps == ASSUME TcpInv, Tcp!Serve PROVE TcpInv'
<1> DEFINE x == Awaited(call.op)
           m == Tcp!Fragment
<1>1. /\ conn = "up" /\ commands # << >> /\ commands' = Tail(commands)
      /\ UNCHANGED <<state, isopen, sockets, leaked, conn, call, said, result>>
  BY ServerSays
<1>2. /\ commands \in Seq(Command) /\ inbox \in Seq(Answer) /\ said \in 0 .. MaxMessages /\ said \in Nat
      /\ Tail(commands) \in Seq(Command) /\ Len(Tail(commands)) = Len(commands) - 1 /\ Len(commands) \in Nat
      /\ Len(inbox) \in Nat
  <2>1. commands \in Seq(Command) /\ inbox \in Seq(Answer) /\ said \in Nat /\ said <= MaxMessages /\ MaxMessages \in Nat
    BY TcpFields
  <2>2. Tail(commands) \in Seq(Command) /\ Len(Tail(commands)) = Len(commands) - 1 /\ Len(commands) \in Nat
    BY <1>1, <2>1, TailOf
  <2>3. Len(inbox) \in Nat
    BY <2>1
  <2>4. QED
    BY <2>1, <2>2, <2>3
<1>3. CASE isopen /\ (call.op = "none" \/ call.pc = "send")
  <2>1. Quiet(commands, inbox, said)
    BY <1>3, Resting
  <2>2. AllAre(commands, "reset") /\ Len(commands) <= 2
    BY <2>1 DEF Quiet
  <2>3. AllAre(Tail(commands), "reset") /\ Head(commands).tag = "reset"
    BY <1>1, <1>2, <2>2, AllTail
  <2>4. inbox' = inbox
    BY <2>3, ServerSays
  <2>5. Len(Tail(commands)) <= 2
    BY <1>2, <2>2
  <2>6. Quiet(commands', inbox', said')
    BY <1>1, <2>1, <2>3, <2>4, <2>5 DEF Quiet
  <2>7. ResultInv'
    BY <1>1 DEF TcpInv, ResultInv, Tcp!ResultHonest
  <2>8. commands' \in Seq(Command) /\ inbox' \in Seq(Answer) /\ said' \in 0 .. MaxMessages
    BY <1>1, <1>2, <2>4
  <2>9. QED
    BY <1>1, <1>3, <2>6, <2>7, <2>8, StaysQuiet
<1>4. CASE isopen /\ call.op # "none" /\ call.pc = "reply"
  <2>1. call.op # "open"
    BY <1>4 DEF TcpInv, OpenInv
  <2>2. Pending(commands, inbox, x, m, said)
    BY <1>4, <2>1, Replying
  <2>3. call.op \in {"read", "write", "test", "close"}
    BY <1>4, <2>1, Replying
  <2>4. m \in Nat /\ x # "reset"
    BY <2>3, FragmentIs DEF Awaited
  <2> HIDE DEF m, x
  <2>5. Owed(commands, x, m) /\ AllAre(inbox, "Message") /\ Len(inbox) <= said
    BY <1>1, <2>2 DEF Pending
  <2>6. ASSUME Head(commands).tag = "reset" /\ Owed(Tail(commands), x, m) PROVE Pending(commands', inbox', x, m, said')
    <3>1. inbox' = inbox
      BY <2>6, ServerSays
    <3>2. QED
      BY <1>1, <2>5, <2>6, <3>1 DEF Pending
  <2>7. ASSUME Head(commands).tag = x /\ Head(commands).n <= m /\ Tail(commands) = << >>
        PROVE  Pending(commands', inbox', x, m, said') /\ inbox' \in Seq(Answer)
    <3>1. PICK r \in Answer : r.tag = x /\ r.n <= Head(commands).n /\ inbox' = Append(inbox, r)
      BY <2>4, <2>7, ServerSays
    <3>2. r.n <= m
      <4>1. r.n \in Nat /\ Head(commands).n \in Nat
        <5>1. Head(commands) \in Command
          BY <1>1, <1>2, TailOf
        <5>2. QED
          BY <5>1 DEF Answer, Command
      <4>2. QED
        BY <2>4, <2>7, <3>1, <4>1
    <3> DEFINE q == Append(inbox, r)
    <3>3. Answered(q, r.tag, m)
      BY <1>2, <2>5, <3>2, AnswerComes
    <3>4. Len(q) = Len(inbox) + 1 /\ q \in Seq(Answer)
      BY <1>2, OneMore
    <3>5. inbox' = q
      BY <3>1
    <3> HIDE DEF q
    <3>6. Len(q) <= said + 1
      BY <1>2, <2>5, <3>4
    <3>7. Answered(q, x, m)
      BY <3>1, <3>3
    <3>8. QED
      BY <1>1, <2>7, <3>4, <3>5, <3>6, <3>7 DEF Pending
  <2>8. Pending(commands', inbox', x, m, said') /\ inbox' \in Seq(Answer)
    <3>1. CASE Head(commands).tag = "reset" /\ Owed(Tail(commands), x, m)
      BY <1>2, <2>6, <3>1, ServerSays
    <3>2. CASE Head(commands).tag = x /\ Head(commands).n <= m /\ Tail(commands) = << >>
      BY <2>7, <3>2
    <3>3. QED
      BY <1>2, <2>5, <3>1, <3>2, OwedTail
  <2>9. commands' \in Seq(Command) /\ said' \in 0 .. MaxMessages
    BY <1>1, <1>2
  <2>10. QED
    BY <1>1, <1>4, <2>1, <2>8, <2>9, Waits DEF x, m
<1>5. CASE call.op = "open"
  BY <1>5, OpeningServed
<1>6. isopen \/ call.op = "open"
  BY <1>1 DEF TcpInv, ShutInv
<1>7. isopen /\ call.op # "none" => call.pc \in {"send", "reply"}
  BY DEF TcpInv, OpenInv, TcpTypes, TcpCall
<1>8. QED
  BY <1>3, <1>4, <1>5, <1>6, <1>7

\* A message of the server.
LEMMA SaysKeeps == ASSUME TcpInv, Tcp!Say PROVE TcpInv'
<1> DEFINE r == Tcp!Reply("Message", 0, "NOERROR")
           q == Append(inbox, r)
           x == Awaited(call.op)
           m == Tcp!Fragment
<1>1. /\ conn = "up" /\ isopen /\ said < MaxMessages /\ inbox' = q /\ said' = said + 1
      /\ UNCHANGED <<state, isopen, sockets, leaked, conn, call, commands, result>>
  BY DEF Tcp!Say
<1>2. commands \in Seq(Command) /\ inbox \in Seq(Answer) /\ said \in Nat /\ MaxMessages \in Nat
  BY TcpFields
<1>3. r \in Answer /\ r.tag = "Message"
  BY DEF Tcp!Reply, Answer
<1> HIDE DEF r
<1>4. q \in Seq(Answer) /\ Len(q) = Len(inbox) + 1 /\ Len(inbox) \in Nat
  BY <1>2, <1>3, OneMore
<1>5. ASSUME AllAre(inbox, "Message") PROVE AllAre(q, "Message")
  <2>1. AllAre(inbox, r.tag)
    BY <1>3, <1>5
  <2>2. AllAre(q, r.tag)
    BY <1>2, <1>3, <2>1, AllMore
  <2>3. QED
    BY <1>3, <2>2
<1>6. ASSUME Answered(inbox, x, m) PROVE Answered(q, x, m)
  <2> HIDE DEF x, m
  <2>1. QED
    BY <1>2, <1>3, <1>6, MessageComes
<1> HIDE DEF q
<1>7. said' \in 0 .. MaxMessages /\ \A k \in Nat : Len(inbox) <= k => Len(q) <= k + 1
  BY <1>1, <1>2, <1>4
<1>8. CASE call.op = "none" \/ call.pc = "send"
  <2>1. AllAre(commands, "reset") /\ Len(commands) <= 2 /\ AllAre(inbox, "Message") /\ Len(inbox) <= said
    BY <1>1, <1>8, Resting DEF Quiet
  <2>2. Len(q) <= said + 1
    BY <1>2, <1>4, <2>1
  <2>3. Quiet(commands', inbox', said')
    BY <1>1, <1>5, <2>1, <2>2 DEF Quiet
  <2>4. ResultInv'
    BY <1>1 DEF TcpInv, ResultInv, Tcp!ResultHonest
  <2>5. commands' \in Seq(Command) /\ inbox' \in Seq(Answer)
    BY <1>1, <1>2, <1>4
  <2>6. QED
    BY <1>1, <1>7, <1>8, <2>3, <2>4, <2>5, StaysQuiet
<1>9. CASE call.op # "none" /\ call.pc = "reply"
  <2>1. call.op # "open"
    BY <1>1, <1>9 DEF TcpInv, OpenInv
  <2>2. Pending(commands, inbox, x, m, said)
    BY <1>9, <2>1, Replying
  <2> HIDE DEF x, m
  <2>4. ASSUME Owed(commands, x, m) /\ AllAre(inbox, "Message") /\ Len(inbox) <= said
        PROVE  Pending(commands', inbox', x, m, said')
    <3>1. Len(q) <= said + 1
      BY <1>2, <1>4, <2>4
    <3>2. QED
      BY <1>1, <1>5, <2>4, <3>1 DEF Pending
  <2>5. ASSUME commands = << >> /\ Answered(inbox, x, m) /\ Len(inbox) <= said + 1
        PROVE  Pending(commands', inbox', x, m, said')
    <3>1. Len(q) <= (said + 1) + 1
      BY <1>2, <1>4, <2>5
    <3>2. QED
      BY <1>1, <1>6, <2>5, <3>1 DEF Pending
  <2>6. Pending(commands', inbox', x, m, said')
    BY <2>2, <2>4, <2>5 DEF Pending
  <2>7. commands' \in Seq(Command) /\ inbox' \in Seq(Answer)
    BY <1>1, <1>2, <1>4
  <2>8. QED
    BY <1>1, <1>7, <1>9, <2>1, <2>6, <2>7, Waits DEF x, m
<1>10. call.op # "none" => call.pc \in {"send", "reply"}
  BY <1>1 DEF TcpInv, OpenInv, TcpTypes, TcpCall
<1>11. QED
  BY <1>8, <1>9, <1>10

\* Every step of the link.
LEMMA TcpNext == ASSUME TcpInv, Tcp!Next PROVE TcpInv'
<1>1. CASE Tcp!OpenRefused \/ Tcp!OpenLeaks \/ Tcp!OpenFails
  BY <1>1, RefusedKeeps
<1>2. CASE Tcp!TCPOpenLink
  BY <1>2, ConnectKeeps
<1>3. CASE \E op \in {"read", "write"}, n \in TcpCounts, t \in TcpTimeouts : Tcp!Transfer(op, n, t)
  BY <1>3, BeginsTransfer
<1>4. CASE Tcp!ResetLink \/ Tcp!TCPTestError \/ Tcp!TCPCloseLink
  BY <1>4, ResetQueues, TestBegins, CloseBegins
<1>5. CASE Tcp!OpenReplied \/ Tcp!OpenTimesOut
  BY <1>5, OpenedKeeps
<1>6. CASE Tcp!Message \/ Tcp!SendCommand \/ Tcp!Replied \/ Tcp!ErrorTested \/ Tcp!CloseReplied
  BY <1>6, MessageKeeps, CommandKeeps, RepliedKeeps, TestedKeeps, ClosedKeeps
<1>7. CASE Tcp!Serve \/ Tcp!Say
  BY <1>7, ServedKeeps, SaysKeeps
<1>8. QED
  BY <1>1, <1>2, <1>3, <1>4, <1>5, <1>6, <1>7, NeverHere DEF Tcp!Next, Tcp!Step

\* A read gives up in twice its time, however many of its fragments come short.
LEMMA TwiceIsEnough ==
  ASSUME NEW f \in Nat, f >= 1, NEW t \in Nat, t > 0, NEW e,
         e = IF f > 1 THEN Tcp!Higher(1, t \div f) ELSE t,
         NEW k \in Nat, k <= f, NEW w \in Nat, w <= (f - k) * e
  PROVE  w + e <= 2 * Tcp!Higher(t, f)
<1> DEFINE q == t \div f
           top == Tcp!Higher(t, f)
<1>1. q \in Nat /\ q * f <= t
  <2>1. q \in Nat /\ t % f \in Nat /\ t = f * q + (t % f)
    OBVIOUS
  <2> DEFINE p == f * q
             r == t % f
  <2>2. p \in Nat /\ r \in Nat /\ t = p + r
    BY <2>1
  <2>3. q * f = p
    BY <2>1
  <2> HIDE DEF p, r
  <2>4. p <= t
    BY <2>2
  <2>5. QED
    BY <2>1, <2>3, <2>4
<1>2. top \in Nat /\ t <= top /\ f <= top
  BY DEF Tcp!Higher
<1> HIDE DEF q, top
<1>3. e = IF f > 1 THEN (IF 1 > q THEN 1 ELSE q) ELSE t
  BY DEF Tcp!Higher, q
<1>4. e \in Nat
  BY <1>1, <1>3
<1>5. w <= f * e
  <2> DEFINE d == f - k
             a == d * e
             b == k * e
  <2>1. d \in Nat /\ f = d + k
    OBVIOUS
  <2>2. a \in Nat /\ b \in Nat
    BY <1>4, <2>1
  <2>3. (d + k) * e = a + b
    BY <1>4, <2>1
  <2>4. w <= a
    OBVIOUS
  <2>5. f * e = a + b
    BY <2>1, <2>3
  <2> HIDE DEF d, a, b
  <2>6. w <= a + b
    BY <2>2, <2>4
  <2>7. QED
    BY <2>5, <2>6
<1>6. f * e + e <= 2 * top
  <2>1. CASE f = 1
    <3>1. e = t
      BY <1>3, <2>1
    <3>2. f * e = t
      BY <1>4, <2>1, <3>1
    <3>3. QED
      BY <1>2, <3>1, <3>2
  <2>2. CASE f > 1 /\ q = 0
    <3>1. e = 1
      BY <1>3, <2>2
    <3>2. f * e = f
      BY <3>1
    <3>3. QED
      BY <1>2, <2>2, <3>1, <3>2
  <2>3. CASE f > 1 /\ q >= 1
    <3>1. e = q
      BY <1>1, <1>3, <2>3
    <3> DEFINE p == f * e
    <3>2. p = q * f
      BY <1>1, <3>1
    <3>3. p <= t /\ p \in Nat
      BY <1>1, <1>4, <3>2
    <3>4. e <= p
      BY <1>1, <1>4, <2>3
    <3> HIDE DEF p
    <3>5. p + e <= 2 * top
      BY <1>2, <1>4, <3>3, <3>4
    <3>6. QED
      BY <3>5 DEF p
  <2>4. QED
    BY <1>1, <2>1, <2>2, <2>3
<1> DEFINE p == f * e
<1>7. p \in Nat
  BY <1>4
<1>8. w <= p /\ p + e <= 2 * top
  BY <1>5, <1>6
<1>9. 2 * top \in Nat
  BY <1>2
<1> DEFINE two == 2 * top
<1> HIDE DEF p, two
<1>10. w + e <= two
  BY <1>4, <1>7, <1>8, <1>9 DEF two
<1>11. QED
  BY <1>10 DEF two, top

\* What the invariant of the link says of its bounds.
LEMMA TcpLengths ==
  ASSUME TcpInv
  PROVE  /\ Len(commands) <= 3 /\ Len(inbox) <= 2 + MaxMessages
         /\ state \in {"Closed", "OpenCheck", "Synchronous", "SynchronousReply", "SyncClosing"}
         /\ conn \in {"none", "up"} /\ sockets \in 0 .. MaxLeaked + 1
<1>1. /\ commands \in Seq(Command) /\ inbox \in Seq(Answer) /\ said \in Nat /\ said <= MaxMessages
      /\ MaxMessages \in Nat /\ leaked \in 0 .. MaxLeaked /\ MaxLeaked \in Nat
  BY TcpFields, TcpConstantsAre DEF TcpInv, TcpTypes
<1>2. Len(commands) \in Nat /\ Len(inbox) \in Nat
  BY <1>1
<1>3. CASE ~ isopen /\ call.op # "open"
  <2>1. state = "Closed" /\ commands = << >> /\ inbox = << >> /\ conn = "none" /\ sockets = leaked
    BY <1>3 DEF TcpInv, ShutInv, TcpTypes
  <2>2. QED
    BY <1>1, <2>1
<1>4. CASE call.op = "open"
  <2>1. state = "OpenCheck" /\ conn = "up" /\ sockets = leaked + 1 /\ Len(commands) + Len(inbox) = 1
    BY <1>4 DEF TcpInv, OpeningInv
  <2>2. Len(commands) <= 3 /\ Len(inbox) <= 2 + MaxMessages
    BY <1>1, <1>2, <2>1
  <2>3. QED
    BY <1>1, <2>1, <2>2
<1>5. CASE isopen /\ (call.op = "none" \/ call.pc = "send")
  <2>1. conn = "up" /\ sockets = leaked + 1 /\ state = "Synchronous" /\ Quiet(commands, inbox, said)
    BY <1>5, Resting
  <2>2. Len(commands) <= 2 /\ Len(inbox) <= said
    BY <2>1 DEF Quiet
  <2>3. Len(commands) <= 3 /\ Len(inbox) <= 2 + MaxMessages
    BY <1>1, <1>2, <2>2
  <2>4. QED
    BY <1>1, <2>1, <2>3
<1>6. CASE isopen /\ call.op # "none" /\ call.pc = "reply"
  <2>1. call.op # "open"
    BY <1>6 DEF TcpInv, OpenInv
  <2>2. /\ conn = "up" /\ sockets = leaked + 1 /\ state \in {"SyncClosing", "SynchronousReply"}
        /\ Pending(commands, inbox, Awaited(call.op), Tcp!Fragment, said)
    BY <1>6, <2>1, Replying
  <2>3. (Len(commands) \in 1 .. 3 /\ Len(inbox) <= said) \/ (commands = << >> /\ Len(inbox) <= said + 1)
    BY <2>2 DEF Pending, Owed
  <2>4. Len(commands) <= 3 /\ Len(inbox) <= said + 1
    <3> DEFINE a == Len(commands)
               b == Len(inbox)
    <3>1. commands = << >> => a = 0
      OBVIOUS
    <3>2. (a \in 1 .. 3 /\ b <= said) \/ (a = 0 /\ b <= said + 1)
      BY <2>3, <3>1
    <3> HIDE DEF a, b
    <3>3. a \in Nat /\ b \in Nat /\ said \in Nat
      BY <1>1, <1>2 DEF a, b
    <3>4. a <= 3 /\ b <= said + 1
      BY <3>2, <3>3
    <3>5. QED
      BY <3>4 DEF a, b
  <2>5. Len(inbox) <= 2 + MaxMessages
    BY <1>1, <1>2, <2>4
  <2>6. QED
    BY <1>1, <2>2, <2>4, <2>5
<1>7. isopen /\ call.op # "none" => call.pc \in {"send", "reply"}
  BY DEF TcpInv, OpenInv, TcpTypes, TcpCall
<1>8. QED
  BY <1>3, <1>4, <1>5, <1>6, <1>7

\* What the invariant of the link is for.
LEMMA TcpFollows == ASSUME TcpInv PROVE Tcp!TypeOK /\ Tcp!InStep /\ Tcp!ResultHonest /\ Tcp!ReadBounded /\ Tcp!OneSocket
<1>1. Tcp!TypeOK
  <2> DEFINE h == Tcp!Highest(TcpCounts)
  <2>1. h \in Nat /\ \A n \in TcpCounts : n <= h
    BY TcpMost
  <2>2. call.togo \in Nat /\ call.done \in Nat /\ isopen \in BOOLEAN /\ leaked \in 0 .. MaxLeaked
    BY TcpFields DEF TcpInv, TcpTypes
  <2>3. call.op \in {"none", "open", "close", "read", "write", "test"} /\ said \in 0 .. MaxMessages
    BY DEF TcpInv, TcpTypes, TcpCall
  <2>4. call.op \in {"read", "write"} => call.togo + call.done \in TcpCounts
    BY DEF TcpInv, TransferInv
  <2>5. call.op \in {"none", "open", "close", "test"} => call.togo = 0 /\ call.done = 0
    BY NoTcpCall DEF TcpInv, TransferInv, TcpTypes, OpeningInv
  <2>6. result.code \in -8 .. Tcp!Higher(255, h)
    BY DEF TcpInv, ResultInv
  <2> HIDE DEF h
  <2>7. call.togo \in 0 .. h /\ call.done \in 0 .. h
    <3>1. CASE call.op \in {"read", "write"}
      <4>1. call.togo + call.done <= h
        BY <2>1, <2>4, <3>1
      <4>2. QED
        BY <2>1, <2>2, <4>1
    <3>2. CASE call.op \in {"none", "open", "close", "test"}
      BY <2>1, <2>5, <3>2
    <3>3. QED
      BY <2>3, <3>1, <3>2
  <2>8. QED
    BY <2>2, <2>3, <2>6, <2>7, TcpLengths DEF Tcp!TypeOK, h
<1>2. Tcp!InStep
  <2>1. ASSUME call.op = "none", state = "Synchronous"
        PROVE  /\ \A i \in 1 .. Len(inbox) : inbox[i].tag \in {"Message", "Fatal"}
               /\ \A i \in 1 .. Len(commands) : commands[i].tag = "reset"
    <3>1. isopen
      BY <2>1 DEF TcpInv, ShutInv
    <3>2. Quiet(commands, inbox, said)
      BY <2>1, <3>1, Resting
    <3>3. QED
      BY <3>2 DEF Quiet, AllAre
  <2>2. QED
    BY <2>1 DEF Tcp!InStep, Tcp!Idle
<1>3. Tcp!ResultHonest
  BY DEF TcpInv, ResultInv
<1>4. Tcp!ReadBounded
  <2> DEFINE n == call.togo + call.done
             f == Tcp!Frags(n)
  <2>1. SUFFICES ASSUME call.op = "read", call.limit > 0
                 PROVE  call.waited + call.each <= 2 * Tcp!Higher(call.limit, f)
    BY DEF Tcp!ReadBounded
  <2>2. /\ call.frags <= f /\ call.each = Tcp!FragTimeout("read", n, call.limit)
        /\ call.waited <= (f - call.frags) * call.each
    BY <2>1 DEF TcpInv, TransferInv
  <2>3. n \in Nat /\ call.frags \in Nat /\ call.limit \in Nat /\ call.waited \in Nat
    BY TcpFields
  <2>4. f \in Nat /\ f >= 1
    <3> HIDE DEF n
    <3>1. n > TcpFrag => n \div TcpFrag \in Nat /\ n \div TcpFrag > 0
      BY <2>3, TcpConstantsAre
    <3>2. QED
      BY <3>1 DEF Tcp!Frags
  <2>5. call.each = IF f > 1 THEN Tcp!Higher(1, call.limit \div f) ELSE call.limit
    BY <2>2 DEF Tcp!FragTimeout
  <2> HIDE DEF n, f
  <2>6. QED
    BY <2>1, <2>2, <2>3, <2>4, <2>5, TwiceIsEnough
<1>5. Tcp!OneSocket
  <2>1. CASE ~ isopen
    BY <2>1, NoTcpCall, TcpConstantsAre DEF TcpInv, ShutInv, TcpTypes, Tcp!OneSocket, Tcp!Idle
  <2>2. CASE isopen
    BY <2>2 DEF TcpInv, OpenInv, Tcp!OneSocket, Tcp!Idle
  <2>3. QED
    BY <2>1, <2>2
<1>6. QED
  BY <1>1, <1>2, <1>3, <1>4, <1>5

-----------------------------------------------------------------------------
(* StreamsRight: the sockets of a link whose connection breaks.            *)

\* There is a socket while the link is open or is being opened.
BrokenInv ==
  /\ "op" \in DOMAIN call /\ isopen \in BOOLEAN
  /\ leaked \in Nat /\ sockets = leaked + IF isopen \/ call.op = "open" THEN 1 ELSE 0
  /\ call.op = "open" => ~ isopen /\ call.pc = "reply"
  /\ call.op = "close" => isopen

\* No call, and a call that has begun.
LEMMA BrokenCalls ==
  /\ "op" \in DOMAIN Broken!None /\ Broken!None.op = "none"
  /\ \A o, p : LET c == [Broken!None EXCEPT !.op = o, !.pc = p] IN "op" \in DOMAIN c /\ c.op = o /\ c.pc = p
BY DEF Broken!None

\* The first state.
LEMMA BrokenInit == ASSUME Broken!Init PROVE BrokenInv
<1>1. call = Broken!None /\ isopen = FALSE /\ sockets = 0 /\ leaked = 0
  BY DEF Broken!Init
<1>2. "op" \in DOMAIN call /\ call.op = "none"
  BY <1>1, BrokenCalls
<1>3. leaked \in Nat /\ sockets = leaked + 0
  BY <1>1
<1>4. QED
  BY <1>1, <1>2, <1>3 DEF BrokenInv

\* The sockets stay, and the call goes on or another begins on an open link.
LEMMA SocketStays ==
  ASSUME BrokenInv, call.op # "open", UNCHANGED <<isopen, sockets, leaked>>, "op" \in DOMAIN call',
         call'.op # "open", call'.op = "close" => isopen
  PROVE  BrokenInv'
BY DEF BrokenInv

\* Nothing of it changes.
LEMMA BrokenRests == ASSUME BrokenInv, UNCHANGED <<isopen, sockets, leaked, call>> PROVE BrokenInv'
BY DEF BrokenInv

\* An open that ends, and a close.
LEMMA SocketCloses ==
  ASSUME BrokenInv, isopen \/ call.op = "open", sockets' = sockets - 1, leaked' = leaked, isopen' = FALSE, call' = Broken!None
  PROVE  BrokenInv'
<1>1. sockets = leaked + 1 /\ leaked \in Nat
  BY DEF BrokenInv
<1>2. sockets' = leaked'
  BY <1>1
<1>3. "op" \in DOMAIN call' /\ call'.op = "none"
  BY BrokenCalls
<1>4. sockets' \in Nat /\ sockets' = leaked' + 0
  BY <1>1, <1>2
<1>5. QED
  BY <1>1, <1>3, <1>4 DEF BrokenInv

\* Every step of the link.
LEMMA BrokenNext == ASSUME BrokenInv, Broken!Next PROVE BrokenInv'
<1>1. CASE Broken!OpenRefused \/ Broken!OpenFails \/ Broken!Message \/ Broken!ResetLink \/ Broken!CloseSkips
           \/ Broken!Serve \/ Broken!Say \/ Broken!Lose
  BY <1>1, BrokenRests DEF Broken!OpenRefused, Broken!OpenFails, Broken!Message, Broken!ResetLink, Broken!CloseSkips,
    Broken!Serve, Broken!Say, Broken!Lose
<1>2. CASE Broken!OpenLeaks
  BY <1>2 DEF Broken!OpenLeaks, Broken!Idle, BrokenInv
<1>3. CASE Broken!TCPOpenLink
  <2>1. call.op = "none" /\ ~ isopen /\ sockets' = sockets + 1 /\ leaked' = leaked /\ isopen' = isopen
        /\ call' = [Broken!None EXCEPT !.op = "open", !.pc = "reply"]
    BY <1>3 DEF Broken!TCPOpenLink, Broken!Idle
  <2>2. "op" \in DOMAIN call' /\ call'.op = "open" /\ call'.pc = "reply"
    BY <2>1, BrokenCalls
  <2>3. sockets = leaked /\ leaked \in Nat
    BY <2>1 DEF BrokenInv
  <2>4. sockets' = leaked' + 1
    BY <2>1, <2>3
  <2>5. QED
    BY <2>1, <2>2, <2>3, <2>4 DEF BrokenInv
<1>4. CASE Broken!OpenReplied \/ Broken!OpenTimesOut
  <2>1. call.op = "open"
    BY <1>4 DEF Broken!OpenReplied, Broken!OpenTimesOut
  <2>2. CASE sockets' = sockets /\ leaked' = leaked /\ isopen' = TRUE /\ call' = Broken!None
    BY <2>1, <2>2, BrokenCalls DEF BrokenInv
  <2>3. CASE sockets' = sockets - 1 /\ leaked' = leaked /\ isopen' = isopen /\ call' = Broken!None
    <3>1. isopen' = FALSE
      BY <2>1, <2>3 DEF BrokenInv
    <3>2. QED
      BY <2>1, <2>3, <3>1, SocketCloses
  <2>4. CASE Broken!OpenReplied
    <3>1. CASE Head(inbox).tag = "Open" /\ Head(inbox).status = "NOERROR"
      BY <2>2, <2>4, <3>1 DEF Broken!OpenReplied
    <3>2. CASE ~ (Head(inbox).tag = "Open" /\ Head(inbox).status = "NOERROR")
      BY <2>3, <2>4, <3>2 DEF Broken!OpenReplied, Broken!Disconnect, Broken!CloseSocket, Broken!Return
    <3>3. QED
      BY <3>1, <3>2
  <2>5. CASE Broken!OpenTimesOut
    BY <2>3, <2>5 DEF Broken!OpenTimesOut, Broken!Disconnect, Broken!CloseSocket, Broken!Return
  <2>6. QED
    BY <1>4, <2>4, <2>5
<1>5. CASE Broken!FatalMessage \/ Broken!NoReply \/ Broken!WriteFails \/ Broken!ErrorTested
  <2>1. UNCHANGED <<isopen, sockets, leaked>> /\ call' = Broken!None
    BY <1>5 DEF Broken!FatalMessage, Broken!NoReply, Broken!WriteFails, Broken!ErrorTested, Broken!Return
  <2>2. call.op # "open"
    BY <1>5 DEF BrokenInv, Broken!FatalMessage, Broken!NoReply, Broken!WriteFails, Broken!ErrorTested
  <2>3. QED
    BY <2>1, <2>2, BrokenCalls, SocketStays
<1>6. CASE \E op \in {"read", "write"}, n \in {1, 3}, t \in {2} : Broken!Transfer(op, n, t)
  <2>1. PICK op \in {"read", "write"}, n \in {1, 3}, t \in {2} : Broken!Transfer(op, n, t)
    BY <1>6
  <2>2. call.op = "none" /\ isopen /\ UNCHANGED <<isopen, sockets, leaked>>
    BY <2>1 DEF Broken!Transfer, Broken!Idle
  <2>3. CASE call' = call
    BY <2>2, <2>3, BrokenRests
  <2>4. CASE call' = [Broken!None EXCEPT !.op = op, !.pc = "send", !.togo = n, !.frags = Broken!Frags(n),
                                  !.each = Broken!FragTimeout(op, n, t), !.limit = t]
    <3>1. "op" \in DOMAIN call' /\ call'.op = op
      BY <2>4 DEF Broken!None
    <3>2. QED
      BY <2>1, <2>2, <3>1, SocketStays
  <2>5. QED
    BY <2>1, <2>3, <2>4 DEF Broken!Transfer
<1>7. CASE Broken!TCPTestError
  <2>1. call.op = "none" /\ isopen /\ UNCHANGED <<isopen, sockets, leaked>>
        /\ call' = [Broken!None EXCEPT !.op = "test", !.pc = "send"]
    BY <1>7 DEF Broken!TCPTestError, Broken!Idle
  <2>2. QED
    BY <2>1, BrokenCalls, SocketStays
<1>8. CASE Broken!TCPCloseLink
  <2>1. call.op = "none" /\ isopen /\ UNCHANGED <<isopen, sockets, leaked>>
        /\ call' = [Broken!None EXCEPT !.op = "close", !.pc = "reply"]
    BY <1>8 DEF Broken!TCPCloseLink, Broken!Idle
  <2>2. QED
    BY <2>1, BrokenCalls, SocketStays
<1>9. CASE Broken!CloseAtOnce \/ Broken!CloseReplied
  <2>1. isopen
    BY <1>9 DEF BrokenInv, Broken!CloseAtOnce, Broken!CloseReplied
  <2>2. sockets' = sockets - 1 /\ leaked' = leaked /\ isopen' = FALSE /\ call' = Broken!None
    BY <1>9 DEF Broken!CloseAtOnce, Broken!CloseReplied, Broken!CloseEnd, Broken!Disconnect, Broken!CloseSocket
  <2>3. QED
    BY <2>1, <2>2, SocketCloses
<1>10. CASE Broken!SendCommand
  <2>1. call.op \in {"read", "write", "test"} /\ call' = [call EXCEPT !.pc = "reply"] /\ UNCHANGED <<isopen, sockets, leaked>>
    BY <1>10 DEF Broken!SendCommand
  <2>2. "op" \in DOMAIN call' /\ call'.op = call.op
    BY <2>1 DEF BrokenInv
  <2>3. QED
    BY <2>1, <2>2, SocketStays
<1>11. CASE Broken!Replied
  <2>1. call.op \in {"read", "write"} /\ UNCHANGED <<isopen, sockets, leaked>>
    BY <1>11 DEF Broken!Replied
  <2>2. "op" \in DOMAIN call' /\ call'.op \in {call.op, "none"}
    <3>1. CASE call' = Broken!None
      BY <3>1, BrokenCalls
    <3> DEFINE k == Broken!MovedUp(Head(inbox).n)
               Goes == [call EXCEPT !.pc = "send", !.togo = call.togo - k, !.frags = Broken!FragsLeft(call.op),
                                    !.done = @ + Head(inbox).n, !.waited = Broken!Waited(@, k)]
    <3>2. "op" \in DOMAIN Goes /\ Goes.op = call.op
      BY DEF BrokenInv
    <3>3. call' = Broken!None \/ call' = Goes
      <4> HIDE DEF Goes
      <4>1. CASE Head(inbox).status # "NOERROR"
        BY <1>11, <4>1 DEF Broken!Replied, Broken!Return
      <4>2. CASE Head(inbox).status = "NOERROR" /\ Broken!MoreToDo(call.togo - k, Broken!FragsLeft(call.op))
        BY <1>11, <4>2 DEF Broken!Replied, Goes
      <4>3. CASE Head(inbox).status = "NOERROR" /\ ~ Broken!MoreToDo(call.togo - k, Broken!FragsLeft(call.op))
        BY <1>11, <4>3 DEF Broken!Replied
      <4>4. QED
        BY <4>1, <4>2, <4>3
    <3> HIDE DEF Goes
    <3>4. QED
      BY <3>1, <3>2, <3>3
  <2>3. QED
    BY <2>1, <2>2, SocketStays
<1>12. QED
  BY <1>1, <1>2, <1>3, <1>4, <1>5, <1>6, <1>7, <1>8, <1>9, <1>10, <1>11 DEF Broken!Next, Broken!Step

\* What it is for.
LEMMA BrokenFollows == ASSUME BrokenInv PROVE Broken!OneSocket
BY DEF BrokenInv, Broken!OneSocket, Broken!Idle

-----------------------------------------------------------------------------
(* StreamsRight: the socket loops.                                         *)

\* The bytes of a stream that come after the first a.
Follow(a, s) == s \in Seq(Nat) /\ \A i \in 1 .. Len(s) : s[i] = a + i

\* No byte follows, and one does.
LEMMA FollowEmpty == \A a : Follow(a, << >>)
BY DEF Follow

\* The next byte of the stream goes behind the others.
LEMMA FollowNext ==
  ASSUME NEW a \in Nat, NEW s, Follow(a, s)
  PROVE  Follow(a, Append(s, a + Len(s) + 1)) /\ Len(Append(s, a + Len(s) + 1)) = Len(s) + 1
<1> DEFINE n == Len(s)
           x == a + n + 1
           t == Append(s, x)
<1>1. s \in Seq(Nat) /\ n \in Nat /\ x \in Nat
  BY DEF Follow
<1>2. t \in Seq(Nat) /\ Len(t) = n + 1
      /\ (\A i \in 1 .. n : t[i] = s[i]) /\ t[n + 1] = x
  BY <1>1, AppendProperties
<1>3. \A i \in 1 .. n : s[i] = a + i
  BY DEF Follow
<1> HIDE DEF t
<1>4. ASSUME NEW i \in 1 .. n + 1 PROVE t[i] = a + i
  <2>1. CASE i \in 1 .. n
    BY <1>2, <1>3, <2>1
  <2>2. CASE i = n + 1
    BY <1>2, <2>2
  <2>3. QED
    BY <1>1, <2>1, <2>2
<1>5. QED
  BY <1>2, <1>4 DEF Follow, t, x, n

\* Two stretches of the stream, one behind the other.
LEMMA FollowJoin ==
  ASSUME NEW a \in Nat, NEW s, NEW t, Follow(a, s), Follow(a + Len(s), t)
  PROVE  Follow(a, Joined(s, t)) /\ Len(Joined(s, t)) = Len(s) + Len(t)
<1> DEFINE n == Len(s)
           k == Len(t)
           u == s \o t
<1>1. s \in Seq(Nat) /\ t \in Seq(Nat) /\ n \in Nat /\ k \in Nat
  BY DEF Follow
<1>2. u \in Seq(Nat) /\ Len(u) = n + k
      /\ \A i \in 1 .. n + k : u[i] = IF i <= n THEN s[i] ELSE t[i - n]
  BY <1>1, ConcatProperties
<1>3. (\A i \in 1 .. n : s[i] = a + i) /\ (\A i \in 1 .. k : t[i] = a + n + i)
  BY DEF Follow
<1> HIDE DEF u
<1>4. ASSUME NEW i \in 1 .. n + k PROVE u[i] = a + i
  <2>1. CASE i <= n
    <3>1. i \in 1 .. n /\ u[i] = s[i]
      BY <1>1, <1>2, <2>1
    <3>2. QED
      BY <1>3, <3>1
  <2>2. CASE i > n
    <3>1. i - n \in 1 .. k /\ a + n + (i - n) = a + i
      BY <1>1, <2>2
    <3>2. t[i - n] = a + n + (i - n)
      BY <1>3, <3>1
    <3>3. QED
      BY <1>1, <1>2, <2>2, <3>1, <3>2
  <2>3. QED
    BY <1>1, <2>1, <2>2
<1>5. QED
  BY <1>2, <1>4 DEF Follow, Joined, u, n, k

\* A stretch cut in two.
LEMMA FollowCut ==
  ASSUME NEW a \in Nat, NEW s, Follow(a, s), NEW k \in 0 .. Len(s)
  PROVE  /\ Follow(a, SubSeq(s, 1, k)) /\ Len(SubSeq(s, 1, k)) = k
         /\ Follow(a + k, SubSeq(s, k + 1, Len(s))) /\ Len(SubSeq(s, k + 1, Len(s))) = Len(s) - k
<1> DEFINE n == Len(s)
           u == SubSeq(s, 1, k)
           v == SubSeq(s, k + 1, n)
<1>1. s \in Seq(Nat) /\ n \in Nat /\ k \in Nat /\ k <= n /\ \A i \in 1 .. n : s[i] = a + i /\ s[i] \in Nat
  BY DEF Follow
<1>2. u \in Seq(Nat) /\ Len(u) = k /\ \A i \in 1 .. k : u[i] = s[i]
  <2>1. \A i \in 1 .. k : s[i] \in Nat
    BY <1>1
  <2>2. /\ u \in Seq(Nat) /\ Len(u) = (IF 1 <= k THEN k - 1 + 1 ELSE 0)
        /\ \A i \in 1 .. k - 1 + 1 : u[i] = s[1 + i - 1]
    BY <1>1, <2>1, SubSeqProperties
  <2> HIDE DEF u
  <2>3. QED
    BY <1>1, <2>2
<1>3. v \in Seq(Nat) /\ Len(v) = n - k /\ \A i \in 1 .. n - k : v[i] = s[k + i]
  <2> DEFINE b == k + 1
  <2>1. b \in Int /\ \A i \in b .. n : s[i] \in Nat
    BY <1>1
  <2> HIDE DEF b
  <2>2. /\ SubSeq(s, b, n) \in Seq(Nat)
        /\ Len(SubSeq(s, b, n)) = (IF b <= n THEN n - b + 1 ELSE 0)
        /\ \A i \in 1 .. n - b + 1 : SubSeq(s, b, n)[i] = s[b + i - 1]
    BY <1>1, <2>1, SubSeqProperties
  <2>3. v = SubSeq(s, b, n)
    BY DEF b
  <2> HIDE DEF v
  <2>4. /\ v \in Seq(Nat) /\ Len(v) = (IF b <= n THEN n - b + 1 ELSE 0)
        /\ \A i \in 1 .. n - b + 1 : v[i] = s[b + i - 1]
    BY <2>2, <2>3
  <2>5. \A i \in 1 .. n - k : i \in 1 .. n - b + 1 /\ b + i - 1 = k + i
    BY <1>1 DEF b
  <2>6. QED
    BY <1>1, <2>4, <2>5 DEF b
<1> HIDE DEF u, v
<1>4. \A i \in 1 .. n - k : k + i \in 1 .. n /\ a + (k + i) = (a + k) + i
  BY <1>1
<1>5. Follow(a, u)
  <2>1. \A i \in 1 .. k : i \in 1 .. n
    BY <1>1
  <2>2. \A i \in 1 .. k : u[i] = a + i
    BY <1>1, <1>2, <2>1
  <2>3. QED
    BY <1>2, <2>2 DEF Follow
<1>6. \A i \in 1 .. n - k : v[i] = (a + k) + i
  BY <1>1, <1>3, <1>4
<1>7. Follow(a + k, v)
  BY <1>3, <1>6 DEF Follow
<1>8. QED
  BY <1>2, <1>3, <1>5, <1>7 DEF u, v, n

-----------------------------------------------------------------------------
(* Reads, with sends that may be short or fail.                            *)

SocketCall ==
  /\ call \in [op : {"none", "write", "read", "timed"}, size : Nat, left : Nat, buffer : Nat, got : Seq(Nat)]
  /\ call.op = "none" => call = Partial!Idle

\* Where the streams are: taken, got by the running read, arriving.
StreamInv ==
  /\ Follow(0, taken) /\ Len(taken) <= MaxBytes
  /\ Follow(Len(taken), call.got)
  /\ peer \in 0 .. MaxBytes /\ Len(arriving) <= peer
  /\ Follow(peer - Len(arriving), arriving)
  /\ sound => peer = Len(taken) + Len(call.got) + Len(arriving)

\* How far the running read is.
ReadingInv ==
  /\ call.op # "none" => sound
  /\ call.op # "read" => call.got = << >>
  /\ call.op = "read" => Len(call.got) + call.left = call.size
  /\ call.op = "timed" => call.left = call.size
  /\ call.op \in {"read", "timed"} => Len(taken) + call.size <= MaxBytes
  /\ call.op # "none" => call.size \in SocketSizes

ReadInv == SocketCall /\ conn \in {"up", "lost"} /\ sound \in BOOLEAN /\ StreamInv /\ ReadingInv

\* What is asked for, and the bound.
LEMMA SocketConstantsAre ==
  /\ SocketSizes \subseteq Nat \ {0} /\ MaxBytes \in Nat
  /\ \E most \in SocketSizes : \A n \in SocketSizes : n <= most
BY LinksConstants DEF Partial!SocketConstants

\* The fields of no call.
LEMMA NoCall ==
  /\ Partial!Idle \in [op : {"none", "write", "read", "timed"}, size : Nat, left : Nat, buffer : Nat, got : Seq(Nat)]
  /\ Partial!Idle.op = "none" /\ Partial!Idle.size = 0 /\ Partial!Idle.left = 0
  /\ Partial!Idle.buffer = 0 /\ Partial!Idle.got = << >>
BY DEF Partial!Idle

\* The first state of a socket.
LEMMA ReadInit == ASSUME Partial!Init PROVE ReadInv
<1>1. Follow(0, << >>) /\ Len(<< >>) = 0
  BY FollowEmpty
<1>2. call = Partial!Idle /\ conn = "up" /\ sound = TRUE /\ peer = 0 /\ taken = << >> /\ arriving = << >>
  BY DEF Partial!Init
<1>3. SocketCall
  BY <1>2, NoCall DEF SocketCall
<1>4. StreamInv
  BY <1>1, <1>2, NoCall, SocketConstantsAre DEF StreamInv
<1>5. ReadingInv
  BY <1>2, NoCall DEF ReadingInv
<1>6. QED
  BY <1>2, <1>3, <1>4, <1>5 DEF ReadInv

\* A call begins, of a size and with a buffer.
LEMMA CallBegins ==
  ASSUME ReadInv, Partial!MayCall, NEW n \in SocketSizes, NEW op \in {"write", "read", "timed"},
         NEW b \in Nat,
         call' = [op |-> op, size |-> n, left |-> n, buffer |-> b, got |-> << >>],
         op \in {"read", "timed"} => Len(taken) + n <= MaxBytes,
         UNCHANGED <<conn, arriving, peer, taken, sound>>
  PROVE  ReadInv'
<1>1. n \in Nat /\ call = Partial!Idle /\ sound
  BY SocketConstantsAre DEF Partial!MayCall
<1>2. /\ call'.op = op /\ call'.size = n /\ call'.left = n /\ call'.buffer = b /\ call'.got = << >>
      /\ SocketCall'
  BY <1>1 DEF SocketCall
<1>3. Follow(Len(taken), << >>) /\ Len(<< >>) = 0
  BY FollowEmpty
<1>4. StreamInv'
  BY <1>1, <1>2, <1>3, NoCall DEF ReadInv, StreamInv
<1>5. ReadingInv'
  BY <1>1, <1>2, <1>3 DEF ReadInv, ReadingInv
<1>6. QED
  BY <1>2, <1>4, <1>5 DEF ReadInv

\* A call ends that has got nothing, or has failed.
LEMMA CallEnds ==
  ASSUME ReadInv, call' = Partial!Idle, conn' = conn, (call.op # "read" /\ sound' = sound) \/ sound' = FALSE,
         UNCHANGED <<peer, arriving, taken>>
  PROVE  ReadInv'
<1>1. SocketCall' /\ call'.got = << >> /\ call'.op = "none"
  BY NoCall DEF SocketCall
<1>2. Follow(Len(taken), << >>) /\ Len(<< >>) = 0
  BY FollowEmpty
<1>3. StreamInv'
  BY <1>1, <1>2 DEF ReadInv, StreamInv, ReadingInv
<1>4. ReadingInv'
  BY <1>1 DEF ReadingInv
<1>5. sound' \in BOOLEAN
  BY DEF ReadInv
<1>6. QED
  BY <1>1, <1>3, <1>4, <1>5 DEF ReadInv

\* A write moves on.
LEMMA WriteMoves ==
  ASSUME ReadInv, call.op = "write", NEW l \in Nat, NEW b \in Nat,
         call' = [call EXCEPT !.left = l, !.buffer = b],
         UNCHANGED <<conn, arriving, peer, taken, sound>>
  PROVE  ReadInv' /\ call'.op = "write" /\ call'.size = call.size /\ call'.left = l /\ call'.buffer = b
<1>1. /\ call'.op = call.op /\ call'.size = call.size /\ call'.got = call.got
      /\ call'.left = l /\ call'.buffer = b /\ SocketCall'
  BY DEF ReadInv, SocketCall
<1>2. StreamInv'
  BY <1>1 DEF ReadInv, StreamInv
<1>3. ReadingInv'
  BY <1>1 DEF ReadInv, ReadingInv
<1>4. QED
  BY <1>1, <1>2, <1>3 DEF ReadInv

\* recv gives a read some of what has come.
LEMMA ReceiveKeeps == ASSUME ReadInv, Partial!Receive PROVE ReadInv'
<1> DEFINE a == peer - Len(arriving)
           w == Len(arriving)
           g == Len(call.got)
<1>1. PICK k \in 1 .. Partial!Lower(Partial!AskedFor, w) :
        /\ call' = [call EXCEPT !.left = IF @ > k THEN @ - k ELSE 0, !.got = @ \o SubSeq(arriving, 1, k)]
        /\ arriving' = SubSeq(arriving, k + 1, w)
  BY DEF Partial!Receive
<1>2. call.op = "read" /\ call.left > 0 /\ UNCHANGED <<conn, peer, taken, sound>>
  BY DEF Partial!Receive
<1>3. /\ SocketCall /\ w \in Nat /\ g \in Nat /\ a \in Nat /\ call.left \in Nat /\ call.got \in Seq(Nat)
      /\ Len(taken) \in Nat /\ call.size \in Nat
  BY DEF ReadInv, SocketCall, StreamInv, Follow
<1>4. sound /\ a = Len(taken) + g /\ Follow(a, arriving) /\ Follow(Len(taken), call.got) /\ g + call.left = call.size
  BY <1>2, <1>3 DEF ReadInv, StreamInv, ReadingInv
<1>5. k \in Nat /\ k <= call.left /\ k <= w /\ k \in 0 .. w
  BY <1>1, <1>3 DEF Partial!Lower, Partial!AskedFor
<1> DEFINE u == SubSeq(arriving, 1, k)
           v == SubSeq(arriving, k + 1, w)
           j == Joined(call.got, u)
<1> HIDE DEF a
<1>6. Follow(a, u) /\ Len(u) = k /\ Follow(a + k, v) /\ Len(v) = w - k
  BY <1>3, <1>4, <1>5, FollowCut
<1> HIDE DEF u, v
<1>7. Follow(Len(taken) + g, u)
  BY <1>4, <1>6
<1>8. Follow(Len(taken), j) /\ Len(j) = g + k
  <2> DEFINE l == Len(taken)
             c == call.got
  <2>1. l \in Nat /\ Follow(l, c) /\ Follow(l + Len(c), u) /\ Len(u) = k /\ Len(c) = g
    BY <1>3, <1>4, <1>6, <1>7
  <2> HIDE DEF l, c, g
  <2>2. Follow(l, Joined(c, u)) /\ Len(Joined(c, u)) = Len(c) + Len(u)
    BY <2>1, FollowJoin
  <2>3. QED
    BY <2>1, <2>2 DEF l, c
<1>9. j \in Seq(Nat)
  BY <1>8 DEF Follow
<1>10. call' = [call EXCEPT !.left = call.left - k, !.got = j]
  <2>1. (IF call.left > k THEN call.left - k ELSE 0) = call.left - k
    BY <1>3, <1>5
  <2>2. QED
    BY <1>1, <2>1 DEF Joined, u
<1> HIDE DEF j
<1>11. /\ call'.op = "read" /\ call'.size = call.size /\ call'.left = call.left - k /\ call'.got = j
       /\ call'.buffer = call.buffer
  BY <1>2, <1>3, <1>10 DEF SocketCall
<1>12. SocketCall'
  <2>1. call.left - k \in Nat
    BY <1>3, <1>5
  <2>2. QED
    BY <1>2, <1>3, <1>9, <1>10, <1>11, <2>1 DEF SocketCall
<1>13. Len(arriving') = w - k /\ Follow(a + k, arriving') /\ arriving' = v
  BY <1>1, <1>6 DEF v
<1>14. a + k = peer - (w - k)
  BY <1>3, <1>5 DEF a, ReadInv, StreamInv
<1>15. StreamInv'
  <2>1. Follow(peer - Len(arriving'), arriving')
    BY <1>13, <1>14
  <2>2. w - k <= peer /\ peer = Len(taken) + (g + k) + (w - k)
    <3>1. sound /\ peer \in 0 .. MaxBytes /\ w <= peer /\ (sound => peer = Len(taken) + g + w)
      BY <1>4 DEF ReadInv, StreamInv
    <3> DEFINE l == Len(taken)
    <3>2. peer \in Nat /\ w <= peer /\ peer = l + g + w /\ l \in Nat /\ g \in Nat /\ w \in Nat
      BY <1>3, <3>1, SocketConstantsAre
    <3> HIDE DEF l, g, w
    <3>3. w - k <= peer /\ peer = l + (g + k) + (w - k)
      BY <1>5, <3>2
    <3>4. QED
      BY <3>3 DEF l
  <2>3. QED
    BY <1>2, <1>8, <1>11, <1>13, <2>1, <2>2 DEF ReadInv, StreamInv
<1>16. ReadingInv'
  <2>1. Len(call'.got) + call'.left = call'.size
    <3>1. g + call.left = call.size /\ k \in Nat /\ k <= call.left /\ Len(j) = g + k
      BY <1>4, <1>5, <1>8
    <3>2. (g + k) + (call.left - k) = call.size
      BY <1>3, <3>1
    <3>3. Len(call'.got) = g + k /\ call'.left = call.left - k /\ call'.size = call.size
      BY <1>8, <1>11
    <3>4. QED
      BY <3>2, <3>3
  <2>2. Len(taken) + call.size <= MaxBytes /\ call.size \in SocketSizes
    BY <1>2 DEF ReadInv, ReadingInv
  <2>3. QED
    BY <1>2, <1>4, <1>11, <2>1, <2>2 DEF ReadingInv
<1>17. QED
  BY <1>2, <1>12, <1>15, <1>16 DEF ReadInv

\* A read returns all it was asked for.
LEMMA ReadDoneKeeps == ASSUME ReadInv, Partial!ReadDone PROVE ReadInv'
<1> DEFINE j == Joined(taken, call.got)
           g == Len(call.got)
           t == Len(taken)
<1>1. call.op = "read" /\ call.left = 0 /\ taken' = j /\ call' = Partial!Idle
      /\ UNCHANGED <<conn, arriving, peer, sound>>
  BY DEF Partial!ReadDone, Joined
<1>2. g \in Nat /\ t \in Nat /\ call.size \in Nat /\ g = call.size /\ t + call.size <= MaxBytes
  BY <1>1 DEF ReadInv, SocketCall, ReadingInv, StreamInv, Follow
<1>3. Follow(0 + t, call.got) /\ Follow(0, taken)
  BY <1>2 DEF ReadInv, StreamInv
<1>4. Follow(0, j) /\ Len(j) = t + g
  BY <1>3, FollowJoin
<1> HIDE DEF j
<1>5. Follow(t + g, << >>) /\ Len(<< >>) = 0
  BY FollowEmpty
<1>6. call'.got = << >> /\ call'.op = "none" /\ SocketCall'
  BY <1>1, NoCall DEF SocketCall
<1>7. StreamInv'
  BY <1>1, <1>2, <1>4, <1>5, <1>6 DEF ReadInv, StreamInv
<1>8. ReadingInv'
  BY <1>6 DEF ReadingInv
<1>9. QED
  BY <1>1, <1>6, <1>7, <1>8 DEF ReadInv

\* One recv of a timed read: all of it, or the call has failed.
LEMMA TimedKeeps == ASSUME ReadInv, Partial!ReceiveTimed PROVE ReadInv'
<1> DEFINE a == peer - Len(arriving)
           w == Len(arriving)
           t == Len(taken)
<1>1. PICK k \in 1 .. Partial!Lower(call.size, w) :
        /\ arriving' = SubSeq(arriving, k + 1, w)
        /\ IF Partial!Whole(k)
           THEN taken' = taken \o SubSeq(arriving, 1, k) \o [i \in 1 .. call.size - k |-> 0]
                /\ call' = Partial!Idle /\ UNCHANGED sound
           ELSE Partial!Fails /\ UNCHANGED taken
  BY DEF Partial!ReceiveTimed
<1>2. call.op = "timed" /\ UNCHANGED <<conn, peer>>
  BY DEF Partial!ReceiveTimed
<1>3. SocketCall /\ w \in Nat /\ a \in Nat /\ t \in Nat /\ call.size \in Nat /\ taken \in Seq(Nat)
  BY DEF ReadInv, SocketCall, StreamInv, Follow
<1>4. sound /\ call.got = << >> /\ a = t /\ Follow(a, arriving) /\ t + call.size <= MaxBytes /\ Follow(0, taken)
  BY <1>2, <1>3 DEF ReadInv, StreamInv, ReadingInv
<1>5. k \in Nat /\ k <= w /\ k \in 0 .. w
  BY <1>1, <1>3 DEF Partial!Lower
<1> DEFINE u == SubSeq(arriving, 1, k)
           v == SubSeq(arriving, k + 1, w)
           j == Joined(taken, u)
<1> HIDE DEF a
<1>6. Follow(a, u) /\ Len(u) = k /\ Follow(a + k, v) /\ Len(v) = w - k
  BY <1>3, <1>4, <1>5, FollowCut
<1> HIDE DEF u, v
<1>7. Follow(0 + t, u)
  BY <1>3, <1>4, <1>6
<1>8. Follow(0, j) /\ Len(j) = t + k
  BY <1>4, <1>6, <1>7, FollowJoin
<1> HIDE DEF j
<1>9. call' = Partial!Idle
  BY <1>1 DEF Partial!Fails
<1>10. call'.got = << >> /\ call'.op = "none" /\ SocketCall'
  BY <1>9, NoCall DEF SocketCall
<1>11. a + k = peer - (w - k) /\ w - k <= peer
  BY <1>3, <1>5 DEF a, ReadInv, StreamInv
<1>12. arriving' = v
  BY <1>1 DEF v
<1>13. \A b : Follow(b, << >>)
  BY FollowEmpty
<1>14. ReadingInv'
  BY <1>10 DEF ReadingInv
<1>15. CASE k = call.size
  <2>1. taken' = taken \o u \o [i \in 1 .. call.size - k |-> 0] /\ sound' = sound
    BY <1>1, <1>15 DEF Partial!Whole, u
  <2>2. [i \in 1 .. call.size - k |-> 0] = << >>
    BY <1>3, <1>15
  <2>3. j \in Seq(Nat)
    BY <1>8 DEF Follow
  <2>4. taken' = j
    BY <2>1, <2>2, <2>3, ConcatEmptySeq DEF Joined, j
  <2>5. StreamInv'
    <3>1. Follow(0, taken') /\ Len(taken') = t + k /\ t + k <= MaxBytes
      BY <1>3, <1>4, <1>8, <1>15, <2>4
    <3>2. Follow(Len(taken'), call'.got) /\ Len(call'.got) = 0
      BY <1>10, <1>13
    <3>3. Len(arriving') = w - k /\ Len(arriving') <= peer /\ Follow(peer - Len(arriving'), arriving')
      BY <1>6, <1>11, <1>12
    <3>4. peer = (t + k) + 0 + (w - k)
      BY <1>3, <1>4, <1>5 DEF a, ReadInv, StreamInv
    <3>5. QED
      BY <1>2, <3>1, <3>2, <3>3, <3>4 DEF ReadInv, StreamInv
  <2>6. QED
    BY <1>2, <1>10, <1>14, <2>1, <2>5 DEF ReadInv
<1>16. CASE k # call.size
  <2>1. taken' = taken /\ sound' = FALSE
    BY <1>1, <1>16 DEF Partial!Whole, Partial!Fails
  <2>2. StreamInv'
    BY <1>2, <1>4, <1>6, <1>10, <1>11, <1>12, <1>13, <2>1 DEF ReadInv, StreamInv
  <2>3. QED
    BY <1>2, <1>10, <1>14, <2>1, <2>2 DEF ReadInv
<1>17. QED
  BY <1>15, <1>16

\* The peer sends a byte.
LEMMA PeerKeeps == ASSUME ReadInv, Partial!PeerSends PROVE ReadInv'
<1> DEFINE a == peer - Len(arriving)
           w == Len(arriving)
<1>1. /\ peer < MaxBytes /\ peer' = peer + 1 /\ arriving' = Append(arriving, peer + 1)
      /\ UNCHANGED <<conn, call, taken, sound>>
  BY DEF Partial!PeerSends
<1>2. peer \in Nat /\ w \in Nat /\ a \in Nat /\ a + w + 1 = peer + 1 /\ Follow(a, arriving) /\ MaxBytes \in Nat
  <2>1. MaxBytes \in Nat /\ peer \in 0 .. MaxBytes /\ w <= peer /\ Follow(a, arriving)
    BY SocketConstantsAre DEF ReadInv, StreamInv
  <2>2. w \in Nat
    BY <2>1 DEF Follow
  <2>3. QED
    BY <2>1, <2>2
<1> HIDE DEF a
<1>3. Follow(a, Append(arriving, a + w + 1)) /\ Len(Append(arriving, a + w + 1)) = w + 1
  BY <1>2, FollowNext
<1>4. Follow(a, arriving') /\ Len(arriving') = w + 1 /\ a = peer' - Len(arriving')
  BY <1>1, <1>2, <1>3
<1>5. SocketCall'
  BY <1>1, NoCall DEF ReadInv, SocketCall, Partial!Idle
<1>6. StreamInv'
  <2>1. peer' \in 0 .. MaxBytes /\ Len(arriving') <= peer' /\ Follow(peer' - Len(arriving'), arriving')
    BY <1>1, <1>2, <1>4
  <2>2. sound => peer' = Len(taken) + Len(call.got) + Len(arriving')
    BY <1>1, <1>2, <1>4 DEF ReadInv, StreamInv, SocketCall, Follow
  <2>3. QED
    BY <1>1, <2>1, <2>2 DEF ReadInv, StreamInv
<1>7. ReadingInv'
  BY <1>1 DEF ReadInv, ReadingInv
<1>8. QED
  BY <1>1, <1>5, <1>6, <1>7 DEF ReadInv

\* What the reads do not look at.
LEMMA ReadsRest ==
  ASSUME ReadInv, conn' \in {"up", "lost"}, UNCHANGED <<call, arriving, peer, taken, sound>>
  PROVE  ReadInv'
<1>1. SocketCall'
  BY DEF ReadInv, SocketCall, Partial!Idle
<1>2. StreamInv'
  BY DEF ReadInv, StreamInv
<1>3. ReadingInv'
  BY DEF ReadInv, ReadingInv
<1>4. QED
  BY <1>1, <1>2, <1>3 DEF ReadInv

\* A write is given n bytes.
LEMMA WriteBegins ==
  ASSUME ReadInv, given \in Nat, NEW n \in SocketSizes, Partial!DoSocketWrite(n)
  PROVE  /\ ReadInv'
         /\ call' = [op |-> "write", size |-> n, left |-> n, buffer |-> given, got |-> << >>]
<1>1. call' = [op |-> "write", size |-> n, left |-> n, buffer |-> given, got |-> << >>]
  BY DEF Partial!DoSocketWrite, Partial!Idle
<1>2. Partial!MayCall /\ UNCHANGED <<conn, arriving, peer, taken, sound>>
  BY DEF Partial!DoSocketWrite
<1>3. QED
  BY <1>1, <1>2, CallBegins

\* A read is asked for n bytes.
LEMMA ReadBegins ==
  ASSUME ReadInv, NEW n \in SocketSizes, NEW op \in {"read", "timed"}, Partial!Read(op, n)
  PROVE  ReadInv' /\ call'.op = op
<1>1. call' = [op |-> op, size |-> n, left |-> n, buffer |-> 0, got |-> << >>]
  BY DEF Partial!Read, Partial!Idle
<1>2. Partial!MayCall /\ Len(taken) + n <= MaxBytes /\ UNCHANGED <<conn, arriving, peer, taken, sound>>
  BY DEF Partial!Read
<1>3. ReadInv'
  BY <1>1, <1>2, CallBegins
<1>4. QED
  BY <1>1, <1>3

\* The fields of a call.
LEMMA CallFields ==
  ASSUME ReadInv
  PROVE  /\ call.size \in Nat /\ call.left \in Nat /\ call.buffer \in Nat
         /\ call.op \in {"none", "write", "read", "timed"}
         /\ call.op # "none" => call.size \in SocketSizes /\ call.size > 0
BY SocketConstantsAre DEF ReadInv, SocketCall, ReadingInv

\* send has taken k bytes, and left and buffer follow.
LEMMA SendMoves ==
  ASSUME ReadInv, Partial!Send
  PROVE  \E k \in 1 .. call.size :
           /\ ReadInv' /\ call'.op = "write" /\ call'.size = call.size
           /\ call'.left = (IF call.left > k THEN call.left - k ELSE 0)
           /\ call'.buffer = call.buffer + k
           /\ sent' = Joined(sent, [i \in 1 .. k |-> Partial!Held(call.buffer + i)])
<1>1. PICK k \in 1 .. call.size :
        /\ sent' = sent \o [i \in 1 .. k |-> Partial!Held(call.buffer + i)]
        /\ call' = [call EXCEPT !.left = IF @ > k THEN @ - k ELSE 0, !.buffer = @ + k]
  BY DEF Partial!Send, Partial!ToWrite, Partial!Counted
<1>2. call.op = "write" /\ UNCHANGED <<conn, arriving, peer, taken, sound>>
  BY DEF Partial!Send
<1> DEFINE l == IF call.left > k THEN call.left - k ELSE 0
           b == call.buffer + k
<1>3. l \in Nat /\ b \in Nat
  BY CallFields
<1>4. call' = [call EXCEPT !.left = l, !.buffer = b]
  BY <1>1
<1> HIDE DEF l, b
<1>5. ReadInv' /\ call'.op = "write" /\ call'.size = call.size /\ call'.left = l /\ call'.buffer = b
  BY <1>2, <1>3, <1>4, WriteMoves
<1>6. QED
  BY <1>1, <1>5 DEF Joined, l, b

\* ENOBUFS.
LEMMA AgainMoves ==
  ASSUME ReadInv, Partial!SendAgain
  PROVE  /\ ReadInv' /\ call'.op = "write" /\ call'.size = call.size
         /\ call'.left = call.left + 1 /\ call'.buffer = call.buffer - 1
<1> DEFINE l == call.left + 1
           b == call.buffer - 1
<1>1. call.op = "write" /\ UNCHANGED <<conn, arriving, peer, taken, sound>> /\ call.buffer > 0
      /\ call' = [call EXCEPT !.left = l, !.buffer = b]
  BY DEF Partial!SendAgain
<1>2. l \in Nat /\ b \in Nat
  BY <1>1, CallFields
<1> HIDE DEF l, b
<1>3. ReadInv' /\ call'.op = "write" /\ call'.size = call.size /\ call'.left = l /\ call'.buffer = b
  BY <1>1, <1>2, WriteMoves
<1>4. QED
  BY <1>3 DEF l, b

\* The steps that write nothing.
Elsewhere ==
  \/ \E n \in SocketSizes : Partial!Read("read", n) \/ Partial!Read("timed", n)
  \/ Partial!WriteDone \/ Partial!Receive \/ Partial!ReadDone \/ Partial!ReceiveTimed \/ Partial!NoData
  \/ Partial!ConnectionLost \/ Partial!PeerSends \/ Partial!Lose

\* They keep the reads right and what is written as it is; a write ends when
\* nothing is left of it, or the call has failed.
LEMMA ElsewhereKeeps ==
  ASSUME ReadInv, Elsewhere
  PROVE  /\ ReadInv' /\ UNCHANGED <<given, sent>>
         /\ call.op = "write" => \/ call' = call
                                 \/ call'.op # "write" /\ (sound' => call.left = 0)
         /\ call.op # "write" => call'.op # "write" /\ (sound' => sound)
<1>1. ASSUME NEW n \in SocketSizes, NEW op \in {"read", "timed"}, Partial!Read(op, n)
      PROVE  ReadInv' /\ UNCHANGED <<given, sent, sound>> /\ call.op = "none" /\ call'.op = op
  BY <1>1, ReadBegins, NoCall DEF Partial!Read, Partial!MayCall
<1>2. CASE Partial!WriteDone
  <2>1. ReadInv'
    BY <1>2, CallEnds DEF Partial!WriteDone
  <2>2. QED
    BY <1>2, <2>1, NoCall DEF Partial!WriteDone
<1>3. CASE Partial!Receive
  <2>1. call' \in [op : {"none", "write", "read", "timed"}, size : Nat, left : Nat, buffer : Nat, got : Seq(Nat)]
    BY <1>3, ReceiveKeeps DEF ReadInv, SocketCall
  <2>2. call.op = "read" /\ UNCHANGED <<given, sent, sound>>
    BY <1>3 DEF Partial!Receive
  <2>3. call'.op = call.op
    BY <1>3 DEF Partial!Receive, ReadInv, SocketCall
  <2>4. QED
    BY <1>3, <2>2, <2>3, ReceiveKeeps
<1>4. CASE Partial!ReadDone
  BY <1>4, ReadDoneKeeps, NoCall DEF Partial!ReadDone
<1>5. CASE Partial!ReceiveTimed
  <2>1. call.op = "timed" /\ UNCHANGED <<given, sent>> /\ call' = Partial!Idle /\ (sound' => sound)
    BY <1>5 DEF Partial!ReceiveTimed, Partial!Fails
  <2>2. QED
    BY <1>5, <2>1, TimedKeeps, NoCall
<1>6. CASE Partial!NoData
  <2>1. ReadInv'
    BY <1>6, CallEnds DEF Partial!NoData
  <2>2. QED
    BY <1>6, <2>1, NoCall DEF Partial!NoData
<1>7. CASE Partial!ConnectionLost
  <2>1. ReadInv'
    BY <1>7, CallEnds DEF Partial!ConnectionLost, Partial!Fails
  <2>2. QED
    BY <1>7, <2>1, NoCall DEF Partial!ConnectionLost, Partial!Fails
<1>8. CASE Partial!PeerSends
  BY <1>8, PeerKeeps DEF Partial!PeerSends
<1>9. CASE Partial!Lose
  <2>1. ReadInv'
    BY <1>9, ReadsRest DEF Partial!Lose
  <2>2. QED
    BY <1>9, <2>1 DEF Partial!Lose
<1>10. QED
  BY <1>1, <1>2, <1>3, <1>4, <1>5, <1>6, <1>7, <1>8, <1>9 DEF Elsewhere

\* The steps of a socket that takes what it is given are steps of the other one.
LEMMA WholeSteps ==
  ASSUME Whole!Next
  PROVE  (\E n \in SocketSizes : Partial!DoSocketWrite(n)) \/ (Whole!Send /\ Partial!Send) \/ Elsewhere
<1>1. \A n \in SocketSizes : Whole!DoSocketWrite(n) => Partial!DoSocketWrite(n)
  BY DEF Whole!DoSocketWrite, Whole!MayCall, Whole!Idle, Partial!DoSocketWrite, Partial!MayCall, Partial!Idle
<1>2. \A n \in SocketSizes : /\ Whole!Read("read", n) => Partial!Read("read", n)
                             /\ Whole!Read("timed", n) => Partial!Read("timed", n)
  BY DEF Whole!Read, Whole!MayCall, Whole!Idle, Partial!Read, Partial!MayCall, Partial!Idle
<1>3. Whole!Send => Partial!Send
  BY DEF Whole!Send, Whole!ToWrite, Whole!Counted, Whole!Held,
         Partial!Send, Partial!ToWrite, Partial!Counted, Partial!Held
<1>4. ~ Whole!SendAgain
  BY DEF Whole!SendAgain
<1>5. Whole!WriteDone => Partial!WriteDone
  BY DEF Whole!WriteDone, Whole!Idle, Partial!WriteDone, Partial!Idle
<1>6. Whole!Receive => Partial!Receive
  BY DEF Whole!Receive, Whole!Lower, Whole!AskedFor, Partial!Receive, Partial!Lower, Partial!AskedFor
<1>7. Whole!ReadDone => Partial!ReadDone
  BY DEF Whole!ReadDone, Whole!Idle, Partial!ReadDone, Partial!Idle
<1>8. Whole!ReceiveTimed => Partial!ReceiveTimed
  BY DEF Whole!ReceiveTimed, Whole!Lower, Whole!Whole, Whole!Idle, Whole!Fails,
         Partial!ReceiveTimed, Partial!Lower, Partial!Whole, Partial!Idle, Partial!Fails
<1>9. Whole!NoData => Partial!NoData
  BY DEF Whole!NoData, Whole!Idle, Partial!NoData, Partial!Idle
<1>10. Whole!ConnectionLost => Partial!ConnectionLost
  BY DEF Whole!ConnectionLost, Whole!EndSeen, Whole!Fails, Whole!Idle,
         Partial!ConnectionLost, Partial!EndSeen, Partial!Fails, Partial!Idle
<1>11. Whole!PeerSends => Partial!PeerSends
  BY DEF Whole!PeerSends, Partial!PeerSends
<1>12. Whole!Lose => Partial!Lose
  BY DEF Whole!Lose, Partial!Lose
<1>13. QED
  BY <1>1, <1>2, <1>3, <1>4, <1>5, <1>6, <1>7, <1>8, <1>9, <1>10, <1>11, <1>12
  DEF Whole!Next, Whole!Step, Elsewhere

-----------------------------------------------------------------------------
(* Writes to a socket that takes what it is given.                         *)

\* What has been sent is what the callers gave, and the rest of the running write.
WholeInv ==
  /\ ReadInv
  /\ given \in 0 .. MaxBytes /\ Follow(0, sent) /\ Len(sent) <= given
  /\ call.op # "write" /\ sound => Len(sent) = given
  /\ call.op = "write" =>
       \/ call.left = call.size /\ call.buffer = Len(sent) /\ given = call.buffer + call.size
       \/ call.left = 0 /\ Len(sent) = given

\* The most that is asked for.
LEMMA LargestIs ==
  Whole!Highest(SocketSizes) \in Nat /\ \A n \in SocketSizes : n <= Whole!Highest(SocketSizes)
<1>1. Whole!Highest(SocketSizes) \in SocketSizes /\ \A n \in SocketSizes : n <= Whole!Highest(SocketSizes)
  BY SocketConstantsAre DEF Whole!Highest
<1>2. QED
  BY <1>1, SocketConstantsAre

\* The first state.
LEMMA WholeInit == ASSUME Whole!Init PROVE WholeInv
<1>1. Partial!Init
  BY DEF Whole!Init, Whole!Idle, Partial!Init, Partial!Idle
<1>2. Follow(0, << >>) /\ Len(<< >>) = 0
  BY FollowEmpty
<1>3. QED
  BY <1>1, <1>2, ReadInit, NoCall, SocketConstantsAre DEF Partial!Init, WholeInv

\* A stretch of k bytes, the next after a.
LEMMA StretchIs ==
  ASSUME NEW a \in Nat, NEW k \in Nat
  PROVE  Follow(a, [i \in 1 .. k |-> a + i]) /\ Len([i \in 1 .. k |-> a + i]) = k
<1> DEFINE s == [i \in 1 .. k |-> a + i]
<1>1. s \in [1 .. k -> Nat]
  OBVIOUS
<1>2. s \in Seq(Nat) /\ Len(s) = k
  BY <1>1, LenProperties, IsASeq
<1>3. QED
  BY <1>2 DEF Follow

\* send takes all of a write.
LEMMA WholeSend == ASSUME WholeInv, Whole!Send, Partial!Send PROVE WholeInv'
<1>1. ReadInv /\ call.op = "write" /\ call.left > 0 /\ given' = given /\ sound' = sound
  BY DEF WholeInv, Partial!Send
<1>2. call.left = call.size /\ call.buffer = Len(sent) /\ given = call.buffer + call.size
  BY <1>1, CallFields DEF WholeInv
<1> DEFINE k == call.size
           n == Len(sent)
           t == [i \in 1 .. k |-> n + i]
           j == Joined(sent, t)
<1>3. k \in Nat /\ n \in Nat /\ Follow(0, sent) /\ k > 0
  BY <1>1, CallFields DEF WholeInv, Follow
<1>4. sent' = sent \o [i \in 1 .. k |-> Whole!Held(call.buffer + i)]
      /\ call' = [call EXCEPT !.left = IF @ > k THEN @ - k ELSE 0, !.buffer = @ + k]
  BY <1>2 DEF Whole!Send, Whole!ToWrite, Whole!Counted
<1>13. \A i \in 1 .. k : Whole!Held(call.buffer + i) = n + i
  BY <1>2, <1>3 DEF Whole!Held
<1>5. sent' = j
  <2>1. [i \in 1 .. k |-> Whole!Held(call.buffer + i)] = t
    BY <1>13
  <2>2. QED
    BY <1>4, <2>1 DEF Joined
<1>6. Follow(n, t) /\ Len(t) = k
  BY <1>3, StretchIs
<1> HIDE DEF t
<1>7. Follow(0 + n, t)
  BY <1>3, <1>6
<1>8. Follow(0, j) /\ Len(j) = n + k
  BY <1>3, <1>6, <1>7, FollowJoin
<1> HIDE DEF j
<1>9. ReadInv' /\ call'.op = "write" /\ call'.left = 0
  <2> DEFINE b == call.buffer + k
  <2>1. b \in Nat
    BY <1>1, CallFields
  <2>2. call' = [call EXCEPT !.left = 0, !.buffer = b]
    <3>1. (IF call.left > k THEN call.left - k ELSE 0) = 0
      BY <1>2, <1>3
    <3>2. QED
      BY <1>4, <3>1
  <2>3. UNCHANGED <<conn, arriving, peer, taken, sound>>
    BY DEF Partial!Send
  <2> HIDE DEF b
  <2>4. QED
    BY <1>1, <2>1, <2>2, <2>3, WriteMoves
<1>10. Len(sent') = given' /\ Follow(0, sent')
  BY <1>1, <1>2, <1>5, <1>8
<1>11. given' \in 0 .. MaxBytes /\ Len(sent') <= given'
  BY <1>1, <1>10 DEF WholeInv
<1>12. QED
  BY <1>9, <1>10, <1>11 DEF WholeInv

\* Every step of a socket that takes what it is given.
LEMMA WholeNext == ASSUME WholeInv, Whole!Next PROVE WholeInv'
<1>1. ReadInv /\ given \in Nat /\ MaxBytes \in Nat
  BY SocketConstantsAre DEF WholeInv
<1>2. ASSUME NEW n \in SocketSizes, Partial!DoSocketWrite(n) PROVE WholeInv'
  <2>1. ReadInv' /\ call' = [op |-> "write", size |-> n, left |-> n, buffer |-> given, got |-> << >>]
    BY <1>1, <1>2, WriteBegins
  <2>2. call = Partial!Idle /\ sound /\ given + n <= MaxBytes /\ given' = given + n /\ sent' = sent
    BY <1>2 DEF Partial!DoSocketWrite, Partial!MayCall
  <2>3. call'.op = "write" /\ call'.left = n /\ call'.size = n /\ call'.buffer = given
    BY <2>1
  <2>4. Len(sent) = given /\ Follow(0, sent)
    BY <2>2, NoCall DEF WholeInv
  <2>5. n \in Nat
    BY SocketConstantsAre
  <2>6. given' \in 0 .. MaxBytes /\ Len(sent') <= given'
    BY <1>1, <2>2, <2>4, <2>5
  <2>7. call'.buffer = Len(sent') /\ given' = call'.buffer + call'.size
    BY <2>2, <2>3, <2>4
  <2>8. QED
    BY <2>1, <2>2, <2>3, <2>4, <2>6, <2>7 DEF WholeInv
<1>3. CASE Elsewhere
  <2>1. /\ ReadInv' /\ UNCHANGED <<given, sent>>
        /\ call.op = "write" => \/ call' = call
                                \/ call'.op # "write" /\ (sound' => call.left = 0)
        /\ call.op # "write" => call'.op # "write" /\ (sound' => sound)
    BY <1>1, <1>3, ElsewhereKeeps
  <2>2. given' \in 0 .. MaxBytes /\ Follow(0, sent') /\ Len(sent') <= given'
    BY <2>1 DEF WholeInv
  <2>3. CASE call.op = "write"
    <3>1. call.left = 0 => Len(sent) = given
      BY <2>3, <1>1, CallFields DEF WholeInv
    <3>2. QED
      BY <2>1, <2>2, <2>3, <3>1 DEF WholeInv
  <2>4. CASE call.op # "write"
    BY <2>1, <2>2, <2>4 DEF WholeInv
  <2>5. QED
    BY <2>3, <2>4
<1>4. QED
  BY <1>2, <1>3, WholeSend, WholeSteps

\* What the invariant says of a socket that takes what it is given.
LEMMA WholeFollows ==
  ASSUME WholeInv PROVE Whole!TypeOK /\ Whole!WritesExactly /\ Whole!ReadsExactly
<1>1. ReadInv /\ MaxBytes \in Nat /\ SocketSizes \subseteq Nat
  BY SocketConstantsAre DEF WholeInv
<1>2. /\ Len(call.got) \in Nat /\ Len(taken) \in Nat /\ Len(arriving) \in Nat
      /\ call.got \in Seq(Nat)
  BY <1>1 DEF ReadInv, StreamInv, Follow
<1>3. Partial!Idle = Whole!Idle
  BY DEF Partial!Idle, Whole!Idle
<1>4. Len(call.got) <= call.size
  BY <1>1, <1>2, CallFields DEF ReadInv, ReadingInv
<1>5. call.left \in 0 .. Whole!Highest(SocketSizes)
  <2>1. CASE call.op = "none"
    BY <1>1, <2>1, NoCall, LargestIs DEF ReadInv, SocketCall
  <2>2. CASE call.op # "none"
    <3>1. call.left \in Nat /\ call.size \in Nat /\ call.size <= Whole!Highest(SocketSizes)
      BY <1>1, <2>2, CallFields, LargestIs
    <3>2. call.left <= call.size
      <4>1. call.op = "read" => call.left <= call.size
        BY <1>1, <1>2, <3>1 DEF ReadInv, ReadingInv
      <4>2. call.op = "timed" => call.left <= call.size
        BY <1>1, <3>1 DEF ReadInv, ReadingInv
      <4>3. call.op = "write" => call.left <= call.size
        BY <3>1 DEF WholeInv
      <4>4. QED
        BY <1>1, <2>2, <4>1, <4>2, <4>3, CallFields
    <3>3. QED
      BY <3>1, <3>2, LargestIs
  <2>3. QED
    BY <2>1, <2>2
<1>6. Whole!TypeOK
  BY <1>1, <1>5, CallFields DEF Whole!TypeOK, WholeInv, ReadInv, StreamInv
<1>7. Whole!WritesExactly
  BY <1>3, NoCall DEF Whole!WritesExactly, WholeInv, Follow
<1>8. \A i \in 1 .. Len(taken) : taken[i] = i
  BY <1>1, <1>2 DEF ReadInv, StreamInv, Follow
<1>9. call = Whole!Idle /\ sound => Len(taken) + Len(arriving) = peer
  BY <1>1, <1>2, <1>3, NoCall DEF ReadInv, StreamInv
<1>10. Whole!ReadsExactly
  BY <1>4, <1>8, <1>9 DEF Whole!ReadsExactly
<1>11. QED
  BY <1>6, <1>7, <1>10

-----------------------------------------------------------------------------
(* Writes to a socket that may take less, or fail for want of buffers.     *)

\* k bytes, the next after a: those from low to high, and others for the rest.
Stretch(a, k, low, high) == [i \in 1 .. k |-> IF low < a + i /\ a + i <= high THEN a + i ELSE 0]

\* The bytes that have been sent.
BytesOf(s) == {s[j] : j \in 1 .. Len(s)}

\* No byte comes before the byte before it.
NoGap(s) == \A i \in 1 .. Len(s) : s[i] > 1 => \E j \in 1 .. i - 1 : s[j] + 1 = s[i]

\* A stretch that follows bytes that have all been sent leaves no gap.
LEMMA GapsStay ==
  ASSUME NEW s \in Seq(Nat), NoGap(s), NEW b \in Nat, NEW k \in Nat, NEW low \in Nat, NEW high \in Nat,
         b <= high, 1 .. b \subseteq BytesOf(s), 1 .. low \subseteq BytesOf(s),
         NEW u, u = Joined(s, Stretch(b, k, low, high))
  PROVE  /\ u \in Seq(Nat) /\ NoGap(u) /\ BytesOf(s) \subseteq BytesOf(u)
         /\ \A x \in 1 .. b + k : x <= high => x \in BytesOf(u)
<1> DEFINE n == Len(s)
           t == Stretch(b, k, low, high)
<1>1. n = Len(s) /\ n \in Nat /\ t \in Seq(Nat) /\ Len(t) = k
      /\ \A i \in 1 .. k : t[i] = IF low < b + i /\ b + i <= high THEN b + i ELSE 0
  <2>1. t \in [1 .. k -> Nat]
    BY DEF Stretch
  <2>2. t \in Seq(Nat) /\ Len(t) = k
    BY <2>1, LenProperties, IsASeq
  <2>3. QED
    BY <2>2 DEF Stretch
<1> HIDE DEF n, t
<1>2. u \in Seq(Nat) /\ Len(u) = n + k
      /\ \A i \in 1 .. n + k : u[i] = IF i <= n THEN s[i] ELSE t[i - n]
  <2> DEFINE v == s \o t
  <2>1. u = v
    BY DEF Joined, t
  <2>2. v \in Seq(Nat) /\ Len(v) = Len(s) + Len(t)
    BY <1>1, ConcatProperties
  <2>3. \A i \in 1 .. Len(s) + Len(t) : v[i] = IF i <= Len(s) THEN s[i] ELSE t[i - Len(s)]
    BY <1>1, ConcatProperties
  <2> HIDE DEF v
  <2>4. QED
    BY <1>1, <2>1, <2>2, <2>3
<1>3. \A i \in 1 .. n : u[i] = s[i] /\ i \in 1 .. n + k
  BY <1>1, <1>2
<1>4. ASSUME NEW e \in 1 .. k
      PROVE  n + e \in 1 .. n + k /\ u[n + e] = (IF low < b + e /\ b + e <= high THEN b + e ELSE 0)
  <2>1. n + e \in 1 .. n + k /\ ~ (n + e <= n) /\ (n + e) - n = e
    BY <1>1
  <2>2. QED
    BY <1>1, <1>2, <2>1
<1>5. BytesOf(s) \subseteq BytesOf(u)
  BY <1>1, <1>2, <1>3 DEF BytesOf
<1>6. \A x \in 1 .. b \cup 1 .. low : \E j \in 1 .. n : s[j] = x
  BY <1>1 DEF BytesOf
<1>7. ASSUME NEW i \in 1 .. n + k, u[i] > 1 PROVE \E j \in 1 .. i - 1 : u[j] + 1 = u[i]
  <2>1. CASE i \in 1 .. n
    <3>1. PICK j \in 1 .. i - 1 : s[j] + 1 = s[i]
      BY <1>1, <1>3, <1>7, <2>1 DEF NoGap
    <3>2. j \in 1 .. n
      BY <1>1, <2>1
    <3>3. QED
      BY <1>3, <2>1, <3>1, <3>2
  <2>2. CASE i > n
    <3> DEFINE e == i - n
    <3>1. e \in 1 .. k /\ n + e = i
      BY <1>1, <2>2
    <3>2. u[i] = b + e /\ low < b + e /\ b + e <= high
      BY <1>4, <1>7, <3>1
    <3>3. CASE b + (e - 1) \in 1 .. b \cup 1 .. low
      <4>1. PICK j \in 1 .. n : s[j] = b + (e - 1)
        BY <1>6, <3>3
      <4>2. j \in 1 .. i - 1 /\ u[j] = b + (e - 1)
        BY <1>1, <1>3, <2>2, <4>1
      <4>3. QED
        BY <3>1, <3>2, <4>2
    <3>4. CASE b + (e - 1) \notin 1 .. b \cup 1 .. low
      <4>1. b + e > 1
        BY <1>7, <3>2
      <4>2. e - 1 \in 1 .. k /\ low < b + (e - 1) /\ b + (e - 1) <= high
        BY <3>1, <3>2, <3>4, <4>1
      <4>3. u[n + (e - 1)] = b + (e - 1)
        BY <1>4, <4>2
      <4>4. n + (e - 1) \in 1 .. i - 1
        BY <1>1, <3>1, <4>2
      <4>5. QED
        BY <3>1, <3>2, <4>3, <4>4
    <3>5. QED
      BY <3>3, <3>4
  <2>3. QED
    BY <1>1, <2>1, <2>2
<1>8. NoGap(u)
  BY <1>2, <1>7 DEF NoGap
<1>9. ASSUME NEW x \in 1 .. b + k, x <= high PROVE x \in BytesOf(u)
  <2>1. CASE x \in 1 .. b \cup 1 .. low
    BY <1>5, <2>1
  <2>2. CASE x \notin 1 .. b \cup 1 .. low
    <3>1. x - b \in 1 .. k /\ b + (x - b) = x /\ low < x
      BY <2>2
    <3>2. n + (x - b) \in 1 .. n + k /\ u[n + (x - b)] = x
      BY <1>4, <1>9, <3>1
    <3>3. QED
      BY <1>2, <3>2 DEF BytesOf
  <2>3. QED
    BY <2>1, <2>2
<1>10. QED
  BY <1>2, <1>5, <1>8, <1>9

\* All that has been given has been sent, but for what is left.
PartialInv ==
  /\ ReadInv
  /\ given \in Nat /\ sent \in Seq(Nat) /\ NoGap(sent)
  /\ call.op # "write" /\ sound => 1 .. given \subseteq BytesOf(sent)
  /\ call.op = "write" =>
       /\ call.size <= given /\ 1 .. given - call.size \subseteq BytesOf(sent)
       /\ \A x \in 1 .. call.buffer : x <= given => x \in BytesOf(sent)
       /\ call.left > 0 => call.buffer + call.left = given
       /\ call.left = 0 => call.buffer >= given

\* The first state.
LEMMA PartialInit == ASSUME Partial!Init PROVE PartialInv
<1>1. ReadInv /\ given = 0 /\ sent = << >> /\ call.op = "none"
  BY ReadInit, NoCall DEF Partial!Init
<1>3. NoGap(<< >>)
  BY DEF NoGap
<1>4. 1 .. 0 = {}
  OBVIOUS
<1>5. QED
  BY <1>1, <1>3, <1>4 DEF PartialInv

\* send takes some of a write, perhaps more than what is left of it.
LEMMA PartialSend == ASSUME PartialInv, Partial!Send PROVE PartialInv'
<1>1. ReadInv /\ call.op = "write" /\ call.left > 0 /\ given' = given /\ sound' = sound
  BY DEF PartialInv, Partial!Send
<1>2. PICK k \in 1 .. call.size :
        /\ ReadInv' /\ call'.op = "write" /\ call'.size = call.size
        /\ call'.left = (IF call.left > k THEN call.left - k ELSE 0)
        /\ call'.buffer = call.buffer + k
        /\ sent' = Joined(sent, [i \in 1 .. k |-> Partial!Held(call.buffer + i)])
  BY <1>1, SendMoves
<1>3. k \in Nat /\ call.left \in Nat /\ call.buffer \in Nat /\ call.buffer + call.left = given /\ given \in Nat
      /\ call.size \in Nat /\ call.size <= given
  BY <1>1, CallFields DEF PartialInv
<1> DEFINE b == call.buffer
           low == given - call.size
           u == sent'
<1>4. sent \in Seq(Nat) /\ NoGap(sent) /\ 1 .. low \subseteq BytesOf(sent) /\ 1 .. b \subseteq BytesOf(sent)
  BY <1>1, <1>3 DEF PartialInv
<1>5. b \in Nat /\ low \in Nat /\ b <= given /\ u = Joined(sent, Stretch(b, k, low, given))
  BY <1>2, <1>3 DEF Stretch, Partial!Held
<1>10. low = given - call.size
  OBVIOUS
<1> HIDE DEF b, low, u
<1>6. /\ u \in Seq(Nat) /\ NoGap(u) /\ BytesOf(sent) \subseteq BytesOf(u)
      /\ \A x \in 1 .. b + k : x <= given => x \in BytesOf(u)
  <2>1. b \in Nat /\ k \in Nat /\ low \in Nat /\ given \in Nat /\ b <= given
    BY <1>3, <1>5
  <2>2. \A v : v = Joined(sent, Stretch(b, k, low, given)) =>
          /\ v \in Seq(Nat) /\ NoGap(v) /\ BytesOf(sent) \subseteq BytesOf(v)
          /\ \A x \in 1 .. b + k : x <= given => x \in BytesOf(v)
    BY <1>4, <2>1, GapsStay
  <2>3. QED
    BY <1>5, <2>2
<1>7. /\ call'.left > 0 => call'.buffer + call'.left = given
      /\ call'.left = 0 => call'.buffer >= given
  <2> DEFINE l == call.left
             c == call.buffer
             m == call'.left
             d == call'.buffer
  <2>1. m = (IF l > k THEN l - k ELSE 0) /\ d = c + k
    BY <1>2
  <2>2. k \in Nat /\ l \in Nat /\ c \in Nat /\ c + l = given /\ given \in Nat
    BY <1>3
  <2> HIDE DEF l, c, m, d
  <2>3. CASE l > k
    <3>1. m = l - k /\ m > 0
      BY <2>1, <2>2, <2>3
    <3>2. d + m = given
      BY <2>1, <2>2, <3>1
    <3>3. QED
      BY <3>1, <3>2 DEF m, d
  <2>4. CASE l <= k
    <3>1. m = 0
      BY <2>1, <2>2, <2>4
    <3>2. d >= given
      BY <2>1, <2>2, <2>4
    <3>3. QED
      BY <3>1, <3>2 DEF m, d
  <2>5. QED
    BY <2>2, <2>3, <2>4
<1>8. \A x \in 1 .. call'.buffer : x <= given => x \in BytesOf(sent')
  BY <1>2, <1>6 DEF b, u
<1>11. 1 .. given' - call'.size \subseteq BytesOf(sent') /\ call'.size <= given'
  BY <1>1, <1>2, <1>3, <1>4, <1>6, <1>10 DEF u
<1>9. QED
  BY <1>1, <1>2, <1>3, <1>6, <1>7, <1>8, <1>11 DEF PartialInv, NoGap, u

\* Every step of a socket that may take less.
LEMMA PartialNext == ASSUME PartialInv, Partial!Next PROVE PartialInv'
<1> DEFINE S == BytesOf(sent)
<1>1. ReadInv /\ given \in Nat
  BY DEF PartialInv
<1>2. ASSUME UNCHANGED sent
      PROVE  sent' \in Seq(Nat) /\ NoGap(sent') /\ BytesOf(sent') = S
  BY <1>2 DEF PartialInv
<1>3. ASSUME NEW n \in SocketSizes, Partial!DoSocketWrite(n) PROVE PartialInv'
  <2>1. ReadInv' /\ call' = [op |-> "write", size |-> n, left |-> n, buffer |-> given, got |-> << >>]
    BY <1>1, <1>3, WriteBegins
  <2>2. call = Partial!Idle /\ sound /\ given' = given + n /\ sent' = sent
    BY <1>3 DEF Partial!DoSocketWrite, Partial!MayCall
  <2>3. call'.op = "write" /\ call'.left = n /\ call'.buffer = given /\ call'.size = n
    BY <2>1
  <2>4. 1 .. given \subseteq S
    BY <2>2, NoCall DEF PartialInv
  <2>5. n \in Nat /\ n > 0 /\ given' \in Nat
    BY <1>1, <2>2, SocketConstantsAre
  <2>9. given' - n = given /\ n <= given'
    BY <1>1, <2>2, <2>5
  <2>6. /\ \A x \in 1 .. call'.buffer : x <= given' => x \in BytesOf(sent')
        /\ call'.size <= given' /\ 1 .. given' - call'.size \subseteq BytesOf(sent')
    BY <1>2, <2>2, <2>3, <2>4, <2>9
  <2>7. /\ call'.left > 0 => call'.buffer + call'.left = given'
        /\ call'.left = 0 => call'.buffer >= given'
    BY <2>2, <2>3, <2>5
  <2>8. QED
    BY <1>2, <2>1, <2>2, <2>3, <2>5, <2>6, <2>7 DEF PartialInv, NoGap
<1>4. CASE Partial!SendAgain
  <2>1. /\ ReadInv' /\ call'.op = "write" /\ call'.size = call.size
        /\ call'.left = call.left + 1 /\ call'.buffer = call.buffer - 1
    BY <1>1, <1>4, AgainMoves
  <2>2. call.op = "write" /\ call.left > 0 /\ call.buffer > 0 /\ UNCHANGED <<given, sent, sound>>
    BY <1>4 DEF Partial!SendAgain
  <2>3. call.left \in Nat /\ call.buffer \in Nat /\ call.buffer + call.left = given
    BY <1>1, <2>2, CallFields DEF PartialInv
  <2>8. /\ \A x \in 1 .. call.buffer : x <= given => x \in S
        /\ call.size <= given /\ 1 .. given - call.size \subseteq S
    BY <2>2 DEF PartialInv
  <2>4. \A x \in 1 .. call'.buffer : x \in 1 .. call.buffer
    BY <2>1, <2>3
  <2>5. /\ \A x \in 1 .. call'.buffer : x <= given' => x \in BytesOf(sent')
        /\ call'.size <= given' /\ 1 .. given' - call'.size \subseteq BytesOf(sent')
    <3>1. \A x \in 1 .. call'.buffer : x <= given' => x \in BytesOf(sent')
      BY <1>2, <2>2, <2>4, <2>8
    <3>2. call'.size <= given'
      BY <2>1, <2>2, <2>8
    <3>3. 1 .. given' - call'.size \subseteq BytesOf(sent')
      BY <1>2, <2>1, <2>2, <2>8
    <3>4. QED
      BY <3>1, <3>2, <3>3
  <2>6. /\ call'.left > 0 => call'.buffer + call'.left = given'
        /\ call'.left = 0 => call'.buffer >= given'
    BY <1>1, <2>1, <2>2, <2>3
  <2>7. QED
    BY <1>1, <1>2, <2>1, <2>2, <2>5, <2>6 DEF PartialInv, NoGap
<1>5. CASE Elsewhere
  <2>1. /\ ReadInv' /\ UNCHANGED <<given, sent>>
        /\ call.op = "write" => \/ call' = call
                                \/ call'.op # "write" /\ (sound' => call.left = 0)
        /\ call.op # "write" => call'.op # "write" /\ (sound' => sound)
    BY <1>1, <1>5, ElsewhereKeeps
  <2>2. sent' \in Seq(Nat) /\ NoGap(sent') /\ BytesOf(sent') = S
    BY <1>2, <2>1
  <2>3. CASE call.op = "write" /\ call' = call
    BY <1>1, <2>1, <2>2, <2>3 DEF PartialInv, NoGap
  <2>4. CASE call.op = "write" /\ call'.op # "write" /\ (sound' => call.left = 0)
    <3>1. call.left = 0 => \A x \in 1 .. given : x \in 1 .. call.buffer /\ x <= given
      BY <1>1, <2>4, CallFields DEF PartialInv
    <3>2. \A x \in 1 .. call.buffer : x <= given => x \in S
      BY <2>4 DEF PartialInv
    <3>3. sound' => 1 .. given' \subseteq BytesOf(sent')
      BY <2>1, <2>2, <2>4, <3>1, <3>2
    <3>4. QED
      BY <1>1, <2>1, <2>2, <2>4, <3>3 DEF PartialInv, NoGap
  <2>5. CASE call.op # "write" /\ call'.op # "write" /\ (sound' => sound)
    <3>1. sound' => 1 .. given' \subseteq BytesOf(sent')
      BY <2>1, <2>2, <2>5 DEF PartialInv
    <3>2. QED
      BY <1>1, <2>1, <2>2, <2>5, <3>1 DEF PartialInv, NoGap
  <2>6. QED
    BY <2>1, <2>3, <2>4, <2>5
<1>6. QED
  BY <1>3, <1>4, <1>5, PartialSend DEF Partial!Next, Partial!Step, Elsewhere

\* What the invariant says of a socket that may take less.
LEMMA PartialFollows == ASSUME PartialInv PROVE Partial!NothingSkipped /\ Partial!ReadsExactly
<1>1. ReadInv
  BY DEF PartialInv
<1>2. /\ Len(call.got) \in Nat /\ Len(taken) \in Nat /\ Len(arriving) \in Nat
      /\ call.got \in Seq(Nat)
  BY <1>1 DEF ReadInv, StreamInv, Follow
<1>3. Len(call.got) <= call.size
  BY <1>1, <1>2, CallFields DEF ReadInv, ReadingInv
<1>4. \A i \in 1 .. Len(taken) : taken[i] = i
  BY <1>1, <1>2 DEF ReadInv, StreamInv, Follow
<1>5. call = Partial!Idle /\ sound => Len(taken) + Len(arriving) = peer
  BY <1>1, <1>2, NoCall DEF ReadInv, StreamInv
<1>6. Partial!ReadsExactly
  BY <1>3, <1>4, <1>5 DEF Partial!ReadsExactly
<1>7. Partial!NothingSkipped
  BY NoCall DEF PartialInv, Partial!NothingSkipped, NoGap, BytesOf
<1>8. QED
  BY <1>6, <1>7

\* The sockets rest.
LEMMA StreamRests ==
  ASSUME UNCHANGED <<conn, call, given, sent, arriving, peer, taken, sound>>
  PROVE  (WholeInv => WholeInv') /\ (PartialInv => PartialInv')
<1>1. ReadInv => ReadInv'
  BY ReadsRest DEF ReadInv, StreamInv, ReadingInv, SocketCall, Partial!Idle
<1>2. WholeInv => WholeInv'
  BY <1>1 DEF WholeInv
<1>3. PartialInv => PartialInv'
  BY <1>1 DEF PartialInv
<1>4. QED
  BY <1>2, <1>3

\* The TCP driver is in step with its server, says what has moved and gives up in
\* time; it leaves a socket behind where an open fails at setsockopt or
\* getservbyname and nowhere else.  What is written to a socket that takes all it
\* is given arrives once and in order, and to one that takes less, with bytes that
\* arrive again but none passed over; what is read is what was sent.  All for every
\* length of a transfer, a fragment and a stream, every timeout and every number of
\* messages in between.
THEOREM StreamsAreRight == Spec => []StreamsRight
<1> DEFINE Inv == /\ part = "tcp" => TcpInv
                  /\ part = "broken" => BrokenInv
                  /\ part = "whole" => WholeInv
                  /\ part = "partial" => PartialInv
<1>1. Init => Inv
  <2>1. Init => /\ part = "tcp" => Tcp!Init
                /\ part = "broken" => Broken!Init
                /\ part = "whole" => Whole!Init
                /\ part = "partial" => Partial!Init
    BY DEF Init, InitOwn, Lops, Driver, Net, Stream
  <2>2. QED
    BY <2>1, TcpInit, BrokenInit, WholeInit, PartialInit
<1>2. Inv /\ [Next]_vars => Inv'
  <2> SUFFICES ASSUME Inv, [Next]_vars PROVE Inv'
    OBVIOUS
  <2>1. part' = part
    BY PartStays
  <2>2. \/ UNCHANGED vars
        \/ /\ part = "tcp" => Tcp!Next
           /\ part = "broken" => Broken!Next
           /\ part = "whole" => Whole!Next
           /\ part = "partial" => Partial!Next
    BY DEF Next, StreamOver
  <2>3. CASE UNCHANGED vars
    <3>1. /\ UNCHANGED <<state, isopen, sockets, leaked, conn, call, commands, inbox, said, result>>
          /\ UNCHANGED <<given, sent, arriving, peer, taken, sound>>
      BY <2>3 DEF vars, tcpOwn, socketOwn, shared
    <3>2. QED
      BY <2>1, <3>1, TcpRests, BrokenRests, StreamRests
  <2>4. CASE /\ part = "tcp" => Tcp!Next
             /\ part = "broken" => Broken!Next
             /\ part = "whole" => Whole!Next
             /\ part = "partial" => Partial!Next
    BY <2>1, <2>4, TcpNext, BrokenNext, WholeNext, PartialNext
  <2>5. QED
    BY <2>2, <2>3, <2>4
<1>3. Inv => StreamsRight
  BY TcpFollows, BrokenFollows, WholeFollows, PartialFollows DEF StreamsRight
<1>4. QED
  BY <1>1, <1>2, <1>3, PTL DEF Spec

=============================================================================
