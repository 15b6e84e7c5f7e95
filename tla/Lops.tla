-------------------------------- MODULE Lops --------------------------------
(***************************************************************************)
(* The operations of LOPS.C on a link that is open: the modes, the boot    *)
(* write, a request and its reply.  A call is a few steps, one for each    *)
(* call of a driver, so that the target can go on in between.              *)
(* The target sends a packet and waits for the whole reply before the      *)
(* next.  A byte of a packet is a pair <<packet, index>>.                  *)
(***************************************************************************)
EXTENDS Integers, Sequences, SequencesExt

CONSTANTS
  Header,      \* bytes of the smallest packet; 8 in the program
  MaxSize,     \* SPMAXHEADERVALUE + 2, the bytes of the largest; 1040
  Frag,        \* LINKIOFRAGSIZE; 32767
  Codes,       \* lengths given to LOPS_BootWrite
  Replies,     \* lengths of replies, the two bytes of the size included
  Lengths,     \* lengths of the packets the target sends
  MaxPackets,  \* bound: packets the target sends
  MaxCode,     \* bound: bytes of boot code
  Slow,        \* whether the target may stop in a packet until a read times out
  LinkFails,   \* whether a driver may return an error
  GoesOn       \* whether the caller goes on after a call that failed

\* What the constants are; the module that gives them assumes it.
LopsConstants ==
  /\ Header \in Nat \ {0, 1} /\ MaxSize \in Nat /\ Frag \in Nat \ {0}
  /\ Codes \subseteq Nat /\ Replies \subseteq Nat /\ Lengths \subseteq Nat
  /\ \E longest \in Lengths : \A n \in Lengths : n <= longest
  /\ {MaxPackets, MaxCode} \subseteq Nat /\ {Slow, LinkFails, GoesOn} \subseteq BOOLEAN

VARIABLES
  comms, errors,   \* *commsmode and *errormode
  call,            \* the running call: op, pc, the bytes read or still to write
  beat,            \* do_heartbeat
  status,          \* what the last call returned
  given,           \* bytes of boot code handed to LOPS_BootWrite
  sound,           \* no call has failed since the last reset
  \* the target
  length,          \* of each packet it has begun to send
  sending,         \* the bytes of the last one it has still to send
  flag,            \* its error flag
  code,            \* the bytes of boot code it has got, by their place in the buffer
  replies,         \* how many whole replies it has got
  \* between them
  inflow,          \* bytes on the link
  delivered        \* requests returned to the caller

vars == <<comms, errors, call, beat, status, given, sound, length, sending, flag, code,
          replies, inflow, delivered>>
modes  == <<comms, errors>>
target == <<length, sending, flag, code, replies>>

NOERROR == "NOERROR"
Failures == {"LINK_FATAL", "TARGET_ERROR", "SP_ERROR", "BAD_OPERATION"}
Idle == [op |-> "none", pc |-> "none", bytes |-> << >>, left |-> 0, base |-> 0]
Highest(S) == CHOOSE x \in S : \A y \in S : y <= x
Lower(a, b) == IF a < b THEN a ELSE b

Init ==
  /\ comms = "synchronous" /\ errors = "ignore" /\ call = Idle /\ beat = FALSE
  /\ status = NOERROR /\ sound = TRUE /\ given = 0
  /\ length = << >> /\ sending = << >> /\ flag = FALSE /\ code = << >> /\ replies = 0
  /\ inflow = << >> /\ delivered = << >>

Packet(p) == [i \in 1 .. length[p] |-> <<p, i>>]

TypeOK ==
  /\ comms \in {"synchronous", "asynchronous"} /\ errors \in {"detect", "ignore"}
  /\ call.op \in {"none", "BootWrite", "GetRequest"} /\ beat \in BOOLEAN
  /\ call.pc \in {"none", "test", "first", "rest", "size", "beat", "write"}
  /\ status \in {NOERROR} \cup Failures /\ sound \in BOOLEAN /\ flag \in BOOLEAN
  /\ length \in Seq(Lengths) /\ Len(length) <= MaxPackets
  /\ replies \in 0 .. Len(length) /\ given \in 0 .. MaxCode
  /\ \A s \in {call.bytes, sending, inflow} : Len(s) <= Highest(Lengths)

MayCall == call = Idle /\ (GoesOn \/ sound)
Returns(s) == call' = Idle /\ status' = s /\ sound' = (sound /\ s = NOERROR)
Goes(pc) == call' = [call EXCEPT !.pc = pc] /\ UNCHANGED <<status, sound>>

-----------------------------------------------------------------------------
(* The error test, and the drivers *)

\* What a test of the error flag makes a call return, NOERROR to go on.
TestError ==
  IF errors = "ignore" THEN {NOERROR}
  ELSE {IF flag THEN "TARGET_ERROR" ELSE NOERROR}
         \cup (IF LinkFails THEN {"LINK_FATAL"} ELSE {})

\* A read of n bytes: what it takes, if the driver does not fail.  It times
\* out with less only when no more is coming, or when the target is slow.
Takes(n) ==
  {k \in 0 .. n :
     /\ k <= Len(inflow)
     /\ k < n => k = Len(inflow) /\ (sending = << >> \/ k = 0 \/ Slow)}

-----------------------------------------------------------------------------
(* Modes, reset and analyse *)

CommsMode(m) ==
  /\ MayCall /\ comms' = m
  /\ \E s \in TestError : Returns(s)
  /\ UNCHANGED <<errors, beat, given, target, inflow, delivered>>

ErrorMode(m) ==
  /\ MayCall /\ errors' = m /\ Returns(NOERROR)
  /\ UNCHANGED <<comms, beat, given, target, inflow, delivered>>

LOPS_Restart ==
  /\ call = Idle /\ comms' = "synchronous" /\ errors' = "ignore" /\ Returns(NOERROR)
  /\ UNCHANGED <<beat, given, target, inflow, delivered>>

\* The target starts again, and with it both ends of the link.
LOPS_Reset ==
  /\ call = Idle /\ comms = "synchronous"
  /\ \/ /\ call' = Idle /\ status' = NOERROR /\ sound' = TRUE
        /\ length' = << >> /\ sending' = << >> /\ flag' = FALSE /\ code' = << >>
        /\ replies' = 0 /\ inflow' = << >> /\ delivered' = << >> /\ given' = 0
     \/ /\ LinkFails /\ Returns("LINK_FATAL")
        /\ UNCHANGED <<given, target, inflow, delivered>>
  /\ UNCHANGED <<modes, beat>>

-----------------------------------------------------------------------------
(* The boot write *)

BootWrite(n) ==
  /\ MayCall /\ comms = "synchronous" /\ length = << >> /\ given + n <= MaxCode
  /\ call' = [op |-> "BootWrite", pc |-> "write", bytes |-> << >>, left |-> n,
              base |-> given]
  /\ given' = given + n
  /\ UNCHANGED <<modes, beat, status, sound, target, inflow, delivered>>

FragSize(n) == Lower(n, Frag)

\* The first k bytes of the caller's buffer.
Buffer(k) == [i \in 1 .. k |-> call.base + i]

\* bytes_to_go goes down; buffer does not go up.
BootFragment ==
  /\ call.op = "BootWrite" /\ call.left > 0
  /\ \/ /\ code' = code \o Buffer(FragSize(call.left))
        /\ call' = [call EXCEPT !.left = @ - Lower(@, Frag)]
        /\ UNCHANGED <<status, sound>>
     \/ /\ LinkFails
        /\ \E k \in 0 .. Lower(call.left, Frag) - 1 : code' = code \o Buffer(k)
        /\ Returns("LINK_FATAL")
  /\ UNCHANGED <<modes, beat, given, length, sending, flag, replies, inflow, delivered>>

BootEnd ==
  /\ call.op = "BootWrite" /\ call.left = 0
  /\ \E s \in TestError : Returns(s)
  /\ UNCHANGED <<modes, beat, given, target, inflow, delivered>>

-----------------------------------------------------------------------------
(* A request *)

GetRequest(b) ==
  /\ MayCall /\ comms = "asynchronous"
  /\ call' = [op |-> "GetRequest", pc |-> "test", bytes |-> << >>, left |-> 0]
  /\ beat' = b
  /\ UNCHANGED <<modes, given, status, sound, target, inflow, delivered>>

FirstTest ==
  /\ call.pc = "test"
  /\ \E s \in TestError : IF s = NOERROR THEN Goes("first") ELSE Returns(s)
  /\ UNCHANGED <<modes, beat, given, target, inflow, delivered>>

\* What the heartbeat function may say, and where the call goes then.
HeartBeat(next) ==
  IF ~ beat THEN next /\ UNCHANGED beat
  ELSE \/ next /\ beat' \in BOOLEAN
       \/ Returns("BAD_OPERATION") /\ UNCHANGED beat

BytesWithFirst == SubSeq(inflow, 1, 1)

\* One byte, or nothing, or a NOSYNC of the B016, or an error.
FirstByte ==
  /\ call.pc = "first"
  /\ \/ /\ 1 \in Takes(1)
        /\ call' = [call EXCEPT !.pc = "rest", !.bytes = BytesWithFirst]
        /\ inflow' = Tail(inflow) /\ UNCHANGED <<beat, status, sound>>
     \/ 0 \in Takes(1) /\ HeartBeat(Goes("test")) /\ UNCHANGED inflow
     \/ 0 \in Takes(1) /\ Goes("test") /\ UNCHANGED <<beat, inflow>>
     \/ LinkFails /\ Returns("LINK_FATAL") /\ UNCHANGED <<beat, inflow>>
  /\ UNCHANGED <<modes, given, target, delivered>>

\* Some bytes are taken and all is not well: the test of the flag comes first.
Short(k, s) ==
  /\ inflow' = SubSeq(inflow, k + 1, Len(inflow))
  /\ \E t \in TestError : Returns(IF t = NOERROR THEN s ELSE t)

NotGotHeader == "test"                   \* mutant: got_header is not set
AfterHeader == "size"

RestOfHeader ==
  /\ call.pc = "rest"
  /\ \/ /\ Header - 1 \in Takes(Header - 1)
        /\ \E t \in TestError :
             IF t # NOERROR THEN Returns(t)
             ELSE /\ call' = [call EXCEPT !.pc = AfterHeader,
                                !.bytes = @ \o SubSeq(inflow, 1, Header - 1)]
                  /\ UNCHANGED <<status, sound>>
        /\ inflow' = SubSeq(inflow, Header, Len(inflow))
     \/ \E k \in Takes(Header - 1) : k < Header - 1 /\ Short(k, "SP_ERROR")
     \/ \E k \in 0 .. Lower(Header - 1, Len(inflow)) : LinkFails /\ Short(k, "LINK_FATAL")
  /\ UNCHANGED <<modes, beat, given, target, delivered>>

\* The size read: of the packet, or anything if the bytes are not its header.
Sizes ==
  IF Head(call.bytes)[2] = 1 THEN {length[Head(call.bytes)[1]]} ELSE Lengths

BodyOneShort(size) == size - Header - 1  \* mutant: one byte of the body is left
Body(size) == size - Header

ReadBody(body) ==
  \/ /\ body \in Takes(body)
     /\ \E t \in TestError :
          IF t # NOERROR THEN Returns(t)
          ELSE /\ call' = [call EXCEPT !.pc = "beat", !.bytes = @ \o SubSeq(inflow, 1, body)]
               /\ UNCHANGED <<status, sound>>
     /\ inflow' = SubSeq(inflow, body + 1, Len(inflow))
  \/ \E k \in Takes(body) : k < body /\ Short(k, "LINK_FATAL")
  \/ \E k \in 0 .. Lower(body, Len(inflow)) : LinkFails /\ Short(k, "LINK_FATAL")

\* The size is judged, and the body read if there is one.
SizeAndBody ==
  /\ call.pc = "size"
  /\ \E size \in Sizes, t \in TestError :
       \/ t # NOERROR /\ Returns(t) /\ UNCHANGED inflow
       \/ t = NOERROR /\ size > MaxSize /\ Returns("SP_ERROR") /\ UNCHANGED inflow
       \/ t = NOERROR /\ size <= MaxSize /\ Body(size) <= 0 /\ Goes("beat") /\ UNCHANGED inflow
       \/ t = NOERROR /\ size <= MaxSize /\ Body(size) > 0 /\ ReadBody(Body(size))
  /\ UNCHANGED <<modes, beat, given, target, delivered>>

\* The heartbeat is asked again before the request goes to the caller.
Deliver ==
  /\ call.pc = "beat"
  /\ \/ /\ Returns(NOERROR) /\ delivered' = Append(delivered, call.bytes)
        /\ beat' \in IF beat THEN BOOLEAN ELSE {beat}
     \/ beat /\ Returns("BAD_OPERATION") /\ UNCHANGED <<beat, delivered>>
  /\ UNCHANGED <<modes, given, target, inflow>>

-----------------------------------------------------------------------------
(* The reply *)

SizeIsBad(n) == n - 2 <= 0 \/ n - 2 > MaxSize

SendStatus(whole, t) == IF t # NOERROR THEN t ELSE IF whole THEN NOERROR ELSE "LINK_FATAL"

LOPS_SendReply(n) ==
  /\ MayCall /\ comms = "asynchronous" /\ Len(delivered) > replies
  /\ IF SizeIsBad(n)
     THEN Returns("SP_ERROR") /\ UNCHANGED replies
     ELSE \/ /\ replies' = replies + 1
             /\ \E t \in TestError : Returns(SendStatus(TRUE, t))
          \/ /\ LinkFails /\ UNCHANGED replies
             /\ \E t \in TestError : Returns(SendStatus(FALSE, t))
  /\ UNCHANGED <<modes, beat, given, length, sending, flag, code, inflow, delivered>>

-----------------------------------------------------------------------------
(* The target *)

\* It makes a request when the last one has been answered and its code has come.
BeginPacket ==
  /\ ~ flag /\ sending = << >> /\ replies = Len(length) /\ Len(length) < MaxPackets
  /\ code # << >> /\ call.op # "BootWrite"
  /\ \E n \in Lengths :
       /\ length' = Append(length, n)
       /\ sending' = [i \in 1 .. n |-> <<Len(length) + 1, i>>]
  /\ UNCHANGED <<modes, call, beat, status, given, sound, flag, code, replies, inflow, delivered>>

SendByte ==
  /\ sending # << >>
  /\ inflow' = Append(inflow, Head(sending)) /\ sending' = Tail(sending)
  /\ UNCHANGED <<modes, call, beat, status, given, sound, length, flag, code, replies, delivered>>

\* An error halts it, in the middle of a packet or not.
RaiseFlag ==
  /\ ~ flag /\ code # << >>
  /\ flag' = TRUE /\ sending' \in {sending, << >>}
  /\ UNCHANGED <<modes, call, beat, status, given, sound, length, code, replies, inflow, delivered>>

Step == BootFragment \/ BootEnd \/ FirstTest \/ FirstByte \/ RestOfHeader
          \/ SizeAndBody \/ Deliver

Next ==
  \/ \E m \in {"synchronous", "asynchronous"} : CommsMode(m)
  \/ \E m \in {"detect", "ignore"} : ErrorMode(m)
  \/ LOPS_Restart \/ LOPS_Reset
  \/ \E n \in Codes : BootWrite(n)
  \/ \E b \in BOOLEAN : GetRequest(b)
  \/ \E n \in Replies : LOPS_SendReply(n)
  \/ Step
  \/ BeginPacket \/ SendByte \/ RaiseFlag

Spec == Init /\ [][Next]_vars /\ WF_vars(Step) /\ WF_vars(SendByte)

-----------------------------------------------------------------------------
\* While no call has failed, the requests returned are the packets of the
\* target, whole and in order: GetRequest never loses its place, though it
\* reads a packet in three parts and may time out before any of them.
InOrder ==
  sound => \A i \in 1 .. Len(delivered) : delivered[i] = Packet(i)

\* The target is never ahead: what it has been told was answered has been
\* read, and no packet is on the link while the caller owes an answer.
Lockstep ==
  sound /\ Len(delivered) > replies
    => inflow = << >> /\ sending = << >> /\ Len(delivered) = Len(length)

\* LOPS_BootWrite that succeeds has sent the code it was given.
BootComplete ==
  call = Idle /\ sound => code = [i \in 1 .. given |-> i]

=============================================================================
