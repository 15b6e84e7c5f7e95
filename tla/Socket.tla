------------------------------- MODULE Socket -------------------------------
(***************************************************************************)
(* DoSocketWrite, DoSocketRead and DoTimedSocketRead of TOPS.C, and of     *)
(* TCPLINK.C which has the same: a buffer to and from a stream.  send and  *)
(* recv may move fewer bytes than they are asked for.  The bytes are their *)
(* numbers in the stream that ought to be sent, or is received; 0 is what  *)
(* lies in memory before and after the buffer of the call.                 *)
(***************************************************************************)
EXTENDS Integers, Sequences

CONSTANTS
  Sizes,       \* bytes asked for by a call
  MaxBytes,    \* bound: bytes of either stream
  ShortSends,  \* whether send may take less than it is given
  NoBuffers    \* whether send may fail with ENOBUFS

\* What the constants are; the module that gives them assumes it.
SocketConstants ==
  /\ Sizes \subseteq Nat \ {0} /\ \E most \in Sizes : \A n \in Sizes : n <= most
  /\ MaxBytes \in Nat /\ {ShortSends, NoBuffers} \subseteq BOOLEAN

VARIABLES
  conn,      \* "up" or "lost"
  call,      \* op, size, left: left_to_write or left_to_read, buffer: where it points
  given,     \* bytes the callers have handed to DoSocketWrite
  sent,      \* the stream the peer gets
  arriving,  \* bytes the peer has sent and recv has not returned
  peer,      \* bytes the peer has sent
  taken,     \* the bytes calls have returned to their callers
  sound      \* no call has failed

vars == <<conn, call, given, sent, arriving, peer, taken, sound>>

Idle == [op |-> "none", size |-> 0, left |-> 0, buffer |-> 0, got |-> << >>]
Highest(S) == CHOOSE x \in S : \A y \in S : y <= x

TypeOK ==
  /\ conn \in {"up", "lost"} /\ call.op \in {"none", "write", "read", "timed"}
  /\ call.left \in 0 .. Highest(Sizes) /\ given \in 0 .. MaxBytes
  /\ Len(sent) <= MaxBytes /\ peer \in 0 .. MaxBytes /\ Len(taken) <= MaxBytes
  /\ sound \in BOOLEAN

Init ==
  /\ conn = "up" /\ call = Idle /\ given = 0 /\ sent = << >> /\ arriving = << >>
  /\ peer = 0 /\ taken = << >> /\ sound = TRUE

Fails == call' = Idle /\ sound' = FALSE

\* The caller gives up the connection after a failure.
MayCall == call = Idle /\ sound

-----------------------------------------------------------------------------
(* DoSocketWrite *)

DoSocketWrite(n) ==
  /\ MayCall /\ given + n <= MaxBytes
  /\ call' = [Idle EXCEPT !.op = "write", !.size = n, !.left = n, !.buffer = given]
  /\ given' = given + n
  /\ UNCHANGED <<conn, sent, arriving, peer, taken, sound>>

\* send (socket, buffer, to_write, 0): to_write is not left_to_write.
ToWrite == call.size

Counted(k) == k

\* What lies where buffer points to: a byte of this call, or what is not its.
Held(k) == IF given - call.size < k /\ k <= given THEN k ELSE 0

Send ==
  /\ call.op = "write" /\ call.left > 0 /\ conn = "up" /\ Len(sent) < MaxBytes
  /\ \E k \in 1 .. ToWrite :
       /\ ShortSends \/ k = ToWrite
       /\ sent' = sent \o [i \in 1 .. k |-> Held(call.buffer + i)]
       /\ call' = [call EXCEPT !.left = IF @ > Counted(k) THEN @ - Counted(k) ELSE 0,
                               !.buffer = @ + Counted(k)]
  /\ UNCHANGED <<conn, given, arriving, peer, taken, sound>>

\* ENOBUFS, "try again": data_written is -1, and counted as the others.
SendAgain ==
  /\ call.op = "write" /\ call.left > 0 /\ conn = "up" /\ NoBuffers
  /\ call.buffer > 0                                            \* bound: once or twice
  /\ call' = [call EXCEPT !.left = @ + 1, !.buffer = @ - 1]
  /\ UNCHANGED <<conn, given, sent, arriving, peer, taken, sound>>

WriteDone ==
  /\ call.op = "write" /\ call.left = 0 /\ call' = Idle
  /\ UNCHANGED <<conn, given, sent, arriving, peer, taken, sound>>

-----------------------------------------------------------------------------
(* DoSocketRead and DoTimedSocketRead *)

Read(op, n) ==
  /\ MayCall /\ Len(taken) + n <= MaxBytes
  /\ call' = [Idle EXCEPT !.op = op, !.size = n, !.left = n]
  /\ UNCHANGED <<conn, given, sent, arriving, peer, taken, sound>>

\* recv asks for what is left and returns what has come, at least one byte.
AskedFor == call.left

Lower(a, b) == IF a < b THEN a ELSE b

Receive ==
  /\ call.op = "read" /\ call.left > 0 /\ arriving # << >>
  /\ \E k \in 1 .. Lower(AskedFor, Len(arriving)) :
       /\ call' = [call EXCEPT !.left = IF @ > k THEN @ - k ELSE 0,
                               !.got = @ \o SubSeq(arriving, 1, k)]
       /\ arriving' = SubSeq(arriving, k + 1, Len(arriving))
  /\ UNCHANGED <<conn, given, sent, peer, taken, sound>>

ReadDone ==
  /\ call.op = "read" /\ call.left = 0
  /\ taken' = taken \o call.got /\ call' = Idle
  /\ UNCHANGED <<conn, given, sent, arriving, peer, sound>>

\* One recv after select: all of it, or the call fails.
Whole(k) == k = call.size

ReceiveTimed ==
  /\ call.op = "timed" /\ arriving # << >>
  /\ \E k \in 1 .. Lower(call.size, Len(arriving)) :
       /\ arriving' = SubSeq(arriving, k + 1, Len(arriving))
       /\ IF Whole(k)
          THEN taken' = taken \o SubSeq(arriving, 1, k)
                              \o [i \in 1 .. call.size - k |-> 0] /\ call' = Idle /\ UNCHANGED sound
          ELSE Fails /\ UNCHANGED taken
  /\ UNCHANGED <<conn, given, sent, peer>>

\* TIMEDSTATUSnodata: nothing has been touched.
NoData ==
  /\ call.op = "timed" /\ arriving = << >> /\ conn = "up" /\ call' = Idle
  /\ UNCHANGED <<conn, given, sent, arriving, peer, taken, sound>>

-----------------------------------------------------------------------------
EndSeen == call.op = "write" \/ arriving = << >>

\* send or recv fails, or returns 0 for the end of the connection.
ConnectionLost ==
  /\ call.op # "none" /\ conn = "lost" /\ EndSeen
  /\ Fails
  /\ UNCHANGED <<conn, given, sent, arriving, peer, taken>>

PeerSends ==
  /\ conn = "up" /\ peer < MaxBytes
  /\ peer' = peer + 1 /\ arriving' = Append(arriving, peer + 1)
  /\ UNCHANGED <<conn, call, given, sent, taken, sound>>

Lose ==
  /\ conn = "up" /\ conn' = "lost"
  /\ UNCHANGED <<call, given, sent, arriving, peer, taken, sound>>

Step == Send \/ SendAgain \/ WriteDone \/ Receive \/ ReadDone \/ ReceiveTimed \/ NoData
          \/ ConnectionLost

Next ==
  \/ \E n \in Sizes : DoSocketWrite(n) \/ Read("read", n) \/ Read("timed", n)
  \/ Step \/ PeerSends \/ Lose

Spec == Init /\ [][Next]_vars /\ WF_vars(Step)

-----------------------------------------------------------------------------
\* What the peer has been sent is the beginning of what the callers gave, and
\* all of it between calls: N bytes, from the buffer (TOPS.C:218).
WritesExactly ==
  /\ \A i \in 1 .. Len(sent) : sent[i] = i
  /\ call = Idle /\ sound => Len(sent) = given

\* Also with short sends and a socket short of buffers, when what is not in the
\* buffer is sent as well, every byte is sent, and none before the byte before it.
NothingSkipped ==
  /\ \A i \in 1 .. Len(sent) : sent[i] > 1 => \E j \in 1 .. i - 1 : sent[j] + 1 = sent[i]
  /\ call = Idle /\ sound => 1 .. given \subseteq {sent[i] : i \in 1 .. Len(sent)}

\* What the callers have been given is the stream of the peer, with nothing
\* left out and nothing twice, however it was cut up on its way; and no read
\* puts more into its buffer than it was asked for.
ReadsExactly ==
  /\ Len(call.got) <= call.size
  /\ \A i \in 1 .. Len(taken) : taken[i] = i
  /\ call = Idle /\ sound => Len(taken) + Len(arriving) = peer

\* A timed read fails only when the connection is lost.
FailsOnlyLost ==
  [][call.op = "timed" /\ sound /\ ~ sound' => conn = "lost"]_vars

=============================================================================
