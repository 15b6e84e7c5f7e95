----------------------------- MODULE B004Timer -----------------------------
(***************************************************************************)
(* The timing of B004LINK.C.  timenow() reads the low word of the BIOS     *)
(* timer, an unsigned number that is counted up 18 times a second and      *)
(* wraps; a wait compares it with a deadline computed once.                *)
(* The program waits in waitfor (a fixed time) or while it polls the link  *)
(* in B004ReadLink and B004WriteLink (until a byte comes or the deadline   *)
(* has passed).                                                            *)
(***************************************************************************)
EXTENDS Integers

CONSTANTS
  Word,       \* values of an unsigned int; 65536 in the program
  Delays,     \* delays and timeouts, in tenths of a second
  FarFromWrap \* whether every wait begins far enough before the timer wraps

\* What the constants are; the module that gives them assumes it.
TimerConstants ==
  /\ Word \in Nat \ {0} /\ Delays \subseteq Nat /\ FarFromWrap \in BOOLEAN

VARIABLES
  now,       \* the BIOS timer
  pc,        \* "idle", "wait" in waitfor, "poll" in a read or write
  deadline,  \* delay, or Timeout after the call of timeafter
  asked,     \* the ticks asked for, without the width
  waited,    \* ticks since the wait began
  ended      \* how the last one ended: "none", "byte" or "time"

vars == <<now, pc, deadline, asked, waited, ended>>

TICKS_PER_SEC == 18

Ticks(delay) == (delay * TICKS_PER_SEC) \div 10

Nticks(delay) == ((delay * TICKS_PER_SEC) % Word) \div 10

TimeAfter(delay) == (now + Nticks(delay)) % Word

TypeOK ==
  /\ now \in 0 .. Word - 1 /\ deadline \in 0 .. Word - 1
  /\ pc \in {"idle", "wait", "poll"} /\ asked \in Nat /\ waited \in 0 .. Word
  /\ ended \in {"none", "byte", "time"}

Init ==
  /\ now \in 0 .. Word - 1 /\ pc = "idle" /\ deadline = 0
  /\ asked = 0 /\ waited = 0 /\ ended = "none"

Passed == now > deadline

Begin(delay, place) ==
  /\ pc = "idle"
  /\ FarFromWrap => now + Ticks(delay) + 2 < Word
  /\ pc' = place /\ deadline' = TimeAfter(delay)
  /\ asked' = Ticks(delay) /\ waited' = 0 /\ ended' = "none"
  /\ UNCHANGED now

\* The timer interrupt.  The loops turn many times between two of them; while
\* nothing else holds the program up a loop sees every tick.
Tick ==
  /\ pc # "idle" => ~ Passed
  /\ now' = (now + 1) % Word
  /\ waited' = IF pc # "idle" /\ waited < Word THEN waited + 1 ELSE waited
  /\ UNCHANGED <<pc, deadline, asked, ended>>

\* A read or a write is held up by the byte it takes or gives, for less than
\* a tick more.
HeldUp ==
  /\ pc = "poll" /\ Passed /\ waited = asked + 1
  /\ now' = (now + 1) % Word /\ waited' = waited + 1
  /\ UNCHANGED <<pc, deadline, asked, ended>>

\* while (timenow() <= delay) of waitfor, and the timeout of a poll.
TimeUp ==
  /\ pc # "idle" /\ Passed
  /\ pc' = "idle" /\ ended' = "time"
  /\ UNCHANGED <<now, deadline, asked, waited>>

\* The link gives, or takes, the byte that is waited for.
Byte ==
  /\ pc = "poll"
  /\ pc' = "idle" /\ ended' = "byte"
  /\ UNCHANGED <<now, deadline, asked, waited>>

Next ==
  \/ \E d \in Delays, place \in {"wait", "poll"} : Begin(d, place)
  \/ Tick \/ HeldUp \/ TimeUp \/ Byte

\* The timer is counted up and the loop goes on.
Spec == Init /\ [][Next]_vars /\ WF_vars(Tick) /\ WF_vars(TimeUp)

-----------------------------------------------------------------------------
\* A wait that time ends has lasted the tenths of a second asked for.
NeverEarly == ended = "time" => waited >= asked

\* No wait goes on for more than two ticks after that.
NeverLate == pc # "idle" => waited <= asked + 2

=============================================================================
