----------------------------- MODULE LinkDriver -----------------------------
(***************************************************************************)
(* The link drivers of LINKIOS/SRC.  Each board has nine functions,        *)
(* xxxOpenLink to xxxTestWrite, and keeps one link open (ActiveLink).      *)
(*   B004, B011     registers polled from the program, byte by byte        *)
(*   B008 .. S386   open, ioctl, read and write of a device                *)
(*   HELIOS         LinkIn and LinkOut of the Helios nucleus               *)
(*   QT0            system services of VMS                                 *)
(* Bytes are counted, not kept.  A call is one step where the host does    *)
(* the work, and a step per byte or per register where the program does.   *)
(***************************************************************************)
EXTENDS Integers, Sequences

CONSTANTS
  Boards,      \* the boards considered; one is chosen at the start
  Counts,      \* lengths given to a read or write
  Timeouts,    \* timeouts given to them
  Threshold,   \* REWIND_THRESHOLD
  SeekFails,   \* whether lseek may fail
  Forgets,     \* whether a device may start again with its own timeout when opened
  MaxLost,     \* bound: bytes lost in one execution
  MaxVme       \* bound: descriptors of the VME device; a full table is not reached

SUCCEEDED      == 0
ER_LINK_BAD    == -1
ER_LINK_CANT   == -2
ER_LINK_NOSYNC == -5
ER_LINK_BUSY   == -6
ER_NO_LINK     == -7
ER_LINK_SYNTAX == -8

Polled     == {"B004", "B011"}
Device     == {"B008", "B014", "B016", "S386"}
Rewinding  == {"B014", "B016"}

\* What the constants are; the module that gives them assumes it.
LinkDriverConstants ==
  /\ Boards \subseteq Polled \cup Device \cup {"HELIOS", "QT0"}
  /\ Counts \subseteq Nat /\ Timeouts \subseteq Nat
  /\ \E most \in Counts : \A c \in Counts : c <= most
  /\ Threshold \in Nat /\ MaxLost \in Nat /\ MaxVme \in Nat /\ {SeekFails, Forgets} \subseteq BOOLEAN

VARIABLES
  board,
  active,      \* ActiveLink is not NULL_LINK
  handles,     \* descriptors, channels or locks the driver holds
  vme,         \* open descriptors of VME_DEVICE: each was VmeFd, a local of MapBoard
  current,     \* TheCurrentTimeout, -1 before the first call
  devtimeout,  \* the timeout the device itself has, -1 its default
  bytes,       \* Bytes: read and written since the last rewind
  position,    \* the file position of the device
  lines,       \* the reset and analyse lines of the board
  target,      \* what the transputer has last been made to do
  flag,        \* its error flag
  call,        \* the running call, op = "none" between calls
  result,      \* what the last call was and what it returned
  lost         \* bytes taken from the link and not reported

vars == <<board, active, handles, vme, current, devtimeout, bytes, position, lines,
          target, flag, call, result, lost>>
device == <<current, devtimeout, bytes, position>>
wires  == <<lines, target, flag>>

Ops == {"none", "open", "close", "read", "write", "reset", "analyse", "test"}
NoCall == [op |-> "none", count |-> 0, timeout |-> 0, n |-> 0]

Highest(S) == CHOOSE x \in S : \A y \in S : y <= x

TypeOK ==
  /\ board \in Boards /\ active \in BOOLEAN /\ handles \in Nat /\ vme \in 0 .. MaxVme
  /\ current \in Timeouts \cup {-1} /\ devtimeout \in Timeouts \cup {-1}
  /\ bytes \in 0 .. Threshold /\ position \in Nat
  /\ lines \in [{"reset", "analyse"} -> 0 .. 1]
  /\ target \in {"running", "reset", "analysed"} /\ flag \in 0 .. 1
  /\ call \in [op : Ops, count : Counts \cup {0}, timeout : Timeouts \cup {0},
               n : 0 .. Highest(Counts \cup {5})]
  /\ result \in [op : Ops, code : -8 .. Highest(Counts \cup {1})]
  /\ lost \in 0 .. MaxLost + Highest(Counts)

Init ==
  /\ board \in Boards /\ active = FALSE /\ handles = 0 /\ vme = 0
  /\ current = -1 /\ devtimeout = -1 /\ bytes = 0 /\ position = 0
  /\ lines \in [{"reset", "analyse"} -> 0 .. 1]
  /\ target = "running" /\ flag \in 0 .. 1
  /\ call = NoCall /\ result = [op |-> "none", code |-> SUCCEEDED] /\ lost = 0

Idle == call.op = "none"
Answer(op, code) == result' = [op |-> op, code |-> code]
Return(code) == call' = NoCall /\ Answer(call.op, code)

-----------------------------------------------------------------------------
(* Opening and closing *)

\* HELIOS puts the number of the link into ActiveLink before its checks, and
\* QT0 has no ActiveLink: it allocates and assigns again.
MayOpen == board = "QT0" \/ ~ active

OpenErrors ==
  CASE board = "B004" -> {ER_LINK_BAD}
    [] board = "B008" -> {ER_LINK_CANT, ER_NO_LINK}
    [] board = "B011" -> {ER_LINK_SYNTAX, ER_LINK_BUSY, ER_LINK_CANT}
    [] board \in {"B014", "B016", "S386"} ->
         {ER_LINK_BUSY, ER_LINK_SYNTAX, ER_NO_LINK, ER_LINK_CANT}
    [] board = "HELIOS" -> {ER_LINK_BAD, ER_LINK_BUSY, ER_LINK_CANT}
    [] board = "QT0" -> {ER_LINK_CANT}

UnlockBoard == handles           \* lock, map, unlock: as before

\* MapBoard opens VME_DEVICE.
OpensVme == board = "B011" /\ vme < MaxVme /\ vme' = vme + 1

\* A failing B008OpenLink closes a descriptor that is not a device, a failing
\* B011OpenLink unlocks the board again.  That one closes VmeFd only if the
\* mapping failed: not without memory, on a bus error or when setreuid fails.
OpenFails ==
  /\ Idle /\ MayOpen
  /\ \E e \in OpenErrors :
       /\ Answer("open", e)
       /\ UNCHANGED vme \/ (e = ER_LINK_CANT /\ OpensVme)
  /\ active' = (active \/ board = "HELIOS")
  /\ \/ handles' = IF board = "QT0" THEN handles ELSE UnlockBoard
     \/ board = "QT0" /\ handles = 0 /\ handles' = 1    \* allocated, not assigned
  /\ UNCHANGED <<board, device, wires, call, lost>>

\* A new descriptor starts at position 0; Bytes and TheCurrentTimeout stay.
OpenLink ==
  /\ Idle /\ ~ active
  /\ active' = TRUE /\ handles' = IF board = "QT0" THEN 1 ELSE handles + 1
  /\ IF board = "B011" THEN OpensVme ELSE UNCHANGED vme
  /\ position' = 0
  /\ devtimeout' \in {devtimeout} \cup (IF Forgets THEN {-1} ELSE {})
  /\ Answer("open", SUCCEEDED)
  /\ UNCHANGED <<board, current, bytes, wires, call, lost>>

AlreadyOpen ==
  /\ Idle /\ ~ MayOpen
  /\ Answer("open", IF board = "HELIOS" THEN ER_LINK_BAD ELSE ER_LINK_CANT)
  /\ UNCHANGED <<board, active, handles, vme, device, wires, call, lost>>

\* B011CloseLink unlocks the board.  It has no VmeFd to close.
CloseLink ==
  /\ Idle /\ active
  /\ \/ active' = FALSE /\ handles' = 0 /\ Answer("close", SUCCEEDED)
     \/ /\ board = "B011"                       \* the lock is not there any more
        /\ Answer("close", ER_LINK_CANT) /\ UNCHANGED <<active, handles>>
     \/ /\ board = "QT0"                        \* dassgn fails, or dalloc after it
        /\ Answer("close", ER_LINK_BAD)
        /\ active' \in BOOLEAN /\ UNCHANGED handles
  /\ UNCHANGED <<board, vme, device, wires, call, lost>>

-----------------------------------------------------------------------------
(* Reading and writing *)

NothingToDo(op) ==
  CASE board \in {"HELIOS", "QT0"} -> 0
    [] board = "S386" /\ op = "write" -> ER_LINK_BAD
    [] OTHER -> ER_LINK_CANT

\* B008 sets the timeout of the device on every call, the others only when it
\* is not the one they set last; S386 never sets 0.
MustSet(t) ==
  CASE board = "B008" -> TRUE
    [] board \in Rewinding -> t # current
    [] board = "S386" -> t # 0 /\ t # current
    [] OTHER -> FALSE

SetFails(t) == UNCHANGED current

Transfer(op, count, t) ==
  /\ Idle /\ active
  /\ IF count = 0
     THEN Answer(op, NothingToDo(op)) /\ UNCHANGED <<call, device>>
     ELSE /\ UNCHANGED <<bytes, position>>
          /\ \/ /\ MustSet(t)
                /\ devtimeout' = t /\ current' = (IF board = "B008" THEN current ELSE t)
                /\ call' = [op |-> op, count |-> count, timeout |-> t, n |-> 0]
                /\ UNCHANGED result
             \/ /\ MustSet(t) /\ board # "B008"             \* ioctl fails
                /\ SetFails(t) /\ UNCHANGED <<devtimeout, call>>
                /\ Answer(op, IF board = "S386" THEN ER_LINK_BAD ELSE ER_LINK_CANT)
             \/ /\ ~ MustSet(t)
                /\ call' = [op |-> op, count |-> count, timeout |-> t, n |-> 0]
                /\ UNCHANGED <<current, devtimeout, result>>
  /\ UNCHANGED <<board, active, handles, vme, wires, lost>>

Transferring == call.op \in {"read", "write"}

\* The register is ready: one byte, and the end of the loop after the last.
PollByte ==
  /\ Transferring /\ board \in Polled
  /\ IF call.n + 1 = call.count
     THEN Return(call.count)
     ELSE call' = [call EXCEPT !.n = @ + 1] /\ UNCHANGED result
  /\ UNCHANGED <<board, active, handles, vme, device, wires, lost>>

DoneSoFarNothing == 0      \* mutant: a timeout returns 0
DoneSoFar == call.n

\* Not ready for too long.  B011 with a timeout of 0 waits for ever.
PollTimeout ==
  /\ Transferring /\ board \in Polled
  /\ board = "B004" \/ call.timeout # 0
  /\ Return(DoneSoFar) /\ lost' = lost + call.n - DoneSoFar
  /\ UNCHANGED <<board, active, handles, vme, device, wires>>

Rewinds(k) == board \in Rewinding /\ bytes + k > Threshold

\* read or write of the device: k bytes of count within the device's timeout.
DeviceTransfer ==
  /\ Transferring /\ board \in Device
  /\ \E k \in 0 .. call.count :
       \/ /\ ~ Rewinds(k)
          /\ bytes' = IF board \in Rewinding THEN bytes + k ELSE bytes
          /\ position' = IF board \in Rewinding THEN position + k ELSE position
          /\ Return(k) /\ UNCHANGED lost
       \/ /\ Rewinds(k)
          /\ bytes' = 0 /\ position' = 0
          /\ Return(k) /\ UNCHANGED lost
       \/ /\ Rewinds(k) /\ SeekFails          \* Bytes starts again all the same
          /\ bytes' = 0 /\ position' = position + k
          /\ Return(ER_LINK_CANT) /\ lost' = lost + k
  /\ UNCHANGED <<board, active, handles, vme, current, devtimeout, wires>>

DeviceError ==
  /\ Transferring /\ board \in Device
  /\ \/ board = "B016" /\ Return(ER_LINK_NOSYNC)
     \/ Return(IF board \in Rewinding THEN ER_LINK_CANT ELSE ER_LINK_BAD)
  /\ UNCHANGED <<board, active, handles, vme, device, wires, lost>>

\* HELIOS reports all or nothing; QT0 reports a timeout as 0 only if nothing
\* was read, and any timeout of a write as an error.
HostTransfer ==
  /\ Transferring /\ board \in {"HELIOS", "QT0"}
  /\ \E k \in 0 .. call.count :
       \/ k = call.count /\ Return(k) /\ UNCHANGED lost
       \/ /\ board = "QT0" /\ k = 0 /\ call.op = "read"
          /\ Return(0) /\ UNCHANGED lost
       \/ k < call.count /\ Return(ER_LINK_CANT) /\ lost' = lost + k
  /\ UNCHANGED <<board, active, handles, vme, device, wires>>

-----------------------------------------------------------------------------
(* Reset and analyse *)

R(v) == [l \in {"reset"} |-> v]
A(v) == [l \in {"analyse"} |-> v]
RA(v, w) == [l \in {"reset", "analyse"} |-> IF l = "reset" THEN v ELSE w]

\* What is written to the registers of the board, in order.
ResetPulses ==
  CASE board \in Polled -> <<A(0), R(0), R(1), R(0)>>
    [] board = "HELIOS" -> <<R(0), A(0), R(1), R(0)>>
    [] board = "QT0" -> <<RA(1, 0), RA(0, 0)>>
    [] board \in Device -> << >>
AnalysePulses ==
  CASE board \in {"B004", "HELIOS"} -> <<A(0), A(1), R(1), R(0), A(0)>>
    [] board = "B011" -> <<A(1), R(1), R(0), A(0)>>
    [] board = "QT0" -> <<RA(0, 1), RA(1, 1), RA(0, 1), RA(0, 0)>>
    [] board \in Device -> << >>
Pulses(op) == IF op = "reset" THEN ResetPulses ELSE AnalysePulses

\* The transputer looks at analyse when its reset is taken away.
Sampled(before, after) ==
  IF before["reset"] = 1 /\ after["reset"] = 0
  THEN IF after["analyse"] = 1 THEN "analysed" ELSE "reset"
  ELSE target

StartPulses(op) ==
  /\ Idle /\ active
  /\ call' = [NoCall EXCEPT !.op = op]
  /\ UNCHANGED <<board, active, handles, vme, device, wires, result, lost>>

Pulsing == call.op \in {"reset", "analyse"}

Written(registers) ==
  [l \in {"reset", "analyse"} |-> IF l \in DOMAIN registers THEN registers[l] ELSE lines[l]]

WriteRegister ==
  /\ Pulsing /\ call.n < Len(Pulses(call.op))
  /\ lines' = Written(Pulses(call.op)[call.n + 1])
  /\ target' = Sampled(lines, lines')
  /\ call' = [call EXCEPT !.n = @ + 1]
  /\ UNCHANGED <<board, active, handles, vme, device, flag, result, lost>>

PulsesEnd ==
  /\ Pulsing /\ call.n = Len(Pulses(call.op))
  /\ IF board \in Device
     THEN /\ target' = IF call.op = "reset" THEN "reset" ELSE "analysed"
          /\ lines' = RA(0, 0)
     ELSE UNCHANGED <<lines, target>>
  /\ Return(SUCCEEDED)
  /\ UNCHANGED <<board, active, handles, vme, device, flag, lost>>

\* The ioctl of a device, or one of the system services, fails.
PulsesFail ==
  /\ Pulsing /\ board \in {"B014", "B016", "S386", "QT0"}
  /\ Return(IF board = "S386" THEN ER_LINK_BAD ELSE ER_LINK_CANT)
  /\ UNCHANGED <<board, active, handles, vme, device, wires, lost>>

-----------------------------------------------------------------------------
ErrorBit(bit) == IF board \in {"B004", "QT0"} THEN 1 - bit ELSE bit

\* The register of B004 and QT0 holds the complement of the flag.
Register == IF board \in {"B004", "QT0"} THEN 1 - flag ELSE flag

TestError ==
  /\ Idle /\ active
  /\ \/ Answer("test", ErrorBit(Register))
     \/ /\ board \in {"B014", "B016", "S386", "QT0"}
        /\ Answer("test", IF board = "S386" THEN ER_LINK_BAD ELSE ER_LINK_CANT)
  /\ UNCHANGED <<board, active, handles, vme, device, wires, call, lost>>

\* Outside the drivers: the program boots the transputer, it sets its flag.
Boot ==
  /\ Idle /\ target # "running" /\ result.op \notin {"reset", "analyse"}
  /\ target' = "running" /\ flag' \in 0 .. 1
  /\ UNCHANGED <<board, active, handles, vme, device, lines, call, result, lost>>

Next ==
  \/ OpenLink \/ OpenFails \/ AlreadyOpen \/ CloseLink
  \/ \E op \in {"read", "write"}, c \in Counts, t \in Timeouts :
       lost < MaxLost /\ Transfer(op, c, t)
  \/ PollByte \/ PollTimeout \/ DeviceTransfer \/ DeviceError \/ HostTransfer
  \/ \E op \in {"reset", "analyse"} : StartPulses(op)
  \/ WriteRegister \/ PulsesEnd \/ PulsesFail
  \/ TestError \/ Boot

Spec == Init /\ [][Next]_vars

-----------------------------------------------------------------------------
\* Between calls a driver holds a descriptor or lock exactly while ActiveLink
\* says that a link is open: no way of failing to open or close leaks one or
\* leaves a link that cannot be opened again.  The one exception is VME_DEVICE:
\* a B011 has it open while its link is, and never gives it back.
HandleAgrees ==
  /\ handles = IF active THEN 1 ELSE 0
  /\ board = "B011" /\ active => vme > 0
  /\ vme > 0 => board = "B011"

\* A read or write runs under the timeout it was given, though the driver
\* tells the device only when the timeout changes (SetTimeout).
TimeoutInForce ==
  Transferring /\ board \in Device /\ (board = "S386" => call.timeout # 0)
    => devtimeout = call.timeout

\* The rewinding keeps the position of the device from running away.
PositionBounded == position <= Threshold + Highest(Counts)

\* Bytes that came over the link are reported to the caller.
NothingLost == lost = 0

\* A reset that succeeds leaves the transputer reset and an analyse leaves it
\* analysed, with both lines released.
PulsesWork ==
  Idle /\ result.code = SUCCEEDED =>
    /\ result.op = "reset" => target = "reset"
    /\ result.op = "analyse" => target = "analysed"
    /\ result.op \in {"reset", "analyse"} => lines = RA(0, 0)

=============================================================================
