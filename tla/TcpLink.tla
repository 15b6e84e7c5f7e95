------------------------------ MODULE TcpLink ------------------------------
(***************************************************************************)
(* The TCP link driver, TCPLINK.C: a link of another host, through the     *)
(* linkops server there.  A command goes to the server, and the driver     *)
(* waits for its reply; messages of the server may come in between.        *)
(* A reply is one unit here: how the bytes of one arrive is in Socket.     *)
(***************************************************************************)
EXTENDS Integers, Sequences

CONSTANTS
  Counts,      \* lengths of reads and writes
  Timeouts,    \* their timeouts
  Frag,        \* FRAG_SIZE
  MaxMessages, \* bound: messages of the server
  MaxLeaked,   \* bound: opens that fail at setsockopt or getservbyname
  Loses,       \* whether the connection may be lost while it is open
  Interrupts   \* whether a signal may interrupt recv

\* What the constants are; the module that gives them assumes it.
TcpLinkConstants ==
  /\ Counts \subseteq Nat /\ \E most \in Counts : \A n \in Counts : n <= most
  /\ Timeouts \subseteq Nat /\ Frag \in Nat \ {0}
  /\ {MaxMessages, MaxLeaked} \subseteq Nat /\ {Loses, Interrupts} \subseteq BOOLEAN

VARIABLES
  state,     \* TOPSprotocolstate
  isopen,    \* LinkIsOpen
  sockets,   \* descriptors that have not been closed
  leaked,    \* those of them that an open left when it failed; no variable holds them
  conn,      \* the connection: "none", "up" or "lost"
  call,      \* the running call
  commands,  \* commands on their way to the server
  inbox,     \* replies and messages on their way back
  said,      \* messages sent so far
  result     \* of the last call: op, code, and for a transfer what really moved

vars == <<state, isopen, sockets, leaked, conn, call, commands, inbox, said, result>>

SUCCEEDED      == 0
ER_LINK_CANT   == -2
ER_LINK_SOFT   == -3
ER_LINK_BUSY   == -6
ER_NO_LINK     == -7
ER_LINK_SYNTAX == -8

None == [op |-> "none", pc |-> "none", togo |-> 0, done |-> 0, frags |-> 0,
         each |-> 0, limit |-> 0, waited |-> 0]
Highest(S) == CHOOSE x \in S : \A y \in S : y <= x
Higher(a, b) == IF a > b THEN a ELSE b
Lower(a, b) == IF a < b THEN a ELSE b

TypeOK ==
  /\ state \in {"Closed", "OpenCheck", "Synchronous", "SynchronousReply",
                "SyncClosing", "SyncReplyClosing"}
  /\ isopen \in BOOLEAN /\ leaked \in 0 .. MaxLeaked
  /\ sockets \in 0 .. MaxLeaked + 1 /\ conn \in {"none", "up", "lost"}
  /\ call.op \in {"none", "open", "close", "read", "write", "test"}
  /\ call.togo \in 0 .. Highest(Counts) /\ call.done \in 0 .. Highest(Counts)
  /\ Len(commands) <= 3 /\ Len(inbox) <= 2 + MaxMessages /\ said \in 0 .. MaxMessages
  /\ result.code \in -8 .. Higher(255, Highest(Counts))

Init ==
  /\ state = "Closed" /\ isopen = FALSE /\ sockets = 0 /\ leaked = 0 /\ conn = "none"
  /\ call = None /\ commands = << >> /\ inbox = << >> /\ said = 0
  /\ result = [op |-> "none", code |-> SUCCEEDED, moved |-> 0]

Idle == call.op = "none"
Return(code) == call' = None /\ result' = [op |-> call.op, code |-> code, moved |-> call.done]
Answer(op, code) == result' = [op |-> op, code |-> code, moved |-> 0]

\* What GetSyncResponse and WaitForReply make of an error: it goes through an
\* unsigned char.
AsByte(code) == code % 256

-----------------------------------------------------------------------------
(* Opening *)

\* The link is open, the state is wrong or the name has no machine: no socket.
OpenRefused ==
  /\ Idle
  /\ \/ isopen /\ Answer("open", ER_LINK_CANT)
     \/ ~ isopen /\ state # "Closed" /\ Answer("open", ER_LINK_SOFT)
     \/ ~ isopen /\ state = "Closed" /\ \E e \in {ER_LINK_SYNTAX, ER_LINK_SOFT} : Answer("open", e)
  /\ UNCHANGED <<state, isopen, sockets, leaked, conn, call, commands, inbox, said>>

\* setsockopt or getservbyname fails: the socket stays, and sock goes with the
\* call.
OpenLeaks ==
  /\ Idle /\ ~ isopen /\ state = "Closed" /\ leaked < MaxLeaked
  /\ sockets' = sockets + 1 /\ leaked' = leaked + 1 /\ Answer("open", ER_LINK_SOFT)
  /\ UNCHANGED <<state, isopen, conn, call, commands, inbox, said>>

\* gethostbyname or connect fails, or the open command cannot be sent.
OpenFails ==
  /\ Idle /\ ~ isopen /\ state = "Closed"
  /\ Answer("open", ER_LINK_SOFT)
  /\ UNCHANGED <<state, isopen, sockets, leaked, conn, call, commands, inbox, said>>

TCPOpenLink ==
  /\ Idle /\ ~ isopen /\ state = "Closed"
  /\ sockets' = sockets + 1 /\ conn' = "up" /\ state' = "OpenCheck"
  /\ commands' = <<[tag |-> "Open", n |-> 0, t |-> 0]>> /\ inbox' = << >>
  /\ call' = [None EXCEPT !.op = "open", !.pc = "reply"]
  /\ UNCHANGED <<isopen, leaked, said, result>>

CloseSocket == sockets' = sockets - 1
\* shutdown, close, and nothing of the connection is left.
Disconnect ==
  CloseSocket /\ conn' = "none" /\ commands' = << >> /\ inbox' = << >>

\* The reply, an error in it, an answer that is none, a time-out.
OpenReplied ==
  /\ call.op = "open" /\ inbox # << >>
  /\ IF Head(inbox).tag = "Open" /\ Head(inbox).status = "NOERROR"
     THEN /\ state' = "Synchronous" /\ isopen' = TRUE
          /\ call' = None /\ result' = [op |-> "open", code |-> 1, moved |-> 0]
          /\ inbox' = Tail(inbox) /\ UNCHANGED <<sockets, conn, commands>>
     ELSE /\ Disconnect /\ state' = "Closed" /\ UNCHANGED isopen
          /\ Return(CASE Head(inbox).status = "UNAVAILABLE" -> ER_LINK_BUSY
                      [] Head(inbox).status = "BAD_NAME" -> ER_NO_LINK
                      [] OTHER -> ER_LINK_SOFT)
  /\ UNCHANGED <<leaked, said>>

OpenTimesOut ==
  /\ call.op = "open" /\ inbox = << >>
  /\ Disconnect /\ state' = "Closed" /\ Return(ER_LINK_SOFT)
  /\ UNCHANGED <<isopen, leaked, said>>

-----------------------------------------------------------------------------
(* Waiting for a reply *)

\* Nothing comes any more: recv returns 0 or fails.
Broken == conn = "lost" /\ inbox = << >>

\* A message that is not fatal is printed, and the wait goes on.
Message ==
  /\ call.pc = "reply" /\ call.op # "open" /\ inbox # << >>
  /\ Head(inbox).tag = "Message"
  /\ inbox' = Tail(inbox)
  /\ UNCHANGED <<state, isopen, sockets, leaked, conn, call, commands, said, result>>

\* A fatal one ends the call; TOPSprotocolstate is Closed, LinkIsOpen is not.
FatalMessage ==
  /\ call.pc = "reply" /\ call.op \in {"read", "write", "test"} /\ inbox # << >>
  /\ Head(inbox).tag = "Fatal"
  /\ inbox' = Tail(inbox) /\ state' = "Closed"
  /\ Return(AsByte(ER_LINK_SOFT))
  /\ UNCHANGED <<isopen, sockets, leaked, conn, commands, said>>

\* A reply that is not wanted, the end of the connection, or EINTR: then the
\* reply is still to come.  The state stays.
NoReply ==
  /\ call.pc = "reply" /\ call.op \in {"read", "write", "test"}
  /\ \/ /\ Broken /\ UNCHANGED inbox
        /\ \E e \in {ER_LINK_SOFT, ER_LINK_CANT} : Return(AsByte(e))
     \/ Interrupts /\ Return(AsByte(ER_LINK_SOFT)) /\ UNCHANGED inbox
     \/ /\ inbox # << >> /\ Head(inbox).tag \notin {"Message", "Fatal", call.op}
        /\ inbox' = Tail(inbox) /\ Return(AsByte(ER_LINK_SOFT))
  /\ UNCHANGED <<state, isopen, sockets, leaked, conn, commands, said>>

\* DoSocketWrite fails: the error is an int here.
WriteFails ==
  /\ call.pc = "send" /\ conn = "lost"
  /\ \E e \in {ER_LINK_SOFT, ER_LINK_CANT} : Return(e)
  /\ UNCHANGED <<state, isopen, sockets, leaked, conn, commands, inbox, said>>

-----------------------------------------------------------------------------
(* Reading and writing *)

Frags(n) == IF n > Frag THEN n \div Frag ELSE 1

\* The timeout of one fragment.
FragTimeout(op, n, t) ==
  IF op = "read" THEN IF Frags(n) > 1 THEN Higher(1, t \div Frags(n)) ELSE t
  ELSE IF n >= Frag /\ t # 0 THEN Higher(1, t \div (n \div Frag)) ELSE t

Transfer(op, n, t) ==
  /\ Idle /\ isopen
  /\ IF state # "Synchronous"
     THEN Answer(op, ER_LINK_SOFT) /\ UNCHANGED call
     ELSE IF n = 0 THEN Answer(op, 0) /\ UNCHANGED call
     ELSE /\ call' = [None EXCEPT !.op = op, !.pc = "send", !.togo = n, !.frags = Frags(n),
                                  !.each = FragTimeout(op, n, t), !.limit = t]
          /\ UNCHANGED result
  /\ UNCHANGED <<state, isopen, sockets, leaked, conn, commands, inbox, said>>

Fragment == Lower(call.togo, Frag)

Sent(c) == <<c>>

SendCommand ==
  /\ call.pc = "send" /\ call.op \in {"read", "write", "test"}
  /\ commands' = commands \o Sent([tag |-> call.op, n |-> Fragment, t |-> call.each])
  /\ state' = "SynchronousReply" /\ call' = [call EXCEPT !.pc = "reply"]
  /\ UNCHANGED <<isopen, sockets, leaked, conn, inbox, said, result>>

\* The loop of TCPReadLink ends when the fragments have been tried, that of
\* TCPWriteLink when all is written: number_frags does not go down there.
FragsLeft(op) == IF op = "read" THEN call.frags - 1 ELSE call.frags
MoreToDo(togo, frags) == togo > 0 /\ IF call.op = "read" THEN frags >= 0 ELSE frags > 0

MovedUpAll(k) == Fragment                 \* mutant: a short transfer counts in full
MovedUp(k) == k

\* The time spent on fragments that came short.  Bound: three times the timeout.
Waited(w, k) ==
  IF call.op = "read" /\ k < Fragment THEN Lower(w + call.each, 3 * Higher(call.limit, call.frags))
  ELSE w

Replied ==
  /\ call.pc = "reply" /\ call.op \in {"read", "write"} /\ inbox # << >>
  /\ Head(inbox).tag = call.op /\ inbox' = Tail(inbox) /\ state' = "Synchronous"
  /\ IF Head(inbox).status # "NOERROR" THEN Return(ER_LINK_SOFT)
     ELSE LET k == MovedUp(Head(inbox).n)
              togo == call.togo - k
              frags == FragsLeft(call.op) IN
          IF MoreToDo(togo, frags)
          THEN /\ call' = [call EXCEPT !.pc = "send", !.togo = togo, !.frags = frags,
                             !.done = @ + Head(inbox).n,
                             !.waited = Waited(@, k)]
               /\ UNCHANGED result
          ELSE /\ call' = None
               /\ result' = [op |-> call.op, code |-> call.done + k,
                             moved |-> call.done + Head(inbox).n]
  /\ UNCHANGED <<isopen, sockets, leaked, conn, commands, said>>

-----------------------------------------------------------------------------
(* Reset, analyse and the error test *)

\* No reply, so that the driver does not wait.
ResetLink ==
  /\ Idle /\ isopen /\ Len(commands) < 2
  /\ \/ /\ state = "Synchronous" /\ conn = "up"
        /\ commands' = Append(commands, [tag |-> "reset", n |-> 0, t |-> 0])
        /\ Answer("reset", SUCCEEDED)
     \/ /\ state # "Synchronous" \/ conn = "lost"
        /\ Answer("reset", ER_LINK_SOFT) /\ UNCHANGED commands
  /\ UNCHANGED <<state, isopen, sockets, leaked, conn, call, inbox, said>>

\* TCPTestError does not look at the state.
TCPTestError ==
  /\ Idle /\ isopen /\ Len(commands) + Len(inbox) < 2             \* bound: replies owed
  /\ call' = [None EXCEPT !.op = "test", !.pc = "send"]
  /\ UNCHANGED <<state, isopen, sockets, leaked, conn, commands, inbox, said, result>>

ErrorTested ==
  /\ call.op = "test" /\ call.pc = "reply" /\ inbox # << >> /\ Head(inbox).tag = "test"
  /\ inbox' = Tail(inbox) /\ state' = "Synchronous"
  /\ \E code \in {0, 1, ER_LINK_SOFT} : Return(code)
  /\ UNCHANGED <<isopen, sockets, leaked, conn, commands, said>>

-----------------------------------------------------------------------------
(* Closing *)

NextState == CASE state = "Synchronous" -> "SyncClosing"
               [] state = "SynchronousReply" -> "SyncReplyClosing"
               [] OTHER -> "Closed"

\* In no state for a close command, or it cannot be sent: the socket is closed.
CloseEnd ==
  /\ Disconnect /\ state' = "Closed" /\ isopen' = FALSE
  /\ call' = None /\ Answer("close", SUCCEEDED)

CloseAtOnce ==
  /\ Idle /\ isopen
  /\ (NextState = "Closed" \/ conn = "lost")
  /\ CloseEnd /\ UNCHANGED <<leaked, said>>

TCPCloseLink ==
  /\ Idle /\ isopen /\ NextState # "Closed"
  /\ commands' = Append(commands, [tag |-> "Close", n |-> 0, t |-> 0])
  /\ state' = NextState /\ call' = [None EXCEPT !.op = "close", !.pc = "reply"]
  /\ UNCHANGED <<isopen, sockets, leaked, conn, inbox, said, result>>

Skipped(q) == Tail(q)

\* WaitForReply throws away what it does not wait for.
CloseSkips ==
  /\ call.op = "close" /\ inbox # << >> /\ Head(inbox).tag \notin {"Close", "Fatal", "Message"}
  /\ inbox' = Skipped(inbox)
  /\ UNCHANGED <<state, isopen, sockets, leaked, conn, call, commands, said, result>>

\* The reply, a fatal message, or nothing for the whole of WAIT_TIMEOUT.
ClosedWhen == inbox # << >> => Head(inbox).tag \in {"Close", "Fatal"}

CloseReplied ==
  /\ call.op = "close" /\ ClosedWhen /\ CloseEnd /\ UNCHANGED <<leaked, said>>

-----------------------------------------------------------------------------
(* The linkops server *)

Reply(tag, n, status) == [tag |-> tag, n |-> n, status |-> status]

\* It answers the oldest command: a transfer moves some bytes within its timeout.
Serve ==
  /\ conn = "up" /\ commands # << >>
  /\ LET c == Head(commands) IN
       \/ c.tag = "reset" /\ UNCHANGED inbox
       \/ /\ c.tag = "Open"
          /\ \E s \in {"NOERROR", "UNAVAILABLE", "BAD_NAME", "BAD_SERVICE"} :
               inbox' = Append(inbox, Reply("Open", 0, s))
       \/ /\ c.tag \in {"read", "write"}
          /\ \/ \E k \in 0 .. c.n : inbox' = Append(inbox, Reply(c.tag, k, "NOERROR"))
             \/ inbox' = Append(inbox, Reply(c.tag, 0, "LINK_FATAL"))
       \/ c.tag \in {"test", "Close"} /\ inbox' = Append(inbox, Reply(c.tag, 0, "NOERROR"))
  /\ commands' = Tail(commands)
  /\ UNCHANGED <<state, isopen, sockets, leaked, conn, call, said, result>>

\* A message for the user; after a fatal one the server hangs up.
Say ==
  /\ conn = "up" /\ isopen /\ said < MaxMessages
  /\ \/ inbox' = Append(inbox, Reply("Message", 0, "NOERROR")) /\ UNCHANGED conn
     \/ Loses /\ inbox' = Append(inbox, Reply("Fatal", 0, "NOERROR")) /\ conn' = "lost"
  /\ said' = said + 1
  /\ UNCHANGED <<state, isopen, sockets, leaked, call, commands, result>>

Lose ==
  /\ Loses /\ conn = "up" /\ conn' = "lost"
  /\ UNCHANGED <<state, isopen, sockets, leaked, call, commands, inbox, said, result>>

Step ==
  \/ OpenReplied \/ OpenTimesOut \/ Message \/ FatalMessage \/ NoReply \/ WriteFails
  \/ SendCommand \/ Replied \/ ErrorTested \/ CloseSkips \/ CloseReplied

Next ==
  \/ OpenRefused \/ OpenLeaks \/ OpenFails \/ TCPOpenLink
  \/ \E op \in {"read", "write"}, n \in Counts, t \in Timeouts : Transfer(op, n, t)
  \/ ResetLink \/ TCPTestError \/ CloseAtOnce \/ TCPCloseLink
  \/ Step \/ Serve \/ Say \/ Lose

\* The program goes on, the server answers, in full if the link lets it.
Spec == Init /\ [][Next]_vars /\ WF_vars(Step) /\ WF_vars(Serve)

-----------------------------------------------------------------------------
\* Between calls there is a socket for the link exactly if it is open, whatever
\* happened to the connection: of all ways of failing to open or to close only
\* setsockopt and getservbyname leave one behind, and those stay for good.
OneSocket == Idle => sockets = leaked + IF isopen THEN 1 ELSE 0

\* A read or write that returns a count has moved as many bytes.
ResultHonest ==
  result.op \in {"read", "write"} /\ result.code >= 0 => result.code = result.moved

\* When the driver is ready for a command, no reply to an older one is on its
\* way: every reply is the reply to the command that waits for it.
InStep ==
  Idle /\ state = "Synchronous" =>
    /\ \A i \in 1 .. Len(inbox) : inbox[i].tag \in {"Message", "Fatal"}
    /\ \A i \in 1 .. Len(commands) : commands[i].tag = "reset"

\* A read that finds nothing gives up after at most twice the time it was given.
ReadBounded ==
  call.op = "read" /\ call.limit > 0 =>
    call.waited + call.each <= 2 * Higher(call.limit, Frags(call.togo + call.done))

\* A write returns while the server answers, whatever its link does.
WriteReturns == call.op = "write" ~> call.op # "write"

=============================================================================
