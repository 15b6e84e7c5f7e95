------------------------------ MODULE MCLinks ------------------------------
(***************************************************************************)
(* What lies below OPS_* on this host, part by part: the local link        *)
(* operations (LOPS), the drivers of the boards with the timer one of them *)
(* polls by, the words LOPS pokes and peeks, the TCP driver and the socket *)
(* code it shares with TOPS.  The parts do not run at the same time, and a *)
(* caller sees one at a time: a behaviour is of the part that it starts    *)
(* with, and the variables of the others hold 0.  Two parts may be the     *)
(* same module with other constants.                                       *)
(***************************************************************************)
EXTENDS Integers, Sequences

CONSTANTS
  Header, MaxSize, Frag, Codes, Replies, Lengths, MaxPackets, MaxCode,  \* of Lops
  Counts, Timeouts, Threshold, MaxLost, MaxVme,                         \* of LinkDriver
  Word, Delays,                                                         \* of B004Timer
  Kinds, B, Values, MaxWords, MaxLate,                                  \* of LopsMemory
  TcpCounts, TcpTimeouts, TcpFrag, MaxMessages, MaxLeaked,              \* of TcpLink
  SocketSizes, MaxBytes                                                 \* of Socket

VARIABLES
  part,
  \* Lops
  comms, errors, beat, status, length, sending, flag, code, replies, inflow, delivered,
  \* LinkDriver
  board, active, handles, vme, current, devtimeout, bytes, position, lines, target, lost,
  \* B004Timer
  now, pc, deadline, asked, waited, ended,
  \* LopsMemory
  bits, mem, before, answers,
  \* TcpLink
  state, isopen, sockets, leaked, commands, inbox, said,
  \* Socket
  sent, arriving, peer, taken,
  \* of several of them
  call, result, given, sound, conn

lopsOwn   == <<comms, errors, beat, status, length, sending, code, replies, inflow, delivered>>
driverOwn == <<board, active, handles, vme, current, devtimeout, bytes, position, lines, target, lost>>
timerOwn  == <<now, pc, deadline, asked, waited, ended>>
memoryOwn == <<bits, mem, before, answers>>
tcpOwn    == <<state, isopen, sockets, leaked, commands, inbox, said>>
socketOwn == <<sent, arriving, peer, taken>>
shared    == <<flag, call, result, given, sound, conn>>
vars == <<part, lopsOwn, driverOwn, timerOwn, memoryOwn, tcpOwn, socketOwn, shared>>

-----------------------------------------------------------------------------
\* The packets of the target, and one packet of a header of three bytes and
\* two more whose caller goes on after failures.
Ops == INSTANCE Lops WITH Slow <- TRUE, LinkFails <- TRUE, GoesOn <- FALSE
Talk ==
  INSTANCE Lops WITH
    Header <- 3, MaxSize <- 5, Frag <- 3, Codes <- {1}, Replies <- {2, 3, 9},
    Lengths <- {3, 5}, MaxPackets <- 1, MaxCode <- 2, Slow <- TRUE, LinkFails <- TRUE,
    GoesOn <- TRUE

\* The boards iserver is built with, and all boards with devices that forget
\* their timeouts and cannot always be rewound.
BoardsOfIserver == {"B004", "B008", "B011", "B014", "B016", "S386"}
AllBoards == BoardsOfIserver \cup {"HELIOS", "QT0"}
Io == INSTANCE LinkDriver WITH Boards <- BoardsOfIserver, SeekFails <- FALSE, Forgets <- FALSE
Faulty ==
  INSTANCE LinkDriver WITH
    Boards <- AllBoards, Counts <- {0, 2}, Timeouts <- {1}, Threshold <- 3,
    SeekFails <- TRUE, Forgets <- TRUE, MaxLost <- 2, MaxVme <- 1

Timer == INSTANCE B004Timer WITH FarFromWrap <- TRUE
Memory == INSTANCE LopsMemory WITH BigEndian <- FALSE, Late <- TRUE

\* A TCP link whose connection holds, and one whose connection may break.
Tcp ==
  INSTANCE TcpLink WITH
    Counts <- TcpCounts, Timeouts <- TcpTimeouts, Frag <- TcpFrag,
    Loses <- FALSE, Interrupts <- FALSE
Broken ==
  INSTANCE TcpLink WITH
    Counts <- {1, 3}, Timeouts <- {2}, Frag <- 2, MaxMessages <- 1,
    Loses <- TRUE, Interrupts <- TRUE

\* A socket that takes what it is given, and one that may take less.
Whole ==
  INSTANCE Socket WITH Sizes <- SocketSizes, ShortSends <- FALSE, NoBuffers <- FALSE
Partial ==
  INSTANCE Socket WITH Sizes <- SocketSizes, ShortSends <- TRUE, NoBuffers <- TRUE

ASSUME LinksConstants ==
       /\ Ops!LopsConstants /\ Talk!LopsConstants
       /\ Io!LinkDriverConstants /\ Faulty!LinkDriverConstants
       /\ Timer!TimerConstants /\ Memory!MemoryConstants
       /\ Tcp!TcpLinkConstants /\ Broken!TcpLinkConstants
       /\ Whole!SocketConstants /\ Partial!SocketConstants

Lops == {"ops", "talk"}
Driver == {"io", "faulty"}
Net == {"tcp", "broken"}
Stream == {"whole", "partial"}

-----------------------------------------------------------------------------
InitOwn ==
  /\ CASE part = "ops" -> Ops!Init       [] part = "talk" -> Talk!Init
       [] part = "io" -> Io!Init [] part = "faulty" -> Faulty!Init
       [] part = "timer" -> Timer!Init   [] part = "memory" -> Memory!Init
       [] part = "tcp" -> Tcp!Init       [] part = "broken" -> Broken!Init
       [] part = "whole" -> Whole!Init   [] part = "partial" -> Partial!Init

InitOthers ==
  /\ IF part \in Lops THEN TRUE
     ELSE /\ comms = 0 /\ errors = 0 /\ beat = 0 /\ status = 0 /\ length = 0 /\ sending = 0
          /\ code = 0 /\ replies = 0 /\ inflow = 0 /\ delivered = 0
  /\ IF part \in Driver THEN TRUE
     ELSE /\ board = 0 /\ active = 0 /\ handles = 0 /\ vme = 0 /\ current = 0 /\ devtimeout = 0
          /\ bytes = 0 /\ position = 0 /\ lines = 0 /\ target = 0 /\ lost = 0
  /\ IF part = "timer" THEN TRUE
     ELSE now = 0 /\ pc = 0 /\ deadline = 0 /\ asked = 0 /\ waited = 0 /\ ended = 0
  /\ IF part = "memory" THEN TRUE ELSE bits = 0 /\ mem = 0 /\ before = 0 /\ answers = 0
  /\ IF part \in Net THEN TRUE
     ELSE /\ state = 0 /\ isopen = 0 /\ sockets = 0 /\ leaked = 0 /\ commands = 0
          /\ inbox = 0 /\ said = 0
  /\ IF part \in Stream THEN TRUE ELSE sent = 0 /\ arriving = 0 /\ peer = 0 /\ taken = 0
  /\ IF part \in Lops \cup Driver THEN TRUE ELSE flag = 0
  /\ IF part # "timer" THEN TRUE ELSE call = 0
  /\ IF part \in Driver \cup Net \cup {"memory"} THEN TRUE ELSE result = 0
  /\ IF part \in Lops \cup Stream THEN TRUE ELSE given = 0
  /\ IF part \in Lops \cup Stream \cup {"memory"} THEN TRUE ELSE sound = 0
  /\ IF part \in Net \cup Stream THEN TRUE ELSE conn = 0

Init ==
  /\ part \in Lops \cup Driver \cup Net \cup Stream \cup {"timer", "memory"}
  /\ InitOwn /\ InitOthers

\* What stays as it is while a part takes its steps.
LopsAlone   == UNCHANGED <<part, driverOwn, timerOwn, memoryOwn, tcpOwn, socketOwn, result, conn>>
DriverAlone == UNCHANGED <<part, lopsOwn, timerOwn, memoryOwn, tcpOwn, socketOwn, given, sound, conn>>
TimerAlone  == UNCHANGED <<part, lopsOwn, driverOwn, memoryOwn, tcpOwn, socketOwn, shared>>
MemoryAlone == UNCHANGED <<part, lopsOwn, driverOwn, timerOwn, tcpOwn, socketOwn, flag, given, conn>>
NetAlone    == UNCHANGED <<part, lopsOwn, driverOwn, timerOwn, memoryOwn, socketOwn, flag, given, sound>>
StreamAlone == UNCHANGED <<part, lopsOwn, driverOwn, timerOwn, memoryOwn, tcpOwn, flag, result>>

\* Both streams are at an end: the connection is lost and no call runs.
StreamOver == part \in Stream /\ conn = "lost" /\ call = Whole!Idle /\ UNCHANGED vars

Next ==
  \/ part = "ops" /\ Ops!Next /\ LopsAlone
  \/ part = "talk" /\ Talk!Next /\ LopsAlone
  \/ part = "io" /\ Io!Next /\ DriverAlone
  \/ part = "faulty" /\ Faulty!Next /\ DriverAlone
  \/ part = "timer" /\ Timer!Next /\ TimerAlone
  \/ part = "memory" /\ Memory!Next /\ MemoryAlone
  \/ part = "tcp" /\ Tcp!Next /\ NetAlone
  \/ part = "broken" /\ Broken!Next /\ NetAlone
  \/ part = "whole" /\ Whole!Next /\ StreamAlone
  \/ part = "partial" /\ Partial!Next /\ StreamAlone
  \/ StreamOver

\* The program goes on in its call, and the other end of the link in what it
\* has begun.
Program ==
  \/ part = "talk" /\ Talk!Step /\ LopsAlone
  \/ part = "broken" /\ Broken!Step /\ NetAlone
  \/ part = "whole" /\ Whole!Step /\ StreamAlone
  \/ part = "timer" /\ Timer!TimeUp /\ TimerAlone
OtherEnd ==
  \/ part = "talk" /\ Talk!SendByte /\ LopsAlone
  \/ part = "broken" /\ Broken!Serve /\ NetAlone
  \/ part = "timer" /\ Timer!Tick /\ TimerAlone

Spec == Init /\ [][Next]_vars /\ WF_vars(Program) /\ WF_vars(OtherEnd)

-----------------------------------------------------------------------------
\* A caller of LOPS_GetRequest is given the packets of the target, whole and in
\* order, though each is read in three parts that may time out, and the target
\* is never sent a reply while one of its packets is still on the link; what it
\* is booted with has come whole.
PacketsInOrder ==
  part = "ops" => Ops!TypeOK /\ Ops!InOrder /\ Ops!Lockstep /\ Ops!BootComplete

\* However calls of open, close, read and write that fail are mixed, a board is
\* read and written under the timeout it was given and held exactly while its
\* link is open - but for the descriptor of the VME device, which every opening
\* of a B011 adds to and nothing closes -, no byte that came over the link is
\* lost, and the position of a device that is rewound stays near the threshold.
\* The reset and analyse of every board leave the transputer reset or analysed,
\* both lines released.  A wait of the B004 driver that time ends has lasted as
\* long as was asked, and at most two ticks longer.
BoardsRight ==
  /\ part = "io" => /\ Io!TypeOK /\ Io!TimeoutInForce /\ Io!HandleAgrees
                    /\ Io!NothingLost /\ Io!PositionBounded
  /\ part = "faulty" => Faulty!PulsesWork
  /\ part = "timer" => Timer!TypeOK /\ Timer!NeverEarly /\ Timer!NeverLate

\* A poke changes the words it names and no others, also when it fails half way,
\* and a peek returns what the memory holds unless an older answer came late.
WordsRight ==
  part = "memory" => Memory!TypeOK /\ Memory!PokeLands /\ Memory!PokePrefix /\ Memory!PeekTells

\* When the TCP driver is ready for a command no older reply is on its way, and
\* a transfer returns the number of bytes that really moved, a read in at most
\* twice the time it was given; between its calls there is one socket while the
\* link is open and none otherwise, also after connections that broke, but for
\* those that opens left when setsockopt or getservbyname failed.  Through a
\* socket that takes all it is given, every byte arrives once and in order,
\* however recv cuts it up.  Through one that takes less, or runs out of buffers,
\* bytes arrive again that had arrived before, but none is passed over.  What is
\* read is the stream of the other end in both cases.
StreamsRight ==
  /\ part = "tcp" => Tcp!TypeOK /\ Tcp!InStep /\ Tcp!ResultHonest /\ Tcp!ReadBounded
                     /\ Tcp!OneSocket
  /\ part = "broken" => Broken!OneSocket
  /\ part = "whole" => Whole!TypeOK /\ Whole!WritesExactly /\ Whole!ReadsExactly
  /\ part = "partial" => Partial!NothingSkipped /\ Partial!ReadsExactly

\* In a call, or a wait, that has to end by itself.
InCall ==
  \/ part = "talk" /\ call.op = "GetRequest"
  \/ part = "broken" /\ call.op \in {"read", "open", "close"}
  \/ part = "whole" /\ call.op # "none"
  \/ part = "timer" /\ pc # "idle"

\* LOPS_GetRequest returns once a byte of a request is there, or the error flag
\* is up and looked at; a read, an open and a close of the TCP driver while the
\* server answers or the connection is lost; a call on a lost socket; and every
\* wait of the B004 driver.
CallsEnd ==
  InCall /\ (part = "talk" => inflow # << >> \/ (errors = "detect" /\ flag)) /\ (part = "whole" => conn = "lost") ~> ~ InCall
=============================================================================
