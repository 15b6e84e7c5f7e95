-------------------------------- MODULE Tops --------------------------------
(***************************************************************************)
(* The TCP client of the linkops protocol: TOPS_* in LINKOPS/SRC/TOPS.C,   *)
(* reached through the OPS_* functions of LINKOPS.C.  The client owns the  *)
(* protocol state and a queue of SP requests it had to read while it was   *)
(* doing something else.  It talks to a linkops server over one socket:    *)
(* c2s holds the commands the server has not read, s2c the messages the    *)
(* client has not read.                                                    *)
(*                                                                         *)
(* A call is several steps: the command is written, then each message of   *)
(* the read loop is one step, and the server, the target and the network   *)
(* move in between.  pc says in which loop of which call (op) the client   *)
(* is.  A message is its tag, its form and, for a request of the target,   *)
(* its number (id).  The form is "good" or "bad" by the status, fatal or   *)
(* error flag field it carries, or "cut" if the connection is lost before  *)
(* its body has arrived.  Packet contents, sizes, addresses and texts are  *)
(* abstracted.                                                             *)
(***************************************************************************)
EXTENDS Integers, Sequences

CONSTANTS
  BufferDepth,   \* buffer_depth given to OPS_Open
  MaxRequests,   \* bound: requests the target sends in a run
  MaxFragments,  \* bound: fragments of one block transfer
  SendBuffer,    \* commands the socket holds before a write blocks
  RecvBuffer,    \* bound: unread messages at which the server sends no event
  Transfers,     \* the block transfers the application uses
  CanBreak       \* whether the user interrupts calls from the session shell

TransferOps == {"BootWrite", "Poke16", "Poke32", "Peek16", "Peek32"}

ASSUME TopsAssumption ==
  /\ BufferDepth \in Nat \ {0}     \* OPS_Open refuses buffer_depth < 1
  /\ MaxRequests \in Nat
  /\ MaxFragments \in Nat
  /\ SendBuffer \in Nat \ {0}
  /\ RecvBuffer \in Nat \ {0}
  /\ Transfers \subseteq TransferOps
  /\ CanBreak \in BOOLEAN

VARIABLES
  proto,        \* TOPSprotocolstate
  commsmode,    \* OPScommsmode
  errormode,    \* OPSerrorflagmode
  errordetect,  \* TOPSerrordetect
  queue,        \* the SPBuffer list: TOPSspqueueptr, TOPSnum_spbuffered
  pc,           \* the loop the running call is in
  op,           \* the running call
  left,         \* fragments of a transfer still to be sent
  hb,           \* do_heartbeat of the running TOPS_GetRequest
  status,       \* what the last call returned; NOERROR while a call runs
  conn,         \* the socket
  c2s, s2c,     \* commands and messages in flight
  srv,          \* mode of the linkops server
  srvdetect,    \* error detect flag of the server
  sent,         \* number of the last request the target sent
  last,         \* number of the last request handed to the application
  early         \* a CommsSynchronous call returned before its reply came

client  == <<proto, commsmode, errormode, errordetect, queue>>
control == <<pc, op, left, hb, status>>
net     == <<conn, c2s, s2c>>
server  == <<srv, srvdetect, sent>>
history == <<last, early>>
vars    == <<proto, commsmode, errormode, errordetect, queue, pc, op, left, hb,
             status, conn, c2s, s2c, srv, srvdetect, sent, last, early>>

-----------------------------------------------------------------------------
ProtocolStates ==
  {"Closed", "OpenCheck", "Synchronous", "SynchronousReply", "SyncClosing",
   "SyncReplyClosing", "SyncReplyClosed", "Asynchronous", "CancelAsynchronous",
   "AsyncClosing", "CancelAsyncClosing", "Restarting"}

Events   == {"Message", "Request", "ErrorTransition"}
Replying == TransferOps \cup {"TestError", "CommsSynchronous", "Restart", "Close"}
Silent   == {"Reset", "Analyse", "ErrorDetect", "ErrorIgnore",
             "CommsAsynchronous", "AsyncWrite"}

\* Messages longer than the four bytes that are read as a header.
HasBody == Events \cup {"BootWrite", "Peek16", "Peek32", "TestError"}

Statuses == {"NOERROR", "BAD_COMMS_MODE", "BAD_SERVER", "BAD_TARGET_NAME",
             "TARGET_UNAVAILABLE", "COMMS_FATAL", "LINK_FATAL", "SP_ERROR",
             "BAD_OPERATION", "TARGET_ERROR"}

Flags == {"on", "off"}

Message == [tag : Events \cup Replying \cup {"Junk"},
            form : {"good", "bad", "cut"}, id : 0 .. MaxRequests]
Entry   == [id : 0 .. MaxRequests, form : {"good", "cut"}]

Plain(t, f) == [tag |-> t, form |-> f, id |-> 0]

\* Bytes left in the stream by a header that was read without its body.
Junk == Plain("Junk", "bad")

SilentCalls == {"Reset", "Analyse", "ErrorDetect", "ErrorIgnore"}
Calls == TransferOps \cup SilentCalls \cup
         {"Open", "Close", "Restart", "CommsAsynchronous", "CommsSynchronous",
          "GetRequest", "SendReply"}
Places == {"idle", "interrupted", "open", "send", "sync", "testerror", "check",
           "commssync", "wait", "async"}

\* The calls that can be in each place.
CallsAt ==
  [place \in Places |->
     CASE place \in {"idle", "interrupted"} -> {"none"}
       [] place = "open" -> {"Open"}
       [] place \in {"send", "sync"} -> TransferOps
       [] place \in {"testerror", "check"} -> {"BootWrite", "CommsSynchronous"}
       [] place = "commssync" -> {"CommsSynchronous"}
       [] place = "wait" -> {"Restart", "Close"}
       [] place = "async" -> {"CommsAsynchronous", "SendReply", "GetRequest"}]

TypeOK ==
  /\ proto \in ProtocolStates
  /\ commsmode \in {"closed", "async", "sync"}
  /\ errormode \in {"detect", "ignore"}
  /\ errordetect \in Flags
  /\ queue \in Seq(Entry)
  /\ pc \in Places
  /\ op \in CallsAt[pc]
  /\ left \in 0 .. MaxFragments
  /\ hb \in Flags
  /\ status \in Statuses
  /\ conn \in {"none", "up", "down"}
  /\ c2s \in Seq(Replying \cup Silent)
  /\ s2c \in Seq(Message)
  /\ srv \in {"off", "sync", "async"}
  /\ srvdetect \in Flags
  /\ sent \in 0 .. MaxRequests
  /\ last \in 0 .. MaxRequests
  /\ early \in Flags

Init ==
  /\ proto = "Closed" /\ commsmode = "closed"
  /\ errormode = "ignore" /\ errordetect = "off"
  /\ queue = << >>
  /\ pc = "idle" /\ op = "none" /\ left = 0 /\ hb = "off"
  /\ status = "NOERROR"
  /\ conn = "none" /\ c2s = << >> /\ s2c = << >>
  /\ srv = "off" /\ srvdetect = "off"
  /\ sent = 0 /\ last = 0 /\ early = "off"

-----------------------------------------------------------------------------
(* Steps every call is made of.                                            *)

Return(s) ==
  /\ pc' = "idle" /\ op' = "none" /\ left' = 0 /\ hb' = "off"
  /\ status' = s

Enter(place, call) ==
  /\ pc' = place /\ op' = call
  /\ status' = "NOERROR"
  /\ UNCHANGED <<left, hb>>

Goto(place) ==
  /\ pc' = place
  /\ UNCHANGED <<op, left, hb, status>>

\* DoSocketWrite: blocks while the socket is full; a peer that is gone may
\* or may not have been noticed.
Write(cmd) ==
  \/ conn = "up" /\ Len(c2s) < SendBuffer /\ c2s' = Append(c2s, cmd)
  \/ conn = "down" /\ UNCHANGED c2s

WriteFails == conn = "down" /\ UNCHANGED c2s

MessageWaiting == s2c # << >>

\* Mutant: end of file taken for "nothing yet".
PeerGoneUnseen == FALSE
PeerGone       == conn = "down" /\ s2c = << >>

Header         == Head(s2c)

ReadAll == s2c' = Tail(s2c)

\* The header is consumed, the body is not.
ReadHeaderOnly ==
  s2c' = IF Header.tag \in HasBody THEN <<Junk>> \o Tail(s2c) ELSE Tail(s2c)

-----------------------------------------------------------------------------
(* When a call is accepted: the mode OPS_* asks for, then the state TOPS_* *)
(* asks for.  A call that is refused changes nothing.                      *)

OpenModes    == {"closed"}

LegalModes(call) ==
  CASE call = "Open" -> OpenModes
    [] call \in {"GetRequest", "SendReply"} -> {"async"}
    [] call \in {"Restart", "CommsAsynchronous", "CommsSynchronous"} ->
         {"async", "sync"}
    [] OTHER -> {"sync"}

LegalStates(call) ==
  CASE call = "Open" -> {"Closed"}
    [] call \in {"GetRequest", "SendReply"} -> {"Asynchronous"}
    [] call \in {"CommsAsynchronous", "CommsSynchronous"} ->
         {"Synchronous", "Asynchronous"}
    [] call = "Restart" ->
         {"Synchronous", "SynchronousReply", "Asynchronous", "CancelAsynchronous"}
    [] OTHER -> {"Synchronous"}

Legal(call) == commsmode \in LegalModes(call) /\ proto \in LegalStates(call)

\* After a break the session shell calls OPS_Restart and nothing else; outside
\* the shell the program calls OPS_Close.
MayCall(call) == \/ pc = "idle"
                 \/ pc = "interrupted" /\ call \in {"Restart", "Close"}

Begin(call) == MayCall(call) /\ Legal(call)

Refuse ==
  /\ \E call \in Calls \ {"Close"} : MayCall(call) /\ ~Legal(call)
  /\ Return("BAD_COMMS_MODE")
  /\ UNCHANGED <<client, net, server, history>>

-----------------------------------------------------------------------------
(* TOPS_Open, called by OPS_Open for a remote resource.                    *)

OpenFails(s) ==
  /\ proto' = "Closed"
  /\ conn' = "none" /\ c2s' = << >> /\ s2c' = << >>
  /\ srv' = "off" /\ srvdetect' = "off"
  /\ Return(s)
  /\ UNCHANGED <<commsmode, errormode, errordetect, sent, history>>

\* The queue is emptied before the socket is even created; then either a
\* step before the command fails, or the command is written.
TOPS_Open ==
  /\ Begin("Open")
  /\ queue' = << >>
  /\ \/ \E s \in {"COMMS_FATAL", "BAD_SERVER"} : OpenFails(s)
     \/ /\ proto' = "OpenCheck"
        /\ conn' = "up"
        /\ Enter("open", "Open")
        /\ UNCHANGED <<commsmode, errormode, errordetect, c2s, s2c, server, history>>

\* The timed reads of the reply, its service string, tag and status.
OpenReply ==
  /\ pc = "open"
  /\ \/ /\ conn \in {"up", "down"}
        /\ \E s \in {"BAD_OPERATION", "BAD_TARGET_NAME", "TARGET_UNAVAILABLE"} :
             OpenFails(s)
        /\ UNCHANGED queue
     \/ /\ conn = "up"
        /\ proto' = "Synchronous"
        /\ commsmode' = "sync" /\ errormode' = "ignore"
        /\ srv' = "sync" /\ srvdetect' = "off"
        /\ Return("NOERROR")
        /\ UNCHANGED <<errordetect, queue, net, sent, history>>

-----------------------------------------------------------------------------
(* Commands that have no reply.                                            *)

\* Sends cmd, then does Effect.
SilentCommand(cmd, Effect) ==
  /\ Begin(cmd)
  /\ \/ Write(cmd) /\ Effect /\ Return("NOERROR")
     \/ WriteFails /\ UNCHANGED <<errormode, errordetect>> /\ Return("COMMS_FATAL")
  /\ UNCHANGED <<proto, commsmode, queue, conn, s2c, server, history>>

\* Mutant: the flag the read loops test is not kept in step.
SetErrorModeOnly(m) == errormode' = m /\ UNCHANGED errordetect
SetErrorMode(m) == errormode' = m /\ errordetect' = IF m = "detect" THEN "on" ELSE "off"

TOPS_Reset   == SilentCommand("Reset", UNCHANGED <<errormode, errordetect>>)
TOPS_Analyse == SilentCommand("Analyse", UNCHANGED <<errormode, errordetect>>)

TOPS_ErrorDetect == SilentCommand("ErrorDetect", SetErrorMode("detect"))
TOPS_ErrorIgnore == SilentCommand("ErrorIgnore", SetErrorMode("ignore"))

-----------------------------------------------------------------------------
(* Block transfers: TOPS_BootWrite, TOPS_Poke16/32, TOPS_Peek16/32.  Each  *)
(* sends a command per fragment and waits for its reply.                   *)

Transfer ==
  \E call \in Transfers, n \in 0 .. MaxFragments :
    /\ Begin(call)
    /\ pc' = "send" /\ op' = call /\ left' = n /\ status' = "NOERROR"
    /\ UNCHANGED <<client, hb, net, server, history>>

\* The pokes do not record that a reply is owed.
Owing == IF op \in {"Poke16", "Poke32"} THEN proto ELSE "SynchronousReply"

\* Mutant: one fragment too many.
MoreToSendOffByOne == left >= 0
MoreToSend         == left > 0

SendFragment ==
  /\ pc = "send" /\ MoreToSend
  /\ \/ /\ Write(op)
        /\ proto' = Owing
        /\ pc' = "sync" /\ left' = left - 1
        /\ UNCHANGED <<op, hb, status>>
     \/ WriteFails /\ Return("COMMS_FATAL") /\ UNCHANGED proto
  /\ UNCHANGED <<commsmode, errormode, errordetect, queue, conn, s2c, server, history>>

TransferDone ==
  /\ pc = "send" /\ ~MoreToSend
  /\ IF op = "BootWrite" /\ errormode = "detect"
       THEN Goto("testerror")
       ELSE Return("NOERROR")
  /\ UNCHANGED <<client, net, server, history>>

\* CheckError, after a boot or a change to synchronous mode in error detect mode.
CheckError ==
  /\ pc = "testerror"
  /\ \/ /\ Write("TestError")
        /\ proto' = "SynchronousReply"
        /\ Goto("check")
     \/ WriteFails /\ Return("COMMS_FATAL") /\ UNCHANGED proto
  /\ UNCHANGED <<commsmode, errormode, errordetect, queue, conn, s2c, server, history>>

-----------------------------------------------------------------------------
(* Reading in any loop.                                                    *)

\* The peer has gone and everything it sent has been read.
ReadFails(place, s) ==
  /\ pc = place /\ PeerGone
  /\ Return(s)
  /\ UNCHANGED <<client, net, server, history>>

\* HandleMessage: a keepalive is dropped, a fatal message closes the protocol
\* and nothing else.
HandleMessage ==
  /\ MessageWaiting /\ Header.tag = "Message"
  /\ ReadAll
  /\ IF Header.form = "bad" THEN proto' = "Closed" ELSE UNCHANGED proto
  /\ UNCHANGED <<commsmode, errormode, errordetect, queue, conn, c2s, server, history>>

MessageFails == Header.form # "good"

-----------------------------------------------------------------------------
(* GetSyncResponse: only the wanted reply or a message is acceptable.      *)

\* Mutant: the check waits for the reply of the transfer.
WantedOfCall == op
Wanted == IF pc = "check" THEN "TestError" ELSE op

AwaitingSync == pc \in {"sync", "check"}

\* What a call does with the status field of its reply.
ReplyStatuses ==
  IF Header.form = "good" THEN {"NOERROR"}
  ELSE IF pc = "check" THEN {"TARGET_ERROR", "BAD_OPERATION", "COMMS_FATAL"}
  ELSE {"LINK_FATAL", "BAD_OPERATION"}

SyncReply ==
  /\ AwaitingSync /\ MessageWaiting /\ Header.tag = Wanted
  /\ ReadAll
  /\ IF Header.form = "cut"
       THEN Return("COMMS_FATAL") /\ UNCHANGED proto
       ELSE /\ proto' = "Synchronous"
            /\ IF Header.form = "good" /\ pc = "sync"
                 THEN Goto("send")
                 ELSE \E s \in ReplyStatuses : Return(s)
  /\ UNCHANGED <<commsmode, errormode, errordetect, queue, conn, c2s, server, history>>

SyncMessage ==
  /\ AwaitingSync /\ HandleMessage
  /\ IF MessageFails THEN Return("COMMS_FATAL") ELSE UNCHANGED control

\* "didnt get wanted tag": the rest of the message stays in the stream.
SyncPanic ==
  /\ AwaitingSync /\ MessageWaiting /\ Header.tag \notin {Wanted, "Message"}
  /\ ReadHeaderOnly
  /\ Return("COMMS_FATAL")
  /\ UNCHANGED <<client, conn, c2s, server, history>>

SyncReadFails == ReadFails("sync", "COMMS_FATAL") \/ ReadFails("check", "COMMS_FATAL")

-----------------------------------------------------------------------------
(* TOPS_CommsSynchronous and GetCommsSynchronousReply.                     *)

TOPS_CommsSynchronous ==
  /\ Begin("CommsSynchronous")
  /\ \/ /\ Write("CommsSynchronous")
        /\ proto' = IF proto = "Synchronous" THEN "SynchronousReply"
                                             ELSE "CancelAsynchronous"
        /\ Enter("commssync", "CommsSynchronous")
     \/ WriteFails /\ Return("COMMS_FATAL") /\ UNCHANGED proto
  /\ UNCHANGED <<commsmode, errormode, errordetect, queue, conn, s2c, server, history>>

AwaitingCommsSync(tag) == pc = "commssync" /\ MessageWaiting /\ Header.tag = tag

\* Mutant: the status field of the reply is not looked at.
SyncAcceptedAlways == TRUE
SyncAccepted       == Header.form = "good"

CommsSyncReply ==
  /\ AwaitingCommsSync("CommsSynchronous")
  /\ ReadAll
  /\ IF SyncAccepted
       THEN /\ proto' = "Synchronous" /\ commsmode' = "sync"
            /\ IF errormode = "detect" THEN Goto("testerror") ELSE Return("NOERROR")
       ELSE /\ \E s \in {"BAD_OPERATION", "LINK_FATAL"} : Return(s)
            /\ UNCHANGED <<proto, commsmode>>
  /\ UNCHANGED <<errormode, errordetect, queue, conn, c2s, server, history>>

\* An error transition whose flag is set ends the call before the reply is read.
CommsSyncErrorTransition ==
  /\ AwaitingCommsSync("ErrorTransition")
  /\ ReadAll
  /\ \/ /\ Header.form = "bad" /\ errordetect = "on"
        /\ proto' = "Synchronous" /\ commsmode' = "sync" /\ early' = "on"
        /\ Return("TARGET_ERROR")
     \/ /\ Header.form = "good" /\ errordetect = "on"
        /\ UNCHANGED <<proto, commsmode, early, control>>
     \/ /\ Header.form = "cut" \/ errordetect = "off"
        /\ Return("COMMS_FATAL")
        /\ UNCHANGED <<proto, commsmode, early>>
  /\ UNCHANGED <<errormode, errordetect, queue, conn, c2s, server, last>>

CommsSyncRequest ==
  /\ AwaitingCommsSync("Request")
  /\ ReadAll
  /\ IF Header.form = "cut" THEN Return("COMMS_FATAL") ELSE UNCHANGED control
  /\ UNCHANGED <<client, conn, c2s, server, history>>

CommsSyncMessage ==
  /\ pc = "commssync" /\ HandleMessage
  /\ IF MessageFails THEN Return("COMMS_FATAL") ELSE UNCHANGED control

\* The header of any other message is passed over, its body is the next header.
CommsSyncOther ==
  /\ pc = "commssync" /\ MessageWaiting
  /\ Header.tag \notin Events \cup {"CommsSynchronous"}
  /\ ReadHeaderOnly
  /\ \/ UNCHANGED control
     \/ Header.tag = "Junk" /\ Return("COMMS_FATAL")
  /\ UNCHANGED <<client, conn, c2s, server, history>>

CommsSyncReadFails == ReadFails("commssync", "COMMS_FATAL")

-----------------------------------------------------------------------------
(* TOPS_CommsAsynchronous, TOPS_SendReply and TOPS_GetRequest, which share *)
(* GetAsyncRequest.  The first two drain what has arrived into the queue;  *)
(* the third hands a request to the application.                           *)

\* The depth of the queue is compared once, before the drain.
TOPS_CommsAsynchronous ==
  /\ Begin("CommsAsynchronous")
  /\ \/ /\ Write("CommsAsynchronous")
        /\ commsmode' = "async" /\ proto' = "Asynchronous"
        /\ IF Len(queue) < BufferDepth
             THEN /\ Enter("async", "CommsAsynchronous")
             ELSE Return("NOERROR")
     \/ WriteFails /\ Return("COMMS_FATAL") /\ UNCHANGED <<commsmode, proto>>
  /\ UNCHANGED <<errormode, errordetect, queue, conn, s2c, server, history>>

TOPS_SendReply ==
  /\ Begin("SendReply")
  /\ \/ Return("SP_ERROR") /\ UNCHANGED c2s     \* illegal size in the packet
     \/ /\ Write("AsyncWrite")
        /\ Enter("async", "SendReply")
     \/ WriteFails /\ Return("COMMS_FATAL")
  /\ UNCHANGED <<client, conn, s2c, server, history>>

Draining == pc = "async" /\ op # "GetRequest"
Getting  == pc = "async" /\ op = "GetRequest"

\* Nothing (more) has arrived, the queue of a SendReply is full, or select fails.
DrainEnds ==
  /\ Draining
  /\ \/ Return("NOERROR")
     \/ op = "CommsAsynchronous" /\ Return("COMMS_FATAL")
  /\ UNCHANGED <<client, net, server, history>>

MayRead == pc = "async" /\ (op = "SendReply" => Len(queue) < BufferDepth)

AwaitingAsync(tag) == MayRead /\ MessageWaiting /\ Header.tag = tag

Enqueue(f)      == queue' = Append(queue, [id |-> Header.id, form |-> f])

\* Mutant: no limit.
QueueFullNever == FALSE
QueueFull      == Len(queue) > BufferDepth

\* Mutant: a request that does not fit is dropped as if none had come.
OverflowIgnored == "NOERROR"
Overflow        == "COMMS_FATAL"

\* GetAsyncRequest with no user buffer.  The entry is linked into the queue
\* before its body is read.
QueueRequest ==
  /\ AwaitingAsync("Request") /\ op # "GetRequest" /\ Header.form # "bad"
  /\ \/ /\ QueueFull
        /\ ReadHeaderOnly /\ Return(Overflow) /\ UNCHANGED queue
     \/ /\ ~QueueFull       \* no memory for the entry
        /\ ReadHeaderOnly /\ Return("BAD_OPERATION") /\ UNCHANGED queue
     \/ /\ ~QueueFull
        /\ ReadAll /\ Enqueue(Header.form)
        /\ IF Header.form = "good" THEN UNCHANGED control ELSE Return("COMMS_FATAL")
  /\ UNCHANGED <<proto, commsmode, errormode, errordetect, conn, c2s, server, history>>

\* The heartbeat function is called with the request in the application's
\* buffer, before the application is told; it may turn it into an error.
DeliverRequest ==
  /\ AwaitingAsync("Request") /\ op = "GetRequest"
  /\ ReadAll
  /\ \/ Header.form = "good" /\ Return("NOERROR") /\ last' = Header.id
     \/ Header.form = "good" /\ hb = "on" /\ Return("BAD_OPERATION") /\ UNCHANGED last
     \/ Header.form = "cut" /\ Return("COMMS_FATAL") /\ UNCHANGED last
  /\ UNCHANGED <<client, conn, c2s, server, early>>

\* A request whose status field is an error is not read any further.
BadRequest ==
  /\ AwaitingAsync("Request") /\ Header.form = "bad"
  /\ ReadHeaderOnly \/ ReadAll
  /\ \E s \in {"SP_ERROR", "LINK_FATAL"} : Return(s)
  /\ UNCHANGED <<client, conn, c2s, server, history>>

\* One message that is not a request ends the drain of CommsAsynchronous.
NotRequest == IF op = "CommsAsynchronous" THEN Return("NOERROR") ELSE UNCHANGED control

AsyncMessage ==
  /\ MayRead /\ HandleMessage
  /\ IF MessageFails THEN Return("COMMS_FATAL") ELSE NotRequest

AsyncErrorTransition ==
  /\ AwaitingAsync("ErrorTransition")
  /\ ReadAll
  /\ IF Header.form = "cut" \/ errordetect = "off" THEN Return("COMMS_FATAL")
     ELSE IF Header.form = "bad" THEN Return("TARGET_ERROR")
     ELSE NotRequest
  /\ UNCHANGED <<client, conn, c2s, server, history>>

\* Any other tag is passed over without its body.
AsyncOther ==
  /\ MayRead /\ MessageWaiting /\ Header.tag \notin Events
  /\ ReadHeaderOnly
  /\ NotRequest \/ (Header.tag = "Junk" /\ Return("COMMS_FATAL"))
  /\ UNCHANGED <<client, conn, c2s, server, history>>

\* The timed read gave up in the middle of a header.
ShortRead ==
  /\ MessageWaiting
  /\ s2c' = <<Junk>> \o Tail(s2c)

AsyncReadFails ==
  /\ MayRead
  /\ (PeerGone /\ UNCHANGED s2c) \/ ShortRead
  /\ Return("COMMS_FATAL")
  /\ UNCHANGED <<client, conn, c2s, server, history>>

\* Mutant: the request is copied but stays in the queue.
DequeueCopy == UNCHANGED queue
Dequeue     == queue' = Tail(queue)

TOPS_GetRequest ==
  /\ Begin("GetRequest")
  /\ \E heartbeat \in Flags :
       IF queue = << >>
         THEN /\ pc' = "async" /\ op' = "GetRequest" /\ hb' = heartbeat
              /\ status' = "NOERROR"
              /\ UNCHANGED <<left, queue, last>>
         ELSE /\ Dequeue
              /\ \/ Return("NOERROR") /\ last' = Head(queue).id
                 \/ heartbeat = "on" /\ Return("BAD_OPERATION") /\ UNCHANGED last
  /\ UNCHANGED <<proto, commsmode, errormode, errordetect, net, server, early>>

\* Nothing arrived within the timeout; the heartbeat function lets the call
\* go on (and time out again), go on for ever, or fail.
Heartbeat ==
  /\ Getting /\ hb = "on"
  /\ \/ hb' = "off" /\ UNCHANGED <<pc, op, left, status>>
     \/ Return("BAD_OPERATION")
  /\ UNCHANGED <<client, net, server, history>>

-----------------------------------------------------------------------------
(* TOPS_Restart and TOPS_Close: WaitForReply gives up after a timeout.     *)

TOPS_Restart ==
  /\ Begin("Restart")
  /\ proto' = "Restarting"
  /\ \/ /\ Write("Restart")
        /\ Enter("wait", "Restart")
     \/ WriteFails /\ Return("COMMS_FATAL")
  /\ UNCHANGED <<commsmode, errormode, errordetect, queue, conn, s2c, server, history>>

\* Mutant: two states swapped.
ClosingSwapped == [Synchronous        |-> "SyncClosing",
                   SynchronousReply   |-> "SyncReplyClosing",
                   Asynchronous       |-> "SyncClosing",
                   CancelAsynchronous |-> "CancelAsyncClosing",
                   Restarting         |-> "Restarting"]
Closing == [Synchronous        |-> "SyncClosing",
            SynchronousReply   |-> "SyncReplyClosing",
            Asynchronous       |-> "AsyncClosing",
            CancelAsynchronous |-> "CancelAsyncClosing",
            Restarting         |-> "Restarting"]

\* Mutant: the error detect flag survives.
ResetErrorsKeep == errormode' = "ignore" /\ UNCHANGED errordetect
ResetErrors     == errormode' = "ignore" /\ errordetect' = "off"

\* Whatever happened, the socket is closed and OPS_Close returns no error.
FinishClose ==
  /\ proto' = "Closed" /\ commsmode' = "closed"
  /\ ResetErrors /\ queue' = << >>
  /\ conn' = "none" /\ c2s' = << >> /\ s2c' = << >>
  /\ srv' = "off" /\ srvdetect' = "off" /\ early' = "off"
  /\ Return("NOERROR")
  /\ UNCHANGED <<sent, last>>

\* OPS_Close does not reach TOPS_Close when its own mode is closed.
TOPS_Close ==
  /\ MayCall("Close")
  /\ \/ /\ commsmode = "closed"
        /\ errormode' = "ignore" /\ Return("NOERROR")
        /\ UNCHANGED <<proto, commsmode, errordetect, queue, net, server, history>>
     \/ /\ commsmode # "closed" /\ (proto \in DOMAIN Closing => WriteFails)
        /\ FinishClose
     \/ /\ commsmode # "closed" /\ proto \in DOMAIN Closing /\ Write("Close")
        /\ proto' = Closing[proto]
        /\ Enter("wait", "Close")
        /\ UNCHANGED <<commsmode, errormode, errordetect, queue, conn, s2c, server,
                       history>>

CloseEnds == pc = "wait" /\ op = "Close" /\ FinishClose

\* Mutant: the first reply of any kind ends the wait.
IsReplyAny(tag) == tag \in Replying
IsReply(tag)    == tag = op

RestartReply ==
  /\ pc = "wait" /\ op = "Restart" /\ MessageWaiting /\ IsReply(Header.tag)
  /\ ReadAll
  /\ IF Header.form = "good"
       THEN /\ proto' = "Synchronous" /\ commsmode' = "sync"
            /\ ResetErrors /\ queue' = << >> /\ early' = "off"
            /\ Return("NOERROR")
       ELSE /\ \E s \in {"BAD_OPERATION", "LINK_FATAL"} : Return(s)
            /\ UNCHANGED <<client, early>>
  /\ UNCHANGED <<conn, c2s, server, last>>

RestartFails ==
  /\ pc = "wait" /\ op = "Restart"
  /\ UNCHANGED s2c \/ ShortRead      \* timed out before or within a header
  /\ Return("BAD_OPERATION")
  /\ UNCHANGED <<client, conn, c2s, server, history>>

WaitMessage ==
  /\ pc = "wait" /\ HandleMessage
  /\ \/ ~MessageFails /\ UNCHANGED control
     \/ MessageFails /\ op = "Restart" /\ Return("COMMS_FATAL")

\* Everything but the wanted reply is thrown away.
WaitDiscard ==
  /\ pc = "wait" /\ MessageWaiting /\ Header.tag # "Message" /\ ~IsReply(Header.tag)
  /\ ReadAll
  /\ \/ Header.form # "cut" /\ UNCHANGED control
     \/ /\ Header.form = "cut" \/ Header.tag = "Junk"
        /\ op = "Restart" /\ Return("COMMS_FATAL")
  /\ UNCHANGED <<client, conn, c2s, server, history>>

-----------------------------------------------------------------------------
(* BreakHandler: SIGINT leaves a call where it stands, between two reads   *)
(* or between the header and the body of a message.                        *)

Reading == pc \in {"sync", "check", "commssync", "wait", "async"}

BreakHandler ==
  /\ CanBreak /\ pc \notin {"idle", "interrupted"}
  /\ pc' = "interrupted" /\ op' = "none" /\ left' = 0 /\ hb' = "off"
  /\ \/ UNCHANGED <<s2c, queue>>
     \/ /\ Reading /\ MessageWaiting /\ Header.tag \in HasBody
        /\ ReadHeaderOnly
        /\ IF /\ Draining /\ Header.tag = "Request" /\ Header.form # "bad"
              /\ ~QueueFull
             THEN Enqueue("cut")
             ELSE UNCHANGED queue
  /\ UNCHANGED <<proto, commsmode, errormode, errordetect, status, conn, c2s,
                 server, history>>

-----------------------------------------------------------------------------
(* The linkops server and the network, as the client meets them.           *)

SrvAccepts(cmd) ==
  CASE cmd \in TransferOps \cup SilentCalls \cup {"TestError"} -> srv = "sync"
    [] cmd = "AsyncWrite" -> srv = "async"
    [] OTHER -> srv # "off"

SrvReads == conn = "up" /\ c2s # << >>

SrvSilent ==
  /\ SrvReads /\ Head(c2s) \in Silent /\ SrvAccepts(Head(c2s))
  /\ c2s' = Tail(c2s)
  /\ srv' = IF Head(c2s) = "CommsAsynchronous" THEN "async" ELSE srv
  /\ srvdetect' = CASE Head(c2s) = "ErrorDetect" -> "on"
                     [] Head(c2s) = "ErrorIgnore" -> "off"
                     [] OTHER -> srvdetect
  /\ UNCHANGED <<client, control, conn, s2c, sent, history>>

SrvReply ==
  /\ SrvReads /\ Head(c2s) \in Replying \ {"Close"} /\ SrvAccepts(Head(c2s))
  /\ \E form \in {"good", "bad"} :
       /\ s2c' = Append(s2c, Plain(Head(c2s), form))
       /\ srv' = IF form = "good" /\ Head(c2s) \in {"CommsSynchronous", "Restart"}
                   THEN "sync" ELSE srv
       /\ srvdetect' = IF form = "good" /\ Head(c2s) = "Restart"
                         THEN "off" ELSE srvdetect
  /\ c2s' = Tail(c2s)
  /\ UNCHANGED <<client, control, conn, sent, history>>

\* The server ends the connection with its last message.
SrvEnds(m) ==
  /\ s2c' = Append(s2c, m)
  /\ c2s' = << >> /\ conn' = "down"
  /\ srv' = "off" /\ srvdetect' = "off"
  /\ UNCHANGED <<client, control, sent, history>>

SrvClose  == SrvReads /\ Head(c2s) = "Close" /\ SrvEnds(Plain("Close", "good"))
SrvRefuse == SrvReads /\ ~SrvAccepts(Head(c2s)) /\ SrvEnds(Plain("Message", "bad"))

SrvCommand == SrvSilent \/ SrvReply \/ SrvClose \/ SrvRefuse

SrvCanSend == conn = "up" /\ srv # "off" /\ Len(s2c) < RecvBuffer

SrvEvent(m) ==
  /\ s2c' = Append(s2c, m)
  /\ UNCHANGED <<client, control, conn, c2s, srv, srvdetect, history>>

SrvKeepalive == SrvCanSend /\ SrvEvent(Plain("Message", "good")) /\ UNCHANGED sent
SrvFatal     == SrvCanSend /\ SrvEnds(Plain("Message", "bad"))

SrvRequest ==
  /\ SrvCanSend /\ srv = "async"
  /\ \/ /\ sent < MaxRequests
        /\ sent' = sent + 1
        /\ SrvEvent([tag |-> "Request", form |-> "good", id |-> sent'])
     \/ SrvEvent(Plain("Request", "bad")) /\ UNCHANGED sent

SrvErrorTransition ==
  /\ SrvCanSend /\ srv = "async" /\ srvdetect = "on"
  /\ \E form \in {"good", "bad"} : SrvEvent(Plain("ErrorTransition", form))
  /\ UNCHANGED sent

\* What was in flight is lost from some byte on.
ConnectionLost ==
  /\ conn = "up"
  /\ conn' = "down" /\ c2s' = << >>
  /\ srv' = "off" /\ srvdetect' = "off"
  /\ \E n \in 0 .. Len(s2c) :
       \/ s2c' = SubSeq(s2c, 1, n)
       \/ /\ n > 0 /\ s2c[n].tag \in HasBody
          /\ s2c[n].tag = "Request" => s2c[n].form = "good"
          /\ s2c' = [SubSeq(s2c, 1, n) EXCEPT ![n].form = "cut"]
  /\ UNCHANGED <<client, control, sent, history>>

-----------------------------------------------------------------------------
Call ==
  \/ Refuse \/ TOPS_Open \/ TOPS_Reset \/ TOPS_Analyse
  \/ TOPS_ErrorDetect \/ TOPS_ErrorIgnore \/ Transfer
  \/ TOPS_CommsSynchronous \/ TOPS_CommsAsynchronous
  \/ TOPS_SendReply \/ TOPS_GetRequest \/ TOPS_Restart \/ TOPS_Close

\* The running call, one socket operation at a time.
Step ==
  \/ OpenReply \/ SendFragment \/ TransferDone \/ CheckError
  \/ SyncReply \/ SyncMessage \/ SyncPanic \/ SyncReadFails
  \/ CommsSyncReply \/ CommsSyncErrorTransition \/ CommsSyncRequest
  \/ CommsSyncMessage \/ CommsSyncOther \/ CommsSyncReadFails
  \/ DrainEnds \/ QueueRequest \/ DeliverRequest \/ BadRequest
  \/ AsyncMessage \/ AsyncErrorTransition \/ AsyncOther \/ AsyncReadFails
  \/ Heartbeat
  \/ CloseEnds \/ RestartReply \/ RestartFails \/ WaitMessage \/ WaitDiscard

Environment ==
  \/ SrvCommand \/ SrvKeepalive \/ SrvFatal \/ SrvRequest \/ SrvErrorTransition
  \/ ConnectionLost

Next == Call \/ Step \/ BreakHandler \/ Environment

Spec == Init /\ [][Next]_vars

\* A call that can go on does, and the server reads the commands it is sent.
\* Nothing is assumed of the application, the target or the connection.
FairSpec == Spec /\ WF_vars(Step) /\ WF_vars(SrvCommand)

-----------------------------------------------------------------------------
(* Safety.                                                                 *)

\* The queue never holds more than one request over buffer_depth, however
\* CommsAsynchronous, SendReply and overflow interleave with the target.
QueueBound == Len(queue) <= BufferDepth + 1

\* What the declaration of TOPSbuffer_depth says: the maximum number of
\* buffered requests.
QueueWithinDepth == Len(queue) <= BufferDepth

\* The mode OPS_* keeps and the state TOPS_* keeps never contradict each
\* other, in whichever order calls fail, are interrupted or are abandoned.
ModeAgreement ==
  CASE commsmode = "closed" -> proto \in {"Closed", "OpenCheck"}
    [] commsmode = "sync" ->
         proto \in {"Closed", "Synchronous", "SynchronousReply", "Restarting",
                   "SyncClosing", "SyncReplyClosing"}
    [] commsmode = "async" ->
         proto \in {"Closed", "Asynchronous", "CancelAsynchronous", "Restarting",
                   "AsyncClosing", "CancelAsyncClosing"}

\* Between calls a closed client can be opened again and has nothing left of
\* the old connection: TOPS_Open requires the state Closed.
ClosedIsClean ==
  (pc = "idle" /\ commsmode = "closed") =>
    /\ proto = "Closed" /\ conn = "none"
    /\ queue = << >> /\ errordetect = "off"

\* A message that holds a request of the target.
Asked(m) == m.tag = "Request" /\ m.form # "bad"

\* Between calls in the state Synchronous no reply is owed, so that the next
\* command cannot be answered by an old reply; unless a CommsSynchronous was
\* ended early by an error transition.
SyncQuiescent ==
  (pc = "idle" /\ proto = "Synchronous" /\ conn = "up") =>
    /\ \A i \in DOMAIN c2s : c2s[i] \notin Replying
    /\ \A i \in DOMAIN s2c : s2c[i].tag = "Message"

NoReplyOwed == early = "off" => SyncQuiescent

\* GetSyncResponse meets no tag it panics about; with the same exception.
NoPanic ==
  (AwaitingSync /\ MessageWaiting /\ early = "off") => Header.tag \in {Wanted, "Message"}

\* GetCommsSynchronousReply ignores error transitions, says its comment: then
\* no call returns from a change of mode whose reply is still to come.
TransitionsIgnored == early = "off"

\* While a synchronous reply is awaited on a live connection, its command or
\* the reply itself is on the way.
ReplyComes ==
  (AwaitingSync /\ conn = "up") =>
    \/ \E i \in DOMAIN c2s : c2s[i] = Wanted
    \/ \E i \in DOMAIN s2c : s2c[i].tag = Wanted

\* The server meets every command in the mode the protocol gives it in.
CommandInMode == (conn = "up" /\ c2s # << >> /\ early = "off") => SrvAccepts(Head(c2s))

\* An error transition never meets a client that is not in error detect mode.
DetectAgreement ==
  (/\ pc \in {"commssync", "async"} /\ early = "off"
   /\ MessageWaiting /\ Header.tag = "ErrorTransition") => errordetect = "on"

-----------------------------------------------------------------------------
(* What a step may never do.                                               *)

Held == {queue[i].id : i \in DOMAIN queue} \cup
        {s2c[i].id : i \in {j \in DOMAIN s2c : Asked(s2c[j])}}

\* The client, the server and the network between them give the application
\* the stream of requests that RequestStream describes.
Stream == INSTANCE RequestStream WITH held <- Held

StreamOfRequests == Stream!Spec

Reported == pc' = "idle" /\ status' # "NOERROR"

\* A request that has reached the client is handed over, unless the call that
\* loses it returns an error, is interrupted, or is one that discards requests.
LossIsReported ==
  [][\A id \in Held \ Held' :
       \/ id = last' \/ Reported \/ pc' = "interrupted" \/ conn' = "down"
       \/ op \in {"CommsSynchronous", "Restart", "Close"} \/ commsmode' = "closed"]_vars

\* TOPS_GetRequest hands over requests that were read to their end.
WholeDelivered ==
  [][(queue # << >> /\ last' # last /\ last' = Head(queue).id) => Head(queue).form = "good"]_vars

-----------------------------------------------------------------------------
(* Liveness.                                                               *)

\* Every call returns, except those that may wait for the target for ever:
\* a GetRequest, and a SendReply that is kept busy by messages.
CallsReturn ==
  (pc \notin {"idle", "interrupted"} /\ op \notin {"GetRequest", "SendReply"})
    ~> pc \in {"idle", "interrupted"}


=============================================================================
