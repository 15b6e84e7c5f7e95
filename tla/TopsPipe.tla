------------------------------ MODULE TopsPipe ------------------------------
(***************************************************************************)
(* The inductive invariant behind the safety properties of Tops: what may  *)
(* be on the way between the client and the linkops server in each state   *)
(* of the client.  The properties of Tops look at the head of a stream;    *)
(* that they survive the next message or command depends on everything     *)
(* behind it, on the mode the server is in and the mode it will be in when *)
(* it has read the commands sent to it.                                    *)
(*                                                                         *)
(* The parts up to CloseIsLast hold always.  Pipeline holds unless a       *)
(* CommsSynchronous was ended by an error transition before its reply came *)
(* (early), and again after the next Restart or Close.                     *)
(***************************************************************************)
EXTENDS Tops

\* Commands a server in asynchronous mode refuses.
SyncOnly == TransferOps \cup SilentCalls \cup {"TestError"}

\* The commands that set the error detect flag of the server.
ErrorCalls == {"ErrorDetect", "ErrorIgnore"}

\* The states of a client that has not given up the connection.
Live == {"Synchronous", "SynchronousReply", "Asynchronous", "CancelAsynchronous"}

\* The states of a client that has.
ClosingStates == {"SyncClosing", "SyncReplyClosing", "AsyncClosing", "CancelAsyncClosing",
                  "Restarting"}

\* A command, or its reply, is on the way.
Pending(cmd) ==
  \/ \E i \in 1 .. Len(c2s) : c2s[i] = cmd
  \/ \E i \in 1 .. Len(s2c) : s2c[i].tag = cmd

-----------------------------------------------------------------------------
(* What always holds.                                                      *)

\* The protocol state in each loop.
StatesAt ==
  /\ pc = "open" => proto = "OpenCheck"
  /\ pc \in {"send", "testerror"} => proto = "Synchronous"
  /\ pc \in {"sync", "check"} => proto \in {"Synchronous", "SynchronousReply"}
  /\ pc = "commssync" => proto \in {"SynchronousReply", "CancelAsynchronous"}
  /\ pc = "async" => proto = "Asynchronous"
  /\ pc = "wait" /\ op = "Restart" => proto = "Restarting"
  /\ pc = "wait" /\ op = "Close" => proto \in ClosingStates

\* Nothing is in flight on a connection that is not there.
Wires ==
  /\ conn # "up" => c2s = << >>
  /\ commsmode = "closed" => c2s = << >> /\ s2c = << >> /\ srv = "off" /\ errordetect = "off"
  /\ conn = "up" /\ srv = "off" => commsmode = "closed"
  /\ commsmode = "closed" => proto = "OpenCheck" \/ conn = "none"

\* A message that was cut off or that is fatal is the last of its connection:
\* the client never reads anything behind it.
LastWords ==
  \A i \in 1 .. Len(s2c) :
    s2c[i].form = "cut" \/ (s2c[i].tag = "Message" /\ s2c[i].form = "bad")
      => i = Len(s2c) /\ conn # "up"

\* Behind the command Restart, or its reply, comes nothing that the restarted
\* client could take for the answer to a new command.
RestartIsLast ==
  /\ Pending("Restart") => proto = "Restarting"
  /\ \A i \in 1 .. Len(c2s) : c2s[i] = "Restart" =>
       /\ \A j \in 1 .. Len(c2s) : j > i => c2s[j] = "Close"
       /\ \A j \in 1 .. Len(s2c) : s2c[j].tag # "Restart"
  /\ \A i \in 1 .. Len(s2c) : s2c[i].tag = "Restart" =>
       /\ \A j \in 1 .. Len(c2s) : c2s[j] = "Close"
       /\ s2c[i].form = "good" =>
            /\ \A j \in 1 .. Len(s2c) : j > i => s2c[j].tag \in {"Message", "Close"}
            /\ conn = "up" => srv = "sync" /\ srvdetect = "off"

\* A Close is on the way only in a call that will close the client.
CloseIsLast == Pending("Close") => proto \in ClosingStates /\ op # "Restart"

-----------------------------------------------------------------------------
(* What holds while no change of mode was ended early.                     *)

\* The server will be in the right mode when it reads each command: only
\* silent commands are in front of a command of synchronous mode, and a reply
\* of the host follows the change to asynchronous mode.
CommandsFit ==
  \A i \in 1 .. Len(c2s) :
    /\ c2s[i] \in SyncOnly => srv = "sync" /\ \A j \in 1 .. Len(c2s) : j < i => c2s[j] \in SilentCalls
    /\ c2s[i] = "AsyncWrite" =>
         /\ \A j \in 1 .. Len(c2s) : j < i => c2s[j] \in Silent
         /\ srv = "async" \/ \E j \in 1 .. Len(c2s) : j < i /\ c2s[j] = "CommsAsynchronous"

\* Nothing but keepalives is coming and nothing that has a reply was sent.
Clean ==
  /\ \A i \in 1 .. Len(s2c) : s2c[i].tag = "Message"
  /\ \A i \in 1 .. Len(c2s) : c2s[i] \in SilentCalls
  /\ conn = "up" => srv = "sync"

\* So it is whenever a command of synchronous mode may be sent.
InSync == pc \in {"idle", "send", "testerror"} /\ proto = "Synchronous" => Clean

\* One reply is owed at most, it is the wanted one, and nothing but keepalives
\* comes before or after it.
OneReply ==
  /\ \A i \in 1 .. Len(s2c) :
       /\ s2c[i].tag \in {Wanted, "Message"}
       /\ s2c[i].tag = Wanted =>
            c2s = << >> /\ \A j \in 1 .. Len(s2c) : j # i => s2c[j].tag = "Message"
  /\ \A i \in 1 .. Len(c2s) : c2s[i] \in SilentCalls \/ (c2s[i] = Wanted /\ i = Len(c2s))
  /\ conn = "up" => srv = "sync"

\* So it is in GetSyncResponse.
Awaited == AwaitingSync => OneReply

\* Only what a server in asynchronous mode sends is coming, and every command
\* on the way is silent.
Streaming ==
  /\ \A i \in 1 .. Len(s2c) : s2c[i].tag \in Events \cup {"Junk"}
  /\ \A i \in 1 .. Len(c2s) : c2s[i] \in Silent
  /\ conn = "up" => srv = "async" \/ \E i \in 1 .. Len(c2s) : c2s[i] = "CommsAsynchronous"

\* So it is in and between the calls of asynchronous mode.
InAsync == pc \in {"idle", "async"} /\ proto = "Asynchronous" => Streaming

\* The reply that ends asynchronous mode is the last reply and the last event;
\* the events of the target come before it.
ModeReply ==
  /\ \A i \in 1 .. Len(s2c) :
       /\ s2c[i].tag \in Events \cup {"Junk", "CommsSynchronous"}
       /\ s2c[i].tag = "CommsSynchronous" =>
            /\ c2s = << >>
            /\ s2c[i].form = "good" =>
                 /\ conn = "up" => srv = "sync"
                 /\ \A j \in 1 .. Len(s2c) : j > i => s2c[j].tag = "Message"
  /\ \A i \in 1 .. Len(c2s) : c2s[i] \in Silent \/ (c2s[i] = "CommsSynchronous" /\ i = Len(c2s))

\* So it is in GetCommsSynchronousReply.
Cancelling == pc = "commssync" => ModeReply

\* The error detect flag of the client is the one the last command on the way
\* asks for, or else the one the server has.
Flag(cmd) == IF cmd = "ErrorDetect" THEN "on" ELSE "off"

FlagOnTheWay ==
  /\ \A i \in 1 .. Len(c2s) :
       c2s[i] \in ErrorCalls /\ (\A j \in 1 .. Len(c2s) : j > i => c2s[j] \notin ErrorCalls)
         => errordetect = Flag(c2s[i])
  /\ (\A i \in 1 .. Len(c2s) : c2s[i] \notin ErrorCalls) => srvdetect = errordetect

\* An error transition is on the way only to a client that asked for them.
Detected ==
  proto \in Live =>
    /\ \A i \in 1 .. Len(s2c) : s2c[i].tag = "ErrorTransition" => errordetect = "on"
    /\ conn = "up" => FlagOnTheWay

Pipeline == CommandsFit /\ InSync /\ Awaited /\ InAsync /\ Cancelling /\ Detected

PipeInv ==
  /\ StatesAt /\ Wires /\ LastWords /\ RestartIsLast /\ CloseIsLast
  /\ early = "off" => Pipeline

-----------------------------------------------------------------------------
(* What the requests of the target that are held look like.                *)

\* A GetRequest reads the socket only when the queue is empty.
QueueOfGet == pc = "async" /\ op = "GetRequest" => queue = << >>

\* The requests handed over, then those in the queue, then those in the stream
\* are in the order in which the target sent them.
OnTheWay ==
  /\ \A i \in 1 .. Len(s2c) :
       s2c[i].id <= sent /\ (Asked(s2c[i]) => s2c[i].id > 0 /\ last < s2c[i].id)
  /\ \A i \in 1 .. Len(queue) : queue[i].id \in 1 .. sent /\ last < queue[i].id
  /\ \A i, j \in 1 .. Len(queue) : i < j => queue[i].id < queue[j].id
  /\ \A i, j \in 1 .. Len(s2c) :
       i < j /\ Asked(s2c[i]) /\ Asked(s2c[j]) => s2c[i].id < s2c[j].id
  /\ \A i \in 1 .. Len(queue), j \in 1 .. Len(s2c) :
       Asked(s2c[j]) => queue[i].id < s2c[j].id
  /\ last <= sent

=============================================================================
