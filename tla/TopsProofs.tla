----------------------------- MODULE TopsProofs -----------------------------
(***************************************************************************)
(* Proofs about Tops, for every depth of the queue, every number of        *)
(* requests and every size of the socket buffers: the types, the cycles of *)
(* the protocol, that PipeInv is an invariant, the safety properties that  *)
(* follow from it, and that Tops implements RequestStream.                 *)
(***************************************************************************)
EXTENDS TopsPipe, SequenceTheorems, TLAPS

\* What the operators put on the stream or in the queue stays in its type.
LEMMA PlainIsMessage ==
  ASSUME NEW t \in Events \cup Replying \cup {"Junk"}, NEW f \in {"good", "bad", "cut"}
  PROVE  Plain(t, f) \in Message
BY TopsAssumption DEF Plain, Message

\* What a prefix of a sequence is.
LEMMA PrefixType ==
  ASSUME NEW S, NEW s \in Seq(S), NEW n \in 0 .. Len(s)
  PROVE  /\ SubSeq(s, 1, n) \in Seq(S)
         /\ Len(SubSeq(s, 1, n)) = n
         /\ \A i \in 1 .. n : SubSeq(s, 1, n)[i] = s[i]
OBVIOUS

\* A read that fails leaves messages in the stream.
LEMMA ShortReadType ==
  ASSUME s2c \in Seq(Message), ShortRead
  PROVE  s2c' \in Seq(Message)
<1>1. Tail(s2c) \in Seq(Message) /\ Junk \in Message
  BY PlainIsMessage DEF ShortRead, MessageWaiting, Junk
<1>2. QED
  BY <1>1 DEF ShortRead

\* A header read without its body leaves messages in the stream.
LEMMA ReadType ==
  ASSUME s2c \in Seq(Message), MessageWaiting, ReadAll \/ ReadHeaderOnly
  PROVE  s2c' \in Seq(Message)
<1>1. Tail(s2c) \in Seq(Message) /\ Junk \in Message
  BY PlainIsMessage DEF MessageWaiting, Junk
<1>2. <<Junk>> \o Tail(s2c) \in Seq(Message)
  BY <1>1
<1>3. QED
  BY <1>1, <1>2 DEF ReadAll, ReadHeaderOnly

\* The header of the next message is a message.
LEMMA HeaderType ==
  ASSUME s2c \in Seq(Message), MessageWaiting
  PROVE  Header \in Message
BY DEF MessageWaiting, Header

\* A command written leaves commands on the way to the server.
LEMMA WriteType ==
  ASSUME c2s \in Seq(Replying \cup Silent),
         NEW cmd \in Replying \cup Silent, Write(cmd) \/ WriteFails
  PROVE  c2s' \in Seq(Replying \cup Silent)
BY DEF Write, WriteFails

\* A message sent leaves messages on the way to the client.
LEMMA SendType ==
  ASSUME s2c \in Seq(Message), NEW m \in Message, s2c' = Append(s2c, m)
  PROVE  s2c' \in Seq(Message)
OBVIOUS

\* A request queued leaves entries in the queue,
LEMMA EnqueueType ==
  ASSUME s2c \in Seq(Message), queue \in Seq(Entry), MessageWaiting,
         NEW f \in {"good", "cut"}, Enqueue(f)
  PROVE  queue' \in Seq(Entry)
<1>1. [id |-> Header.id, form |-> f] \in Entry
  BY HeaderType DEF Message, Entry
<1>2. QED
  BY <1>1 DEF Enqueue

\* and so does the removal of the first.
LEMMA DequeueType ==
  ASSUME queue \in Seq(Entry), queue # << >>
  PROVE  Tail(queue) \in Seq(Entry) /\ Head(queue).id \in 0 .. MaxRequests
<1>1. Tail(queue) \in Seq(Entry) /\ Head(queue) \in Entry
  OBVIOUS
<1>2. QED
  BY <1>1 DEF Entry

\* Empty streams are streams.
LEMMA EmptyType ==
  /\ << >> \in Seq(Entry)
  /\ << >> \in Seq(Message)
  /\ << >> \in Seq(Replying \cup Silent)
OBVIOUS

\* A sequence with one member replaced.
LEMMA ReplaceType ==
  ASSUME NEW S, NEW p \in Seq(S), NEW n \in 1 .. Len(p), NEW e \in S
  PROVE  [p EXCEPT ![n] = e] \in Seq(S)
<1>1. p \in [1 .. Len(p) -> S] /\ Len(p) \in Nat
  OBVIOUS
<1>2. [p EXCEPT ![n] = e] \in [1 .. Len(p) -> S]
  BY <1>1
<1>3. QED
  BY <1>1, <1>2

\* What is left of the stream when the connection is lost.
LEMMA CutType ==
  ASSUME s2c \in Seq(Message), ConnectionLost
  PROVE  s2c' \in Seq(Message)
<1>1. PICK n \in 0 .. Len(s2c) :
        \/ s2c' = SubSeq(s2c, 1, n)
        \/ n > 0 /\ s2c' = [SubSeq(s2c, 1, n) EXCEPT ![n].form = "cut"]
  BY DEF ConnectionLost
<1>2. SubSeq(s2c, 1, n) \in Seq(Message) /\ Len(SubSeq(s2c, 1, n)) = n
  BY PrefixType
<1>3. CASE n > 0 /\ s2c' = [SubSeq(s2c, 1, n) EXCEPT ![n].form = "cut"]
  <2> DEFINE p == SubSeq(s2c, 1, n)
  <2>1. p[n] \in Message
    BY <1>2, <1>3
  <2>2. [p[n] EXCEPT !.form = "cut"] \in Message
    BY <2>1 DEF Message
  <2>3. s2c' = [p EXCEPT ![n] = [p[n] EXCEPT !.form = "cut"]]
    BY <1>3
  <2>4. n \in 1 .. Len(p) /\ p \in Seq(Message)
    BY <1>2, <1>3
  <2> HIDE DEF p
  <2>5. QED
    BY <2>2, <2>3, <2>4, ReplaceType
<1>4. QED
  BY <1>1, <1>2, <1>3

\* The close that ends keeps the types,
LEMMA FinishCloseType ==
  ASSUME TypeOK, FinishClose
  PROVE  TypeOK'
<1>1. queue' \in Seq(Entry) /\ s2c' \in Seq(Message) /\ c2s' \in Seq(Replying \cup Silent)
  BY EmptyType DEF FinishClose
<1>2. pc' \in Places /\ op' \in CallsAt[pc]' /\ left' \in 0 .. MaxFragments
  BY TopsAssumption DEF FinishClose, Return, Places, CallsAt
<1>3. QED
  BY <1>1, <1>2 DEF FinishClose, ResetErrors, Return, TypeOK, Flags, ProtocolStates, Statuses

\* and so does the open that fails.
LEMMA OpenFailsType ==
  ASSUME TypeOK, NEW s \in Statuses, OpenFails(s), queue' \in Seq(Entry)
  PROVE  TypeOK'
<1>1. s2c' \in Seq(Message) /\ c2s' \in Seq(Replying \cup Silent)
  BY EmptyType DEF OpenFails
<1>2. pc' \in Places /\ op' \in CallsAt[pc]' /\ left' \in 0 .. MaxFragments
  BY TopsAssumption DEF OpenFails, Return, Places, CallsAt
<1>3. QED
  BY <1>1, <1>2 DEF OpenFails, Return, TypeOK, Flags, ProtocolStates, history

\* TypeOK is inductive: every step of a call, of the server and of the network
\* keeps every variable in its set.
THEOREM TypeCorrect == Spec => []TypeOK
<1>1. Init => TypeOK
  BY TopsAssumption, EmptyType DEF Init, TypeOK, CallsAt, Flags, ProtocolStates, Statuses, Places
<1>2. TypeOK /\ [Next]_vars => TypeOK'
  <2> SUFFICES ASSUME TypeOK, [Next]_vars PROVE TypeOK'
    OBVIOUS
  <2> USE TopsAssumption
      DEF TypeOK, CallsAt, Flags, ProtocolStates, Statuses, Places, Calls, SilentCalls,
          TransferOps, Replying, Silent, Return, client, control, net, server, history
  <2>1. CASE Refuse
    BY <2>1 DEF Refuse
  <2>2. CASE TOPS_Open
    <3>1. queue' \in Seq(Entry)
      BY <2>2, EmptyType DEF TOPS_Open
    <3>2. CASE \E s \in {"COMMS_FATAL", "BAD_SERVER"} : OpenFails(s)
      BY <3>1, <3>2, OpenFailsType
    <3>3. QED
      BY <2>2, <3>1, <3>2, SMTT(30) DEF TOPS_Open, Enter
  <2>3. CASE OpenReply
    <3>1. CASE UNCHANGED queue /\ \E s \in Statuses : OpenFails(s)
      BY <3>1, OpenFailsType
    <3>2. QED
      BY <2>3, <3>1, SMTT(30) DEF OpenReply
  <2>4. CASE TOPS_Reset
    BY <2>4, WriteType DEF TOPS_Reset, SilentCommand
  <2>5. CASE TOPS_Analyse
    BY <2>5, WriteType DEF TOPS_Analyse, SilentCommand
  <2>6. CASE TOPS_ErrorDetect
    BY <2>6, WriteType DEF TOPS_ErrorDetect, SilentCommand, SetErrorMode
  <2>7. CASE TOPS_ErrorIgnore
    BY <2>7, WriteType DEF TOPS_ErrorIgnore, SilentCommand, SetErrorMode
  <2>8. CASE Transfer
    BY <2>8 DEF Transfer
  <2>9. CASE TOPS_CommsSynchronous
    BY <2>9, WriteType DEF TOPS_CommsSynchronous, Enter
  <2>10. CASE TOPS_CommsAsynchronous
    BY <2>10, WriteType DEF TOPS_CommsAsynchronous, Enter
  <2>11. CASE TOPS_SendReply
    BY <2>11, WriteType DEF TOPS_SendReply, Enter
  <2>12. CASE TOPS_GetRequest
    <3>1. PICK heartbeat \in Flags : TOPS_GetRequest!2!(heartbeat)
      BY <2>12 DEF TOPS_GetRequest
    <3>2. queue' \in Seq(Entry) /\ last' \in 0 .. MaxRequests
      BY <3>1, DequeueType DEF Dequeue
    <3>3. QED
      BY <2>12, <3>1, <3>2 DEF TOPS_GetRequest
  <2>13. CASE TOPS_Restart
    BY <2>13, WriteType DEF TOPS_Restart, Enter
  <2>14. CASE TOPS_Close
    <3>1. CASE FinishClose
      BY <3>1, FinishCloseType
    <3>2. CASE Write("Close") /\ Enter("wait", "Close")
      BY <2>14, <3>2, WriteType DEF TOPS_Close, Enter, Closing, FinishClose
    <3>3. QED
      BY <2>14, <3>1, <3>2, SMTT(30) DEF TOPS_Close
  <2>15. CASE SendFragment
    BY <2>15, WriteType DEF SendFragment, MoreToSend, Owing
  <2>16. CASE TransferDone
    BY <2>16 DEF TransferDone, Goto
  <2>17. CASE CheckError
    BY <2>17, WriteType DEF CheckError, Goto
  <2>18. CASE SyncReply
    BY <2>18, ReadType DEF SyncReply, ReplyStatuses, Goto, AwaitingSync
  <2>19. CASE SyncMessage
    BY <2>19, ReadType DEF SyncMessage, HandleMessage
  <2>20. CASE SyncPanic
    BY <2>20, ReadType DEF SyncPanic
  <2>21. CASE SyncReadFails
    BY <2>21 DEF SyncReadFails, ReadFails
  <2>22. CASE CommsSyncReply
    BY <2>22, ReadType DEF CommsSyncReply, AwaitingCommsSync, Goto
  <2>23. CASE CommsSyncErrorTransition
    BY <2>23, ReadType DEF CommsSyncErrorTransition, AwaitingCommsSync
  <2>24. CASE CommsSyncRequest
    BY <2>24, ReadType DEF CommsSyncRequest, AwaitingCommsSync
  <2>25. CASE CommsSyncMessage
    BY <2>25, ReadType DEF CommsSyncMessage, HandleMessage
  <2>26. CASE CommsSyncOther
    BY <2>26, ReadType DEF CommsSyncOther
  <2>27. CASE CommsSyncReadFails
    BY <2>27 DEF CommsSyncReadFails, ReadFails
  <2>28. CASE DrainEnds
    BY <2>28 DEF DrainEnds
  <2>29. CASE QueueRequest
    <3>1. MessageWaiting /\ Header.form \in {"good", "cut"}
      BY <2>29, HeaderType DEF QueueRequest, AwaitingAsync, Message
    <3>2. s2c' \in Seq(Message)
      BY <2>29, <3>1, ReadType DEF QueueRequest
    <3>3. queue' \in Seq(Entry)
      BY <2>29, <3>1, EnqueueType DEF QueueRequest
    <3>4. QED
      BY <2>29, <3>2, <3>3 DEF QueueRequest, Overflow
  <2>30. CASE DeliverRequest
    <3>1. s2c' \in Seq(Message)
      BY <2>30, ReadType DEF DeliverRequest, AwaitingAsync
    <3>2. Header.id \in 0 .. MaxRequests
      BY <2>30, HeaderType DEF DeliverRequest, AwaitingAsync, Message
    <3>3. QED
      BY <2>30, <3>1, <3>2, SMTT(30) DEF DeliverRequest
  <2>31. CASE BadRequest
    BY <2>31, ReadType DEF BadRequest, AwaitingAsync
  <2>32. CASE AsyncMessage
    BY <2>32, ReadType DEF AsyncMessage, HandleMessage, NotRequest
  <2>33. CASE AsyncErrorTransition
    BY <2>33, ReadType DEF AsyncErrorTransition, AwaitingAsync, NotRequest
  <2>34. CASE AsyncOther
    BY <2>34, ReadType DEF AsyncOther, NotRequest
  <2>35. CASE AsyncReadFails
    BY <2>35, ShortReadType DEF AsyncReadFails
  <2>36. CASE Heartbeat
    BY <2>36 DEF Heartbeat
  <2>37. CASE CloseEnds
    BY <2>37, FinishCloseType DEF CloseEnds
  <2>38. CASE RestartReply
    <3>1. s2c' \in Seq(Message)
      BY <2>38, ReadType DEF RestartReply
    <3>2. queue' \in Seq(Entry)
      BY <2>38, EmptyType DEF RestartReply
    <3>3. QED
      BY <2>38, <3>1, <3>2, SMTT(30) DEF RestartReply, ResetErrors
  <2>39. CASE RestartFails
    BY <2>39, ShortReadType DEF RestartFails
  <2>40. CASE WaitMessage
    BY <2>40, ReadType DEF WaitMessage, HandleMessage
  <2>41. CASE WaitDiscard
    BY <2>41, ReadType DEF WaitDiscard
  <2>42. CASE BreakHandler
    BY <2>42, ReadType, EnqueueType DEF BreakHandler
  <2>43. CASE SrvSilent
    BY <2>43 DEF SrvSilent, SrvReads
  <2>44. CASE SrvReply
    BY <2>44, PlainIsMessage, SendType DEF SrvReply, SrvReads
  <2>45. CASE SrvClose
    BY <2>45, PlainIsMessage, SendType, EmptyType DEF SrvClose, SrvEnds
  <2>46. CASE SrvRefuse
    BY <2>46, PlainIsMessage, SendType, EmptyType DEF SrvRefuse, SrvEnds, Events
  <2>47. CASE SrvKeepalive
    BY <2>47, PlainIsMessage, SendType DEF SrvKeepalive, SrvEvent, Events
  <2>48. CASE SrvFatal
    BY <2>48, PlainIsMessage, SendType, EmptyType DEF SrvFatal, SrvEnds, Events
  <2>49. CASE SrvRequest
    <3>1. sent' \in 0 .. MaxRequests
      BY <2>49 DEF SrvRequest
    <3>2. [tag |-> "Request", form |-> "good", id |-> sent'] \in Message
      BY <3>1 DEF Message, Events
    <3>3. Plain("Request", "bad") \in Message
      BY PlainIsMessage DEF Events
    <3>4. s2c' \in Seq(Message)
      BY <2>49, <3>2, <3>3, SendType DEF SrvRequest, SrvEvent
    <3>5. QED
      BY <2>49, <3>1, <3>4, SMTT(30) DEF SrvRequest, SrvEvent
  <2>50. CASE SrvErrorTransition
    BY <2>50, PlainIsMessage, SendType DEF SrvErrorTransition, SrvEvent, Events
  <2>51. CASE ConnectionLost
    <3>1. s2c' \in Seq(Message)
      BY <2>51, CutType
    <3>2. c2s' \in Seq(Replying \cup Silent)
      BY <2>51, EmptyType DEF ConnectionLost
    <3>3. QED
      BY <2>51, <3>1, <3>2, SMTT(30) DEF ConnectionLost
  <2>52. CASE UNCHANGED vars
    BY <2>52 DEF vars
  <2>53. QED
    BY <2>1, <2>2, <2>3, <2>4, <2>5, <2>6, <2>7, <2>8, <2>9, <2>10, <2>11,
       <2>12, <2>13, <2>14, <2>15, <2>16, <2>17, <2>18, <2>19, <2>20, <2>21,
       <2>22, <2>23, <2>24, <2>25, <2>26, <2>27, <2>28, <2>29, <2>30, <2>31,
       <2>32, <2>33, <2>34, <2>35, <2>36, <2>37, <2>38, <2>39, <2>40, <2>41,
       <2>42, <2>43, <2>44, <2>45, <2>46, <2>47, <2>48, <2>49, <2>50, <2>51,
       <2>52
       DEF Next, Call, Step, Environment, SrvCommand
<1>3. QED
  BY <1>1, <1>2, PTL DEF Spec

-----------------------------------------------------------------------------
(* The queue of requests.                                                  *)

\* All that a step can do to the queue: take its head, empty it, or, when it
\* is not full, add one entry.
LEMMA QueueStep ==
  ASSUME TypeOK, [Next]_vars
  PROVE  \/ queue' = queue
         \/ queue' = << >>
         \/ queue # << >> /\ queue' = Tail(queue)
         \/ ~QueueFull /\ \E e \in Entry : queue' = Append(queue, e)
<1> DEFINE Changed == \/ queue' = queue
                      \/ queue' = << >>
                      \/ queue # << >> /\ queue' = Tail(queue)
                      \/ ~QueueFull /\ \E e \in Entry : queue' = Append(queue, e)
<1>1. ASSUME MessageWaiting, ~QueueFull, NEW f \in {"good", "cut"}, Enqueue(f)
      PROVE  Changed
  <2>1. [id |-> Header.id, form |-> f] \in Entry
    BY <1>1, HeaderType DEF TypeOK, Message, Entry
  <2>2. QED
    BY <1>1, <2>1 DEF Enqueue
<1>2. CASE Call
  BY <1>2 DEF Call, Refuse, TOPS_Open, TOPS_Reset, TOPS_Analyse, TOPS_ErrorDetect,
              TOPS_ErrorIgnore, SilentCommand, Transfer, TOPS_CommsSynchronous,
              TOPS_CommsAsynchronous, TOPS_SendReply, TOPS_GetRequest, Dequeue,
              TOPS_Restart, TOPS_Close, FinishClose, client
<1>3. CASE QueueRequest
  <2>1. MessageWaiting /\ Header.form \in {"good", "cut"}
    BY <1>3, HeaderType DEF QueueRequest, AwaitingAsync, TypeOK, Message
  <2>2. queue' = queue \/ (~QueueFull /\ Enqueue(Header.form))
    BY <1>3 DEF QueueRequest
  <2>3. QED
    BY <1>1, <2>1, <2>2
<1>4. CASE Step /\ ~QueueRequest
  BY <1>4 DEF Step, OpenReply, OpenFails, SendFragment, TransferDone, CheckError,
              SyncReply, SyncMessage, SyncPanic, SyncReadFails, ReadFails, HandleMessage,
              CommsSyncReply, CommsSyncErrorTransition, CommsSyncRequest,
              CommsSyncMessage, CommsSyncOther, CommsSyncReadFails, DrainEnds,
              DeliverRequest, BadRequest, AsyncMessage, AsyncErrorTransition,
              AsyncOther, AsyncReadFails, Heartbeat, CloseEnds, FinishClose,
              RestartReply, RestartFails, WaitMessage, WaitDiscard, client
<1>5. CASE BreakHandler
  <2>1. queue' = queue \/ (MessageWaiting /\ ~QueueFull /\ Enqueue("cut"))
    BY <1>5 DEF BreakHandler
  <2>2. QED
    BY <1>1, <2>1
<1>6. CASE Environment \/ UNCHANGED vars
  BY <1>6 DEF Environment, SrvCommand, SrvSilent, SrvReply, SrvClose, SrvRefuse, SrvEnds,
              SrvKeepalive, SrvFatal, SrvRequest, SrvErrorTransition, SrvEvent,
              ConnectionLost, client, vars
<1>7. QED
  BY <1>2, <1>3, <1>4, <1>5, <1>6 DEF Next

\* Whatever calls drain the socket and in whichever order, the queue of
\* GetAsyncRequest holds at most buffer_depth + 1 requests: the comparison with
\* the limit guards every entry that is added.
THEOREM QueueIsBounded == Spec => []QueueBound
<1>1. Init => QueueBound
  BY TopsAssumption DEF Init, QueueBound
<1>2. TypeOK /\ QueueBound /\ [Next]_vars => QueueBound'
  <2> SUFFICES ASSUME TypeOK, QueueBound, [Next]_vars PROVE QueueBound'
    OBVIOUS
  <2> USE TopsAssumption DEF QueueBound
  <2>1. queue \in Seq(Entry)
    BY DEF TypeOK
  <2>2. CASE queue' = queue
    BY <2>2
  <2>3. CASE queue' = << >>
    BY <2>3
  <2>4. CASE queue # << >> /\ queue' = Tail(queue)
    BY <2>1, <2>4
  <2>5. CASE ~QueueFull /\ \E e \in Entry : queue' = Append(queue, e)
    BY <2>1, <2>5 DEF QueueFull
  <2>6. QED
    BY <2>2, <2>3, <2>4, <2>5, QueueStep
<1>3. QED
  BY <1>1, <1>2, TypeCorrect, PTL DEF Spec

-----------------------------------------------------------------------------
(* The two records of the state of the connection.                         *)

\* The loops that end in the state Synchronous without telling OPS_* so are
\* only entered when OPS_* is in synchronous mode already.
SyncLoops == pc \in {"send", "sync", "testerror", "check"} => commsmode = "sync"

\* OPScommsmode and TOPSprotocolstate never contradict each other, breaks and
\* failures included.  ModeAgreement alone is not inductive: a reply makes the
\* state Synchronous, and only SyncLoops says the mode is then sync.
THEOREM ModesAgree == Spec => []ModeAgreement
<1> DEFINE IInv == ModeAgreement /\ SyncLoops
<1>1. Init => IInv
  BY DEF Init, ModeAgreement, SyncLoops
<1>2. TypeOK /\ IInv /\ [Next]_vars => IInv'
  <2> SUFFICES ASSUME TypeOK, IInv, [Next]_vars PROVE IInv'
    OBVIOUS
  <2> USE DEF ModeAgreement, SyncLoops, client, Return, Enter, Goto
  <2>1. commsmode \in {"closed", "async", "sync"}
    BY DEF TypeOK
  <2>2. CASE TOPS_Open \/ OpenReply
    BY <2>1, <2>2 DEF TOPS_Open, OpenReply, OpenFails, Begin, Legal, LegalModes, OpenModes
  <2>3. CASE Refuse \/ TOPS_Reset \/ TOPS_Analyse \/ TOPS_ErrorDetect \/ TOPS_ErrorIgnore
    BY <2>3 DEF Refuse, TOPS_Reset, TOPS_Analyse, TOPS_ErrorDetect, TOPS_ErrorIgnore,
                SilentCommand
  <2>4. CASE Transfer
    BY <2>4, TopsAssumption
       DEF Transfer, Begin, Legal, LegalModes, TransferOps
  <2>5. CASE TOPS_CommsSynchronous
    BY <2>1, <2>5 DEF TOPS_CommsSynchronous, Begin, Legal, LegalModes, LegalStates
  <2>6. CASE TOPS_CommsAsynchronous
    BY <2>6 DEF TOPS_CommsAsynchronous
  <2>7. CASE TOPS_SendReply \/ TOPS_GetRequest
    BY <2>7 DEF TOPS_SendReply, TOPS_GetRequest
  <2>8. CASE TOPS_Restart
    BY <2>1, <2>8 DEF TOPS_Restart, Begin, Legal, LegalModes
  <2>9. CASE TOPS_Close \/ CloseEnds
    <3>1. CASE FinishClose
      BY <3>1 DEF FinishClose
    <3>2. CASE UNCHANGED <<proto, commsmode>> /\ pc' = "idle"
      BY <3>2
    <3>3. CASE /\ commsmode # "closed" /\ proto \in DOMAIN Closing
               /\ proto' = Closing[proto] /\ pc' = "wait" /\ UNCHANGED commsmode
      <4>1. DOMAIN Closing = {"Synchronous", "SynchronousReply", "Asynchronous",
                              "CancelAsynchronous", "Restarting"}
        BY DEF Closing
      <4>2. CASE commsmode = "sync"
        BY <3>3, <4>1, <4>2 DEF Closing
      <4>3. CASE commsmode = "async"
        BY <3>3, <4>1, <4>3 DEF Closing
      <4>4. QED
        BY <2>1, <3>3, <4>2, <4>3
    <3>4. QED
      BY <2>9, <3>1, <3>2, <3>3 DEF TOPS_Close, CloseEnds
  <2>10. CASE SendFragment \/ TransferDone \/ CheckError
    BY <2>10 DEF SendFragment, Owing, TransferDone, CheckError
  <2>11. CASE SyncReply \/ SyncPanic \/ SyncReadFails
    BY <2>11 DEF SyncReply, SyncPanic, SyncReadFails, ReadFails, AwaitingSync
  <2>12. CASE SyncMessage \/ CommsSyncMessage \/ AsyncMessage \/ WaitMessage
    BY <2>1, <2>12 DEF SyncMessage, CommsSyncMessage, AsyncMessage, WaitMessage,
                       HandleMessage, NotRequest, control
  <2>13. CASE CommsSyncReply \/ CommsSyncErrorTransition
    BY <2>13 DEF CommsSyncReply, CommsSyncErrorTransition, AwaitingCommsSync, control
  <2>14. CASE CommsSyncRequest \/ CommsSyncOther \/ CommsSyncReadFails
    BY <2>14 DEF CommsSyncRequest, CommsSyncOther, CommsSyncReadFails, ReadFails, control
  <2>15. CASE DrainEnds \/ QueueRequest \/ DeliverRequest \/ BadRequest
    BY <2>15 DEF DrainEnds, QueueRequest, DeliverRequest, BadRequest, control
  <2>16. CASE AsyncErrorTransition \/ AsyncOther \/ AsyncReadFails \/ Heartbeat
    BY <2>16 DEF AsyncErrorTransition, AsyncOther, AsyncReadFails, Heartbeat, NotRequest,
                 control
  <2>17. CASE RestartReply
    BY <2>17 DEF RestartReply
  <2>18. CASE RestartFails \/ WaitDiscard
    BY <2>18 DEF RestartFails, WaitDiscard, control
  <2>19. CASE BreakHandler
    BY <2>19 DEF BreakHandler
  <2>20. CASE Environment \/ UNCHANGED vars
    BY <2>20 DEF Environment, SrvCommand, SrvSilent, SrvReply, SrvClose, SrvRefuse,
                 SrvEnds, SrvKeepalive, SrvFatal, SrvRequest, SrvErrorTransition,
                 SrvEvent, ConnectionLost, control, vars
  <2>21. QED
    BY <2>2, <2>3, <2>4, <2>5, <2>6, <2>7, <2>8, <2>9, <2>10, <2>11, <2>12,
       <2>13, <2>14, <2>15, <2>16, <2>17, <2>18, <2>19, <2>20
       DEF Next, Call, Step
<1>3. QED
  BY <1>1, <1>2, TypeCorrect, PTL DEF Spec

\* What is left of a connection while the mode is closed: nothing, but for the
\* socket and the state of an OPS_Open that is under way.
NothingLeft ==
  commsmode = "closed" =>
    /\ pc \in {"idle", "open"}
    /\ queue = << >> /\ errordetect = "off"
    /\ pc = "idle" => proto = "Closed" /\ conn = "none"

\* As long as no call is interrupted, a client that is closed, because it never
\* opened, failed to open or was closed, can be opened again and has nothing
\* left of an old connection.  ClosedIsClean says nothing of the calls that are
\* running; NothingLeft says that of them only OPS_Open runs in closed mode, and
\* that it keeps what a failing OPS_Open must find clean.
THEOREM ClosesCleanly == CanBreak = FALSE /\ Spec => []ClosedIsClean
<1> SUFFICES ASSUME CanBreak = FALSE PROVE Spec => []ClosedIsClean
  OBVIOUS
<1> DEFINE IInv == NothingLeft /\ pc # "interrupted"
<1>1. Init => IInv
  BY DEF Init, NothingLeft
<1>2. TypeOK /\ IInv /\ [Next]_vars => IInv'
  <2> SUFFICES ASSUME TypeOK, IInv, [Next]_vars PROVE IInv'
    OBVIOUS
  <2> USE DEF NothingLeft, client, net, Return, Enter, Goto
  <2>1. commsmode \in {"closed", "async", "sync"}
    BY DEF TypeOK
  <2>2. CASE TOPS_Open \/ OpenReply
    BY <2>2 DEF TOPS_Open, OpenReply, OpenFails, Begin, Legal, LegalModes, OpenModes
  <2>3. CASE Refuse
    BY <2>3 DEF Refuse, MayCall
  <2>4. CASE TOPS_Reset \/ TOPS_Analyse \/ TOPS_ErrorDetect \/ TOPS_ErrorIgnore
    BY <2>4 DEF TOPS_Reset, TOPS_Analyse, TOPS_ErrorDetect, TOPS_ErrorIgnore,
                SilentCommand, Begin, Legal, LegalModes
  <2>5. CASE Transfer
    BY <2>5, TopsAssumption DEF Transfer, Begin, Legal, LegalModes, TransferOps
  <2>6. CASE TOPS_CommsSynchronous \/ TOPS_CommsAsynchronous
    BY <2>6 DEF TOPS_CommsSynchronous, TOPS_CommsAsynchronous, Begin, Legal, LegalModes
  <2>7. CASE TOPS_SendReply \/ TOPS_GetRequest \/ TOPS_Restart
    BY <2>7 DEF TOPS_SendReply, TOPS_GetRequest, TOPS_Restart, Begin, Legal, LegalModes
  <2>8. CASE TOPS_Close \/ CloseEnds
    BY <2>8 DEF TOPS_Close, CloseEnds, FinishClose, ResetErrors, MayCall
  <2>9. CASE SendFragment \/ TransferDone \/ CheckError
    BY <2>9 DEF SendFragment, TransferDone, CheckError
  <2>10. CASE SyncReply \/ SyncPanic \/ SyncReadFails
    BY <2>10 DEF SyncReply, SyncPanic, SyncReadFails, ReadFails, AwaitingSync
  <2>11. CASE SyncMessage \/ CommsSyncMessage \/ AsyncMessage \/ WaitMessage
    BY <2>11 DEF SyncMessage, CommsSyncMessage, AsyncMessage, WaitMessage,
                 HandleMessage, AwaitingSync, MayRead, NotRequest, control
  <2>12. CASE CommsSyncReply \/ CommsSyncErrorTransition
    BY <2>12 DEF CommsSyncReply, CommsSyncErrorTransition, AwaitingCommsSync, control
  <2>13. CASE CommsSyncRequest \/ CommsSyncOther \/ CommsSyncReadFails
    BY <2>13 DEF CommsSyncRequest, CommsSyncOther, CommsSyncReadFails, ReadFails,
                 AwaitingCommsSync, control
  <2>14. CASE DrainEnds \/ QueueRequest \/ DeliverRequest \/ BadRequest
    BY <2>14 DEF DrainEnds, QueueRequest, DeliverRequest, BadRequest, Draining,
                 AwaitingAsync, MayRead, control
  <2>15. CASE AsyncErrorTransition \/ AsyncOther \/ AsyncReadFails \/ Heartbeat
    BY <2>15 DEF AsyncErrorTransition, AsyncOther, AsyncReadFails, Heartbeat, NotRequest,
                 AwaitingAsync, MayRead, Getting, control
  <2>16. CASE RestartReply \/ RestartFails \/ WaitDiscard
    BY <2>16 DEF RestartReply, RestartFails, WaitDiscard, control
  <2>17. CASE BreakHandler
    BY <2>17 DEF BreakHandler
  <2>18. CASE Environment \/ UNCHANGED vars
    BY <2>18 DEF Environment, SrvCommand, SrvSilent, SrvReply, SrvClose, SrvRefuse,
                 SrvReads, SrvEnds, SrvKeepalive, SrvFatal, SrvRequest,
                 SrvErrorTransition, SrvCanSend, SrvEvent, ConnectionLost, control, vars
  <2>19. QED
    BY <2>2, <2>3, <2>4, <2>5, <2>6, <2>7, <2>8, <2>9, <2>10, <2>11, <2>12,
       <2>13, <2>14, <2>15, <2>16, <2>17, <2>18
       DEF Next, Call, Step
<1>3. IInv => ClosedIsClean
  BY DEF NothingLeft, ClosedIsClean
<1>4. QED
  BY <1>1, <1>2, <1>3, TypeCorrect, PTL DEF Spec

-----------------------------------------------------------------------------
(***************************************************************************)
(* The invariant of the pipeline.  There is one lemma for each part of it. *)
(* Each first says which actions can disturb the part, by a lemma on who   *)
(* sends what (PendingStep, CommandStep) or who enters a loop              *)
(* (AwaitingSteps, StreamingSteps, CancellingSteps, DetectSteps), and then *)
(* takes those one by one; the server and the network take one of the five *)
(* kinds of step of EnvironmentStep.                                       *)
(***************************************************************************)

\* The steps of the two streams, member by member: the head of s2c is read,
Popped ==
  /\ Len(s2c) > 0 /\ Len(s2c') = Len(s2c) - 1
  /\ \A i \in 1 .. Len(s2c') : s2c'[i] = s2c[i + 1]
  /\ \A i \in 2 .. Len(s2c) : s2c[i] = s2c'[i - 1]

\* its header is, but not its body,
Junked ==
  /\ Len(s2c) > 0 /\ Len(s2c') = Len(s2c)
  /\ s2c'[1] = Junk
  /\ \A i \in 2 .. Len(s2c) : s2c'[i] = s2c[i]

\* a message is added,
Grown(m) ==
  /\ Len(s2c') = Len(s2c) + 1
  /\ \A i \in 1 .. Len(s2c) : s2c'[i] = s2c[i]
  /\ \A i \in 1 .. Len(s2c') : \/ i \in 1 .. Len(s2c) /\ s2c'[i] = s2c[i]
                               \/ i = Len(s2c') /\ s2c'[i] = m

\* the end is lost, and perhaps the body of the last message that is left;
Shortened ==
  /\ Len(s2c') <= Len(s2c)
  /\ \A i \in 1 .. Len(s2c') :
       /\ s2c'[i].tag = s2c[i].tag /\ s2c'[i].id = s2c[i].id
       /\ \/ s2c'[i].form = s2c[i].form
          \/ /\ i = Len(s2c') /\ s2c'[i].form = "cut"
             /\ s2c[i].tag = "Request" => s2c[i].form = "good"

\* the head of c2s is read by the server,
Taken ==
  /\ Len(c2s) > 0 /\ Len(c2s') = Len(c2s) - 1
  /\ \A i \in 1 .. Len(c2s') : c2s'[i] = c2s[i + 1]
  /\ \A i \in 2 .. Len(c2s) : c2s[i] = c2s'[i - 1]

\* a command is added, if the peer is still there.
Written(cmd) ==
  \/ /\ conn = "up"
     /\ Len(c2s') = Len(c2s) + 1
     /\ \A i \in 1 .. Len(c2s) : c2s'[i] = c2s[i]
     /\ \A i \in 1 .. Len(c2s') : \/ i \in 1 .. Len(c2s) /\ c2s'[i] = c2s[i]
                                  \/ i = Len(c2s') /\ c2s'[i] = cmd
     /\ c2s'[Len(c2s')] = cmd
  \/ conn = "down" /\ c2s' = c2s

\* The sequence operators, member by member.
LEMMA TailShape ==
  ASSUME NEW S, NEW s \in Seq(S), s # << >>
  PROVE  /\ Len(s) > 0 /\ Len(Tail(s)) = Len(s) - 1
         /\ \A i \in 1 .. Len(s) - 1 : Tail(s)[i] = s[i + 1]
         /\ Head(s) = s[1]
         /\ Tail(s) \in Seq(S)
OBVIOUS

\* A member is added at the end.
LEMMA AppendShape ==
  ASSUME NEW S, NEW s \in Seq(S), NEW e \in S
  PROVE  /\ Len(Append(s, e)) = Len(s) + 1
         /\ \A i \in 1 .. Len(s) : Append(s, e)[i] = s[i]
         /\ Append(s, e)[Len(s) + 1] = e
OBVIOUS

\* The body of the head takes its place.
LEMMA JunkShape ==
  ASSUME s2c \in Seq(Message), s2c # << >>, s2c' = <<Junk>> \o Tail(s2c)
  PROVE  Junked
<1>1. Junk \in Message
  BY PlainIsMessage DEF Junk
<1> DEFINE t == Tail(s2c)
<1>2. /\ t \in Seq(Message) /\ Len(t) = Len(s2c) - 1 /\ Len(s2c) > 0
      /\ \A i \in 1 .. Len(s2c) - 1 : t[i] = s2c[i + 1]
  BY TailShape
<1> HIDE DEF t
<1>3. s2c' = <<Junk>> \o t
  BY DEF t
<1>4. Len(s2c') = Len(s2c) /\ s2c'[1] = Junk
  BY <1>1, <1>2, <1>3
<1>5. ASSUME NEW i \in 2 .. Len(s2c) PROVE s2c'[i] = s2c[i]
  <2>1. s2c'[i] = t[i - 1]
    BY <1>1, <1>2, <1>3
  <2>2. QED
    BY <1>2, <2>1
<1>6. QED
  BY <1>2, <1>4, <1>5 DEF Junked

\* What reading does to the stream.
LEMMA ReadShape ==
  ASSUME TypeOK
  PROVE  /\ MessageWaiting => Len(s2c) > 0 /\ Header = s2c[1]
         /\ MessageWaiting /\ ReadAll => Popped
         /\ MessageWaiting /\ ReadHeaderOnly =>
              IF Header.tag \in HasBody THEN Junked ELSE Popped
         /\ ShortRead => MessageWaiting /\ Junked
<1>1. s2c \in Seq(Message)
  BY DEF TypeOK
<1>2. ASSUME s2c # << >>, s2c' = Tail(s2c) PROVE Popped
  BY <1>1, <1>2, TailShape DEF Popped
<1>3. MessageWaiting => Len(s2c) > 0 /\ Header = s2c[1]
  BY <1>1, TailShape DEF MessageWaiting, Header
<1>4. QED
  BY <1>1, <1>2, <1>3, JunkShape DEF MessageWaiting, ReadAll, ReadHeaderOnly, ShortRead

\* What writing does to the commands.
LEMMA WriteShape ==
  ASSUME TypeOK, NEW cmd \in Replying \cup Silent
  PROVE  /\ Write(cmd) => Written(cmd)
         /\ WriteFails => conn = "down" /\ c2s' = c2s
<1>1. c2s \in Seq(Replying \cup Silent)
  BY DEF TypeOK
<1>2. QED
  BY <1>1, AppendShape DEF Write, WriteFails, Written

\* What the server's reading does to the commands.
LEMMA TakeShape ==
  ASSUME TypeOK, c2s # << >>
  PROVE  /\ Len(c2s) > 0 /\ Head(c2s) = c2s[1]
         /\ c2s' = Tail(c2s) => Taken
<1>1. c2s \in Seq(Replying \cup Silent)
  BY DEF TypeOK
<1>2. QED
  BY <1>1, TailShape DEF Taken

\* What a message of the server does to the stream.
LEMMA SendShape ==
  ASSUME TypeOK, NEW m \in Message, s2c' = Append(s2c, m)
  PROVE  Grown(m)
BY AppendShape DEF TypeOK, Grown

\* What the loss of the connection does to the stream.
LEMMA LossShape ==
  ASSUME TypeOK, ConnectionLost
  PROVE  Shortened
<1>1. s2c \in Seq(Message)
  BY DEF TypeOK
<1>2. PICK n \in 0 .. Len(s2c) :
       \/ s2c' = SubSeq(s2c, 1, n)
       \/ /\ n > 0 
          /\ s2c[n].tag = "Request" => s2c[n].form = "good"
          /\ s2c' = [SubSeq(s2c, 1, n) EXCEPT ![n].form = "cut"]
  BY DEF ConnectionLost
<1> DEFINE p == SubSeq(s2c, 1, n)
<1>3. p \in Seq(Message) /\ Len(p) = n /\ \A i \in 1 .. n : p[i] = s2c[i]
  BY <1>1, PrefixType
<1>4. CASE s2c' = p
  BY <1>1, <1>3, <1>4 DEF Shortened
<1>5. CASE /\ n > 0 
           /\ s2c[n].tag = "Request" => s2c[n].form = "good"
           /\ s2c' = [p EXCEPT ![n].form = "cut"]
  <2>1. /\ p[n] \in Message /\ DOMAIN p = 1 .. n
        /\ p[n] = s2c[n]
    BY <1>3, <1>5
  <2> HIDE DEF p
  <2>2. /\ DOMAIN s2c' = 1 .. n
        /\ \A i \in 1 .. n : i # n => s2c'[i] = p[i]
        /\ s2c'[n] = [p[n] EXCEPT !.form = "cut"]
    BY <1>5, <2>1
  <2>3. s2c'[n].tag = p[n].tag /\ s2c'[n].id = p[n].id /\ s2c'[n].form = "cut"
    BY <2>1, <2>2 DEF Message
  <2>4. Len(s2c') = n
    <3>1. s2c' \in Seq(Message)
      BY <1>1, CutType
    <3>2. QED
      BY <1>1, <2>2, <3>1
  <2>5. QED
    BY <1>1, <1>3, <1>5, <2>1, <2>2, <2>3, <2>4 DEF Shortened
<1>6. QED
  BY <1>2, <1>4, <1>5

\* What a call that is accepted found.
LEMMA Accepted ==
  /\ Begin("Open") => pc = "idle" /\ commsmode = "closed" /\ proto = "Closed"
  /\ Begin("GetRequest") \/ Begin("SendReply") =>
       pc = "idle" /\ commsmode = "async" /\ proto = "Asynchronous"
  /\ Begin("CommsAsynchronous") \/ Begin("CommsSynchronous") =>
       pc = "idle" /\ commsmode \in {"async", "sync"} /\ proto \in {"Synchronous", "Asynchronous"}
  /\ Begin("Restart") =>
       pc \in {"idle", "interrupted"} /\ commsmode \in {"async", "sync"} /\ proto \in Live
  /\ \A call \in TransferOps \cup SilentCalls : Begin(call) =>
       pc = "idle" /\ commsmode = "sync" /\ proto = "Synchronous"
<1> USE DEF Begin, MayCall, Legal, OpenModes, Live
<1>1. Begin("Open") => pc = "idle" /\ commsmode = "closed" /\ proto = "Closed"
  BY DEF LegalModes, LegalStates
<1>2. Begin("GetRequest") \/ Begin("SendReply") =>
       pc = "idle" /\ commsmode = "async" /\ proto = "Asynchronous"
  BY DEF LegalModes, LegalStates
<1>3. Begin("CommsAsynchronous") \/ Begin("CommsSynchronous") =>
       pc = "idle" /\ commsmode \in {"async", "sync"} /\ proto \in {"Synchronous", "Asynchronous"}
  BY DEF LegalModes, LegalStates
<1>4. Begin("Restart") =>
       pc \in {"idle", "interrupted"} /\ commsmode \in {"async", "sync"} /\ proto \in Live
  BY DEF LegalModes, LegalStates
<1>5. ASSUME NEW call \in TransferOps \cup SilentCalls, Begin(call)
      PROVE  pc = "idle" /\ commsmode = "sync" /\ proto = "Synchronous"
  <2>1. call \notin {"Open", "GetRequest", "SendReply", "Restart", "CommsAsynchronous",
                    "CommsSynchronous", "Close"}
    BY DEF TransferOps, SilentCalls
  <2>2. LegalModes(call) = {"sync"}
    BY <2>1 DEF LegalModes
  <2>3. LegalStates(call) = {"Synchronous"}
    BY <2>1 DEF LegalStates
  <2>4. QED
    BY <1>5, <2>1, <2>2, <2>3
<1>6. QED
  BY <1>1, <1>2, <1>3, <1>4, <1>5

\* Every step enters a loop in the protocol state that belongs to it.
LEMMA StatesStep ==
  ASSUME TypeOK, StatesAt, [Next]_vars
  PROVE  StatesAt'
<1> USE DEF StatesAt, client, Return, Enter, Goto, ClosingStates
<1>1. CASE Call
  <2> USE Accepted, TopsAssumption DEF Live, TransferOps, SilentCalls
  <2>1. CASE TOPS_Open \/ Refuse
    BY <2>1 DEF TOPS_Open, Refuse, OpenFails
  <2>2. CASE TOPS_Reset \/ TOPS_Analyse \/ TOPS_ErrorDetect \/ TOPS_ErrorIgnore
    BY <2>2 DEF TOPS_Reset, TOPS_Analyse, TOPS_ErrorDetect, TOPS_ErrorIgnore, SilentCommand
  <2>3. CASE Transfer
    BY <2>3 DEF Transfer
  <2>4. CASE TOPS_CommsSynchronous \/ TOPS_CommsAsynchronous
    BY <2>4 DEF TOPS_CommsSynchronous, TOPS_CommsAsynchronous
  <2>5. CASE TOPS_SendReply \/ TOPS_GetRequest
    BY <2>5 DEF TOPS_SendReply, TOPS_GetRequest
  <2>6. CASE TOPS_Restart \/ TOPS_Close
    BY <2>6 DEF TOPS_Restart, TOPS_Close, FinishClose, Closing
  <2>7. QED
    BY <1>1, <2>1, <2>2, <2>3, <2>4, <2>5, <2>6 DEF Call
<1>2. CASE Step
  <2>1. CASE OpenReply \/ SendFragment \/ TransferDone \/ CheckError
    BY <2>1 DEF OpenReply, OpenFails, SendFragment, Owing, TransferDone, CheckError
  <2>2. CASE SyncReply \/ SyncPanic \/ SyncReadFails
    BY <2>2 DEF SyncReply, SyncPanic, SyncReadFails, ReadFails, AwaitingSync
  <2>3. CASE SyncMessage \/ CommsSyncMessage \/ AsyncMessage \/ WaitMessage
    BY <2>3 DEF SyncMessage, CommsSyncMessage, AsyncMessage, WaitMessage, AwaitingSync,
                HandleMessage, MessageFails, NotRequest, control
  <2>4. CASE CommsSyncReply \/ CommsSyncErrorTransition
    BY <2>4 DEF CommsSyncReply, CommsSyncErrorTransition, AwaitingCommsSync, control
  <2>5. CASE CommsSyncRequest \/ CommsSyncOther \/ CommsSyncReadFails
    BY <2>5 DEF CommsSyncRequest, CommsSyncOther, CommsSyncReadFails, ReadFails, control
  <2>6. CASE DrainEnds \/ QueueRequest \/ DeliverRequest \/ BadRequest
    BY <2>6 DEF DrainEnds, QueueRequest, DeliverRequest, BadRequest, control
  <2>7. CASE AsyncErrorTransition \/ AsyncOther \/ AsyncReadFails \/ Heartbeat
    BY <2>7 DEF AsyncErrorTransition, AsyncOther, AsyncReadFails, Heartbeat, NotRequest,
                control
  <2>8. CASE CloseEnds \/ RestartReply \/ RestartFails \/ WaitDiscard
    BY <2>8 DEF CloseEnds, FinishClose, RestartReply, RestartFails, WaitDiscard, control
  <2>9. QED
    BY <1>2, <2>1, <2>2, <2>3, <2>4, <2>5, <2>6, <2>7, <2>8 DEF Step
<1>3. CASE BreakHandler
  BY <1>3 DEF BreakHandler
<1>4. CASE Environment \/ UNCHANGED vars
  BY <1>4 DEF Environment, SrvCommand, SrvSilent, SrvReply, SrvClose, SrvRefuse, SrvEnds,
              SrvKeepalive, SrvFatal, SrvRequest, SrvErrorTransition, SrvEvent,
              ConnectionLost, control, vars
<1>5. QED
  BY <1>1, <1>2, <1>3, <1>4 DEF Next

\* Opening, closing and losing a connection leave nothing in flight.
LEMMA WiresStep ==
  ASSUME TypeOK, StatesAt, Wires, [Next]_vars
  PROVE  Wires'
<1> USE DEF Wires, StatesAt, client, net, server, Return, Enter, Goto
<1>0. /\ commsmode \in {"closed", "async", "sync"} /\ conn \in {"none", "up", "down"}
      /\ MessageWaiting <=> s2c # << >>
  BY DEF TypeOK, MessageWaiting
<1>1. CASE Call
  <2> USE Accepted DEF Live, TransferOps, SilentCalls, Write, WriteFails
  <2>1. CASE TOPS_Open \/ Refuse
    BY <1>0, <2>1 DEF TOPS_Open, Refuse, OpenFails, OpenModes, MayCall
  <2>2. CASE TOPS_Reset \/ TOPS_Analyse \/ TOPS_ErrorDetect \/ TOPS_ErrorIgnore
    BY <1>0, <2>2 DEF TOPS_Reset, TOPS_Analyse, TOPS_ErrorDetect, TOPS_ErrorIgnore, SilentCommand,
      SetErrorMode
  <2>3. CASE Transfer
    BY <1>0, <2>3, TopsAssumption DEF Transfer, TransferOps
  <2>4. CASE TOPS_CommsSynchronous \/ TOPS_CommsAsynchronous
    BY <1>0, <2>4 DEF TOPS_CommsSynchronous, TOPS_CommsAsynchronous
  <2>5. CASE TOPS_SendReply \/ TOPS_GetRequest
    BY <1>0, <2>5 DEF TOPS_SendReply, TOPS_GetRequest
  <2>6. CASE TOPS_Restart \/ TOPS_Close
    BY <1>0, <2>6 DEF TOPS_Restart, TOPS_Close, FinishClose, Closing, ResetErrors, MayCall
  <2>7. QED
    BY <1>1, <2>1, <2>2, <2>3, <2>4, <2>5, <2>6 DEF Call
<1>2. CASE Step
  <2> USE DEF Write, WriteFails
  <2>1. CASE OpenReply \/ SendFragment \/ TransferDone \/ CheckError
    BY <1>0, <2>1 DEF OpenReply, OpenFails, SendFragment, Owing, TransferDone, CheckError
  <2>2. CASE SyncReply \/ SyncPanic \/ SyncReadFails
    BY <1>0, <2>2 DEF SyncReply, SyncPanic, SyncReadFails, ReadFails, AwaitingSync
  <2>3. CASE SyncMessage \/ CommsSyncMessage \/ AsyncMessage \/ WaitMessage
    BY <1>0, <2>3 DEF SyncMessage, CommsSyncMessage, AsyncMessage, WaitMessage, AwaitingSync,
                HandleMessage, MessageFails, NotRequest, control
  <2>4. CASE CommsSyncReply \/ CommsSyncErrorTransition
    BY <1>0, <2>4 DEF CommsSyncReply, CommsSyncErrorTransition, AwaitingCommsSync, control
  <2>5. CASE CommsSyncRequest \/ CommsSyncOther \/ CommsSyncReadFails
    BY <1>0, <2>5 DEF CommsSyncRequest, CommsSyncOther, CommsSyncReadFails, ReadFails, control,
      AwaitingCommsSync
  <2>6. CASE DrainEnds \/ QueueRequest \/ DeliverRequest \/ BadRequest
    BY <1>0, <2>6 DEF DrainEnds, QueueRequest, DeliverRequest, BadRequest, control, Draining,
      AwaitingAsync, MayRead
  <2>7. CASE AsyncErrorTransition \/ AsyncOther \/ AsyncReadFails \/ Heartbeat
    BY <1>0, <2>7 DEF AsyncErrorTransition, AsyncOther, AsyncReadFails, Heartbeat, NotRequest,
                control, AwaitingAsync, MayRead, Getting, ShortRead
  <2>8. CASE CloseEnds \/ RestartReply \/ RestartFails \/ WaitDiscard
    BY <1>0, <2>8 DEF CloseEnds, FinishClose, RestartReply, RestartFails, WaitDiscard, control, ResetErrors,
      ShortRead
  <2>9. QED
    BY <1>2, <2>1, <2>2, <2>3, <2>4, <2>5, <2>6, <2>7, <2>8 DEF Step
<1>3. CASE BreakHandler
  BY <1>0, <1>3 DEF BreakHandler
<1>4. CASE Environment \/ UNCHANGED vars
  BY <1>0, <1>4 DEF Environment, SrvCommand, SrvSilent, SrvReply, SrvClose, SrvRefuse, SrvEnds,
              SrvKeepalive, SrvFatal, SrvRequest, SrvErrorTransition, SrvEvent,
              ConnectionLost, control, vars, SrvReads, SrvCanSend, SrvAccepts
<1>5. QED
  BY <1>1, <1>2, <1>3, <1>4 DEF Next

\* A message the server ends a connection with.
Fatal(m) == m.tag = "Message" /\ m.form = "bad"

\* The steps of the server and of the network.
Takes ==
  /\ conn = "up" /\ conn' = "up" /\ Taken /\ s2c' = s2c
  /\ c2s[1] \in Silent
  /\ srv' = IF c2s[1] = "CommsAsynchronous" THEN "async" ELSE srv
  /\ srvdetect' = IF c2s[1] = "ErrorDetect" THEN "on"
                  ELSE IF c2s[1] = "ErrorIgnore" THEN "off" ELSE srvdetect

\* it answers a command,
Replies ==
  /\ conn = "up" /\ conn' = "up" /\ Taken
  /\ c2s[1] \in Replying \ {"Close"}
  /\ \E m \in Message :
       /\ Grown(m) /\ m.tag = c2s[1] /\ m.form # "cut"
       /\ IF m.form = "good" /\ c2s[1] \in {"CommsSynchronous", "Restart"}
            THEN srv' = "sync" ELSE srv' = srv
       /\ IF m.form = "good" /\ c2s[1] = "Restart"
            THEN srvdetect' = "off" ELSE srvdetect' = srvdetect

\* it sends an event,
Signals ==
  /\ conn = "up" /\ conn' = "up" /\ c2s' = c2s /\ srv' = srv /\ srvdetect' = srvdetect
  /\ \E m \in Message :
       /\ Grown(m) /\ m.tag \in Events /\ m.form # "cut" /\ ~Fatal(m)
       /\ m.tag # "Message" => srv = "async"
       /\ m.tag = "ErrorTransition" => srvdetect = "on"

\* it ends the connection,
Ends ==
  /\ conn = "up" /\ conn' = "down" /\ c2s' = << >> /\ srv' = "off" /\ srvdetect' = "off"
  /\ \E m \in Message :
       /\ Grown(m) /\ m.form # "cut"
       /\ \/ m.tag = "Message"
          \/ m.tag = "Close" /\ Len(c2s) > 0 /\ c2s[1] = "Close"

\* or the connection is lost.
Loses ==
  /\ conn = "up" /\ conn' = "down" /\ c2s' = << >> /\ srv' = "off" /\ srvdetect' = "off"
  /\ Shortened

\* The messages that hold no request.
LEMMA PlainFields ==
  ASSUME NEW t \in Events \cup Replying, NEW f \in {"good", "bad"}
  PROVE  /\ Plain(t, f) \in Message /\ Plain(t, f).tag = t /\ Plain(t, f).form = f
         /\ Plain(t, f).id = 0
BY PlainIsMessage DEF Plain

\* The server and the network take these five kinds of step and no other.
LEMMA EnvironmentStep ==
  ASSUME TypeOK, Environment
  PROVE  /\ Takes \/ Replies \/ Signals \/ Ends \/ Loses
         /\ UNCHANGED <<client, control, early, last>>
<1> USE DEF client, control, history, server
<1>1. CASE SrvSilent
  <2>1. srvdetect' = IF c2s[1] = "ErrorDetect" THEN "on"
                     ELSE IF c2s[1] = "ErrorIgnore" THEN "off" ELSE srvdetect
    <3>1. Head(c2s) = c2s[1]
      BY <1>1, TakeShape DEF SrvSilent, SrvReads
    <3>2. srvdetect' = CASE c2s[1] = "ErrorDetect" -> "on"
                         [] c2s[1] = "ErrorIgnore" -> "off"
                         [] OTHER -> srvdetect
      BY <1>1, <3>1 DEF SrvSilent
    <3> HIDE DEF server
    <3>3. QED
      BY <3>2
  <2>2. QED
    BY <1>1, <2>1, TakeShape DEF SrvSilent, SrvReads, Takes
<1>2. CASE SrvReply
  <2>1. PICK f \in {"good", "bad"} :
          /\ s2c' = Append(s2c, Plain(Head(c2s), f))
          /\ srv' = IF f = "good" /\ Head(c2s) \in {"CommsSynchronous", "Restart"}
                   THEN "sync" ELSE srv
          /\ srvdetect' = IF f = "good" /\ Head(c2s) = "Restart"
                         THEN "off" ELSE srvdetect
    BY <1>2 DEF SrvReply
  <2>2. Head(c2s) = c2s[1] /\ Taken
    BY <1>2, TakeShape DEF SrvReply, SrvReads
  <2> DEFINE m == Plain(c2s[1], f)
  <2>3. m \in Message /\ m.tag = c2s[1] /\ m.form = f
    BY <1>2, <2>2, PlainFields DEF SrvReply
  <2>4. Grown(m)
    BY <2>1, <2>2, <2>3, SendShape
  <2> HIDE DEF m
  <2>5. QED
    BY <1>2, <2>1, <2>2, <2>3, <2>4 DEF SrvReply, SrvReads, Replies
<1>3. ASSUME NEW m \in Message, SrvEnds(m), conn = "up", m.form # "cut",
             m.tag = "Message" \/ (m.tag = "Close" /\ Len(c2s) > 0 /\ c2s[1] = "Close")
      PROVE  Ends
  BY <1>3, SendShape DEF SrvEnds, Ends
<1>4. CASE SrvClose
  <2>1. Len(c2s) > 0 /\ c2s[1] = "Close" /\ conn = "up" /\ SrvEnds(Plain("Close", "good"))
    BY <1>4, TakeShape DEF SrvClose, SrvReads
  <2>2. Ends
    BY <1>3, <2>1, PlainFields DEF Replying
  <2>3. QED
    BY <1>4, <2>2 DEF SrvClose, SrvEnds
<1>5. CASE SrvRefuse \/ SrvFatal
  <2>1. conn = "up" /\ SrvEnds(Plain("Message", "bad"))
    BY <1>5 DEF SrvRefuse, SrvFatal, SrvReads, SrvCanSend
  <2>2. Ends
    BY <1>3, <2>1, PlainFields DEF Events
  <2>3. QED
    BY <2>1, <2>2 DEF SrvEnds
<1>6. ASSUME NEW m \in Message, SrvEvent(m), conn = "up", m.tag \in Events, m.form # "cut",
             ~Fatal(m), m.tag # "Message" => srv = "async",
             m.tag = "ErrorTransition" => srvdetect = "on"
      PROVE  Signals
  BY <1>6, SendShape DEF SrvEvent, Signals
<1>7. CASE SrvKeepalive
  <2>1. Signals
    BY <1>6, <1>7, PlainFields DEF SrvKeepalive, SrvCanSend, Events, Fatal
  <2>2. QED
    BY <1>7, <2>1 DEF SrvKeepalive, SrvEvent
<1>8. CASE SrvErrorTransition
  <2>1. Signals
    BY <1>6, <1>8, PlainFields DEF SrvErrorTransition, SrvCanSend, Events, Fatal
  <2>2. QED
    BY <1>8, <2>1 DEF SrvErrorTransition, SrvEvent
<1>9. CASE SrvRequest
  <2>0. conn = "up" /\ srv = "async"
    BY <1>9 DEF SrvRequest, SrvCanSend
  <2>1. ASSUME SrvEvent(Plain("Request", "bad")) PROVE Signals
    <3> DEFINE m == Plain("Request", "bad")
    <3>1. m \in Message /\ m.tag = "Request" /\ m.form = "bad"
      BY PlainFields DEF Events
    <3>2. SrvEvent(m)
      BY <2>1
    <3> HIDE DEF m
    <3>3. QED
      BY <1>6, <2>0, <3>1, <3>2 DEF Events, Fatal
  <2>2. ASSUME sent < MaxRequests, sent' = sent + 1,
               SrvEvent([tag |-> "Request", form |-> "good", id |-> sent'])
        PROVE  Signals
    <3> DEFINE m == [tag |-> "Request", form |-> "good", id |-> sent']
    <3>1. m \in Message /\ m.tag = "Request" /\ m.form = "good"
      BY <2>2, TopsAssumption DEF TypeOK, Message, Events
    <3>2. SrvEvent(m)
      BY <2>2
    <3> HIDE DEF m
    <3>3. QED
      BY <1>6, <2>0, <3>1, <3>2 DEF Events, Fatal
  <2>3. Signals
    BY <1>9, <2>1, <2>2 DEF SrvRequest
  <2>4. QED
    BY <1>9, <2>3 DEF SrvRequest, SrvEvent
<1>10. CASE ConnectionLost
  BY <1>10, LossShape DEF ConnectionLost, Loses
<1>11. QED
  BY <1>1, <1>2, <1>4, <1>5, <1>7, <1>8, <1>9, <1>10 DEF Environment, SrvCommand

\* All that a step can do to the stream of messages: read one, in whole or in
\* part, add one, lose its end, or empty it.
StreamChange ==
  \/ s2c' = s2c /\ (conn' = conn \/ (conn' = "up" /\ commsmode = "closed"))
  \/ s2c' = << >>
  \/ conn' = conn /\ (Popped \/ Junked)
  \/ /\ conn = "up"
     /\ \E m \in Message : /\ Grown(m) /\ m.form # "cut"
                           /\ conn' = "up" => ~Fatal(m)
     /\ conn' \in {"up", "down"}
  \/ conn = "up" /\ conn' = "down" /\ Shortened

\* Every step does one of these to the stream from the server.
LEMMA StreamStep ==
  ASSUME TypeOK, [Next]_vars
  PROVE  StreamChange
<1> USE ReadShape DEF client, net, server
<1>1. CASE Call
  BY <1>1, Accepted DEF Call, Refuse, TOPS_Open, OpenFails, TOPS_Reset, TOPS_Analyse,
      TOPS_ErrorDetect, TOPS_ErrorIgnore, SilentCommand, Transfer, TOPS_CommsSynchronous,
      TOPS_CommsAsynchronous, TOPS_SendReply, TOPS_GetRequest, TOPS_Restart, TOPS_Close,
      FinishClose, StreamChange
<1>2. CASE Step
  <2>0. \/ (s2c' = s2c /\ conn' = conn) \/ s2c' = << >>
        \/ conn' = conn /\ MessageWaiting /\ (ReadAll \/ ReadHeaderOnly \/ ShortRead)
    BY <1>2 DEF Step, OpenReply, OpenFails, SendFragment, TransferDone, CheckError,
      SyncReply, SyncMessage, SyncPanic, SyncReadFails, ReadFails, HandleMessage,
      CommsSyncReply, CommsSyncErrorTransition, CommsSyncRequest, AwaitingCommsSync,
      CommsSyncMessage, CommsSyncOther, CommsSyncReadFails, DrainEnds, QueueRequest,
      DeliverRequest, BadRequest, AwaitingAsync, AsyncMessage, AsyncErrorTransition,
      AsyncOther, AsyncReadFails, Heartbeat, CloseEnds, FinishClose, RestartReply,
      RestartFails, WaitMessage, WaitDiscard
  <2>1. QED
    BY <2>0 DEF StreamChange
<1>3. CASE BreakHandler
  BY <1>3 DEF BreakHandler, StreamChange
<1>4. CASE Environment
  <2>1. CASE Replies \/ Signals
    BY <2>1 DEF Replies, Signals, StreamChange, Fatal, Replying, TransferOps
  <2>2. CASE Takes \/ Ends \/ Loses
    BY <2>2 DEF Takes, Ends, Loses, StreamChange
  <2>3. QED
    BY <1>4, <2>1, <2>2, EnvironmentStep
<1>5. QED
  BY <1>1, <1>2, <1>3, <1>4 DEF Next, vars, StreamChange

\* Nothing is added behind a fatal or a cut message.
LEMMA LastWordsStep ==
  ASSUME TypeOK, TypeOK', Wires, LastWords, [Next]_vars
  PROVE  LastWords'
<1>0. s2c \in Seq(Message) /\ s2c' \in Seq(Message)
  BY DEF TypeOK
<1>1. CASE s2c' = s2c /\ (conn' = conn \/ (conn' = "up" /\ commsmode = "closed"))
  BY <1>0, <1>1 DEF LastWords, Wires
<1>2. CASE s2c' = << >>
  BY <1>2 DEF LastWords
<1>3. CASE conn' = conn /\ Popped
  <2> SUFFICES ASSUME NEW i \in 1 .. Len(s2c'), s2c'[i].form = "cut" \/ Fatal(s2c'[i])
               PROVE  i = Len(s2c') /\ conn' # "up"
    BY <1>0 DEF LastWords, Fatal
  <2>1. i + 1 \in 1 .. Len(s2c) /\ s2c'[i] = s2c[i + 1]
    BY <1>0, <1>3 DEF Popped
  <2>2. QED
    BY <1>0, <1>3, <2>1 DEF LastWords, Popped, Fatal
<1>4. CASE conn' = conn /\ Junked
  <2> SUFFICES ASSUME NEW i \in 1 .. Len(s2c'), s2c'[i].form = "cut" \/ Fatal(s2c'[i])
               PROVE  i = Len(s2c') /\ conn' # "up"
    BY <1>0 DEF LastWords, Fatal
  <2>1. i # 1
    BY <1>4 DEF Junked, Junk, Plain, Fatal
  <2>2. QED
    BY <1>0, <1>4, <2>1 DEF LastWords, Junked, Fatal
<1>5. CASE /\ conn = "up"
           /\ \E m \in Message : /\ Grown(m) /\ m.form # "cut"
                                 /\ conn' = "up" => ~Fatal(m)
           /\ conn' \in {"up", "down"}
  <2>1. PICK m \in Message : /\ Grown(m) /\ m.form # "cut"
                             /\ conn' = "up" => ~Fatal(m)
    BY <1>5
  <2>2. QED
    BY <1>0, <1>5, <2>1 DEF LastWords, Grown, Fatal
<1>6. CASE conn = "up" /\ conn' = "down" /\ Shortened
  BY <1>0, <1>6 DEF LastWords, Shortened
<1>7. QED
  BY <1>1, <1>2, <1>3, <1>4, <1>5, <1>6, StreamStep DEF StreamChange

\* Who sends each command that has a reply.
LEMMA PendingStep ==
  ASSUME TypeOK, TypeOK', [Next]_vars, NEW cmd \in Replying, Pending(cmd)', ~Pending(cmd)
  PROVE  \/ cmd = "Close" /\ TOPS_Close
         \/ cmd = "Restart" /\ TOPS_Restart
         \/ cmd = "CommsSynchronous" /\ TOPS_CommsSynchronous
         \/ cmd \in TransferOps /\ SendFragment
         \/ cmd = "TestError" /\ CheckError
<1> USE DEF client, net, server
<1>0. s2c \in Seq(Message) /\ s2c' \in Seq(Message) /\ c2s \in Seq(Replying \cup Silent)
      /\ op \in CallsAt[pc] /\ pc \in Places
  BY DEF TypeOK
<1>1. ASSUME c2s' = c2s \/ c2s' = << >>, s2c' = s2c \/ s2c' = << >> \/ Popped \/ Junked
      PROVE FALSE
  BY <1>0, <1>1 DEF Pending, Popped, Junked, Junk, Plain, Replying, TransferOps
<1>2. ASSUME NEW other \in Replying \cup Silent, other # cmd, Written(other), s2c' = s2c
      PROVE FALSE
  BY <1>0, <1>2 DEF Pending, Written
<1>3. CASE Call
  <2>1. ASSUME NEW other \in {"Reset", "Analyse", "ErrorDetect", "ErrorIgnore",
               "CommsAsynchronous", "AsyncWrite"}, Write(other), s2c' = s2c
        PROVE  FALSE
    BY <1>2, <2>1, WriteShape DEF Silent, Replying, TransferOps
  <2>2. ASSUME NEW other \in {"Close", "Restart", "CommsSynchronous"}, other # cmd,
               Write(other), s2c' = s2c
        PROVE  FALSE
    BY <1>2, <2>2, WriteShape DEF Replying
  <2>3. CASE TOPS_Open \/ Refuse \/ Transfer \/ TOPS_GetRequest
    BY <1>1, <2>3 DEF TOPS_Open, OpenFails, Refuse, Transfer, TOPS_GetRequest
  <2>4. CASE TOPS_Reset \/ TOPS_Analyse \/ TOPS_ErrorDetect \/ TOPS_ErrorIgnore
    BY <1>1, <2>1, <2>4 DEF TOPS_Reset, TOPS_Analyse, TOPS_ErrorDetect, TOPS_ErrorIgnore,
                SilentCommand, WriteFails
  <2>5. CASE TOPS_CommsAsynchronous \/ TOPS_SendReply
    BY <1>1, <2>1, <2>5 DEF TOPS_CommsAsynchronous, TOPS_SendReply, WriteFails
  <2>6. CASE TOPS_CommsSynchronous
    BY <1>1, <2>2, <2>6 DEF TOPS_CommsSynchronous, WriteFails
  <2>7. CASE TOPS_Restart
    BY <1>1, <2>2, <2>7 DEF TOPS_Restart, WriteFails
  <2>8. CASE TOPS_Close
    BY <1>1, <2>2, <2>8 DEF TOPS_Close, FinishClose
  <2>9. QED
    BY <1>3, <2>3, <2>4, <2>5, <2>6, <2>7, <2>8 DEF Call
<1>4. CASE Step
  <2> USE ReadShape
  <2>1. CASE SendFragment
    <3>1. op \in TransferOps
      BY <1>0, <2>1 DEF SendFragment, CallsAt, Places
    <3>2. QED
      BY <1>1, <1>2, <2>1, <3>1, WriteShape DEF SendFragment, WriteFails, Replying
  <2>2. CASE CheckError
    BY <1>1, <1>2, <2>2, WriteShape DEF CheckError, WriteFails, Replying
  <2>3. \/ SendFragment \/ CheckError
        \/ c2s' = c2s \/ c2s' = << >>
    BY <1>4 DEF Step, OpenReply, OpenFails, TransferDone,
      SyncReply, SyncMessage, SyncPanic, SyncReadFails, ReadFails, HandleMessage,
      CommsSyncReply, CommsSyncErrorTransition, CommsSyncRequest,
      CommsSyncMessage, CommsSyncOther, CommsSyncReadFails, DrainEnds, QueueRequest,
      DeliverRequest, BadRequest, AsyncMessage, AsyncErrorTransition,
      AsyncOther, AsyncReadFails, Heartbeat, CloseEnds, FinishClose, RestartReply,
      RestartFails, WaitMessage, WaitDiscard
  <2>4. \/ SendFragment \/ CheckError
        \/ s2c' = s2c \/ s2c' = << >>
        \/ MessageWaiting /\ (ReadAll \/ ReadHeaderOnly \/ ShortRead)
    BY <1>4 DEF Step, OpenReply, OpenFails, TransferDone,
      SyncReply, SyncMessage, SyncPanic, SyncReadFails, ReadFails, HandleMessage,
      CommsSyncReply, CommsSyncErrorTransition, CommsSyncRequest, AwaitingCommsSync,
      CommsSyncMessage, CommsSyncOther, CommsSyncReadFails, DrainEnds, QueueRequest,
      DeliverRequest, BadRequest, AwaitingAsync, AsyncMessage, AsyncErrorTransition,
      AsyncOther, AsyncReadFails, Heartbeat, CloseEnds, FinishClose, RestartReply,
      RestartFails, WaitMessage, WaitDiscard
  <2>5. QED
    BY <1>1, <2>1, <2>2, <2>3, <2>4
<1>5. CASE BreakHandler
  BY <1>1, <1>5, ReadShape DEF BreakHandler
<1>6. CASE Environment
  <2>1. CASE Takes
    BY <1>0, <2>1, SMTT(30) DEF Takes, Taken, Pending
  <2>2. CASE Replies
    <3>1. PICK m \in Message : Grown(m) /\ m.tag = c2s[1]
      BY <2>2 DEF Replies
    <3>2. Taken
      BY <2>2 DEF Replies
    <3>3. ASSUME NEW i \in 1 .. Len(c2s'), c2s'[i] = cmd PROVE FALSE
      BY <1>0, <3>2, <3>3, SMTT(30) DEF Taken, Pending
    <3>4. ASSUME NEW i \in 1 .. Len(s2c'), s2c'[i].tag = cmd PROVE FALSE
      <4>1. CASE i = Len(s2c) + 1
        BY <1>0, <3>1, <3>2, <3>4, <4>1 DEF Grown, Taken, Pending
      <4>2. CASE i # Len(s2c) + 1
        <5>1. i \in 1 .. Len(s2c)
          BY <1>0, <3>1, <3>4, <4>2 DEF Grown
        <5>2. s2c[i].tag = cmd
          BY <3>1, <3>4, <5>1 DEF Grown
        <5>3. QED
          BY <5>1, <5>2 DEF Pending
      <4>3. QED
        BY <4>1, <4>2
    <3>5. QED
      BY <3>3, <3>4 DEF Pending
  <2>3. CASE Signals
    BY <1>0, <2>3 DEF Signals, Grown, Pending, Events, Replying, TransferOps
  <2>4. CASE Ends
    BY <1>0, <2>4 DEF Ends, Grown, Pending, Replying, TransferOps
  <2>5. CASE Loses
    BY <1>0, <2>5 DEF Loses, Shortened, Pending
  <2>6. QED
    BY <1>6, <2>1, <2>2, <2>3, <2>4, <2>5, EnvironmentStep
<1>7. QED
  BY <1>1, <1>3, <1>4, <1>5, <1>6 DEF Next, vars

\* While a connection is being closed or restarted, only the steps of these two
\* calls are left, and those of the server.
LEMMA ClosingSteps ==
  ASSUME StatesAt, proto \in ClosingStates, [Next]_vars
  PROVE  \/ Refuse \/ TOPS_Close \/ CloseEnds \/ RestartReply \/ RestartFails
         \/ WaitMessage \/ WaitDiscard \/ BreakHandler \/ Environment \/ UNCHANGED vars
<1> USE DEF StatesAt, ClosingStates
<1>1. pc \notin {"open", "send", "testerror", "sync", "check", "commssync", "async"}
  OBVIOUS
<1>2. CASE Call
  BY <1>2, TopsAssumption, Accepted DEF Call, TOPS_Open, TOPS_Reset, TOPS_Analyse, TOPS_ErrorDetect,
       TOPS_ErrorIgnore, SilentCommand, Transfer, TOPS_CommsSynchronous, TOPS_CommsAsynchronous,
       TOPS_SendReply, TOPS_GetRequest, TOPS_Restart, SilentCalls, Live
<1>3. CASE Step
  BY <1>1, <1>3 DEF Step, OpenReply, SendFragment, TransferDone, CheckError,
      SyncReply, SyncMessage, SyncPanic, SyncReadFails, ReadFails, AwaitingSync,
      CommsSyncReply, CommsSyncErrorTransition, CommsSyncRequest, AwaitingCommsSync,
      CommsSyncMessage, CommsSyncOther, CommsSyncReadFails, DrainEnds, QueueRequest,
      DeliverRequest, BadRequest, AwaitingAsync, MayRead, AsyncMessage, AsyncErrorTransition,
      AsyncOther, AsyncReadFails, Heartbeat, Getting, Draining
<1>4. QED
  BY <1>2, <1>3 DEF Next

\* Only TOPS_Close sends a Close, and it leaves the live states.
LEMMA CloseIsLastStep ==
  ASSUME TypeOK, TypeOK', StatesAt, CloseIsLast, [Next]_vars
  PROVE  CloseIsLast'
<1>0. "Close" \in Replying
  BY DEF Replying
<1>1. CASE ~Pending("Close") /\ Pending("Close")'
  <2>1. TOPS_Close
    BY <1>0, <1>1, PendingStep DEF TransferOps
  <2>2. CASE Write("Close") /\ proto' = Closing[proto] /\ proto \in DOMAIN Closing
             /\ Enter("wait", "Close")
    BY <2>2 DEF Closing, ClosingStates, Enter, CloseIsLast
  <2>3. CASE UNCHANGED net \/ FinishClose
    BY <1>1, <2>3 DEF Pending, net, FinishClose
  <2>4. QED
    BY <2>1, <2>2, <2>3 DEF TOPS_Close
<1>2. CASE Pending("Close") /\ Pending("Close")'
  <2>1. proto \in ClosingStates /\ op # "Restart"
    BY <1>2 DEF CloseIsLast
  <2> USE <2>1 DEF CloseIsLast, client, control, Return, ClosingStates
  <2>2. CASE Refuse \/ BreakHandler
    BY <2>2 DEF Refuse, BreakHandler
  <2>3. CASE TOPS_Close \/ CloseEnds
    <3>1. ~FinishClose
      BY <1>2 DEF FinishClose, Pending
    <3>2. QED
      BY <2>3, <3>1 DEF TOPS_Close, CloseEnds, Enter, Closing
  <2>4. CASE RestartReply \/ RestartFails \/ WaitMessage \/ WaitDiscard
    BY <2>4 DEF RestartReply, RestartFails, WaitMessage, WaitDiscard, HandleMessage, MessageFails
  <2>5. CASE Environment \/ UNCHANGED vars
    BY <2>5, EnvironmentStep DEF vars
  <2>6. QED
    BY <2>1, <2>2, <2>3, <2>4, <2>5, ClosingSteps
<1>3. QED
  BY <1>1, <1>2 DEF CloseIsLast

\* TOPS_Restart sends its command after the others, and after it comes nothing
\* but a Close.
LEMMA RestartIsLastStep ==
  ASSUME TypeOK, TypeOK', StatesAt, Wires, LastWords, RestartIsLast, [Next]_vars
  PROVE  RestartIsLast'
<1>0. /\ "Restart" \in Replying
      /\ s2c \in Seq(Message) /\ s2c' \in Seq(Message)
      /\ c2s \in Seq(Replying \cup Silent) /\ c2s' \in Seq(Replying \cup Silent)
  BY DEF Replying, TypeOK
<1>1. CASE ~Pending("Restart")' 
  BY <1>1 DEF RestartIsLast, Pending
<1>2. CASE ~Pending("Restart") /\ Pending("Restart")'
  <2>1. TOPS_Restart
    BY <1>0, <1>2, PendingStep DEF TransferOps
  <2>2. CASE Written("Restart") /\ s2c' = s2c /\ proto' = "Restarting"
    <3>1. c2s' # c2s /\ \A i \in 1 .. Len(c2s) : c2s[i] # "Restart"
      BY <1>2, <2>2 DEF Pending
    <3>2. \A i \in 1 .. Len(s2c) : s2c[i].tag # "Restart"
      BY <1>2 DEF Pending
    <3>3. \A i \in 1 .. Len(c2s') : c2s'[i] = "Restart" => i = Len(c2s')
      BY <2>2, <3>1 DEF Written
    <3>4. QED
      BY <1>0, <2>2, <3>2, <3>3 DEF RestartIsLast
  <2>3. CASE UNCHANGED <<c2s, s2c>>
    BY <1>2, <2>3 DEF Pending
  <2>4. QED
    BY <2>1, <2>2, <2>3, <1>0, WriteShape DEF TOPS_Restart, WriteFails
<1>3. CASE Pending("Restart") /\ Pending("Restart")'
  <2>1. proto = "Restarting"
    BY <1>3 DEF RestartIsLast
  <2>2. CASE UNCHANGED <<proto, conn, c2s, s2c, srv, srvdetect>>
    BY <2>2 DEF RestartIsLast, Pending
  <2>3. CASE Refuse \/ UNCHANGED vars
    BY <2>2, <2>3 DEF Refuse, vars, client, net, server
  <2>4. ASSUME UNCHANGED <<conn, c2s, srv, srvdetect>>, Popped \/ Junked, proto' = "Restarting"
        PROVE  RestartIsLast'
    <3>1. CASE Popped
      BY <1>0, <2>4, <3>1 DEF RestartIsLast, Popped, Pending
    <3>2. CASE Junked
      BY <1>0, <2>4, <3>2 DEF RestartIsLast, Junked, Pending, Junk, Plain
    <3>3. QED
      BY <2>4, <3>1, <3>2
  <2>5. CASE TOPS_Close \/ CloseEnds
    <3>1. ~FinishClose
      BY <1>3 DEF FinishClose, Pending
    <3>2. CASE UNCHANGED <<proto, net, server>>
      BY <2>2, <3>2 DEF net, server
    <3>3. CASE Written("Close") /\ proto' = "Restarting" /\ UNCHANGED <<conn, s2c, server>>
      BY <1>0, <3>3 DEF RestartIsLast, Written, Pending, server
    <3>4. Closing["Restarting"] = "Restarting"
      BY DEF Closing
    <3>5. QED
      BY <1>0, <2>1, <2>5, <3>1, <3>2, <3>3, <3>4, WriteShape DEF TOPS_Close, CloseEnds, Replying
  <2>6. CASE RestartReply
    <3>1. UNCHANGED <<conn, c2s, srv, srvdetect>> /\ Popped /\ s2c[1].tag = "Restart" /\ Len(s2c) > 0
          /\ Header = s2c[1]
      BY <2>6, ReadShape DEF RestartReply, IsReply, server
    <3>2. CASE Header.form = "good"
      <4>1. ~Pending("Restart")'
        <5>1. 1 \in 1 .. Len(s2c) /\ \A i \in 1 .. Len(s2c') : i + 1 \in 1 .. Len(s2c) /\ i + 1 > 1
          BY <1>0, <3>1 DEF Popped
        <5>2. \A j \in 1 .. Len(c2s) : c2s[j] = "Close"
          BY <3>1, <5>1 DEF RestartIsLast
        <5>3. \A j \in 1 .. Len(s2c) : j > 1 => s2c[j].tag \in {"Message", "Close"}
          BY <3>1, <3>2, <5>1 DEF RestartIsLast
        <5>4. \A i \in 1 .. Len(s2c') : s2c'[i].tag \in {"Message", "Close"}
          BY <3>1, <5>1, <5>3 DEF Popped
        <5>5. QED
          BY <3>1, <5>2, <5>4 DEF Pending
      <4>2. QED
        BY <1>3, <4>1
    <3>3. CASE proto' = proto
      BY <2>1, <2>4, <3>1, <3>3
    <3>4. QED
      BY <2>6, <3>2, <3>3 DEF RestartReply, client
  <2>7. CASE WaitMessage
    <3>1. UNCHANGED <<conn, c2s, srv, srvdetect>> /\ Popped /\ Len(s2c) > 0 /\ Header = s2c[1]
          /\ Header.tag = "Message"
      BY <2>7, ReadShape DEF WaitMessage, HandleMessage, server
    <3>2. CASE Header.form = "bad"
      <4>1. Len(s2c) = 1 /\ conn # "up"
        <5>1. 1 \in 1 .. Len(s2c) /\ s2c[1].tag = "Message" /\ s2c[1].form = "bad"
          BY <1>0, <3>1, <3>2
        <5>2. QED
          BY <5>1 DEF LastWords
      <4>2. Len(s2c') = 0 /\ c2s' = << >>
        BY <1>0, <3>1, <4>1 DEF Popped, Wires
      <4>3. QED
        BY <1>0, <1>3, <4>2 DEF Pending
    <3>3. CASE Header.form # "bad"
      BY <2>1, <2>4, <2>7, <3>1, <3>3 DEF WaitMessage, HandleMessage
    <3>4. QED
      BY <3>2, <3>3
  <2>8. CASE RestartFails \/ WaitDiscard \/ BreakHandler
    <3>1. UNCHANGED <<proto, conn, c2s, srv, srvdetect>>
      BY <2>8 DEF RestartFails, WaitDiscard, BreakHandler, client, server
    <3>2. s2c' = s2c \/ Popped \/ Junked
      BY <2>8, ReadShape DEF RestartFails, WaitDiscard, BreakHandler
    <3>3. QED
      BY <2>1, <2>2, <2>4, <3>1, <3>2
  <2>9. CASE Environment
    <3>0. proto' = "Restarting"
      BY <2>1, <2>9, EnvironmentStep DEF client
    <3>1. CASE Takes
      BY <1>0, <3>0, <3>1 DEF RestartIsLast, Takes, Taken, Pending, Silent
    <3>2. CASE Replies
      <4>1. PICK m \in Message : 
              /\ Grown(m) /\ m.tag = c2s[1]
              /\ m.form = "good" /\ c2s[1] = "Restart" => srv' = "sync" /\ srvdetect' = "off"
        BY <3>2 DEF Replies
      <4>2. Taken /\ c2s[1] # "Close"
        BY <3>2 DEF Replies
      <4>3. \A j \in 1 .. Len(s2c) : s2c[j].tag # "Restart"
        BY <1>0, <4>2 DEF RestartIsLast, Taken
      <4>4. CASE c2s[1] = "Restart"
        <5>1. \A j \in 1 .. Len(c2s') : c2s'[j] = "Close"
          <6>1. 1 \in 1 .. Len(c2s) /\ \A j \in 1 .. Len(c2s') : j + 1 \in 1 .. Len(c2s) /\ j + 1 > 1
            BY <1>0, <4>2 DEF Taken
          <6>2. \A j \in 1 .. Len(c2s) : j > 1 => c2s[j] = "Close"
            BY <4>4, <6>1 DEF RestartIsLast
          <6>3. QED
            BY <4>2, <6>1, <6>2 DEF Taken
        <5>2. \A i \in 1 .. Len(s2c') : s2c'[i].tag = "Restart" => i = Len(s2c') /\ s2c'[i] = m
          BY <4>1, <4>3 DEF Grown
        <5>3. \A i \in 1 .. Len(c2s') : c2s'[i] # "Restart"
          BY <5>1
        <5>4. ASSUME NEW i \in 1 .. Len(s2c'), s2c'[i].tag = "Restart"
              PROVE  /\ \A j \in 1 .. Len(s2c') : ~(j > i)
                     /\ s2c'[i].form = "good" => srv' = "sync" /\ srvdetect' = "off"
          BY <1>0, <4>1, <4>4, <5>2, <5>4
        <5>5. QED
          BY <3>0, <5>1, <5>3, <5>4 DEF RestartIsLast
      <4>5. CASE c2s[1] # "Restart"
        <5>1. \A i \in 1 .. Len(s2c') : s2c'[i].tag # "Restart"
          BY <4>1, <4>3, <4>5 DEF Grown
        <5>2. ASSUME NEW i \in 1 .. Len(c2s'), c2s'[i] = "Restart"
              PROVE  \A j \in 1 .. Len(c2s') : j > i => c2s'[j] = "Close"
          <6>1. i + 1 \in 1 .. Len(c2s) /\ c2s[i + 1] = "Restart"
            BY <1>0, <4>2, <5>2 DEF Taken
          <6>2. \A k \in 1 .. Len(c2s) : k > i + 1 => c2s[k] = "Close"
            BY <6>1 DEF RestartIsLast
          <6>3. ASSUME NEW j \in 1 .. Len(c2s'), j > i
                PROVE  c2s'[j] = "Close"
            <7>1. j + 1 \in 1 .. Len(c2s) /\ j + 1 > i + 1 /\ c2s'[j] = c2s[j + 1]
              BY <1>0, <4>2, <6>3 DEF Taken
            <7>2. QED
              BY <6>2, <7>1
          <6>4. QED
            BY <6>3
        <5>3. QED
          BY <3>0, <5>1, <5>2 DEF RestartIsLast
      <4>6. QED
        BY <4>4, <4>5
    <3>3. CASE Signals
      <4>1. PICK m \in Message : /\ Grown(m) /\ m.tag \in Events
                                 /\ m.tag # "Message" => srv = "async"
        BY <3>3 DEF Signals
      <4>2. UNCHANGED <<conn, c2s, srv, srvdetect>> /\ conn = "up"
        BY <3>3 DEF Signals
      <4>3. QED
        BY <1>0, <3>0, <4>1, <4>2 DEF RestartIsLast, Grown, Pending, Events
    <3>4. CASE Ends
      <4>1. PICK m \in Message : Grown(m) /\ m.tag \in {"Message", "Close"}
        BY <3>4 DEF Ends
      <4>2. QED
        BY <1>0, <3>0, <3>4, <4>1, SMTT(30) DEF RestartIsLast, Grown, Pending, Ends
    <3>5. CASE Loses
      BY <1>0, <3>0, <3>5 DEF RestartIsLast, Loses, Shortened, Pending
    <3>6. QED
      BY <2>9, <3>1, <3>2, <3>3, <3>4, <3>5, EnvironmentStep
  <2>10. QED
    BY <2>1, <2>3, <2>5, <2>6, <2>7, <2>8, <2>9, ClosingSteps DEF ClosingStates
<1>4. QED
  BY <1>1, <1>2, <1>3

\* All that the client does to the stream of commands.
LEMMA CommandStep ==
  ASSUME TypeOK, [Next]_vars
  PROVE  \/ Environment
         \/ UNCHANGED <<conn, c2s, srv, srvdetect>>
         \/ c2s' = << >> /\ s2c' = << >>
         \/ TOPS_Open \/ OpenReply
         \/ /\ UNCHANGED <<conn, s2c, srv, srvdetect>>
            /\ \E cmd \in Replying \cup Silent :
                 /\ Written(cmd)
                 /\ \/ cmd \in SilentCalls /\ pc = "idle" /\ proto = "Synchronous"
                    \/ cmd = op /\ pc = "send"
                    \/ cmd = "TestError" /\ pc = "testerror"
                    \/ cmd = "AsyncWrite" /\ pc = "idle" /\ proto = "Asynchronous"
                    \/ cmd \in {"CommsSynchronous", "CommsAsynchronous", "Restart", "Close"}
<1> DEFINE Writing ==
            /\ UNCHANGED <<conn, s2c, srv, srvdetect>>
            /\ \E cmd \in Replying \cup Silent :
                 /\ Written(cmd)
                 /\ \/ cmd \in SilentCalls /\ pc = "idle" /\ proto = "Synchronous"
                    \/ cmd = op /\ pc = "send"
                    \/ cmd = "TestError" /\ pc = "testerror"
                    \/ cmd = "AsyncWrite" /\ pc = "idle" /\ proto = "Asynchronous"
                    \/ cmd \in {"CommsSynchronous", "CommsAsynchronous", "Restart", "Close"}
<1> USE DEF client, net, server
<1>1. CASE Call
  <2>1. CASE TOPS_Open \/ Refuse \/ Transfer \/ TOPS_GetRequest
    BY <2>1 DEF Refuse, Transfer, TOPS_GetRequest
  <2>2. ASSUME NEW cmd \in SilentCalls, Begin(cmd), Write(cmd),
               UNCHANGED <<conn, s2c, srv, srvdetect>>
        PROVE  Writing
    <3>1. Written(cmd) /\ pc = "idle" /\ proto = "Synchronous" /\ cmd \in Replying \cup Silent
      BY <2>2, Accepted, WriteShape DEF SilentCalls, Silent
    <3>2. QED
      BY <2>2, <3>1
  <2>3. CASE TOPS_Reset \/ TOPS_Analyse \/ TOPS_ErrorDetect \/ TOPS_ErrorIgnore
    BY <2>2, <2>3 DEF TOPS_Reset, TOPS_Analyse, TOPS_ErrorDetect, TOPS_ErrorIgnore,
                SilentCommand, WriteFails, SilentCalls
  <2>4. ASSUME NEW cmd \in {"CommsSynchronous", "CommsAsynchronous", "Restart", "Close"},
               Write(cmd), UNCHANGED <<conn, s2c, srv, srvdetect>>
        PROVE  Writing
    <3>1. Written(cmd) /\ cmd \in Replying \cup Silent
      BY <2>4, WriteShape DEF Replying, Silent
    <3>2. QED
      BY <2>4, <3>1
  <2>5. CASE TOPS_CommsAsynchronous \/ TOPS_CommsSynchronous \/ TOPS_Restart \/ TOPS_Close
    BY <2>4, <2>5 DEF TOPS_CommsAsynchronous, TOPS_CommsSynchronous, TOPS_Restart, TOPS_Close,
                      FinishClose, WriteFails
  <2>6. CASE TOPS_SendReply
    <3>1. CASE Write("AsyncWrite")
      <4>1. Written("AsyncWrite") /\ "AsyncWrite" \in Replying \cup Silent
        BY <3>1, WriteShape DEF Silent
      <4>2. pc = "idle" /\ proto = "Asynchronous"
        BY <2>6, Accepted DEF TOPS_SendReply
      <4>3. Writing
        BY <2>6, <4>1, <4>2 DEF TOPS_SendReply
      <4>4. QED
        BY <4>3
    <3>2. QED
      BY <2>6, <3>1 DEF TOPS_SendReply, WriteFails
  <2>7. QED
    BY <1>1, <2>1, <2>3, <2>5, <2>6 DEF Call
<1>2. CASE Step
  <2>1. CASE SendFragment
    <3>1. op \in Replying \cup Silent
      BY <2>1 DEF SendFragment, TypeOK, CallsAt, Places, Replying
    <3>2. CASE Write(op)
      BY <2>1, <3>1, <3>2, WriteShape DEF SendFragment
    <3>3. QED
      BY <2>1, <3>2 DEF SendFragment, WriteFails
  <2>2. CASE CheckError
    <3>1. CASE Write("TestError")
      BY <2>2, <3>1, WriteShape DEF CheckError, Replying
    <3>2. QED
      BY <2>2, <3>1 DEF CheckError, WriteFails
  <2>3. \/ SendFragment \/ CheckError \/ OpenReply
        \/ UNCHANGED <<conn, c2s, srv, srvdetect>>
        \/ c2s' = << >> /\ s2c' = << >>
    BY <1>2 DEF Step, TransferDone,
      SyncReply, SyncMessage, SyncPanic, SyncReadFails, ReadFails, HandleMessage,
      CommsSyncReply, CommsSyncErrorTransition, CommsSyncRequest,
      CommsSyncMessage, CommsSyncOther, CommsSyncReadFails, DrainEnds, QueueRequest,
      DeliverRequest, BadRequest, AsyncMessage, AsyncErrorTransition,
      AsyncOther, AsyncReadFails, Heartbeat, CloseEnds, FinishClose, RestartReply,
      RestartFails, WaitMessage, WaitDiscard
  <2>4. QED
    BY <2>1, <2>2, <2>3
<1>3. CASE BreakHandler
  BY <1>3 DEF BreakHandler
<1>4. QED
  BY <1>1, <1>2, <1>3 DEF Next, vars

\* OPS_Open meets empty streams.
LEMMA OpensAnew ==
  ASSUME TypeOK, ModeAgreement, StatesAt, Wires, TOPS_Open \/ OpenReply
  PROVE  c2s = << >> /\ s2c = << >> /\ commsmode = "closed" /\ errordetect = "off"
         /\ c2s' = << >> /\ s2c' = << >>
<1>1. commsmode = "closed"
  BY Accepted DEF TOPS_Open, OpenReply, TypeOK, ModeAgreement, StatesAt
<1>2. QED
  BY <1>1 DEF TOPS_Open, OpenReply, OpenFails, Wires, net

\* Each command is written where the server will be in its mode.
LEMMA CommandsFitStep ==
  ASSUME TypeOK, TypeOK', ModeAgreement, StatesAt, Wires, CommandsFit, InSync, InAsync, [Next]_vars
  PROVE  CommandsFit'
<1> USE DEF SyncOnly, SilentCalls, Silent, TransferOps
<1>0. c2s \in Seq(Replying \cup Silent) /\ c2s' \in Seq(Replying \cup Silent)
  BY DEF TypeOK
<1>1. CASE UNCHANGED <<conn, c2s, srv, srvdetect>>
  BY <1>1 DEF CommandsFit
<1>2. CASE c2s' = << >>
  BY <1>2 DEF CommandsFit
<1>3. CASE TOPS_Open \/ OpenReply
  BY <1>2, <1>3, OpensAnew
<1>4. CASE UNCHANGED <<conn, srv>> /\ \E cmd \in Replying \cup Silent :
                 /\ Written(cmd)
                 /\ \/ cmd \in SilentCalls /\ pc = "idle" /\ proto = "Synchronous"
                    \/ cmd = op /\ pc = "send"
                    \/ cmd = "TestError" /\ pc = "testerror"
                    \/ cmd = "AsyncWrite" /\ pc = "idle" /\ proto = "Asynchronous"
                    \/ cmd \in {"CommsSynchronous", "CommsAsynchronous", "Restart", "Close"}
  <2>1. PICK cmd \in Replying \cup Silent : Written(cmd)
                 /\ \/ cmd \in SilentCalls /\ pc = "idle" /\ proto = "Synchronous"
                    \/ cmd = op /\ pc = "send"
                    \/ cmd = "TestError" /\ pc = "testerror"
                    \/ cmd = "AsyncWrite" /\ pc = "idle" /\ proto = "Asynchronous"
                    \/ cmd \in {"CommsSynchronous", "CommsAsynchronous", "Restart", "Close"}
    BY <1>4
  <2>2. CASE conn = "down"
    BY <1>1, <1>4, <2>1, <2>2 DEF Written, CommandsFit
  <2>3. CASE conn = "up" /\ cmd \in SyncOnly
    <3>1. Clean
      <4>1. op \in TransferOps \/ pc # "send"
        BY DEF TypeOK, CallsAt, Places
      <4>2. pc \in {"idle", "send", "testerror"} /\ proto = "Synchronous"
        BY <2>1, <2>3, <4>1 DEF StatesAt
      <4>3. QED
        BY <4>2 DEF InSync
    <3>2. QED
      BY <1>0, <1>4, <2>1, <2>3, <3>1 DEF CommandsFit, Clean, Written
  <2>4. CASE conn = "up" /\ cmd = "AsyncWrite"
    <3>1. pc = "idle" /\ proto = "Asynchronous"
      BY <2>1, <2>4 DEF TypeOK, CallsAt, Places
    <3>2. QED
      BY <1>0, <1>4, <2>1, <2>4, <3>1 DEF CommandsFit, InAsync, Streaming, Written
  <2>5. CASE conn = "up" /\ cmd \notin SyncOnly \cup {"AsyncWrite"}
    BY <1>0, <1>4, <2>1, <2>5 DEF CommandsFit, Written
  <2>6. QED
    BY <2>1, <2>2, <2>3, <2>4, <2>5 DEF Written
<1>5. CASE Environment
  <2>1. CASE Takes
    <3> SUFFICES ASSUME NEW i \in 1 .. Len(c2s') PROVE CommandsFit!(i)'
      BY DEF CommandsFit
    <3>1. /\ 1 \in 1 .. Len(c2s) /\ i + 1 \in 1 .. Len(c2s) /\ 1 < i + 1 /\ c2s'[i] = c2s[i + 1]
          /\ \A j \in 1 .. Len(c2s') : j < i => j + 1 \in 1 .. Len(c2s) /\ j + 1 < i + 1
                                                /\ c2s'[j] = c2s[j + 1]
      BY <1>0, <2>1 DEF Takes, Taken
    <3>2. CASE c2s'[i] \in SyncOnly
      <4>1. /\ srv = "sync" /\ c2s[1] \in SilentCalls
            /\ \A j \in 1 .. Len(c2s) : j < i + 1 => c2s[j] \in SilentCalls
        BY <3>1, <3>2 DEF CommandsFit
      <4>2. srv' = "sync"
        BY <2>1, <4>1 DEF Takes
      <4>3. QED
        BY <3>1, <3>2, <4>1, <4>2
    <3>3. CASE c2s'[i] = "AsyncWrite"
      <4>1. /\ srv = "async" \/ \E j \in 1 .. Len(c2s) : j < i + 1 /\ c2s[j] = "CommsAsynchronous"
            /\ \A j \in 1 .. Len(c2s) : j < i + 1 => c2s[j] \in Silent
        BY <3>1, <3>3 DEF CommandsFit
      <4>2. CASE srv = "async" \/ c2s[1] = "CommsAsynchronous"
        BY <2>1, <3>1, <3>3, <4>1, <4>2 DEF Takes
      <4>3. ASSUME NEW j \in 2 .. Len(c2s), j < i + 1, c2s[j] = "CommsAsynchronous"
            PROVE  j - 1 \in 1 .. Len(c2s') /\ j - 1 < i /\ c2s'[j - 1] = "CommsAsynchronous"
        BY <1>0, <2>1, <4>3 DEF Takes, Taken
      <4>4. srv' = "async" \/ \E j \in 1 .. Len(c2s') : j < i /\ c2s'[j] = "CommsAsynchronous"
        BY <2>1, <4>1, <4>2, <4>3 DEF Takes
      <4>5. QED
        BY <3>1, <3>3, <4>1, <4>4
    <3>4. QED
      BY <3>2, <3>3
  <2>2. CASE Replies
    BY <1>0, <2>2 DEF Replies, Taken, CommandsFit, Replying
  <2>3. CASE Signals \/ Ends \/ Loses
    BY <1>1, <1>2, <2>3 DEF Signals, Ends, Loses
  <2>4. QED
    BY <1>5, <2>1, <2>2, <2>3, EnvironmentStep
<1>6. QED
  BY <1>1, <1>2, <1>3, <1>4, <1>5, CommandStep

\* Whatever the connection went through, a restart that the server accepts, and
\* the end of a close, leave nothing of it.
LEMMA CleanStart ==
  ASSUME TypeOK, TypeOK', Wires, RestartIsLast, CloseIsLast,
         FinishClose \/ (RestartReply /\ Header.form = "good")
  PROVE  Pipeline'
<1> USE DEF Pipeline, CommandsFit, InSync, Awaited, OneReply, InAsync, Cancelling, Detected, FlagOnTheWay, ErrorCalls, AwaitingSync,
            Live, Return
<1>0. s2c \in Seq(Message) /\ c2s \in Seq(Replying \cup Silent)
  BY DEF TypeOK
<1>1. CASE FinishClose
  BY <1>1 DEF FinishClose
<1>2. CASE RestartReply /\ Header.form = "good"
  <2>1. Popped /\ 1 \in 1 .. Len(s2c) /\ s2c[1].tag = "Restart" /\ s2c[1].form = "good"
        /\ UNCHANGED <<conn, c2s, srv, srvdetect>> /\ op = "Restart"
    BY <1>0, <1>2, ReadShape DEF RestartReply, IsReply, server
  <2>2. ~Pending("Close")
    BY <2>1 DEF CloseIsLast
  <2>3. c2s = << >>
    <3>1. \A j \in 1 .. Len(c2s) : FALSE
      BY <2>1, <2>2 DEF RestartIsLast, Pending
    <3>2. QED
      BY <1>0, <3>1
  <2>4. \A j \in 1 .. Len(s2c) : j > 1 => s2c[j].tag = "Message"
    BY <2>1, <2>2 DEF RestartIsLast, Pending
  <2>5. ASSUME NEW i \in 1 .. Len(s2c') PROVE s2c'[i].tag = "Message"
    <3>1. i + 1 \in 1 .. Len(s2c) /\ i + 1 > 1 /\ s2c'[i] = s2c[i + 1]
      BY <1>0, <2>1 DEF Popped
    <3>2. QED
      BY <2>4, <3>1
  <2>6. conn' = "up" => srv' = "sync" /\ srvdetect' = "off"
    BY <2>1 DEF RestartIsLast
  <2>7. /\ pc' = "idle" /\ proto' = "Synchronous" /\ errordetect' = "off"
        /\ c2s' = << >>
    BY <1>2, <2>1, <2>3 DEF RestartReply, ResetErrors
  <2>8. QED
    BY <2>5, <2>6, <2>7 DEF Clean
<1>3. QED
  BY <1>1, <1>2

\* Of a stream of which the first message was read, only the others are left.
LEMMA RestOfStream ==
  ASSUME TypeOK, Popped, NEW i \in 1 .. Len(s2c')
  PROVE  i + 1 \in 2 .. Len(s2c) /\ i + 1 \in 1 .. Len(s2c) /\ s2c'[i] = s2c[i + 1]
<1>1. Len(s2c) \in Nat
  BY DEF TypeOK
<1>2. QED
  BY <1>1 DEF Popped

\* The server adds nothing but keepalives to a clean connection.
LEMMA CleanKept ==
  ASSUME TypeOK, Clean,
         \/ UNCHANGED <<conn, c2s, srv>> /\ (s2c' = s2c \/ Popped)
         \/ UNCHANGED <<conn, s2c, srv>> /\ \E cmd \in SilentCalls : Written(cmd)
         \/ Environment
  PROVE  Clean'
<1>0. s2c \in Seq(Message) /\ c2s \in Seq(Replying \cup Silent)
  BY DEF TypeOK
<1> USE DEF Clean
<1>1. CASE UNCHANGED <<conn, c2s, srv>> /\ (s2c' = s2c \/ Popped)
  BY <1>1, RestOfStream
<1>2. CASE UNCHANGED <<conn, s2c, srv>> /\ \E cmd \in SilentCalls : Written(cmd)
  BY <1>0, <1>2 DEF Written
<1>3. CASE Takes
  BY <1>0, <1>3 DEF Takes, Taken, SilentCalls
<1>4. CASE Replies
  BY <1>0, <1>4, SMTT(30) DEF Replies, Taken, SilentCalls, Replying, TransferOps
<1>5. CASE Signals
  BY <1>0, <1>5 DEF Signals, Grown
<1>6. CASE Ends
  BY <1>0, <1>6, SMTT(30) DEF Ends, Grown, SilentCalls
<1>7. CASE Loses
  BY <1>0, <1>7 DEF Loses, Shortened
<1>8. QED
  BY <1>1, <1>2, <1>3, <1>4, <1>5, <1>6, <1>7, EnvironmentStep

\* A call that is refused in the shell after a break met a client that is not in
\* one of the states a restart is accepted in.
LEMMA RefusedInShell ==
  ASSUME Refuse, TypeOK, ModeAgreement, pc # "idle"
  PROVE  proto \notin Live
<1>1. pc = "interrupted" /\ ~Legal("Restart")
  BY DEF Refuse, MayCall
<1>2. commsmode \in {"async", "sync"} => proto \notin LegalStates("Restart")
  BY <1>1 DEF Legal, LegalModes
<1>3. LegalStates("Restart") = Live
  BY DEF LegalStates, Live
<1>4. QED
  BY <1>2, <1>3 DEF TypeOK, ModeAgreement, Live

\* The connection is clean again when a call of synchronous mode can follow.
LEMMA InSyncStep ==
  ASSUME TypeOK, TypeOK', ModeAgreement, StatesAt, Wires, LastWords, Pipeline, [Next]_vars,
         early' = "off", ~FinishClose, ~(RestartReply /\ Header.form = "good")
  PROVE  InSync'
<1> SUFFICES ASSUME pc' \in {"idle", "send", "testerror"}, proto' = "Synchronous"
             PROVE  Clean'
  BY DEF InSync
<1>0. s2c \in Seq(Message) /\ c2s \in Seq(Replying \cup Silent)
  BY DEF TypeOK
<1> USE DEF Return, Enter, Goto, client, net, server
<1>1. ASSUME pc \in {"idle", "send", "testerror"}, proto = "Synchronous"
      PROVE  Clean
  BY <1>1 DEF Pipeline, InSync
<1>2. CASE Call
  <2>1. CASE TOPS_Open
    BY <2>1 DEF TOPS_Open, OpenFails
  <2>2. CASE Refuse
    BY <1>1, <2>2, RefusedInShell, CleanKept DEF Refuse, Live
  <2>3. ASSUME NEW cmd \in SilentCalls, Begin(cmd), Write(cmd) \/ WriteFails,
               UNCHANGED <<conn, s2c, srv>>
        PROVE  Clean'
    BY <1>1, <2>3, Accepted, WriteShape, CleanKept DEF SilentCalls, Silent
  <2>4. CASE TOPS_Reset \/ TOPS_Analyse \/ TOPS_ErrorDetect \/ TOPS_ErrorIgnore
    BY <2>3, <2>4 DEF TOPS_Reset, TOPS_Analyse, TOPS_ErrorDetect, TOPS_ErrorIgnore,
                SilentCommand, SilentCalls
  <2>5. CASE Transfer
    BY <1>1, <2>5, Accepted, TopsAssumption, CleanKept DEF Transfer
  <2>6. CASE TOPS_CommsSynchronous \/ TOPS_CommsAsynchronous
    BY <1>1, <2>6, Accepted, CleanKept DEF TOPS_CommsSynchronous, TOPS_CommsAsynchronous, WriteFails
  <2>7. CASE TOPS_SendReply \/ TOPS_GetRequest
    BY <2>7, Accepted DEF TOPS_SendReply, TOPS_GetRequest
  <2>8. CASE TOPS_Restart \/ TOPS_Close
    BY <2>8 DEF TOPS_Restart, TOPS_Close, ModeAgreement
  <2>9. QED
    BY <1>2, <2>1, <2>2, <2>4, <2>5, <2>6, <2>7, <2>8 DEF Call
<1>3. CASE Step
  <2>1. CASE OpenReply
    BY <2>1, OpensAnew DEF OpenReply, OpenFails, Clean
  <2>2. CASE SendFragment \/ TransferDone \/ CheckError
    BY <1>1, <2>2, CleanKept DEF SendFragment, TransferDone, CheckError, WriteFails
  <2>3. CASE SyncReply
    <3>1. Popped /\ 1 \in 1 .. Len(s2c) /\ s2c[1].tag = Wanted /\ AwaitingSync
      BY <1>0, <2>3, ReadShape DEF SyncReply
    <3>2. /\ c2s = << >> /\ \A j \in 1 .. Len(s2c) : j # 1 => s2c[j].tag = "Message"
          /\ conn = "up" => srv = "sync"
      BY <3>1 DEF Pipeline, Awaited, OneReply
    <3>3. UNCHANGED <<conn, c2s, srv>>
      BY <2>3 DEF SyncReply
    <3>4. QED
      BY <3>1, <3>2, <3>3, RestOfStream DEF Clean
  <2>4. CASE SyncMessage
    <3>0. Popped /\ 1 \in 1 .. Len(s2c) /\ Header = s2c[1] /\ AwaitingSync
      BY <1>0, <2>4, ReadShape DEF SyncMessage, HandleMessage
    <3>4. Header.form \notin {"good", "bad"}
      BY <2>4 DEF SyncMessage, HandleMessage, AwaitingSync, MessageFails, control
    <3>1. Popped /\ 1 \in 1 .. Len(s2c) /\ s2c[1].form = "cut"
      <4>1. s2c[1] \in Message
        BY <1>0, <3>0
      <4>2. QED
        BY <3>0, <3>4, <4>1 DEF Message
    <3>2. Len(s2c) = 1 /\ conn # "up"
      BY <3>1 DEF LastWords
    <3>3. UNCHANGED <<conn, c2s, srv>>
      BY <2>4 DEF SyncMessage, HandleMessage
    <3>5. QED
      BY <1>0, <3>1, <3>2, <3>3 DEF Clean, Popped, Wires
  <2>5. CASE SyncPanic
    BY <1>0, <2>5, ReadShape DEF SyncPanic, Pipeline, Awaited, OneReply
  <2>6. CASE SyncReadFails
    BY <2>6 DEF SyncReadFails, ReadFails, PeerGone, Clean, Wires
  <2>7. CASE CommsSyncReply
    <3>1. Popped /\ 1 \in 1 .. Len(s2c) /\ s2c[1].tag = "CommsSynchronous" /\ pc = "commssync"
          /\ Header = s2c[1]
      BY <1>0, <2>7, ReadShape DEF CommsSyncReply, AwaitingCommsSync
    <3>2. Header.form = "good"
      BY <2>7, <3>1 DEF CommsSyncReply, SyncAccepted, StatesAt
    <3>3. /\ c2s = << >> /\ \A j \in 1 .. Len(s2c) : j > 1 => s2c[j].tag = "Message"
          /\ conn = "up" => srv = "sync"
      BY <3>1, <3>2 DEF Pipeline, Cancelling, ModeReply
    <3>4. UNCHANGED <<conn, c2s, srv>>
      BY <2>7 DEF CommsSyncReply
    <3>5. QED
      BY <1>0, <3>1, <3>3, <3>4 DEF Clean, Popped
  <2>8. CASE CommsSyncErrorTransition
    BY <2>8 DEF CommsSyncErrorTransition, AwaitingCommsSync, StatesAt, control
  <2>9. CASE CommsSyncRequest \/ CommsSyncMessage \/ CommsSyncOther \/ CommsSyncReadFails
    BY <2>9 DEF CommsSyncRequest, CommsSyncMessage, CommsSyncOther, CommsSyncReadFails,
                ReadFails, AwaitingCommsSync, StatesAt, HandleMessage
  <2>10. CASE DrainEnds \/ QueueRequest \/ DeliverRequest \/ BadRequest
    BY <2>10 DEF DrainEnds, QueueRequest, DeliverRequest, BadRequest, StatesAt, Draining,
                 AwaitingAsync, MayRead
  <2>11. CASE AsyncMessage \/ AsyncErrorTransition \/ AsyncOther \/ AsyncReadFails \/ Heartbeat
    BY <2>11 DEF AsyncMessage, AsyncErrorTransition, AsyncOther, AsyncReadFails, Heartbeat,
                 StatesAt, AwaitingAsync, MayRead, Getting, HandleMessage
  <2>12. CASE CloseEnds \/ RestartReply \/ RestartFails
    BY <2>12 DEF CloseEnds, RestartReply, RestartFails, StatesAt
  <2>13. CASE WaitMessage \/ WaitDiscard
    BY <2>13 DEF WaitMessage, WaitDiscard, StatesAt, HandleMessage, control, ClosingStates
  <2>14. QED
    BY <1>3, <2>1, <2>2, <2>3, <2>4, <2>5, <2>6, <2>7, <2>8, <2>9, <2>10, <2>11, <2>12, <2>13
       DEF Step
<1>4. CASE BreakHandler
  BY <1>4 DEF BreakHandler
<1>5. CASE Environment
  BY <1>1, <1>5, CleanKept, EnvironmentStep DEF control
<1>6. CASE UNCHANGED vars
  BY <1>1, <1>6, CleanKept DEF vars
<1>7. QED
  BY <1>2, <1>3, <1>4, <1>5, <1>6 DEF Next

\* The steps after which a synchronous reply is awaited.
LEMMA AwaitingSteps ==
  ASSUME [Next]_vars, AwaitingSync'
  PROVE  \/ SendFragment /\ pc = "send" /\ Write(op) /\ pc' = "sync" /\ op' = op
            /\ UNCHANGED <<conn, s2c, srv>>
         \/ CheckError /\ pc = "testerror" /\ Write("TestError") /\ pc' = "check"
            /\ UNCHANGED <<conn, s2c, srv>>
         \/ /\ AwaitingSync /\ UNCHANGED <<control, conn, c2s, srv>>
            /\ MessageWaiting /\ Header.tag = "Message" /\ ReadAll
         \/ AwaitingSync /\ Environment
         \/ AwaitingSync /\ UNCHANGED vars
<1> USE DEF AwaitingSync, Return, Enter, Goto, server
<1>1. CASE Call
  BY <1>1 DEF Call, Refuse, TOPS_Open, OpenFails, TOPS_Reset, TOPS_Analyse,
      TOPS_ErrorDetect, TOPS_ErrorIgnore, SilentCommand, Transfer, TOPS_CommsSynchronous,
      TOPS_CommsAsynchronous, TOPS_SendReply, TOPS_GetRequest, TOPS_Restart, TOPS_Close,
      FinishClose
<1>2. CASE SendFragment \/ CheckError \/ SyncMessage
  BY <1>2 DEF SendFragment, CheckError, SyncMessage, HandleMessage
<1>3. CASE Step /\ ~(SendFragment \/ CheckError \/ SyncMessage)
  BY <1>3 DEF Step, OpenReply, OpenFails, TransferDone,
      SyncReply, SyncPanic, SyncReadFails, ReadFails, HandleMessage,
      CommsSyncReply, CommsSyncErrorTransition, CommsSyncRequest, AwaitingCommsSync,
      CommsSyncMessage, CommsSyncOther, CommsSyncReadFails, DrainEnds, QueueRequest,
      DeliverRequest, BadRequest, AwaitingAsync, AsyncMessage, AsyncErrorTransition, MayRead,
      AsyncOther, AsyncReadFails, Heartbeat, Getting, CloseEnds, FinishClose, RestartReply,
      RestartFails, WaitMessage, WaitDiscard, NotRequest, control
<1>4. CASE BreakHandler
  BY <1>4 DEF BreakHandler
<1>5. CASE Environment \/ UNCHANGED vars
  BY <1>5, EnvironmentStep DEF control, vars, Environment, SrvCommand, SrvSilent, SrvReply, SrvClose,
      SrvRefuse, SrvEnds, SrvKeepalive, SrvFatal, SrvRequest, SrvErrorTransition, SrvEvent,
      ConnectionLost
<1>6. QED
  BY <1>1, <1>2, <1>3, <1>4, <1>5 DEF Next

\* The wanted reply is the only one until it is read.
LEMMA AwaitedStep ==
  ASSUME TypeOK, TypeOK', StatesAt, Wires, Pipeline, [Next]_vars
  PROVE  Awaited'
<1> SUFFICES ASSUME AwaitingSync' PROVE OneReply'
  BY DEF Awaited
<1>0. s2c \in Seq(Message) /\ c2s \in Seq(Replying \cup Silent)
  BY DEF TypeOK
<1>1. ASSUME NEW cmd \in TransferOps \cup {"TestError"}, Write(cmd), pc \in {"send", "testerror"},
             Wanted' = cmd, UNCHANGED <<conn, s2c, srv>>
      PROVE  OneReply'
  <2>1. Clean
    BY <1>1 DEF StatesAt, Pipeline, InSync
  <2>2. Written(cmd)
    BY <1>1, WriteShape DEF Replying
  <2>3. cmd # "Message"
    BY DEF TransferOps
  <2>4. CASE conn = "down"
    BY <1>0, <1>1, <2>1, <2>2, <2>3, <2>4 DEF OneReply, Clean, Written
  <2>5. CASE conn = "up"
    BY <1>0, <1>1, <2>1, <2>2, <2>3, <2>5 DEF OneReply, Clean, Written
  <2>6. QED
    BY <2>2, <2>4, <2>5 DEF Written
<1>2. CASE SendFragment /\ pc = "send" /\ Write(op) /\ pc' = "sync" /\ op' = op
           /\ UNCHANGED <<conn, s2c, srv>>
  BY <1>1, <1>2 DEF TypeOK, CallsAt, Places, Wanted
<1>3. CASE CheckError /\ pc = "testerror" /\ Write("TestError") /\ pc' = "check"
           /\ UNCHANGED <<conn, s2c, srv>>
  BY <1>1, <1>3 DEF Wanted
<1>4. ASSUME AwaitingSync, UNCHANGED control
      PROVE  OneReply /\ Wanted' = Wanted /\ Wanted \in TransferOps \cup {"TestError"}
  BY <1>4 DEF Pipeline, Awaited, AwaitingSync, control, Wanted, TypeOK, CallsAt, Places
<1>5. CASE /\ AwaitingSync /\ UNCHANGED <<control, conn, c2s, srv>>
           /\ MessageWaiting /\ Header.tag = "Message" /\ ReadAll
  <2>1. Popped
    BY <1>5, ReadShape
  <2>2. OneReply /\ Wanted' = Wanted
    BY <1>4, <1>5
  <2>3. \A i \in 1 .. Len(s2c') : i + 1 \in 1 .. Len(s2c) /\ s2c'[i] = s2c[i + 1]
    BY <2>1, RestOfStream
  <2>4. ASSUME NEW i \in 1 .. Len(s2c')
        PROVE  /\ s2c'[i].tag \in {Wanted, "Message"}
               /\ s2c'[i].tag = Wanted =>
                    c2s = << >> /\ \A j \in 1 .. Len(s2c') : j # i => s2c'[j].tag = "Message"
    <3>1. i + 1 \in 1 .. Len(s2c) /\ s2c'[i] = s2c[i + 1]
      BY <2>3
    <3>2. ASSUME NEW j \in 1 .. Len(s2c'), j # i
          PROVE  j + 1 \in 1 .. Len(s2c) /\ s2c'[j] = s2c[j + 1] /\ j + 1 # i + 1
      BY <2>3, <3>2
    <3>3. QED
      BY <2>2, <3>1, <3>2 DEF OneReply
  <2>5. QED
    BY <1>5, <2>2, <2>4 DEF OneReply
<1>6. CASE AwaitingSync /\ Environment
  <2>1. OneReply /\ Wanted' = Wanted /\ Wanted \in TransferOps \cup {"TestError"}
    BY <1>4, <1>6, EnvironmentStep
  <2> USE <2>1 DEF OneReply
  <2>2. CASE Takes
    BY <1>0, <2>2 DEF Takes, Taken, Silent, SilentCalls, TransferOps
  <2>3. CASE Replies
    <3>1. PICK m \in Message : /\ Grown(m) /\ m.tag = c2s[1]
      BY <2>3 DEF Replies
    <3>2. c2s[1] = Wanted /\ Len(c2s) = 1 /\ Len(c2s') = 0
      BY <1>0, <2>3 DEF Replies, Taken, Replying, SilentCalls, TransferOps
    <3>3. \A i \in 1 .. Len(s2c) : s2c[i].tag = "Message"
      <4>1. c2s # << >>
        BY <3>2
      <4>2. QED
        BY <4>1
    <3>4. conn' = "up" => srv' = "sync"
      BY <2>3, <3>2 DEF Replies, TransferOps
    <3>5. c2s' = << >>
      BY <3>2 DEF TypeOK
    <3>6. \A i \in 1 .. Len(s2c') : s2c'[i].tag = "Message" \/ (i = Len(s2c') /\ s2c'[i].tag = Wanted)
      BY <3>1, <3>2, <3>3 DEF Grown
    <3>7. Wanted # "Message"
      BY DEF TransferOps
    <3>8. QED
      BY <3>4, <3>5, <3>6, <3>7
  <2>4. CASE Signals
    <3>1. PICK m \in Message : Grown(m) /\ m.tag \in Events /\ (m.tag # "Message" => srv = "async")
      BY <2>4 DEF Signals
    <3>2. m.tag = "Message"
      BY <2>4, <3>1 DEF Signals
    <3>3. QED
      BY <1>0, <2>4, <3>1, <3>2 DEF Signals, Grown, TransferOps
  <2>5. CASE Ends
    <3>1. PICK m \in Message : Grown(m) /\ (m.tag = "Message" \/ (Len(c2s) > 0 /\ c2s[1] = "Close"))
      BY <2>5 DEF Ends
    <3>2. m.tag = "Message"
      BY <1>0, <3>1 DEF SilentCalls, TransferOps
    <3>3. QED
      BY <1>0, <2>5, <3>1, <3>2 DEF Ends, Grown, TransferOps
  <2>6. CASE Loses
    BY <1>0, <2>6 DEF Loses, Shortened
  <2>7. QED
    BY <1>6, <2>2, <2>3, <2>4, <2>5, <2>6, EnvironmentStep
<1>7. CASE AwaitingSync /\ UNCHANGED vars
  BY <1>4, <1>7 DEF vars, control, OneReply
<1>8. QED
  BY <1>2, <1>3, <1>5, <1>6, <1>7, AwaitingSteps

\* ReplyComes is inductive by itself: the loops that await a reply are entered
\* with the command that asks for it, throw away nothing but messages, and the
\* server answers what it takes.
LEMMA ReplyComesStep ==
  ASSUME TypeOK, TypeOK', ReplyComes, [Next]_vars
  PROVE  ReplyComes'
<1> SUFFICES ASSUME AwaitingSync', conn' = "up" PROVE Pending(Wanted)'
  BY DEF ReplyComes, Pending
<1>0. s2c \in Seq(Message) /\ c2s \in Seq(Replying \cup Silent)
  BY DEF TypeOK
<1>1. ASSUME NEW cmd \in Replying, Write(cmd), UNCHANGED conn
      PROVE  \E i \in 1 .. Len(c2s') : c2s'[i] = cmd
  <2>1. Written(cmd) /\ conn = "up"
    BY <1>1, WriteShape
  <2>2. QED
    BY <1>0, <2>1 DEF Written
<1>2. CASE SendFragment /\ pc = "send" /\ Write(op) /\ pc' = "sync" /\ op' = op
           /\ UNCHANGED <<conn, s2c, srv>>
  <2>1. op \in Replying /\ Wanted' = op
    BY <1>2 DEF TypeOK, CallsAt, Places, Wanted, Replying
  <2>2. QED
    BY <1>1, <1>2, <2>1 DEF Pending
<1>3. CASE CheckError /\ pc = "testerror" /\ Write("TestError") /\ pc' = "check"
           /\ UNCHANGED <<conn, s2c, srv>>
  <2>1. "TestError" \in Replying /\ Wanted' = "TestError"
    BY <1>3 DEF Wanted, Replying
  <2>2. QED
    BY <1>1, <1>3, <2>1 DEF Pending
<1>4. ASSUME AwaitingSync, UNCHANGED control, conn = "up"
      PROVE  Pending(Wanted) /\ Wanted' = Wanted /\ Wanted \in TransferOps \cup {"TestError"}
  <2>1. Wanted' = Wanted
    BY <1>4 DEF control, Wanted
  <2>2. Wanted \in TransferOps \cup {"TestError"}
    BY <1>4 DEF AwaitingSync, Wanted, TypeOK, CallsAt, Places
  <2>3. QED
    BY <1>4, <2>1, <2>2 DEF ReplyComes, Pending
<1>5. CASE /\ AwaitingSync /\ UNCHANGED <<control, conn, c2s, srv>>
           /\ MessageWaiting /\ Header.tag = "Message" /\ ReadAll
  <2>1. Popped /\ s2c[1].tag = "Message"
    BY <1>5, ReadShape
  <2>2. Pending(Wanted) /\ Wanted' = Wanted /\ Wanted # "Message"
    BY <1>4, <1>5 DEF TransferOps
  <2>3. ASSUME NEW i \in 1 .. Len(s2c), s2c[i].tag = Wanted
        PROVE  i - 1 \in 1 .. Len(s2c') /\ s2c'[i - 1].tag = Wanted
    BY <1>0, <2>1, <2>2, <2>3 DEF Popped
  <2>4. QED
    BY <1>5, <2>2, <2>3 DEF Pending
<1>6. CASE AwaitingSync /\ Environment
  <2>1. conn = "up" /\ UNCHANGED control
    BY <1>6, EnvironmentStep DEF Takes, Replies, Signals, Ends, Loses
  <2>2. Pending(Wanted) /\ Wanted' = Wanted /\ Wanted \in TransferOps \cup {"TestError"}
    BY <1>4, <1>6, <2>1
  <2>3. CASE Takes
    <3>1. c2s[1] # Wanted /\ s2c' = s2c
      BY <2>2, <2>3 DEF Takes, Silent, TransferOps
    <3>2. ASSUME NEW i \in 1 .. Len(c2s), c2s[i] = Wanted
          PROVE  i - 1 \in 1 .. Len(c2s') /\ c2s'[i - 1] = Wanted
      BY <1>0, <2>3, <3>1, <3>2 DEF Takes, Taken
    <3>3. QED
      BY <2>2, <3>1, <3>2 DEF Pending
  <2>4. CASE Replies
    <3>1. PICK m \in Message : Grown(m) /\ m.tag = c2s[1]
      BY <2>4 DEF Replies
    <3>2. \A i \in 1 .. Len(s2c) : i \in 1 .. Len(s2c') /\ s2c'[i] = s2c[i]
      BY <1>0, <3>1 DEF Grown
    <3>3. CASE c2s[1] = Wanted
      <4>1. Len(s2c') \in 1 .. Len(s2c') /\ s2c'[Len(s2c')] = m
        BY <1>0, <3>1 DEF Grown
      <4>2. QED
        BY <2>2, <3>1, <3>3, <4>1 DEF Pending
    <3>4. ASSUME NEW i \in 1 .. Len(c2s), c2s[i] = Wanted, c2s[1] # Wanted
          PROVE  i - 1 \in 1 .. Len(c2s') /\ c2s'[i - 1] = Wanted
      BY <1>0, <2>4, <3>4 DEF Replies, Taken
    <3>5. QED
      BY <2>2, <3>2, <3>3, <3>4 DEF Pending
  <2>5. CASE Signals
    BY <1>0, <2>2, <2>5 DEF Signals, Grown, Pending
  <2>6. QED
    BY <1>6, <2>3, <2>4, <2>5, EnvironmentStep DEF Ends, Loses
<1>7. CASE AwaitingSync /\ UNCHANGED vars
  BY <1>4, <1>7 DEF vars, control, Pending
<1>8. QED
  BY <1>2, <1>3, <1>5, <1>6, <1>7, AwaitingSteps

\* The steps after which the client is, or may begin to be, in the read loop of
\* the asynchronous mode.
LEMMA StreamingSteps ==
  ASSUME TypeOK, StatesAt, ModeAgreement, [Next]_vars,
         pc' \in {"idle", "async"}, proto' = "Asynchronous"
  PROVE  \/ /\ Write("CommsAsynchronous") /\ UNCHANGED <<conn, s2c, srv>>
            /\ pc = "idle" /\ proto \in {"Synchronous", "Asynchronous"}
         \/ /\ pc \in {"idle", "async"} /\ proto = "Asynchronous"
            /\ \/ UNCHANGED <<conn, c2s, srv>> /\ (s2c' = s2c \/ Popped \/ Junked)
               \/ UNCHANGED <<conn, s2c, srv>> /\ Write("AsyncWrite")
               \/ Environment
<1> USE DEF client, control, net, server, Return, Enter, Goto
<1>1. CASE Call
  <2>1. CASE TOPS_Open \/ TOPS_CommsSynchronous \/ TOPS_Restart \/ TOPS_Reset \/ TOPS_Analyse
             \/ TOPS_ErrorDetect \/ TOPS_ErrorIgnore
    BY <2>1, Accepted DEF TOPS_Open, OpenFails, TOPS_CommsSynchronous, TOPS_Restart, WriteFails,
                TOPS_Reset, TOPS_Analyse, TOPS_ErrorDetect, TOPS_ErrorIgnore, SilentCommand, SilentCalls
  <2>2. CASE Refuse
    BY <2>2, RefusedInShell DEF Refuse, Live
  <2>3. CASE Transfer
    BY <2>3 DEF Transfer
  <2>4. CASE TOPS_CommsAsynchronous
    BY <2>4, Accepted DEF TOPS_CommsAsynchronous, WriteFails
  <2>5. CASE TOPS_SendReply \/ TOPS_GetRequest
    BY <2>5, Accepted DEF TOPS_SendReply, TOPS_GetRequest, WriteFails
  <2>6. CASE TOPS_Close
    <3>1. ~(UNCHANGED proto /\ commsmode = "closed")
      BY DEF ModeAgreement
    <3>2. QED
      BY <2>6, <3>1 DEF TOPS_Close, FinishClose
  <2>7. QED
    BY <1>1, <2>1, <2>2, <2>3, <2>4, <2>5, <2>6 DEF Call
<1>2. CASE Step
  <2>1. CASE OpenReply \/ SendFragment \/ TransferDone \/ CheckError
    BY <2>1 DEF OpenReply, OpenFails, SendFragment, Owing, TransferDone, CheckError, StatesAt
  <2>2. CASE SyncReply \/ SyncMessage \/ SyncPanic \/ SyncReadFails
    BY <2>2 DEF SyncReply, SyncMessage, SyncPanic, SyncReadFails, ReadFails, AwaitingSync,
                HandleMessage, StatesAt
  <2>3. CASE CommsSyncReply \/ CommsSyncErrorTransition \/ CommsSyncRequest \/ CommsSyncMessage
             \/ CommsSyncOther \/ CommsSyncReadFails
    BY <2>3 DEF CommsSyncReply, CommsSyncErrorTransition, CommsSyncRequest, CommsSyncMessage,
                CommsSyncOther, CommsSyncReadFails, ReadFails, AwaitingCommsSync, HandleMessage,
                StatesAt
  <2>4. CASE DrainEnds \/ QueueRequest \/ DeliverRequest \/ BadRequest
    BY <2>4, ReadShape DEF DrainEnds, QueueRequest, DeliverRequest, BadRequest, StatesAt, Draining,
                 AwaitingAsync, MayRead
  <2>5. CASE AsyncMessage \/ AsyncErrorTransition \/ AsyncOther \/ AsyncReadFails \/ Heartbeat
    BY <2>5, ReadShape DEF AsyncMessage, AsyncErrorTransition, AsyncOther, AsyncReadFails, Heartbeat,
                 StatesAt, AwaitingAsync, MayRead, Getting, HandleMessage
  <2>6. CASE CloseEnds \/ RestartReply \/ RestartFails \/ WaitMessage \/ WaitDiscard
    BY <2>6 DEF CloseEnds, FinishClose, RestartReply, RestartFails, WaitMessage, WaitDiscard,
                HandleMessage, StatesAt, ClosingStates, CallsAt, TypeOK
  <2>7. QED
    BY <1>2, <2>1, <2>2, <2>3, <2>4, <2>5, <2>6 DEF Step
<1>3. CASE BreakHandler
  BY <1>3 DEF BreakHandler
<1>4. CASE Environment \/ UNCHANGED vars
  BY <1>4, EnvironmentStep DEF vars
<1>5. QED
  BY <1>1, <1>2, <1>3, <1>4 DEF Next

\* The server keeps to asynchronous mode while no command changes it.
LEMMA StreamingKept ==
  ASSUME TypeOK, Streaming, Environment
  PROVE  Streaming'
<1>0. s2c \in Seq(Message) /\ c2s \in Seq(Replying \cup Silent)
  BY DEF TypeOK
<1> USE DEF Streaming
<1>1. CASE Takes
  <2>1. \A i \in 1 .. Len(c2s') : c2s'[i] \in Silent
    BY <1>0, <1>1 DEF Takes, Taken
  <2>2. ASSUME NEW i \in 2 .. Len(c2s), c2s[i] = "CommsAsynchronous"
        PROVE  i - 1 \in 1 .. Len(c2s') /\ c2s'[i - 1] = "CommsAsynchronous"
    BY <1>0, <1>1, <2>2 DEF Takes, Taken
  <2>3. srv' = "async" \/ \E i \in 1 .. Len(c2s') : c2s'[i] = "CommsAsynchronous"
    <3>1. CASE srv = "async" \/ c2s[1] = "CommsAsynchronous"
      BY <1>1, <3>1 DEF Takes
    <3>2. CASE \E i \in 2 .. Len(c2s) : c2s[i] = "CommsAsynchronous"
      BY <2>2, <3>2
    <3>3. QED
      BY <1>0, <1>1, <3>1, <3>2 DEF Takes
  <2>4. QED
    BY <1>1, <2>1, <2>3 DEF Takes
<1>2. CASE Replies
  BY <1>0, <1>2 DEF Replies, Taken, Replying, TransferOps, Silent
<1>3. CASE Signals
  BY <1>0, <1>3 DEF Signals, Grown
<1>4. CASE Ends
  BY <1>0, <1>4 DEF Ends, Grown, Silent, Events
<1>5. CASE Loses
  BY <1>0, <1>5 DEF Loses, Shortened
<1>6. QED
  BY <1>1, <1>2, <1>3, <1>4, <1>5, EnvironmentStep

\* The calls of asynchronous mode send no command that has a reply.
LEMMA InAsyncStep ==
  ASSUME TypeOK, TypeOK', StatesAt, ModeAgreement, Wires, Pipeline, [Next]_vars
  PROVE  InAsync'
<1> SUFFICES ASSUME pc' \in {"idle", "async"}, proto' = "Asynchronous" PROVE Streaming'
  BY DEF InAsync
<1>0. s2c \in Seq(Message) /\ c2s \in Seq(Replying \cup Silent)
  BY DEF TypeOK
<1>1. CASE /\ Write("CommsAsynchronous") /\ UNCHANGED <<conn, s2c, srv>>
           /\ pc = "idle" /\ proto \in {"Synchronous", "Asynchronous"}
  <2>1. /\ \A i \in 1 .. Len(s2c) : s2c[i].tag \in Events \cup {"Junk"}
        /\ \A i \in 1 .. Len(c2s) : c2s[i] \in Silent
    BY <1>1 DEF Pipeline, InSync, Clean, InAsync, Streaming, Events, Silent, SilentCalls
  <2>2. Written("CommsAsynchronous")
    BY <1>1, WriteShape DEF Silent
  <2>3. CASE conn = "down"
    BY <1>1, <2>1, <2>2, <2>3 DEF Streaming, Written
  <2>4. CASE conn = "up"
    <3>1. \A i \in 1 .. Len(c2s') : c2s'[i] \in Silent
      BY <2>1, <2>2, <2>4 DEF Written, Silent
    <3>2. Len(c2s') \in 1 .. Len(c2s') /\ c2s'[Len(c2s')] = "CommsAsynchronous"
      BY <1>0, <2>2, <2>4 DEF Written
    <3>3. QED
      BY <1>1, <2>1, <3>1, <3>2 DEF Streaming
  <2>5. QED
    BY <2>2, <2>3, <2>4 DEF Written
<1>2. CASE pc \in {"idle", "async"} /\ proto = "Asynchronous"
  <2>0. Streaming
    BY <1>2 DEF Pipeline, InAsync
  <2>1. CASE UNCHANGED <<conn, c2s, srv>> /\ s2c' = s2c
    BY <2>0, <2>1 DEF Streaming
  <2>2. CASE UNCHANGED <<conn, c2s, srv>> /\ Popped
    BY <1>0, <2>0, <2>2 DEF Streaming, Popped
  <2>3. CASE UNCHANGED <<conn, c2s, srv>> /\ Junked
    BY <1>0, <2>0, <2>3 DEF Streaming, Junked, Junk, Plain
  <2>4. CASE UNCHANGED <<conn, s2c, srv>> /\ Write("AsyncWrite")
    <3>1. Written("AsyncWrite") /\ "AsyncWrite" \in Silent
      BY <2>4, WriteShape DEF Silent
    <3>2. CASE conn = "down"
      BY <2>0, <2>4, <3>1, <3>2 DEF Streaming, Written
    <3>3. CASE conn = "up"
      BY <1>0, <2>0, <2>4, <3>1, <3>3 DEF Streaming, Written
    <3>4. QED
      BY <3>1, <3>2, <3>3 DEF Written
  <2>5. CASE Environment
    BY <2>0, <2>5, StreamingKept
  <2>6. CASE UNCHANGED <<conn, c2s, srv>> /\ (s2c' = s2c \/ Popped \/ Junked)
    BY <2>1, <2>2, <2>3, <2>6
  <2>7. QED
    BY <1>1, <1>2, <2>4, <2>5, <2>6, StreamingSteps
<1>3. QED
  BY <1>1, <1>2, StreamingSteps

\* The steps after which the reply to a change to synchronous mode is awaited.
LEMMA CancellingSteps ==
  ASSUME TypeOK, [Next]_vars, pc' = "commssync"
  PROVE  \/ /\ Write("CommsSynchronous") /\ UNCHANGED <<conn, s2c, srv>>
            /\ pc = "idle" /\ proto \in {"Synchronous", "Asynchronous"}
         \/ /\ pc = "commssync"
            /\ \/ UNCHANGED <<conn, c2s, srv>> /\ (s2c' = s2c \/ Popped \/ Junked)
               \/ Environment
<1> USE DEF client, control, net, server, Return, Enter, Goto
<1>1. CASE Call
  BY <1>1, Accepted DEF Call, Refuse, TOPS_Open, OpenFails, TOPS_Reset, TOPS_Analyse,
      TOPS_ErrorDetect, TOPS_ErrorIgnore, SilentCommand, Transfer, TOPS_CommsSynchronous,
      TOPS_CommsAsynchronous, TOPS_SendReply, TOPS_GetRequest, TOPS_Restart, TOPS_Close,
      FinishClose
<1>2. CASE CommsSyncErrorTransition \/ CommsSyncRequest \/ CommsSyncMessage \/ CommsSyncOther
  BY <1>2, ReadShape DEF CommsSyncErrorTransition, CommsSyncRequest, CommsSyncMessage,
      CommsSyncOther, AwaitingCommsSync, HandleMessage
<1>3. CASE Step /\ ~(CommsSyncErrorTransition \/ CommsSyncRequest \/ CommsSyncMessage
                     \/ CommsSyncOther)
  BY <1>3 DEF Step, OpenReply, OpenFails, SendFragment, TransferDone, CheckError,
      SyncReply, SyncMessage, AwaitingSync, SyncPanic, SyncReadFails, ReadFails,
      CommsSyncReply, AwaitingCommsSync, CommsSyncReadFails, DrainEnds, QueueRequest,
      DeliverRequest, BadRequest, AwaitingAsync, AsyncMessage, AsyncErrorTransition, MayRead,
      AsyncOther, AsyncReadFails, Heartbeat, Getting, CloseEnds, FinishClose, RestartReply,
      RestartFails, WaitMessage, WaitDiscard, NotRequest
<1>4. CASE BreakHandler
  BY <1>4 DEF BreakHandler
<1>5. CASE Environment \/ UNCHANGED vars
  BY <1>5, EnvironmentStep DEF vars
<1>6. QED
  BY <1>1, <1>2, <1>3, <1>4, <1>5 DEF Next

\* The server's steps keep the reply that ends asynchronous mode the last.
LEMMA ModeReplyKept ==
  ASSUME TypeOK, TypeOK', Wires, ModeReply, Environment
  PROVE  ModeReply'
<1>0. s2c \in Seq(Message) /\ c2s \in Seq(Replying \cup Silent)
      /\ s2c' \in Seq(Message) /\ c2s' \in Seq(Replying \cup Silent)
  BY DEF TypeOK
<1> USE DEF ModeReply
<1>1. CASE Takes
  <2>1. \A i \in 1 .. Len(s2c) : s2c[i].tag # "CommsSynchronous"
    BY <1>0, <1>1 DEF Takes, Taken
  <2>2. QED
    BY <1>0, <1>1, <2>1 DEF Takes, Taken
<1>2. CASE Replies
  <2>1. PICK m \in Message :
          /\ Grown(m) /\ m.tag = c2s[1]
          /\ m.form = "good" /\ c2s[1] = "CommsSynchronous" => srv' = "sync"
    BY <1>2 DEF Replies
  <2>2. Taken /\ 1 \in 1 .. Len(c2s) /\ c2s[1] \notin Silent
    BY <1>0, <1>2 DEF Replies, Taken, Replying, TransferOps, Silent
  <2>3. c2s[1] = "CommsSynchronous" /\ Len(c2s) = 1
    BY <2>2
  <2>4. c2s' = << >>
    BY <1>0, <2>2, <2>3 DEF Taken
  <2>5. c2s # << >>
    BY <2>3
  <2>6. \A i \in 1 .. Len(s2c) : s2c[i].tag \in Events \cup {"Junk"}
    BY <2>5
  <2>7. \A i \in 1 .. Len(s2c') : s2c'[i].tag \in Events \cup {"Junk"} \/ (i = Len(s2c') /\ s2c'[i] = m)
    BY <2>1, <2>6 DEF Grown
  <2>8. QED
    BY <1>0, <2>1, <2>3, <2>4, <2>7 DEF Events
<1>3. CASE Signals
  <2>1. PICK m \in Message : Grown(m) /\ m.tag \in Events /\ (m.tag # "Message" => srv = "async")
    BY <1>3 DEF Signals
  <2>2. UNCHANGED <<conn, c2s, srv>> /\ conn = "up"
    BY <1>3 DEF Signals
  <2>3. ASSUME NEW i \in 1 .. Len(s2c'), s2c'[i].tag = "CommsSynchronous"
        PROVE  i \in 1 .. Len(s2c) /\ s2c'[i] = s2c[i]
    BY <2>1, <2>3 DEF Grown, Events
  <2>4. ASSUME NEW i \in 1 .. Len(s2c'), s2c'[i].tag = "CommsSynchronous", s2c'[i].form = "good"
        PROVE  \A j \in 1 .. Len(s2c') : j > i => s2c'[j].tag = "Message"
    <3>1. i \in 1 .. Len(s2c) /\ s2c[i].tag = "CommsSynchronous" /\ s2c[i].form = "good"
      BY <2>3, <2>4
    <3>2. srv = "sync" /\ \A j \in 1 .. Len(s2c) : j > i => s2c[j].tag = "Message"
      BY <2>2, <3>1
    <3>3. m.tag = "Message"
      BY <2>1, <3>2
    <3>4. QED
      BY <2>1, <3>2, <3>3 DEF Grown
  <2>5. \A i \in 1 .. Len(s2c') : s2c'[i].tag \in Events \cup {"Junk", "CommsSynchronous"}
    BY <2>1 DEF Grown
  <2>6. QED
    BY <2>2, <2>3, <2>4, <2>5
<1>4. CASE Ends
  <2>1. PICK m \in Message : Grown(m) /\ (m.tag = "Message" \/ (Len(c2s) > 0 /\ c2s[1] = "Close"))
    BY <1>4 DEF Ends
  <2>2. m.tag = "Message"
    <3>1. Len(c2s) > 0 => 1 \in 1 .. Len(c2s)
      BY <1>0
    <3>2. Len(c2s) > 0 => c2s[1] # "Close"
      BY <3>1 DEF Silent
    <3>3. QED
      BY <2>1, <3>2
  <2>3. conn' = "down" /\ c2s' = << >>
    BY <1>4 DEF Ends
  <2>4. \A i \in 1 .. Len(s2c') : \/ s2c'[i].tag = "Message"
                                  \/ i \in 1 .. Len(s2c) /\ s2c'[i] = s2c[i]
    BY <2>1, <2>2 DEF Grown
  <2>5. ASSUME NEW i \in 1 .. Len(s2c'), s2c'[i].tag = "CommsSynchronous", s2c'[i].form = "good"
        PROVE  \A j \in 1 .. Len(s2c') : j > i => s2c'[j].tag = "Message"
    <3>1. i \in 1 .. Len(s2c) /\ s2c[i].tag = "CommsSynchronous" /\ s2c[i].form = "good"
      BY <2>4, <2>5
    <3>2. \A j \in 1 .. Len(s2c) : j > i => s2c[j].tag = "Message"
      BY <3>1
    <3>3. QED
      BY <2>4, <3>2
  <2>6. \A i \in 1 .. Len(s2c') : s2c'[i].tag \in Events \cup {"Junk", "CommsSynchronous"}
    BY <2>4 DEF Events
  <2>7. QED
    BY <2>3, <2>5, <2>6
<1>5. CASE Loses
  <2>1. conn' = "down" /\ c2s' = << >> /\ Shortened
    BY <1>5 DEF Loses
  <2>2. \A i \in 1 .. Len(s2c') : i \in 1 .. Len(s2c) /\ s2c'[i].tag = s2c[i].tag
                                /\ (s2c'[i].form = "good" => s2c[i].form = "good")
    BY <1>0, <2>1 DEF Shortened
  <2>3. ASSUME NEW i \in 1 .. Len(s2c'), s2c'[i].tag = "CommsSynchronous", s2c'[i].form = "good"
        PROVE  \A j \in 1 .. Len(s2c') : j > i => s2c'[j].tag = "Message"
    <3>1. i \in 1 .. Len(s2c) /\ s2c[i].tag = "CommsSynchronous" /\ s2c[i].form = "good"
      BY <2>2, <2>3
    <3>2. \A j \in 1 .. Len(s2c) : j > i => s2c[j].tag = "Message"
      BY <3>1
    <3>3. QED
      BY <2>2, <3>2
  <2>4. QED
    BY <2>1, <2>2, <2>3
<1>6. QED
  BY <1>1, <1>2, <1>3, <1>4, <1>5, EnvironmentStep

\* Until that reply is read the client sends nothing.
LEMMA CancellingStep ==
  ASSUME TypeOK, TypeOK', Wires, Pipeline, [Next]_vars
  PROVE  Cancelling'
<1> SUFFICES ASSUME pc' = "commssync" PROVE ModeReply'
  BY DEF Cancelling
<1>0. s2c \in Seq(Message) /\ c2s \in Seq(Replying \cup Silent)
  BY DEF TypeOK
<1>1. CASE /\ Write("CommsSynchronous") /\ UNCHANGED <<conn, s2c, srv>>
           /\ pc = "idle" /\ proto \in {"Synchronous", "Asynchronous"}
  <2>1. /\ \A i \in 1 .. Len(s2c) : s2c[i].tag \in Events \cup {"Junk"}
        /\ \A i \in 1 .. Len(c2s) : c2s[i] \in Silent
    BY <1>1 DEF Pipeline, InSync, Clean, InAsync, Streaming, Events, Silent, SilentCalls
  <2>2. Written("CommsSynchronous")
    BY <1>1, WriteShape DEF Replying
  <2>3. CASE conn = "down"
    BY <1>1, <2>1, <2>2, <2>3 DEF ModeReply, Written, Events
  <2>4. CASE conn = "up"
    BY <1>1, <2>1, <2>2, <2>4 DEF ModeReply, Written, Events
  <2>5. QED
    BY <2>2, <2>3, <2>4 DEF Written
<1>2. CASE pc = "commssync"
  <2>0. ModeReply
    BY <1>2 DEF Pipeline, Cancelling
  <2>1. CASE UNCHANGED <<conn, c2s, srv>> /\ s2c' = s2c
    BY <2>0, <2>1 DEF ModeReply
  <2>2. CASE UNCHANGED <<conn, c2s, srv>> /\ Popped
    <3>1. ASSUME NEW i \in 1 .. Len(s2c')
          PROVE  /\ i + 1 \in 1 .. Len(s2c) /\ s2c'[i] = s2c[i + 1]
                 /\ \A j \in 1 .. Len(s2c') : j > i =>
                      j + 1 \in 1 .. Len(s2c) /\ s2c'[j] = s2c[j + 1] /\ j + 1 > i + 1
      BY <1>0, <2>2 DEF Popped
    <3>2. QED
      BY <2>0, <2>2, <3>1, SMTT(30) DEF ModeReply
  <2>3. CASE UNCHANGED <<conn, c2s, srv>> /\ Junked
    BY <1>0, <2>0, <2>3 DEF ModeReply, Junked, Junk, Plain
  <2>4. CASE Environment
    BY <2>0, <2>4, ModeReplyKept
  <2>5. CASE UNCHANGED <<conn, c2s, srv>> /\ (s2c' = s2c \/ Popped \/ Junked)
    BY <2>1, <2>2, <2>3, <2>5
  <2>6. QED
    BY <1>1, <1>2, <2>4, <2>5, CancellingSteps
<1>3. QED
  BY <1>1, <1>2, CancellingSteps

\* The steps after which the client may be told of an error transition.
LEMMA DetectSteps ==
  ASSUME TypeOK, StatesAt, ModeAgreement, [Next]_vars, proto' \in Live,
         ~(RestartReply /\ Header.form = "good")
  PROVE  \/ OpenReply /\ srvdetect' = "off" /\ UNCHANGED errordetect
         \/ /\ pc = "idle" /\ proto = "Synchronous" /\ UNCHANGED <<conn, s2c, srvdetect>>
            /\ \E cmd \in ErrorCalls : Write(cmd) /\ errordetect' = Flag(cmd)
         \/ /\ proto \in Live /\ UNCHANGED errordetect
            /\ \/ UNCHANGED <<conn, c2s, srvdetect>> /\ (s2c' = s2c \/ Popped \/ Junked)
               \/ /\ UNCHANGED <<conn, s2c, srvdetect>>
                  /\ \E cmd \in (Replying \cup Silent) \ ErrorCalls : Write(cmd)
               \/ Environment
<1> USE DEF Live, client, net, server, Return, Enter, Goto
<1>1. CASE Call
  <2>1. CASE TOPS_Open \/ TOPS_Restart
    BY <2>1 DEF TOPS_Open, OpenFails, TOPS_Restart
  <2>2. CASE Refuse \/ Transfer \/ TOPS_GetRequest
    BY <2>2 DEF Refuse, Transfer, TOPS_GetRequest
  <2>3. CASE TOPS_Reset \/ TOPS_Analyse
    BY <2>3 DEF TOPS_Reset, TOPS_Analyse, SilentCommand, Silent, ErrorCalls, WriteFails
  <2>4. CASE TOPS_ErrorDetect \/ TOPS_ErrorIgnore
    BY <2>4, Accepted DEF TOPS_ErrorDetect, TOPS_ErrorIgnore, SilentCommand, SetErrorMode,
       ErrorCalls, Flag, WriteFails, SilentCalls
  <2>5. CASE TOPS_CommsSynchronous \/ TOPS_CommsAsynchronous \/ TOPS_SendReply
    BY <2>5, Accepted DEF TOPS_CommsSynchronous, TOPS_CommsAsynchronous, TOPS_SendReply,
       WriteFails, Silent, Replying, ErrorCalls
  <2>6. CASE TOPS_Close
    <3>1. ~(proto \in DOMAIN Closing /\ proto' = Closing[proto])
      BY DEF Closing
    <3>2. QED
      BY <2>6, <3>1 DEF TOPS_Close, FinishClose
  <2>7. QED
    BY <1>1, <2>1, <2>2, <2>3, <2>4, <2>5, <2>6 DEF Call
<1>2. CASE Step
  <2>1. CASE OpenReply
    BY <2>1 DEF OpenReply, OpenFails
  <2>2. CASE TransferDone
    BY <2>2 DEF TransferDone
  <2>3. CASE SendFragment \/ CheckError
    <3>1. op \in TransferOps \/ pc # "send"
      BY DEF TypeOK, CallsAt, Places
    <3>2. QED
      BY <2>3, <3>1 DEF SendFragment, CheckError, StatesAt, WriteFails, ErrorCalls,
         Replying, TransferOps
  <2>4. CASE SyncReply \/ SyncMessage \/ SyncPanic \/ SyncReadFails
    BY <2>4, ReadShape DEF SyncReply, SyncMessage, SyncPanic, SyncReadFails, ReadFails, AwaitingSync,
                HandleMessage, StatesAt
  <2>5. CASE CommsSyncReply \/ CommsSyncErrorTransition \/ CommsSyncRequest \/ CommsSyncMessage
             \/ CommsSyncOther \/ CommsSyncReadFails
    BY <2>5, ReadShape DEF CommsSyncReply, CommsSyncErrorTransition, CommsSyncRequest, CommsSyncMessage,
                CommsSyncOther, CommsSyncReadFails, ReadFails, AwaitingCommsSync, HandleMessage,
                StatesAt
  <2>6. CASE DrainEnds \/ QueueRequest \/ DeliverRequest \/ BadRequest
    BY <2>6, ReadShape DEF DrainEnds, QueueRequest, DeliverRequest, BadRequest, StatesAt, Draining,
                 AwaitingAsync, MayRead
  <2>7. CASE AsyncMessage \/ AsyncErrorTransition \/ AsyncOther \/ AsyncReadFails \/ Heartbeat
    BY <2>7, ReadShape DEF AsyncMessage, AsyncErrorTransition, AsyncOther, AsyncReadFails, Heartbeat,
                 StatesAt, AwaitingAsync, MayRead, Getting, HandleMessage
  <2>8. CASE CloseEnds \/ RestartReply \/ RestartFails \/ WaitMessage \/ WaitDiscard
    BY <2>8, ReadShape DEF CloseEnds, FinishClose, RestartReply, RestartFails, WaitMessage, WaitDiscard,
                HandleMessage, StatesAt, ClosingStates, CallsAt, TypeOK
  <2>9. QED
    BY <1>2, <2>1, <2>2, <2>3, <2>4, <2>5, <2>6, <2>7, <2>8 DEF Step
<1>3. CASE BreakHandler
  BY <1>3, ReadShape DEF BreakHandler
<1>4. CASE Environment \/ UNCHANGED vars
  BY <1>4, EnvironmentStep DEF vars
<1>5. QED
  BY <1>1, <1>2, <1>3, <1>4 DEF Next

\* The error detect flags of the client and of the server agree, but for the
\* commands on the way.
LEMMA DetectedStep ==
  ASSUME TypeOK, TypeOK', ModeAgreement, StatesAt, Wires, RestartIsLast, Pipeline, [Next]_vars,
         ~(RestartReply /\ Header.form = "good")
  PROVE  Detected'
<1> SUFFICES ASSUME proto' \in Live
             PROVE  /\ \A i \in 1 .. Len(s2c') : s2c'[i].tag = "ErrorTransition" => errordetect' = "on"
                    /\ conn' = "up" => FlagOnTheWay'
  BY DEF Detected
<1>0. s2c \in Seq(Message) /\ c2s \in Seq(Replying \cup Silent)
      /\ s2c' \in Seq(Message) /\ c2s' \in Seq(Replying \cup Silent)
  BY DEF TypeOK
<1>1. CASE OpenReply /\ srvdetect' = "off" /\ UNCHANGED errordetect
  BY <1>1, OpensAnew DEF FlagOnTheWay
<1>2. CASE /\ pc = "idle" /\ proto = "Synchronous" /\ UNCHANGED <<conn, s2c, srvdetect>>
           /\ \E cmd \in ErrorCalls : Write(cmd) /\ errordetect' = Flag(cmd)
  <2>1. PICK cmd \in ErrorCalls : Write(cmd) /\ errordetect' = Flag(cmd)
    BY <1>2
  <2>2. Written(cmd)
    BY <2>1, WriteShape DEF ErrorCalls, Silent
  <2>3. \A i \in 1 .. Len(s2c') : s2c'[i].tag # "ErrorTransition"
    BY <1>2 DEF Pipeline, InSync, Clean
  <2>4. ASSUME conn' = "up" PROVE FlagOnTheWay'
    <3>1. /\ Len(c2s') \in 1 .. Len(c2s') /\ c2s'[Len(c2s')] = cmd
      BY <1>0, <1>2, <2>2, <2>4 DEF Written
    <3>2. \A i \in 1 .. Len(c2s') : i # Len(c2s') => Len(c2s') > i
      BY <1>0
    <3>3. QED
      BY <2>1, <3>1, <3>2 DEF FlagOnTheWay
  <2>5. QED
    BY <2>3, <2>4
<1>3. CASE proto \in Live /\ UNCHANGED errordetect
  <2>0. /\ \A i \in 1 .. Len(s2c) : s2c[i].tag = "ErrorTransition" => errordetect = "on"
        /\ conn = "up" => FlagOnTheWay
    BY <1>3 DEF Pipeline, Detected
  <2>1. CASE UNCHANGED <<conn, c2s, srvdetect>> /\ (s2c' = s2c \/ Popped \/ Junked)
    <3>1. \A i \in 1 .. Len(s2c') : s2c'[i].tag = "ErrorTransition" => errordetect' = "on"
      <4>1. CASE s2c' = s2c
        BY <1>3, <2>0, <4>1
      <4>2. CASE Popped
        BY <1>0, <1>3, <2>0, <4>2 DEF Popped
      <4>3. CASE Junked
        BY <1>0, <1>3, <2>0, <4>3 DEF Junked, Junk, Plain
      <4>4. QED
        BY <2>1, <4>1, <4>2, <4>3
    <3>2. QED
      BY <1>3, <2>0, <2>1, <3>1 DEF FlagOnTheWay
  <2>2. CASE /\ UNCHANGED <<conn, s2c, srvdetect>>
             /\ \E cmd \in (Replying \cup Silent) \ ErrorCalls : Write(cmd)
    <3>1. PICK cmd \in (Replying \cup Silent) \ ErrorCalls : Written(cmd)
      BY <2>2, WriteShape
    <3>2. ASSUME conn = "up" PROVE FlagOnTheWay'
      <4>1. \A i \in 1 .. Len(c2s) : i \in 1 .. Len(c2s') /\ c2s'[i] = c2s[i]
        BY <1>0, <3>1, <3>2 DEF Written
      <4>2. \A i \in 1 .. Len(c2s') : c2s'[i] \in ErrorCalls => i \in 1 .. Len(c2s) /\ c2s'[i] = c2s[i]
        BY <3>1, <3>2 DEF Written
      <4>3. FlagOnTheWay /\ UNCHANGED <<errordetect, srvdetect>>
        BY <1>3, <2>0, <2>2, <3>2
      <4>4. QED
        BY <4>1, <4>2, <4>3 DEF FlagOnTheWay
    <3>3. QED
      BY <1>3, <2>0, <2>2, <3>2
  <2>3. CASE Takes
    <3>1. conn = "up" /\ FlagOnTheWay /\ s2c' = s2c
      BY <2>0, <2>3 DEF Takes
    <3>2. /\ 1 \in 1 .. Len(c2s)
          /\ \A i \in 1 .. Len(c2s') : i + 1 \in 1 .. Len(c2s) /\ c2s'[i] = c2s[i + 1]
          /\ \A i \in 1 .. Len(c2s) : i = 1 \/ (i - 1 \in 1 .. Len(c2s') /\ c2s[i] = c2s'[i - 1])
      BY <1>0, <2>3 DEF Takes, Taken
    <3>3. ASSUME NEW i \in 1 .. Len(c2s'), c2s'[i] \in ErrorCalls,
                 \A j \in 1 .. Len(c2s') : j > i => c2s'[j] \notin ErrorCalls
          PROVE  errordetect' = Flag(c2s'[i])
      <4>1. \A j \in 1 .. Len(c2s) : j > i + 1 => c2s[j] \notin ErrorCalls
        <5>1. SUFFICES ASSUME NEW j \in 1 .. Len(c2s), j > i + 1 PROVE c2s[j] \notin ErrorCalls
          OBVIOUS
        <5>2. j - 1 \in 1 .. Len(c2s') /\ c2s[j] = c2s'[j - 1] /\ j - 1 > i
          BY <3>2, <5>1
        <5>3. QED
          BY <3>3, <5>2
      <4>2. QED
        BY <1>3, <3>1, <3>2, <3>3, <4>1 DEF FlagOnTheWay
    <3>4. ASSUME \A i \in 1 .. Len(c2s') : c2s'[i] \notin ErrorCalls
          PROVE  srvdetect' = errordetect'
      <4>1. \A i \in 1 .. Len(c2s) : i > 1 => c2s[i] \notin ErrorCalls
        BY <3>2, <3>4
      <4>2. CASE c2s[1] \in ErrorCalls
        <5>1. errordetect = Flag(c2s[1])
          BY <3>1, <3>2, <4>1, <4>2 DEF FlagOnTheWay
        <5>2. QED
          BY <1>3, <2>3, <4>2, <5>1 DEF Takes, ErrorCalls, Flag
      <4>3. CASE c2s[1] \notin ErrorCalls
        <5>1. \A i \in 1 .. Len(c2s) : c2s[i] \notin ErrorCalls
          BY <3>2, <4>1, <4>3
        <5>2. QED
          BY <1>3, <2>3, <3>1, <4>3, <5>1 DEF Takes, ErrorCalls, FlagOnTheWay
      <4>4. QED
        BY <4>2, <4>3
    <3>5. QED
      BY <1>3, <2>0, <3>1, <3>3, <3>4 DEF FlagOnTheWay
  <2>4. CASE Replies
    <3>1. conn = "up" /\ FlagOnTheWay
      BY <2>0, <2>4 DEF Replies
    <3>2. /\ 1 \in 1 .. Len(c2s)
          /\ \A i \in 1 .. Len(c2s') : i + 1 \in 1 .. Len(c2s) /\ c2s'[i] = c2s[i + 1]
          /\ \A i \in 1 .. Len(c2s) : i = 1 \/ (i - 1 \in 1 .. Len(c2s') /\ c2s[i] = c2s'[i - 1])
      BY <1>0, <2>4 DEF Replies, Taken
    <3>3. c2s[1] # "Restart"
      BY <1>3, <3>2 DEF RestartIsLast, Pending, Live
    <3>4. c2s[1] \notin ErrorCalls /\ srvdetect' = srvdetect
      BY <2>4, <3>3 DEF Replies, ErrorCalls, Replying, TransferOps
    <3>5. ASSUME NEW i \in 1 .. Len(c2s'), c2s'[i] \in ErrorCalls,
                 \A j \in 1 .. Len(c2s') : j > i => c2s'[j] \notin ErrorCalls
          PROVE  errordetect' = Flag(c2s'[i])
      <4>1. \A j \in 1 .. Len(c2s) : j > i + 1 => c2s[j] \notin ErrorCalls
        <5>1. SUFFICES ASSUME NEW j \in 1 .. Len(c2s), j > i + 1 PROVE c2s[j] \notin ErrorCalls
          OBVIOUS
        <5>2. j - 1 \in 1 .. Len(c2s') /\ c2s[j] = c2s'[j - 1] /\ j - 1 > i
          BY <3>2, <5>1
        <5>3. QED
          BY <3>5, <5>2
      <4>2. QED
        BY <1>3, <3>1, <3>2, <3>5, <4>1 DEF FlagOnTheWay
    <3>6. ASSUME \A i \in 1 .. Len(c2s') : c2s'[i] \notin ErrorCalls
          PROVE  srvdetect' = errordetect'
      <4>1. \A i \in 1 .. Len(c2s) : c2s[i] \notin ErrorCalls
        BY <3>2, <3>4, <3>6
      <4>2. QED
        BY <1>3, <3>1, <3>4, <4>1 DEF FlagOnTheWay
    <3>7. PICK m \in Message : Grown(m) /\ m.tag = c2s[1]
      BY <2>4 DEF Replies
    <3>8. m.tag # "ErrorTransition"
      BY <2>4, <3>7 DEF Replies, Replying, TransferOps
    <3>9. QED
      BY <1>3, <2>0, <3>5, <3>6, <3>7, <3>8 DEF FlagOnTheWay, Grown
  <2>5. CASE Signals
    <3>1. conn = "up" /\ FlagOnTheWay /\ UNCHANGED <<conn, c2s, srv, srvdetect>>
      BY <2>0, <2>5 DEF Signals
    <3>2. PICK m \in Message : /\ Grown(m)
                               /\ m.tag # "Message" => srv = "async"
                               /\ m.tag = "ErrorTransition" => srvdetect = "on"
      BY <2>5 DEF Signals
    <3>3. ASSUME m.tag = "ErrorTransition" PROVE errordetect = "on"
      <4>1. srv # "sync"
        BY <3>2, <3>3
      <4>2. \A i \in 1 .. Len(c2s) : c2s[i] \notin ErrorCalls
        BY <4>1 DEF Pipeline, CommandsFit, SyncOnly, SilentCalls, ErrorCalls
      <4>3. QED
        BY <3>1, <3>2, <3>3, <4>2 DEF FlagOnTheWay
    <3>4. QED
      BY <1>3, <2>0, <3>1, <3>2, <3>3 DEF FlagOnTheWay, Grown
  <2>6. CASE Ends
    <3>1. PICK m \in Message : Grown(m) /\ m.tag # "ErrorTransition"
      BY <2>6 DEF Ends
    <3>2. QED
      BY <1>3, <2>0, <2>6, <3>1 DEF Ends, Grown
  <2>7. CASE Loses
    BY <1>0, <1>3, <2>0, <2>7 DEF Loses, Shortened
  <2>8. CASE Environment
    BY <2>3, <2>4, <2>5, <2>6, <2>7, <2>8, EnvironmentStep
  <2>9. QED
    BY <1>1, <1>2, <1>3, <2>1, <2>2, <2>8, DetectSteps
<1>4. QED
  BY <1>1, <1>2, <1>3, DetectSteps

\* What is on the way fits the state of the client, whatever the order of calls,
\* breaks, messages and losses: the inductive invariant of the theorems below.
THEOREM PipeInvariant == Spec => []PipeInv
<1>1. Init => PipeInv
  <2> SUFFICES ASSUME Init PROVE PipeInv
    OBVIOUS
  <2>1. StatesAt /\ Wires /\ LastWords /\ RestartIsLast /\ CloseIsLast
    BY DEF Init, StatesAt, Wires, LastWords, RestartIsLast, CloseIsLast, Pending
  <2>2. Pipeline
    BY DEF Init, Pipeline, CommandsFit, InSync, Awaited, AwaitingSync, InAsync, Cancelling, Detected,
           Live
  <2>3. QED
    BY <2>1, <2>2 DEF PipeInv
<1>2. TypeOK /\ TypeOK' /\ ModeAgreement /\ PipeInv /\ [Next]_vars => PipeInv'
  <2> SUFFICES ASSUME TypeOK, TypeOK', ModeAgreement, PipeInv, [Next]_vars
               PROVE  PipeInv'
    OBVIOUS
  <2> USE DEF PipeInv
  <2>1. StatesAt' /\ Wires' /\ LastWords' /\ RestartIsLast' /\ CloseIsLast'
    BY StatesStep, WiresStep, LastWordsStep, RestartIsLastStep, CloseIsLastStep
  <2>2. ASSUME early' = "off" PROVE Pipeline'
    <3>1. CASE FinishClose \/ (RestartReply /\ Header.form = "good")
      BY <3>1, CleanStart
    <3>2. CASE ~FinishClose /\ ~(RestartReply /\ Header.form = "good")
      <4>1. early = "off"
        <5>1. CASE Call \/ BreakHandler \/ UNCHANGED vars
          BY <2>2, <3>2, <5>1 DEF Call, Refuse, TOPS_Open, OpenFails, TOPS_Reset, TOPS_Analyse,
             TOPS_ErrorDetect, TOPS_ErrorIgnore, SilentCommand, Transfer, TOPS_CommsSynchronous,
             TOPS_CommsAsynchronous, TOPS_SendReply, TOPS_GetRequest, TOPS_Restart, TOPS_Close,
             BreakHandler, vars, history
        <5>2. CASE Step
          BY <2>2, <3>2, <5>2 DEF Step, OpenReply, OpenFails, SendFragment, TransferDone, CheckError,
             SyncReply, SyncMessage, SyncPanic, SyncReadFails, ReadFails, HandleMessage,
             CommsSyncReply, CommsSyncErrorTransition, CommsSyncRequest,
             CommsSyncMessage, CommsSyncOther, CommsSyncReadFails, DrainEnds, QueueRequest,
             DeliverRequest, BadRequest, AsyncMessage, AsyncErrorTransition, AsyncOther,
             AsyncReadFails, Heartbeat, CloseEnds, RestartReply, RestartFails, WaitMessage,
             WaitDiscard, history
        <5>3. CASE Environment
          BY <2>2, <5>3, EnvironmentStep
        <5>4. QED
          BY <5>1, <5>2, <5>3 DEF Next
      <4>2. Pipeline
        BY <4>1
      <4>3. CommandsFit'
        BY <4>2, CommandsFitStep DEF Pipeline
      <4>4. InSync'
        BY <2>2, <3>2, <4>2, InSyncStep
      <4>5. Awaited' /\ InAsync' /\ Cancelling' /\ Detected'
        BY <3>2, <4>2, AwaitedStep, InAsyncStep, CancellingStep, DetectedStep
      <4>6. QED
        BY <4>3, <4>4, <4>5 DEF Pipeline
    <3>3. QED
      BY <3>1, <3>2
  <2>3. QED
    BY <2>1, <2>2
<1>3. QED
  BY <1>1, <1>2, TypeCorrect, ModesAgree, PTL DEF Spec

\* The linkops server meets every command in the mode the protocol gives it in,
\* however many silent commands are buffered in front of it.
THEOREM CommandsFindTheirMode == Spec => []CommandInMode
<1>1. TypeOK /\ PipeInv => CommandInMode
  <2> SUFFICES ASSUME TypeOK, PipeInv, conn = "up", c2s # << >>, early = "off"
               PROVE  SrvAccepts(Head(c2s))
    BY DEF CommandInMode
  <2>1. 1 \in 1 .. Len(c2s) /\ Head(c2s) = c2s[1]
    BY TakeShape DEF TypeOK
  <2>2. CommandsFit
    BY DEF PipeInv, Pipeline
  <2>3. CASE c2s[1] \in TransferOps \cup SilentCalls \cup {"TestError"}
    <3>1. srv = "sync"
      BY <2>1, <2>2, <2>3 DEF CommandsFit, SyncOnly
    <3>2. QED
      BY <2>1, <2>3, <3>1 DEF SrvAccepts, TransferOps, SilentCalls
  <2>4. CASE c2s[1] = "AsyncWrite"
    <3>1. srv = "async"
      BY <2>1, <2>2, <2>4 DEF CommandsFit
    <3>2. QED
      BY <2>1, <2>4, <3>1 DEF SrvAccepts, TransferOps, SilentCalls
  <2>5. CASE c2s[1] \notin TransferOps \cup SilentCalls \cup {"TestError", "AsyncWrite"}
    <3>1. srv # "off"
      BY DEF PipeInv, Wires
    <3>2. SrvAccepts(c2s[1]) <=> srv # "off"
      BY <2>5 DEF SrvAccepts
    <3>3. QED
      BY <2>1, <3>1, <3>2
  <2>6. QED
    BY <2>3, <2>4, <2>5
<1>2. QED
  BY <1>1, TypeCorrect, PipeInvariant, PTL

\* GetSyncResponse never reads a tag it panics about: no reply of an earlier call
\* and no event of the target is in front of the reply it wants.
THEOREM RepliesFindTheirReader == Spec => []NoPanic
<1>1. TypeOK /\ PipeInv => NoPanic
  <2> SUFFICES ASSUME TypeOK, PipeInv, AwaitingSync, MessageWaiting, early = "off"
               PROVE  Header.tag \in {Wanted, "Message"}
    BY DEF NoPanic
  <2>1. 1 \in 1 .. Len(s2c) /\ Header = s2c[1]
    BY ReadShape DEF TypeOK
  <2>2. QED
    BY <2>1 DEF PipeInv, Pipeline, Awaited, OneReply
<1>2. QED
  BY <1>1, TypeCorrect, PipeInvariant, PTL

\* Between calls in synchronous mode no reply is owed and no event is on the way,
\* so that the next command is answered by its own reply.
THEOREM NothingOwedBetweenCalls == Spec => []NoReplyOwed
<1>1. TypeOK /\ PipeInv => NoReplyOwed
  <2> SUFFICES ASSUME TypeOK, PipeInv, early = "off", pc = "idle", proto = "Synchronous"
               PROVE  /\ \A i \in DOMAIN c2s : c2s[i] \notin Replying
                      /\ \A i \in DOMAIN s2c : s2c[i].tag = "Message"
    BY DEF NoReplyOwed, SyncQuiescent
  <2>1. DOMAIN c2s = 1 .. Len(c2s) /\ DOMAIN s2c = 1 .. Len(s2c)
    BY DEF TypeOK
  <2>2. Clean
    BY DEF PipeInv, Pipeline, InSync
  <2>3. QED
    BY <2>1, <2>2 DEF Clean, SilentCalls, Replying, TransferOps
<1>2. QED
  BY <1>1, TypeCorrect, PipeInvariant, PTL

\* GetAsyncRequest and GetCommsSynchronousReply meet an error transition only in
\* error detect mode: the flag is set before the server can send one, and the
\* last one was read before the flag was taken back.
THEOREM TransitionsAreExpected == Spec => []DetectAgreement
<1>1. TypeOK /\ PipeInv => DetectAgreement
  <2> SUFFICES ASSUME TypeOK, PipeInv, pc \in {"commssync", "async"}, early = "off",
                      MessageWaiting, Header.tag = "ErrorTransition"
               PROVE  errordetect = "on"
    BY DEF DetectAgreement
  <2>1. 1 \in 1 .. Len(s2c) /\ Header = s2c[1]
    BY ReadShape DEF TypeOK
  <2>2. proto \in Live
    BY DEF PipeInv, StatesAt, Live
  <2>3. QED
    BY <2>1, <2>2 DEF PipeInv, Pipeline, Detected
<1>2. QED
  BY <1>1, TypeCorrect, PipeInvariant, PTL

\* The reply GetSyncResponse waits for, or the command it answers, is on the way
\* as long as the connection lives: the wait is never for nothing.
THEOREM RepliesCome == Spec => []ReplyComes
<1>1. Init => ReplyComes
  BY DEF Init, ReplyComes, AwaitingSync
<1>2. TypeOK /\ TypeOK' /\ ReplyComes /\ [Next]_vars => ReplyComes'
  BY ReplyComesStep
<1>3. QED
  BY <1>1, <1>2, TypeCorrect, PTL DEF Spec


-----------------------------------------------------------------------------
(***************************************************************************)
(* The proof that Tops implements RequestStream, step by step, under the   *)
(* mapping of held to Held, and that a lost request is reported.  Every    *)
(* step is first reduced to what it does to the queue, the stream and the  *)
(* two counters (RequestStep); the invariant OnTheWay and the simulation   *)
(* are then proved of those five kinds of step.                            *)
(***************************************************************************)

\* A request that is held is in the queue or on the way.
LEMMA HeldMember ==
  ASSUME queue \in Seq(Entry), s2c \in Seq(Message), NEW id
  PROVE  id \in Held <=> \/ \E i \in 1 .. Len(queue) : queue[i].id = id
                         \/ \E i \in 1 .. Len(s2c) : Asked(s2c[i]) /\ s2c[i].id = id
BY DEF Held

\* And in the next state.
LEMMA HeldMemberNext ==
  ASSUME queue' \in Seq(Entry), s2c' \in Seq(Message), NEW id
  PROVE  id \in Held' <=> \/ \E i \in 1 .. Len(queue') : queue'[i].id = id
                          \/ \E i \in 1 .. Len(s2c') : Asked(s2c'[i]) /\ s2c'[i].id = id
BY DEF Held

\* What happens to the requests that are held.
Dropped  == /\ queue' = queue \/ queue' = << >>
            /\ s2c' = s2c \/ s2c' = << >> \/ Popped \/ Junked \/ Shortened
               \/ \E m \in Message : Grown(m) /\ ~Asked(m) /\ m.id = 0
            /\ UNCHANGED <<sent, last>>
Queued   == /\ Len(s2c) > 0 /\ Asked(s2c[1]) /\ (Popped \/ Junked)
            /\ \E f \in {"good", "cut"} : queue' = Append(queue, [id |-> s2c[1].id, form |-> f])
            /\ UNCHANGED <<sent, last>>
Dequeued == /\ queue # << >> /\ queue' = Tail(queue) /\ last' \in {last, Head(queue).id}
            /\ UNCHANGED <<s2c, sent>>
Delivered == /\ Len(s2c) > 0 /\ Asked(s2c[1]) /\ Popped /\ last' = s2c[1].id
             /\ queue = << >> /\ UNCHANGED <<queue, sent>>
Posted   == /\ sent < MaxRequests /\ sent' = sent + 1
            /\ \E m \in Message : Grown(m) /\ Asked(m) /\ m.id = sent + 1
            /\ UNCHANGED <<queue, last>>

\* Every step does one of these five things to them.
LEMMA RequestStep ==
  ASSUME TypeOK, QueueOfGet, [Next]_vars
  PROVE  Dropped \/ Queued \/ Dequeued \/ Delivered \/ Posted
<1> USE DEF client, net, server, history, Dropped
<1>0. MessageWaiting => Len(s2c) > 0 /\ Header = s2c[1] /\ s2c[1] \in Message
  BY ReadShape DEF TypeOK
<1>1. CASE Call
  <2>1. CASE TOPS_GetRequest
    <3>1. PICK heartbeat \in Flags : TOPS_GetRequest!2!(heartbeat)
      BY <2>1 DEF TOPS_GetRequest
    <3>2. QED
      BY <2>1, <3>1 DEF TOPS_GetRequest, Dequeue, Dequeued
  <2>2. CASE Call /\ ~TOPS_GetRequest
    BY <2>2 DEF Call, Refuse, TOPS_Open, OpenFails, TOPS_Reset, TOPS_Analyse,
      TOPS_ErrorDetect, TOPS_ErrorIgnore, SilentCommand, Transfer, TOPS_CommsSynchronous,
      TOPS_CommsAsynchronous, TOPS_SendReply, TOPS_Restart, TOPS_Close, FinishClose
  <2>3. QED
    BY <1>1, <2>1, <2>2
<1>2. CASE QueueRequest
  <2>1. MessageWaiting /\ Asked(Header) /\ Header.form \in {"good", "cut"}
    BY <1>0, <1>2 DEF QueueRequest, AwaitingAsync, Asked, Message
  <2>2. QED
    BY <1>0, <1>2, <2>1, ReadShape DEF QueueRequest, Enqueue, Queued
<1>3. CASE DeliverRequest
  <2>1. MessageWaiting /\ queue = << >> /\ Header.tag = "Request"
    BY <1>3 DEF DeliverRequest, AwaitingAsync, MayRead, QueueOfGet
  <2>2. QED
    BY <1>0, <1>3, <2>1, ReadShape DEF DeliverRequest, Delivered, Asked
<1>4. CASE Step /\ ~QueueRequest /\ ~DeliverRequest
  <2>1. queue' = queue \/ queue' = << >>
    BY <1>4 DEF Step, OpenReply, OpenFails, SendFragment, TransferDone, CheckError,
      SyncReply, SyncMessage, SyncPanic, SyncReadFails, ReadFails, HandleMessage,
      CommsSyncReply, CommsSyncErrorTransition, CommsSyncRequest,
      CommsSyncMessage, CommsSyncOther, CommsSyncReadFails, DrainEnds,
      BadRequest, AsyncMessage, AsyncErrorTransition,
      AsyncOther, AsyncReadFails, Heartbeat, CloseEnds, FinishClose, RestartReply,
      RestartFails, WaitMessage, WaitDiscard
  <2>2. s2c' = s2c \/ s2c' = << >> \/ ShortRead
          \/ (MessageWaiting /\ (ReadAll \/ ReadHeaderOnly))
    BY <1>4 DEF Step, OpenReply, OpenFails, SendFragment, TransferDone, CheckError,
      SyncReply, SyncMessage, SyncPanic, SyncReadFails, ReadFails, HandleMessage,
      CommsSyncReply, CommsSyncErrorTransition, CommsSyncRequest, AwaitingCommsSync,
      CommsSyncMessage, CommsSyncOther, CommsSyncReadFails, DrainEnds,
      BadRequest, AwaitingAsync, AsyncMessage, AsyncErrorTransition,
      AsyncOther, AsyncReadFails, Heartbeat, CloseEnds, FinishClose, RestartReply,
      RestartFails, WaitMessage, WaitDiscard
  <2>3. UNCHANGED <<sent, last>>
    BY <1>4 DEF Step, OpenReply, OpenFails, SendFragment, TransferDone, CheckError,
      SyncReply, SyncMessage, SyncPanic, SyncReadFails, ReadFails, HandleMessage,
      CommsSyncReply, CommsSyncErrorTransition, CommsSyncRequest,
      CommsSyncMessage, CommsSyncOther, CommsSyncReadFails, DrainEnds,
      BadRequest, AsyncMessage, AsyncErrorTransition,
      AsyncOther, AsyncReadFails, Heartbeat, CloseEnds, FinishClose, RestartReply,
      RestartFails, WaitMessage, WaitDiscard
  <2>4. QED
    BY <2>1, <2>2, <2>3, ReadShape
<1>5. CASE BreakHandler
  <2>1. CASE UNCHANGED queue
    BY <1>5, <2>1, ReadShape DEF BreakHandler
  <2>2. CASE Enqueue("cut") /\ Header.tag = "Request" /\ Header.form # "bad"
             /\ MessageWaiting /\ ReadHeaderOnly
    BY <1>0, <1>5, <2>2, ReadShape DEF BreakHandler, Queued, Enqueue, Asked
  <2>3. QED
    BY <1>5, <2>1, <2>2 DEF BreakHandler
<1>6. CASE SrvRequest /\ sent < MaxRequests /\ sent' = sent + 1
      /\ SrvEvent([tag |-> "Request", form |-> "good", id |-> sent'])
  <2> DEFINE m == [tag |-> "Request", form |-> "good", id |-> sent']
  <2>1. m \in Message /\ Asked(m) /\ m.id = sent + 1
    BY <1>6, TopsAssumption DEF Message, Events, Asked, TypeOK
  <2>2. SrvEvent(m)
    BY <1>6
  <2> HIDE DEF m
  <2>3. QED
    BY <1>6, <2>1, <2>2, SendShape DEF SrvEvent, Posted
<1>7. CASE SrvSilent \/ UNCHANGED vars
  BY <1>7 DEF SrvSilent, vars
<1>8. ASSUME NEW t \in Events \cup Replying, NEW f \in {"good", "bad"},
             <<t, f>> # <<"Request", "good">>, s2c' = Append(s2c, Plain(t, f)),
             UNCHANGED <<queue, sent, last>>
      PROVE  Dropped
  <2> DEFINE m == Plain(t, f)
  <2>1. m \in Message /\ ~Asked(m) /\ m.id = 0
    BY <1>8, PlainFields DEF Asked
  <2> HIDE DEF m
  <2>2. Grown(m)
    BY <1>8, <2>1, SendShape DEF m
  <2>3. QED
    BY <1>8, <2>1, <2>2
<1>9. CASE SrvReply
  BY <1>8, <1>9 DEF SrvReply, Replying, TransferOps
<1>10. CASE SrvClose \/ SrvRefuse \/ SrvFatal \/ SrvKeepalive \/ SrvErrorTransition
  BY <1>8, <1>10 DEF SrvClose, SrvRefuse, SrvFatal, SrvKeepalive, SrvErrorTransition, SrvEnds,
                     SrvEvent, Events, Replying
<1>11. CASE SrvRequest /\ SrvEvent(Plain("Request", "bad")) /\ UNCHANGED sent
  BY <1>8, <1>11 DEF SrvEvent, Events
<1>12. CASE ConnectionLost
  BY <1>12, LossShape DEF ConnectionLost
<1>13. CASE Environment
  BY <1>6, <1>7, <1>9, <1>10, <1>11, <1>12, <1>13 DEF Environment, SrvCommand, SrvRequest
<1>14. QED
  BY <1>1, <1>2, <1>3, <1>4, <1>5, <1>7, <1>13 DEF Next

\* TOPS_GetRequest looks at the queue before it reads, and nothing else fills it
\* while it does.
LEMMA QueueOfGetStep ==
  ASSUME TypeOK, QueueOfGet, [Next]_vars
  PROVE  QueueOfGet'
<1> USE DEF client, net, server, history, QueueOfGet
<1>1. CASE Call
  <2>1. CASE TOPS_GetRequest
    <3>1. PICK heartbeat \in Flags : TOPS_GetRequest!2!(heartbeat)
      BY <2>1 DEF TOPS_GetRequest
    <3>2. QED
      BY <3>1 DEF Return
  <2>2. CASE Call /\ ~TOPS_GetRequest
    BY <2>2 DEF Call, Refuse, TOPS_Open, OpenFails, TOPS_Reset, TOPS_Analyse,
      TOPS_ErrorDetect, TOPS_ErrorIgnore, SilentCommand, Transfer, TOPS_CommsSynchronous,
      TOPS_CommsAsynchronous, TOPS_SendReply, TOPS_Restart, TOPS_Close, FinishClose,
      Return, Enter
  <2>3. QED
    BY <1>1, <2>1, <2>2
<1>2. CASE QueueRequest
  BY <1>2 DEF QueueRequest, Return, AwaitingAsync, control
<1>3. CASE DeliverRequest
  BY <1>3 DEF DeliverRequest, Return
<1>4. CASE Step /\ ~QueueRequest /\ ~DeliverRequest
  BY <1>4 DEF Step, OpenReply, OpenFails, SendFragment, TransferDone, CheckError,
    SyncReply, SyncMessage, SyncPanic, SyncReadFails, ReadFails, HandleMessage,
    CommsSyncReply, CommsSyncErrorTransition, CommsSyncRequest,
    CommsSyncMessage, CommsSyncOther, CommsSyncReadFails, DrainEnds,
    BadRequest, AsyncMessage, AsyncErrorTransition, NotRequest,
    AsyncOther, AsyncReadFails, Heartbeat, CloseEnds, FinishClose, RestartReply,
    RestartFails, WaitMessage, WaitDiscard, Return, Goto, control
<1>5. CASE BreakHandler
  BY <1>5 DEF BreakHandler
<1>6. CASE Environment \/ UNCHANGED vars
  BY <1>6 DEF Environment, SrvCommand, SrvSilent, SrvReply, SrvClose, SrvRefuse, SrvEnds,
    SrvKeepalive, SrvEvent, SrvFatal, SrvRequest, SrvErrorTransition, ConnectionLost,
    control, vars
<1>7. QED
  BY <1>1, <1>2, <1>3, <1>4, <1>5, <1>6 DEF Next

\* Every request of the new stream is a request of the old one, in the same
\* order.
Thinned ==
  /\ \A i \in 1 .. Len(s2c') :
       \/ ~Asked(s2c'[i]) /\ s2c'[i].id = 0
       \/ \E k \in 1 .. Len(s2c) :
            s2c[k].id = s2c'[i].id /\ (Asked(s2c'[i]) => Asked(s2c[k]))
  /\ \A i, j \in 1 .. Len(s2c') :
       i < j /\ Asked(s2c'[i]) /\ Asked(s2c'[j]) =>
         \E k, l \in 1 .. Len(s2c) :
           /\ k < l /\ Asked(s2c[k]) /\ Asked(s2c[l])
           /\ s2c[k].id = s2c'[i].id /\ s2c[l].id = s2c'[j].id

\* Reading, losing and what is not a request thin the stream.
LEMMA ThinnedStep ==
  ASSUME s2c \in Seq(Message), s2c' \in Seq(Message),
         \/ s2c' = s2c \/ s2c' = << >> \/ Popped \/ Junked \/ Shortened
         \/ \E m \in Message : Grown(m) /\ ~Asked(m) /\ m.id = 0
  PROVE  Thinned
<1>1. CASE s2c' = s2c \/ s2c' = << >>
  BY <1>1 DEF Thinned
<1>2. CASE Popped
  <2>1. ASSUME NEW i \in 1 .. Len(s2c') PROVE i + 1 \in 1 .. Len(s2c) /\ s2c'[i] = s2c[i + 1]
    BY <1>2 DEF Popped
  <2>2. ASSUME NEW i \in 1 .. Len(s2c'), NEW j \in 1 .. Len(s2c'), i < j,
               Asked(s2c'[i]), Asked(s2c'[j])
        PROVE  \E k, l \in 1 .. Len(s2c) :
                 /\ k < l /\ Asked(s2c[k]) /\ Asked(s2c[l])
                 /\ s2c[k].id = s2c'[i].id /\ s2c[l].id = s2c'[j].id
    <3>1. i + 1 < j + 1
      BY <2>2
    <3>2. QED
      BY <2>1, <2>2, <3>1
  <2>3. QED
    BY <2>1, <2>2 DEF Thinned
<1>3. CASE Junked
  <2>1. ASSUME NEW i \in 1 .. Len(s2c')
        PROVE  i \in 1 .. Len(s2c) /\ (s2c'[i] = s2c[i] \/ (~Asked(s2c'[i]) /\ s2c'[i].id = 0))
    BY <1>3 DEF Junked, Junk, Plain, Asked
  <2>2. QED
    BY <2>1 DEF Thinned
<1>4. CASE Shortened
  <2>1. ASSUME NEW i \in 1 .. Len(s2c')
        PROVE  /\ i \in 1 .. Len(s2c) /\ s2c'[i].id = s2c[i].id
               /\ Asked(s2c'[i]) => Asked(s2c[i])
    BY <1>4 DEF Shortened, Asked
  <2>2. QED
    BY <2>1 DEF Thinned
<1>5. ASSUME NEW m \in Message, Grown(m), ~Asked(m), m.id = 0
      PROVE  Thinned
  <2>1. ASSUME NEW i \in 1 .. Len(s2c')
        PROVE  \/ ~Asked(s2c'[i]) /\ s2c'[i].id = 0
               \/ i \in 1 .. Len(s2c) /\ s2c'[i] = s2c[i]
    BY <1>5 DEF Grown
  <2>2. QED
    BY <2>1 DEF Thinned
<1>6. QED
  BY <1>1, <1>2, <1>3, <1>4, <1>5

\* The requests after the first of the stream are younger than it.
LEMMA FirstIsOldest ==
  ASSUME TypeOK, TypeOK', OnTheWay, Asked(s2c[1]), Len(s2c) > 0, Popped \/ Junked
  PROVE  /\ Thinned
         /\ \A i \in 1 .. Len(s2c') : Asked(s2c'[i]) => s2c[1].id < s2c'[i].id
<1>0. s2c \in Seq(Message) /\ s2c' \in Seq(Message)
  BY DEF TypeOK
<1>1. Thinned
  BY <1>0, ThinnedStep
<1>2. ASSUME NEW k \in 1 .. Len(s2c), 1 < k, Asked(s2c[k]) PROVE s2c[1].id < s2c[k].id
  BY <1>0, <1>2 DEF OnTheWay
<1>3. ASSUME NEW i \in 1 .. Len(s2c'), Asked(s2c'[i])
      PROVE  \E k \in 1 .. Len(s2c) : 1 < k /\ s2c'[i] = s2c[k]
  <2>1. CASE Popped
    <3>1. i + 1 \in 1 .. Len(s2c) /\ 1 < i + 1 /\ s2c'[i] = s2c[i + 1]
      BY <2>1 DEF Popped
    <3>2. QED
      BY <3>1
  <2>2. CASE Junked
    <3>1. i # 1
      BY <1>3, <2>2 DEF Junked, Junk, Plain, Asked
    <3>2. i \in 2 .. Len(s2c) /\ s2c'[i] = s2c[i] /\ 1 < i
      BY <2>2, <3>1 DEF Junked
    <3>3. QED
      BY <3>2
  <2>3. QED
    BY <2>1, <2>2
<1>4. QED
  BY <1>1, <1>2, <1>3

\* A thinned stream is as ordered as before.
LEMMA ThinnedKeeps ==
  ASSUME TypeOK, TypeOK', OnTheWay, Thinned
  PROVE  /\ \A i \in 1 .. Len(s2c') :
              /\ s2c'[i].id <= sent
              /\ Asked(s2c'[i]) =>
                   /\ s2c'[i].id > 0 /\ last < s2c'[i].id
                   /\ \A k \in 1 .. Len(queue) : queue[k].id < s2c'[i].id
         /\ \A i, j \in 1 .. Len(s2c') :
              i < j /\ Asked(s2c'[i]) /\ Asked(s2c'[j]) => s2c'[i].id < s2c'[j].id
<1>1. sent \in Nat
  BY TopsAssumption DEF TypeOK
<1>2. ASSUME NEW i \in 1 .. Len(s2c') PROVE s2c'[i].id <= sent
  <2>1. \/ ~Asked(s2c'[i]) /\ s2c'[i].id = 0
        \/ \E k \in 1 .. Len(s2c) : s2c[k].id = s2c'[i].id
    BY DEF Thinned
  <2>2. QED
    BY <1>1, <2>1 DEF OnTheWay
<1>3. ASSUME NEW i \in 1 .. Len(s2c'), Asked(s2c'[i])
      PROVE  /\ s2c'[i].id > 0 /\ last < s2c'[i].id
             /\ \A k \in 1 .. Len(queue) : queue[k].id < s2c'[i].id
  <2>1. PICK k \in 1 .. Len(s2c) : s2c[k].id = s2c'[i].id /\ Asked(s2c[k])
    BY <1>3 DEF Thinned
  <2>2. QED
    BY <2>1 DEF OnTheWay
<1>4. ASSUME NEW i \in 1 .. Len(s2c'), NEW j \in 1 .. Len(s2c'), i < j,
             Asked(s2c'[i]), Asked(s2c'[j])
      PROVE  s2c'[i].id < s2c'[j].id
  BY <1>4 DEF Thinned, OnTheWay
<1>5. QED
  BY <1>2, <1>3, <1>4

\* The order is kept: a request moves from the head of the stream to the end of
\* the queue, and from the head of the queue, or of the stream when the queue is
\* empty, to the application.
LEMMA OnTheWayStep ==
  ASSUME TypeOK, TypeOK', OnTheWay, QueueOfGet, [Next]_vars
  PROVE  OnTheWay'
<1>0. /\ queue \in Seq(Entry) /\ queue' \in Seq(Entry) /\ sent \in Nat /\ last \in Nat
      /\ s2c \in Seq(Message) /\ s2c' \in Seq(Message)
  BY TopsAssumption DEF TypeOK
<1>f. /\ \A i \in 1 .. Len(s2c) : s2c[i].id \in Nat
      /\ \A i \in 1 .. Len(s2c') : s2c'[i].id \in Nat
      /\ \A i \in 1 .. Len(queue) : queue[i].id \in Nat
  <2>1. /\ \A i \in 1 .. Len(s2c) : s2c[i] \in Message
        /\ \A i \in 1 .. Len(s2c') : s2c'[i] \in Message
        /\ \A i \in 1 .. Len(queue) : queue[i] \in Entry
    BY <1>0
  <2>2. /\ \A m \in Message : m.id \in Nat
        /\ \A e \in Entry : e.id \in Nat
    BY TopsAssumption DEF Message, Entry
  <2>3. QED
    BY <2>1, <2>2
<1>1. CASE Dropped
  <2>1. Thinned /\ sent' = sent /\ last' = last
    BY <1>0, <1>1, ThinnedStep DEF Dropped
  <2>2. CASE queue' = queue
    BY <2>1, <2>2, ThinnedKeeps DEF OnTheWay
  <2>3. CASE queue' = << >>
    BY <2>1, <2>3, ThinnedKeeps DEF OnTheWay
  <2>4. QED
    BY <1>1, <2>2, <2>3 DEF Dropped
<1>2. CASE Queued
  <2>1. PICK f \in {"good", "cut"} : queue' = Append(queue, [id |-> s2c[1].id, form |-> f])
    BY <1>2 DEF Queued
  <2> DEFINE e == [id |-> s2c[1].id, form |-> f]
  <2>2. e \in Entry /\ e.id = s2c[1].id
    BY <1>0, <1>2 DEF Entry, Message, Queued
  <2> HIDE DEF e
  <2>3. /\ Len(queue') = Len(queue) + 1 /\ queue'[Len(queue) + 1] = e
        /\ \A i \in 1 .. Len(queue) : queue'[i] = queue[i]
    BY <1>0, <2>1, <2>2, AppendShape DEF e
  <2>4. /\ Len(s2c) > 0 /\ Asked(s2c[1]) /\ sent' = sent /\ last' = last
    BY <1>2 DEF Queued
  <2>5. Thinned /\ \A i \in 1 .. Len(s2c') : Asked(s2c'[i]) => s2c[1].id < s2c'[i].id
    BY <1>2, <2>4, FirstIsOldest DEF Queued
  <2>6. ASSUME NEW i \in 1 .. Len(queue')
        PROVE  \/ i = Len(queue) + 1 /\ queue'[i].id = s2c[1].id
               \/ i \in 1 .. Len(queue) /\ queue'[i] = queue[i]
    BY <1>0, <2>2, <2>3
  <2>7. s2c[1].id \in 1 .. sent /\ last < s2c[1].id /\ 1 \in 1 .. Len(s2c)
    BY <1>0, <1>f, <2>4 DEF OnTheWay
  <2>8. ASSUME NEW i \in 1 .. Len(queue) PROVE queue[i].id < s2c[1].id
    BY <2>4, <2>7 DEF OnTheWay
  <2>9. ASSUME NEW i \in 1 .. Len(queue'), NEW j \in 1 .. Len(queue'), i < j
        PROVE  queue'[i].id < queue'[j].id
    <3>1. i \in 1 .. Len(queue) /\ queue'[i] = queue[i]
      BY <1>0, <2>3, <2>9
    <3>2. QED
      BY <2>6, <2>8, <2>9, <3>1 DEF OnTheWay
  <2>10. ASSUME NEW i \in 1 .. Len(queue'), NEW j \in 1 .. Len(s2c'), Asked(s2c'[j])
         PROVE  queue'[i].id < s2c'[j].id
    BY <1>f, <2>5, <2>6, <2>7, <2>8, <2>10, SMTT(30)
  <2>11. ASSUME NEW i \in 1 .. Len(queue')
         PROVE  queue'[i].id \in 1 .. sent' /\ last' < queue'[i].id
    BY <2>4, <2>6, <2>7 DEF OnTheWay
  <2>12. ASSUME NEW i \in 1 .. Len(s2c')
         PROVE  s2c'[i].id <= sent' /\ (Asked(s2c'[i]) => s2c'[i].id > 0 /\ last' < s2c'[i].id)
    BY <2>4, <2>5, ThinnedKeeps
  <2>13. ASSUME NEW i \in 1 .. Len(s2c'), NEW j \in 1 .. Len(s2c'), i < j,
                Asked(s2c'[i]), Asked(s2c'[j])
         PROVE  s2c'[i].id < s2c'[j].id
    BY <2>5, <2>13, ThinnedKeeps
  <2>14. last' <= sent'
    BY <2>4 DEF OnTheWay
  <2>15. QED
    BY <2>9, <2>10, <2>11, <2>12, <2>13, <2>14 DEF OnTheWay
<1>3. CASE Dequeued
  <2>1. /\ Len(queue) > 0 /\ Len(queue') = Len(queue) - 1 /\ Head(queue) = queue[1]
        /\ \A i \in 1 .. Len(queue) - 1 : queue'[i] = queue[i + 1]
    BY <1>0, <1>3, TailShape DEF Dequeued
  <2>2. s2c' = s2c /\ sent' = sent /\ last' \in {last, queue[1].id}
    BY <1>3, <2>1 DEF Dequeued
  <2>3. ASSUME NEW i \in 1 .. Len(queue')
        PROVE  i + 1 \in 1 .. Len(queue) /\ queue'[i] = queue[i + 1] /\ 1 < i + 1
    BY <1>0, <2>1
  <2>4. queue[1].id \in 1 .. sent /\ last < queue[1].id /\ 1 \in 1 .. Len(queue)
    BY <1>0, <2>1 DEF OnTheWay
  <2>5. ASSUME NEW i \in 1 .. Len(queue') PROVE queue[1].id < queue'[i].id
    BY <2>3, <2>4 DEF OnTheWay
  <2>6. ASSUME NEW i \in 1 .. Len(queue')
        PROVE  queue'[i].id \in 1 .. sent' /\ last' < queue'[i].id
    <3>1. queue'[i].id \in 1 .. sent
      BY <2>3 DEF OnTheWay
    <3>2. QED
      BY <1>0, <2>2, <2>4, <2>5, <3>1
  <2>7. ASSUME NEW i \in 1 .. Len(queue'), NEW j \in 1 .. Len(queue'), i < j
        PROVE  queue'[i].id < queue'[j].id
    <3>1. i + 1 < j + 1
      BY <2>7
    <3>2. QED
      BY <2>3, <3>1 DEF OnTheWay
  <2>8. ASSUME NEW i \in 1 .. Len(s2c'), Asked(s2c'[i])
        PROVE  /\ last' < s2c'[i].id
               /\ \A j \in 1 .. Len(queue') : queue'[j].id < s2c'[i].id
    BY <2>2, <2>3, <2>4, <2>8 DEF OnTheWay
  <2>9. last' <= sent'
    BY <1>0, <2>2, <2>4 DEF OnTheWay
  <2>10. ASSUME NEW i \in 1 .. Len(s2c')
         PROVE  s2c'[i].id <= sent' /\ (Asked(s2c'[i]) => s2c'[i].id > 0)
    BY <2>2 DEF OnTheWay, Asked
  <2>11. ASSUME NEW i \in 1 .. Len(s2c'), NEW j \in 1 .. Len(s2c'), i < j,
                Asked(s2c'[i]), Asked(s2c'[j])
         PROVE  s2c'[i].id < s2c'[j].id
    BY <2>2, <2>11 DEF OnTheWay, Asked
  <2>12. QED
    BY <2>6, <2>7, <2>8, <2>9, <2>10, <2>11 DEF OnTheWay
<1>4. CASE Delivered
  <2>1. /\ Thinned /\ \A i \in 1 .. Len(s2c') : Asked(s2c'[i]) => s2c[1].id < s2c'[i].id
        /\ Len(s2c) > 0 /\ Asked(s2c[1])
    BY <1>4, FirstIsOldest DEF Delivered
  <2>2. last' = s2c[1].id /\ queue' = << >> /\ sent' = sent
    BY <1>4 DEF Delivered
  <2>3. s2c[1].id <= sent
    BY <1>0, <2>1 DEF OnTheWay
  <2>4. QED
    BY <2>1, <2>2, <2>3, ThinnedKeeps DEF OnTheWay
<1>5. CASE Posted
  <2>1. PICK m \in Message : Grown(m) /\ Asked(m) /\ m.id = sent + 1
    BY <1>5 DEF Posted
  <2>2. queue' = queue /\ last' = last /\ sent' = sent + 1
    BY <1>5 DEF Posted
  <2>3. /\ \A i \in 1 .. Len(queue') : queue'[i].id \in 1 .. sent' /\ last' < queue'[i].id
        /\ \A i, j \in 1 .. Len(queue') : i < j => queue'[i].id < queue'[j].id
        /\ last' <= sent'
    BY <1>0, <1>f, <2>2 DEF OnTheWay
  <2>4. ASSUME NEW i \in 1 .. Len(s2c')
        PROVE  \/ i \in 1 .. Len(s2c) /\ s2c'[i] = s2c[i]
               \/ i = Len(s2c) + 1 /\ s2c'[i] = m
    BY <2>1 DEF Grown
  <2>5. ASSUME NEW i \in 1 .. Len(s2c')
        PROVE  s2c'[i].id <= sent' /\ (Asked(s2c'[i]) => s2c'[i].id > 0 /\ last' < s2c'[i].id)
    <3>1. CASE i \in 1 .. Len(s2c) /\ s2c'[i] = s2c[i]
      <4>1. s2c[i].id <= sent /\ (Asked(s2c[i]) => s2c[i].id > 0 /\ last < s2c[i].id)
        BY <3>1 DEF OnTheWay
      <4>2. QED
        BY <1>0, <1>f, <2>2, <3>1, <4>1
    <3>2. CASE s2c'[i] = m
      BY <1>0, <2>1, <2>2, <2>3, <3>2 DEF OnTheWay
    <3>3. QED
      BY <2>4, <3>1, <3>2
  <2>6. ASSUME NEW i \in 1 .. Len(s2c'), NEW j \in 1 .. Len(s2c'), i < j,
               Asked(s2c'[i]), Asked(s2c'[j])
        PROVE  s2c'[i].id < s2c'[j].id
    <3>1. i \in 1 .. Len(s2c) /\ s2c'[i] = s2c[i]
      BY <1>0, <2>1, <2>6 DEF Grown
    <3>2. CASE j \in 1 .. Len(s2c) /\ s2c'[j] = s2c[j]
      BY <2>6, <3>1, <3>2 DEF OnTheWay
    <3>3. CASE s2c'[j] = m
      <4>1. s2c[i].id <= sent
        BY <3>1 DEF OnTheWay
      <4>2. QED
        BY <1>0, <1>f, <2>1, <3>1, <3>3, <4>1
    <3>4. QED
      BY <2>4, <3>2, <3>3
  <2>7. ASSUME NEW i \in 1 .. Len(queue'), NEW j \in 1 .. Len(s2c'), Asked(s2c'[j])
        PROVE  queue'[i].id < s2c'[j].id
    <3>1. CASE j \in 1 .. Len(s2c) /\ s2c'[j] = s2c[j]
      BY <2>2, <2>7, <3>1 DEF OnTheWay
    <3>2. CASE s2c'[j] = m
      <4>1. queue[i].id \in 1 .. sent
        BY <2>2 DEF OnTheWay
      <4>2. QED
        BY <1>0, <1>f, <2>1, <2>2, <3>2, <4>1
    <3>3. QED
      BY <2>4, <3>1, <3>2
  <2>8. QED
    BY <2>3, <2>5, <2>6, <2>7 DEF OnTheWay
<1>6. QED
  BY <1>1, <1>2, <1>3, <1>4, <1>5, RequestStep

\* A request stays held if its message or its entry stays.
LEMMA NothingNew ==
  ASSUME TypeOK, TypeOK', Thinned,
         \A i \in 1 .. Len(queue') : queue'[i].id \in Held
  PROVE  Held' \subseteq Held
<1>0. /\ queue \in Seq(Entry) /\ s2c \in Seq(Message)
      /\ queue' \in Seq(Entry) /\ s2c' \in Seq(Message)
  BY DEF TypeOK
<1>1. ASSUME NEW i \in 1 .. Len(s2c'), Asked(s2c'[i]) PROVE s2c'[i].id \in Held
  <2>1. PICK k \in 1 .. Len(s2c) : s2c[k].id = s2c'[i].id /\ Asked(s2c[k])
    BY <1>1 DEF Thinned, Asked
  <2>2. QED
    BY <1>0, <2>1, HeldMember
<1>2. ASSUME NEW id \in Held' PROVE id \in Held
  <2>1. \/ \E i \in 1 .. Len(queue') : queue'[i].id = id
        \/ \E i \in 1 .. Len(s2c') : Asked(s2c'[i]) /\ s2c'[i].id = id
    BY <1>0, HeldMemberNext
  <2>2. QED
    BY <1>1, <2>1
<1>3. QED
  BY <1>2

\* The five kinds of step are steps of the abstract stream.
LEMMA StreamStepLoses ==
  ASSUME TypeOK, TypeOK', Dropped \/ Queued
  PROVE  Stream!Lose
<1>0. /\ queue \in Seq(Entry) /\ s2c \in Seq(Message)
      /\ queue' \in Seq(Entry) /\ s2c' \in Seq(Message)
  BY DEF TypeOK
<1>1. UNCHANGED <<sent, last>>
  BY DEF Dropped, Queued
<1>2. Thinned
  BY <1>0, ThinnedStep DEF Dropped, Queued
<1>3. ASSUME NEW i \in 1 .. Len(queue') PROVE queue'[i].id \in Held
  <2>1. CASE queue' = queue
    BY <1>0, <2>1, HeldMember
  <2>2. CASE queue' = << >>
    BY <2>2
  <2>3. CASE Queued
    <3>1. PICK f \in {"good", "cut"} : queue' = Append(queue, [id |-> s2c[1].id, form |-> f])
      BY <2>3 DEF Queued
    <3> DEFINE e == [id |-> s2c[1].id, form |-> f]
    <3>2. e \in Entry /\ e.id = s2c[1].id
      BY <1>0, <2>3 DEF Entry, Message, Queued
    <3> HIDE DEF e
    <3>3. \/ i \in 1 .. Len(queue) /\ queue'[i] = queue[i]
          \/ queue'[i].id = s2c[1].id
      BY <1>0, <3>1, <3>2, AppendShape DEF e
    <3>4. 1 \in 1 .. Len(s2c) /\ Asked(s2c[1])
      BY <1>0, <2>3 DEF Queued
    <3>5. QED
      BY <1>0, <3>3, <3>4, HeldMember
  <2>4. QED
    BY <2>1, <2>2, <2>3 DEF Dropped
<1>4. Held' \subseteq Held
  BY <1>2, <1>3, NothingNew
<1>5. QED
  BY <1>1, <1>4 DEF Stream!Lose

\* Requests are numbered.
LEMMA IdsAreNumbers ==
  ASSUME TypeOK'
  PROVE  \A id \in Held' : id \in Nat
<1>0. queue' \in Seq(Entry) /\ s2c' \in Seq(Message)
  BY DEF TypeOK
<1>1. /\ \A i \in 1 .. Len(queue') : queue'[i] \in Entry
      /\ \A i \in 1 .. Len(s2c') : s2c'[i] \in Message
  BY <1>0
<1>2. /\ \A m \in Message : m.id \in Nat
      /\ \A e \in Entry : e.id \in Nat
  BY TopsAssumption DEF Message, Entry
<1>3. QED
  BY <1>0, <1>1, <1>2, HeldMemberNext

\* The head of the queue is the oldest request held.
LEMMA StreamStepDequeues ==
  ASSUME TypeOK, TypeOK', OnTheWay, Dequeued
  PROVE  Stream!HandOver \/ Stream!Lose
<1>0. /\ queue \in Seq(Entry) /\ s2c \in Seq(Message)
      /\ queue' \in Seq(Entry) /\ s2c' \in Seq(Message)
  BY DEF TypeOK
<1>1. /\ Len(queue) > 0 /\ Len(queue') = Len(queue) - 1 /\ Head(queue) = queue[1]
      /\ \A i \in 1 .. Len(queue) - 1 : queue'[i] = queue[i + 1]
  BY <1>0, TailShape DEF Dequeued
<1>2. s2c' = s2c /\ sent' = sent /\ last' \in {last, queue[1].id} /\ 1 \in 1 .. Len(queue)
  BY <1>1 DEF Dequeued
<1> DEFINE first == queue[1].id
<1>3. ASSUME NEW id \in Held PROVE id = first \/ id \in Held'
  <2>1. CASE \E i \in 1 .. Len(queue) : queue[i].id = id
    <3>1. PICK i \in 1 .. Len(queue) : queue[i].id = id
      BY <2>1
    <3>2. CASE i # 1
      <4>1. i - 1 \in 1 .. Len(queue') /\ queue'[i - 1] = queue[i]
        BY <1>0, <1>1, <3>2
      <4>2. QED
        BY <1>0, <3>1, <4>1, HeldMemberNext
    <3>3. QED
      BY <3>1, <3>2
  <2>2. CASE \E i \in 1 .. Len(s2c) : Asked(s2c[i]) /\ s2c[i].id = id
    <3>1. \E i \in 1 .. Len(s2c') : Asked(s2c'[i]) /\ s2c'[i].id = id
      BY <1>2, <2>2 DEF Asked
    <3>2. QED
      BY <1>0, <3>1, HeldMemberNext
  <2>3. QED
    BY <1>0, <2>1, <2>2, HeldMember
<1>4. ASSUME NEW id \in Held' PROVE id \in Held /\ first < id
  <2>1. CASE \E i \in 1 .. Len(queue') : queue'[i].id = id
    <3>1. PICK i \in 1 .. Len(queue') : queue'[i].id = id
      BY <2>1
    <3>2. i + 1 \in 1 .. Len(queue) /\ 1 < i + 1 /\ queue[i + 1].id = id
      BY <1>0, <1>1, <3>1
    <3>3. first < id
      BY <1>2, <3>2 DEF OnTheWay
    <3>4. QED
      BY <1>0, <3>2, <3>3, HeldMember
  <2>2. CASE \E i \in 1 .. Len(s2c') : Asked(s2c'[i]) /\ s2c'[i].id = id
    <3>1. PICK i \in 1 .. Len(s2c) : Asked(s2c[i]) /\ s2c[i].id = id
      BY <1>2, <2>2 DEF Asked
    <3>2. QED
      BY <1>0, <1>2, <3>1, HeldMember DEF OnTheWay
  <2>3. QED
    BY <1>0, <2>1, <2>2, HeldMemberNext
<1>5. first \in Held
  BY <1>0, <1>2, HeldMember
<1>6. first \in Nat
  BY <1>2 DEF OnTheWay
<1> HIDE DEF first
<1>7. CASE last' = first
  <2>1. Held' = Held \ {first}
    BY <1>3, <1>4, <1>6
  <2>2. ASSUME NEW other \in Held PROVE first <= other
    <3>1. other = first \/ (other \in Held' /\ first < other)
      BY <1>3, <1>4
    <3>2. other \in Held' => other \in Nat
      BY IdsAreNumbers
    <3>3. QED
      BY <1>6, <3>1, <3>2
  <2>3. QED
    BY <1>2, <1>5, <1>7, <2>1, <2>2 DEF Stream!HandOver
<1>8. CASE last' = last
  BY <1>2, <1>4, <1>8 DEF Stream!Lose
<1>9. QED
  BY <1>2, <1>7, <1>8 DEF first

\* With an empty queue the first of the stream is.
LEMMA StreamStepDelivers ==
  ASSUME TypeOK, TypeOK', OnTheWay, Delivered
  PROVE  Stream!HandOver
<1>0. /\ queue \in Seq(Entry) /\ s2c \in Seq(Message)
      /\ queue' \in Seq(Entry) /\ s2c' \in Seq(Message)
  BY DEF TypeOK
<1>1. /\ Len(s2c) > 0 /\ Asked(s2c[1]) /\ Popped /\ last' = s2c[1].id
      /\ Len(queue) = 0 /\ Len(queue') = 0 /\ sent' = sent
  BY DEF Delivered
<1> DEFINE first == s2c[1].id
<1>2. ASSUME NEW id \in Held PROVE id = first \/ id \in Held'
  <2>1. PICK i \in 1 .. Len(s2c) : Asked(s2c[i]) /\ s2c[i].id = id
    BY <1>0, <1>1, HeldMember
  <2>2. CASE i # 1
    <3>1. i - 1 \in 1 .. Len(s2c') /\ s2c'[i - 1] = s2c[i]
      BY <1>0, <1>1, <2>2 DEF Popped
    <3>2. QED
      BY <1>0, <2>1, <3>1, HeldMemberNext
  <2>3. QED
    BY <2>1, <2>2
<1>3. Thinned /\ \A i \in 1 .. Len(s2c') : Asked(s2c'[i]) => first < s2c'[i].id
  BY <1>1, FirstIsOldest
<1>4. ASSUME NEW id \in Held' PROVE id \in Held /\ first < id
  <2>1. PICK i \in 1 .. Len(s2c') : Asked(s2c'[i]) /\ s2c'[i].id = id
    BY <1>0, <1>1, HeldMemberNext
  <2>2. PICK k \in 1 .. Len(s2c) : s2c[k].id = id /\ Asked(s2c[k])
    BY <1>3, <2>1 DEF Thinned
  <2>3. QED
    BY <1>0, <1>3, <2>1, <2>2, HeldMember
<1>5. first \in Held
  BY <1>0, <1>1, HeldMember
<1>6. first \in Nat
  <2>1. s2c[1] \in Message
    BY <1>0, <1>1
  <2>2. QED
    BY <2>1, TopsAssumption DEF Message
<1> HIDE DEF first
<1>7. /\ Held' = Held \ {first}
      /\ \A other \in Held : first <= other
  <2>1. Held' = Held \ {first}
    BY <1>2, <1>4, <1>6
  <2>2. ASSUME NEW other \in Held PROVE first <= other
    <3>1. other = first \/ (other \in Held' /\ first < other)
      BY <1>2, <1>4
    <3>2. other \in Held' => other \in Nat
      BY IdsAreNumbers
    <3>3. QED
      BY <1>6, <3>1, <3>2
  <2>3. QED
    BY <2>1, <2>2
<1>8. QED
  BY <1>1, <1>5, <1>7 DEF Stream!HandOver, first

\* A new request is the youngest.
LEMMA StreamStepSends ==
  ASSUME TypeOK, TypeOK', Posted
  PROVE  Stream!Send
<1>0. /\ queue \in Seq(Entry) /\ s2c \in Seq(Message)
      /\ queue' \in Seq(Entry) /\ s2c' \in Seq(Message)
  BY DEF TypeOK
<1>1. PICK m \in Message : Grown(m) /\ Asked(m) /\ m.id = sent + 1
  BY DEF Posted
<1>2. queue' = queue /\ last' = last /\ sent' = sent + 1 /\ sent < MaxRequests
  BY DEF Posted
<1>3. ASSUME NEW id \in Held PROVE id \in Held'
  <2>1. CASE \E i \in 1 .. Len(queue) : queue[i].id = id
    BY <1>0, <1>2, <2>1, HeldMemberNext
  <2>2. CASE \E i \in 1 .. Len(s2c) : Asked(s2c[i]) /\ s2c[i].id = id
    <3>1. PICK i \in 1 .. Len(s2c) : Asked(s2c[i]) /\ s2c[i].id = id
      BY <2>2
    <3>2. i \in 1 .. Len(s2c') /\ s2c'[i] = s2c[i]
      BY <1>0, <1>1 DEF Grown
    <3>3. QED
      BY <1>0, <3>1, <3>2, HeldMemberNext
  <2>3. QED
    BY <1>0, <2>1, <2>2, HeldMember
<1>4. sent + 1 \in Held'
  <2>1. Len(s2c') \in 1 .. Len(s2c') /\ s2c'[Len(s2c')] = m
    BY <1>0, <1>1 DEF Grown
  <2>2. QED
    BY <1>0, <1>1, <2>1, HeldMemberNext
<1>5. ASSUME NEW id \in Held' PROVE id \in Held \/ id = sent + 1
  <2>1. CASE \E i \in 1 .. Len(queue') : queue'[i].id = id
    BY <1>0, <1>2, <2>1, HeldMember
  <2>2. CASE \E i \in 1 .. Len(s2c') : Asked(s2c'[i]) /\ s2c'[i].id = id
    <3>1. PICK i \in 1 .. Len(s2c') : Asked(s2c'[i]) /\ s2c'[i].id = id
      BY <2>2
    <3>2. (i \in 1 .. Len(s2c) /\ s2c'[i] = s2c[i]) \/ s2c'[i] = m
      BY <1>1 DEF Grown
    <3>3. QED
      BY <1>0, <1>1, <3>1, <3>2, HeldMember
  <2>3. QED
    BY <1>0, <2>1, <2>2, HeldMemberNext
<1>6. Held' = Held \cup {sent + 1}
  BY <1>3, <1>4, <1>5
<1>7. QED
  BY <1>2, <1>6 DEF Stream!Send

\* The client, the server and the network implement RequestStream: whatever the
\* calls, overflows, breaks and losses, each request of the target is handed to
\* the application at most once and in the order in which it was sent.
THEOREM RequestsKeepTheirOrder == Spec => StreamOfRequests
<1>1. Init => TypeOK /\ QueueOfGet /\ OnTheWay /\ Stream!Init
  <2> SUFFICES ASSUME Init PROVE TypeOK /\ QueueOfGet /\ OnTheWay /\ Stream!Init
    OBVIOUS
  <2>1. TypeOK
    BY TopsAssumption, EmptyType
    DEF Init, TypeOK, CallsAt, Flags, ProtocolStates, Statuses, Places
  <2>2. Len(queue) = 0 /\ Len(s2c) = 0 /\ sent = 0 /\ last = 0 /\ pc = "idle"
    BY DEF Init
  <2>3. Held = {}
    BY <2>1, <2>2, HeldMember DEF TypeOK
  <2>4. QED
    BY <2>1, <2>2, <2>3 DEF QueueOfGet, OnTheWay, Stream!Init
<1>2. TypeOK /\ TypeOK' /\ QueueOfGet /\ OnTheWay /\ [Next]_vars
        => QueueOfGet' /\ OnTheWay' /\ [Stream!Next]_(Stream!vars)
  <2> SUFFICES ASSUME TypeOK, TypeOK', QueueOfGet, OnTheWay, [Next]_vars
               PROVE  QueueOfGet' /\ OnTheWay' /\ Stream!Next
    OBVIOUS
  <2>1. QueueOfGet' /\ OnTheWay'
    BY QueueOfGetStep, OnTheWayStep
  <2>2. QED
    BY <2>1, RequestStep, StreamStepLoses, StreamStepDequeues, StreamStepDelivers,
       StreamStepSends DEF Stream!Next
<1>3. QED
  BY <1>1, <1>2, TypeCorrect, PTL DEF Spec, StreamOfRequests, Stream!Spec

\* Reading takes nothing from the requests that are held but the first of the
\* stream.
LEMMA OnlyTheFirstGoes ==
  ASSUME TypeOK, TypeOK', queue' = queue,
         s2c' = s2c \/ Popped \/ Junked,
         NEW id \in Held, id \notin Held'
  PROVE  Len(s2c) > 0 /\ Asked(s2c[1]) /\ id = s2c[1].id
<1>0. /\ queue \in Seq(Entry) /\ s2c \in Seq(Message)
      /\ queue' \in Seq(Entry) /\ s2c' \in Seq(Message)
  BY DEF TypeOK
<1>1. ~\E i \in 1 .. Len(queue) : queue[i].id = id
  BY <1>0, HeldMemberNext
<1>2. PICK i \in 1 .. Len(s2c) : Asked(s2c[i]) /\ s2c[i].id = id
  BY <1>0, <1>1, HeldMember
<1>3. ASSUME NEW k \in 1 .. Len(s2c'), s2c'[k] = s2c[i] PROVE FALSE
  BY <1>0, <1>2, <1>3, HeldMemberNext
<1>4. CASE s2c' = s2c
  BY <1>3, <1>4
<1>5. CASE Popped \/ Junked
  <2>1. CASE i # 1
    <3>1. /\ i \in 2 .. Len(s2c)
          /\ Popped => i - 1 \in 1 .. Len(s2c')
          /\ Junked => i \in 1 .. Len(s2c')
      BY <1>0, <2>1 DEF Popped, Junked
    <3>2. (Popped => s2c'[i - 1] = s2c[i]) /\ (Junked => s2c'[i] = s2c[i])
      BY <3>1 DEF Popped, Junked
    <3>3. QED
      BY <1>3, <1>5, <3>1, <3>2
  <2>2. QED
    BY <1>0, <1>2, <2>1
<1>6. QED
  BY <1>4, <1>5

\* A message that is added takes nothing from them.
LEMMA GrowingKeeps ==
  ASSUME TypeOK, TypeOK', queue' = queue, NEW m \in Message, Grown(m)
  PROVE  Held \subseteq Held'
<1>0. /\ queue \in Seq(Entry) /\ s2c \in Seq(Message)
      /\ queue' \in Seq(Entry) /\ s2c' \in Seq(Message)
  BY DEF TypeOK
<1>1. ASSUME NEW i \in 1 .. Len(s2c), Asked(s2c[i]) PROVE s2c[i].id \in Held'
  <2>1. i \in 1 .. Len(s2c') /\ s2c'[i] = s2c[i]
    BY <1>0 DEF Grown
  <2>2. QED
    BY <1>0, <1>1, <2>1, HeldMemberNext
<1>2. ASSUME NEW i \in 1 .. Len(queue) PROVE queue[i].id \in Held'
  BY <1>0, HeldMemberNext
<1>3. ASSUME NEW id \in Held PROVE id \in Held'
  BY <1>0, <1>1, <1>2, HeldMember
<1>4. QED
  BY <1>3

\* What LossIsReported says of a step.
LossStep ==
  \A id \in Held \ Held' :
    \/ id = last' \/ Reported \/ pc' = "interrupted" \/ conn' = "down"
    \/ op \in {"CommsSynchronous", "Restart", "Close"} \/ commsmode' = "closed"

\* The actions that drop a request are those that return an error, that are
\* interrupted, or that discard requests by what they are for.
LEMMA LossesAreReported ==
  ASSUME TypeOK, TypeOK', ModeAgreement, StatesAt, Wires, QueueOfGet, [Next]_vars
  PROVE  LossStep
<1> USE DEF LossStep, client, net, server, history, Return
<1>0. MessageWaiting => Len(s2c) > 0 /\ Header = s2c[1] /\ s2c[1] \in Message
  BY ReadShape DEF TypeOK
<1>1. ASSUME UNCHANGED <<queue, s2c>> PROVE LossStep
  BY <1>1 DEF Held, Asked
<1>2. ASSUME queue' = queue, MessageWaiting, ~Asked(Header), ReadAll \/ ReadHeaderOnly \/ ShortRead
      PROVE  LossStep
  <2>1. Popped \/ Junked
    BY <1>2, ReadShape
  <2>2. QED
    BY <1>0, <1>2, <2>1, OnlyTheFirstGoes
<1>3. CASE Call
  <2>1. CASE TOPS_Open
    BY <2>1, OpensAnew DEF TOPS_Open, OpenFails
  <2>2. CASE TOPS_GetRequest
    <3>1. PICK heartbeat \in Flags : TOPS_GetRequest!2!(heartbeat)
      BY <2>2 DEF TOPS_GetRequest
    <3>2. UNCHANGED s2c
      BY <2>2 DEF TOPS_GetRequest
    <3>3. CASE queue = << >>
      BY <1>1, <3>1, <3>2, <3>3
    <3>4. CASE queue # << >> /\ Return("BAD_OPERATION")
      BY <3>4 DEF Reported
    <3>5. CASE queue # << >> /\ Dequeue /\ last' = Head(queue).id
      <4>0. queue \in Seq(Entry) /\ queue' \in Seq(Entry) /\ s2c \in Seq(Message) /\ s2c' \in Seq(Message)
        BY DEF TypeOK
      <4>1. /\ Len(queue') = Len(queue) - 1 /\ Head(queue) = queue[1]
            /\ \A i \in 1 .. Len(queue) - 1 : queue'[i] = queue[i + 1]
        BY <4>0, <3>5, TailShape DEF Dequeue
      <4>2. ASSUME NEW id \in Held, id # last' PROVE id \in Held'
        <5>1. CASE \E i \in 1 .. Len(queue) : queue[i].id = id
          <6>1. PICK i \in 1 .. Len(queue) : queue[i].id = id
            BY <5>1
          <6>2. i - 1 \in 1 .. Len(queue') /\ queue'[i - 1] = queue[i]
            BY <4>0, <4>1, <4>2, <3>5, <6>1
          <6>3. QED
            BY <4>0, <6>1, <6>2, HeldMemberNext
        <5>2. CASE \E i \in 1 .. Len(s2c) : Asked(s2c[i]) /\ s2c[i].id = id
          <6>1. \E i \in 1 .. Len(s2c') : Asked(s2c'[i]) /\ s2c'[i].id = id
            BY <3>2, <5>2 DEF Asked
          <6>2. QED
            BY <4>0, <6>1, HeldMemberNext
        <5>3. QED
          BY <4>0, <4>2, <5>1, <5>2, HeldMember
      <4>3. QED
        BY <4>2
    <3>6. QED
      BY <3>1, <3>3, <3>4, <3>5
  <2>3. CASE TOPS_Close
    BY <1>1, <2>3 DEF TOPS_Close, FinishClose
  <2>4. CASE Call /\ ~TOPS_Open /\ ~TOPS_GetRequest /\ ~TOPS_Close
    BY <1>1, <2>4 DEF Call, Refuse, TOPS_Reset, TOPS_Analyse,
      TOPS_ErrorDetect, TOPS_ErrorIgnore, SilentCommand, Transfer, TOPS_CommsSynchronous,
      TOPS_CommsAsynchronous, TOPS_SendReply, TOPS_Restart
  <2>5. QED
    BY <1>3, <2>1, <2>2, <2>3, <2>4
<1>4. CASE pc \in {"commssync", "wait"} /\ Step
  BY <1>4 DEF TypeOK, CallsAt, Places
<1>5. CASE pc \in {"sync", "check"} /\ Step
  <2>1. CASE SyncReply
    <3>1. Header.tag # "Request"
      BY <1>5, <2>1 DEF SyncReply, Wanted, TypeOK, CallsAt, Places, TransferOps
    <3>2. QED
      BY <1>2, <2>1, <3>1 DEF SyncReply, Asked
  <2>2. CASE SyncMessage
    BY <1>2, <2>2 DEF SyncMessage, HandleMessage, Asked
  <2>3. CASE SyncPanic
    BY <2>3 DEF SyncPanic, Reported
  <2>4. CASE SyncReadFails
    BY <1>1, <2>4 DEF SyncReadFails, ReadFails
  <2>5. QED
    BY <1>5, <2>1, <2>2, <2>3, <2>4 DEF Step, OpenReply, SendFragment, TransferDone, CheckError,
      CommsSyncReply, CommsSyncErrorTransition, CommsSyncRequest, AwaitingCommsSync,
      CommsSyncMessage, CommsSyncOther, CommsSyncReadFails, ReadFails, DrainEnds, Draining,
      QueueRequest, DeliverRequest, BadRequest, AwaitingAsync, MayRead, AsyncMessage,
      AsyncErrorTransition, AsyncOther, AsyncReadFails, Heartbeat, Getting, CloseEnds,
      RestartReply, RestartFails, WaitMessage, WaitDiscard
<1>6. CASE pc = "async" /\ Step
  <2>1. CASE QueueRequest
    <3>1. CASE Enqueue(Header.form) /\ ReadAll /\ MessageWaiting
      <4>0. queue \in Seq(Entry) /\ queue' \in Seq(Entry) /\ s2c \in Seq(Message) /\ s2c' \in Seq(Message)
        BY DEF TypeOK
      <4> DEFINE e == [id |-> Header.id, form |-> Header.form]
      <4>1. e \in Entry /\ e.id = Header.id
        BY <1>0, <2>1, <3>1 DEF Entry, Message, QueueRequest
      <4> HIDE DEF e
      <4>2. /\ Len(queue') = Len(queue) + 1 /\ queue'[Len(queue) + 1] = e
            /\ \A i \in 1 .. Len(queue) : queue'[i] = queue[i]
        BY <4>0, <3>1, <4>1, AppendShape DEF e, Enqueue
      <4>3. ASSUME NEW id \in Held PROVE id \in Held'
        <5>1. CASE \E i \in 1 .. Len(queue) : queue[i].id = id
          <6>1. \E i \in 1 .. Len(queue') : queue'[i].id = id
            BY <4>0, <4>2, <5>1
          <6>2. QED
            BY <4>0, <6>1, HeldMemberNext
        <5>2. CASE \E i \in 1 .. Len(s2c) : Asked(s2c[i]) /\ s2c[i].id = id
          <6>1. PICK i \in 1 .. Len(s2c) : Asked(s2c[i]) /\ s2c[i].id = id
            BY <5>2
          <6>2. CASE i = 1
            <7>1. Len(queue) + 1 \in 1 .. Len(queue') /\ queue'[Len(queue) + 1].id = id
              BY <1>0, <3>1, <4>0, <4>1, <4>2, <6>1, <6>2
            <7>2. QED
              BY <4>0, <7>1, HeldMemberNext
          <6>3. CASE i # 1
            <7>1. Popped
              BY <3>1, ReadShape
            <7>2. i - 1 \in 1 .. Len(s2c') /\ s2c'[i - 1] = s2c[i]
              BY <4>0, <6>3, <7>1 DEF Popped
            <7>3. QED
              BY <4>0, <6>1, <7>2, HeldMemberNext
          <6>4. QED
            BY <6>2, <6>3
        <5>3. QED
          BY <4>0, <5>1, <5>2, HeldMember
      <4>4. QED
        BY <4>3
    <3>2. QED
      BY <2>1, <3>1 DEF QueueRequest, Reported, Overflow, AwaitingAsync
  <2>2. CASE DeliverRequest
    <3>1. Popped /\ MessageWaiting /\ queue' = queue
      BY <2>2, ReadShape DEF DeliverRequest, AwaitingAsync
    <3>2. CASE last' = Header.id
      BY <1>0, <3>1, <3>2, OnlyTheFirstGoes
    <3>3. QED
      BY <2>2, <3>2 DEF DeliverRequest, Reported
  <2>3. CASE BadRequest
    BY <2>3 DEF BadRequest, Reported
  <2>4. CASE AsyncMessage
    BY <1>2, <2>4 DEF AsyncMessage, HandleMessage, Asked
  <2>5. CASE AsyncErrorTransition
    BY <1>2, <2>5 DEF AsyncErrorTransition, AwaitingAsync, Asked
  <2>6. CASE AsyncOther
    BY <1>2, <2>6 DEF AsyncOther, Events, Asked
  <2>7. CASE AsyncReadFails
    BY <2>7 DEF AsyncReadFails, Reported
  <2>8. CASE DrainEnds \/ Heartbeat
    BY <1>1, <2>8 DEF DrainEnds, Heartbeat
  <2>9. QED
    BY <1>6, <2>1, <2>2, <2>3, <2>4, <2>5, <2>6, <2>7, <2>8
    DEF Step, OpenReply, SendFragment, TransferDone, CheckError,
      SyncReply, SyncMessage, SyncPanic, SyncReadFails, ReadFails, AwaitingSync,
      CommsSyncReply, CommsSyncErrorTransition, CommsSyncRequest, AwaitingCommsSync,
      CommsSyncMessage, CommsSyncOther, CommsSyncReadFails, CloseEnds,
      RestartReply, RestartFails, WaitMessage, WaitDiscard
<1>7. CASE pc \notin {"commssync", "wait", "sync", "check", "async"} /\ Step
  <2>1. CASE OpenReply
    BY <1>1, <2>1, OpensAnew DEF OpenReply, OpenFails
  <2>2. CASE SendFragment \/ TransferDone \/ CheckError
    BY <1>1, <2>2 DEF SendFragment, TransferDone, CheckError
  <2>3. QED
    BY <1>7, <2>1, <2>2 DEF Step,
      SyncReply, SyncMessage, SyncPanic, SyncReadFails, ReadFails, AwaitingSync,
      CommsSyncReply, CommsSyncErrorTransition, CommsSyncRequest, AwaitingCommsSync,
      CommsSyncMessage, CommsSyncOther, CommsSyncReadFails, DrainEnds, Draining,
      QueueRequest, DeliverRequest, BadRequest, AwaitingAsync, MayRead, AsyncMessage,
      AsyncErrorTransition, AsyncOther, AsyncReadFails, Heartbeat, Getting, CloseEnds,
      RestartReply, RestartFails, WaitMessage, WaitDiscard
<1>8. CASE BreakHandler
  BY <1>8 DEF BreakHandler
<1>9. CASE Environment
  <2>1. conn' = "down" \/ (queue' = queue /\ (s2c' = s2c \/ \E m \in Message : Grown(m)))
    BY <1>9, EnvironmentStep DEF Takes, Replies, Signals, Ends, Loses
  <2>2. CASE conn' = "down"
    BY <2>2
  <2>3. CASE queue' = queue /\ s2c' = s2c
    BY <1>1, <2>3
  <2>4. ASSUME NEW m \in Message, Grown(m), queue' = queue PROVE LossStep
    BY <2>4, GrowingKeeps
  <2>5. QED
    BY <2>1, <2>2, <2>3, <2>4
<1>10. CASE UNCHANGED vars
  BY <1>1, <1>10 DEF vars
<1>11. QED
  BY <1>3, <1>4, <1>5, <1>6, <1>7, <1>8, <1>9, <1>10 DEF Next

\* A request that has reached the client is handed over, or the call that loses
\* it says so: no call returns success over a request it has dropped.
THEOREM LossesReported == Spec => LossIsReported
<1>1. /\ TypeOK /\ TypeOK' /\ ModeAgreement /\ PipeInv /\ QueueOfGet /\ [Next]_vars
           => LossStep
  BY LossesAreReported DEF PipeInv
<1>2. Init => QueueOfGet
  BY DEF Init, QueueOfGet
<1>3. TypeOK /\ QueueOfGet /\ [Next]_vars => QueueOfGet'
  BY QueueOfGetStep
<1>4. LossStep => [LossStep]_vars
  OBVIOUS
<1>5. QED
  BY <1>1, <1>2, <1>3, TypeCorrect, ModesAgree, PipeInvariant, PTL
     DEF Spec, LossIsReported, LossStep

=============================================================================
