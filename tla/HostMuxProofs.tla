---------------------------- MODULE HostMuxProofs ---------------------------
(* Proofs about HostMux, for every number of programs, and about the module  *)
(* that runs the two small servers beside it.                                *)
EXTENDS MCMux, SequenceTheorems, FiniteSetTheorems, TLAPS

Places == 1..InputSize

\* Input and Output are turned alike, and each program is at one place of them.
ListInv ==
  /\ outs = ins
  /\ DOMAIN ins = 1..InputSize + 1 /\ ins[InputSize + 1] = Null
  /\ \A i \in Places : ins[i] \in Clients
  /\ \A i, j \in Places : ins[i] = ins[j] => i = j
  /\ \A c \in Clients : \E i \in Places : ins[i] = c

\* The packet in the buffer comes from the program at the place Index.
BufferInv ==
  at \in {"exit", "pass", "host", "reply"} => index \in Places /\ buffer.from = ins[index]

IInv == ListInv /\ BufferInv

\* A list that is turned keeps its members and its NULL.
LEMMA TurnKeepsList ==
  ASSUME ListInv, NEW n \in 0..InputSize - 1,
         ins' = RotateChannels(ins, InputSize, n), outs' = RotateChannels(outs, InputSize, n)
  PROVE  /\ ListInv'
         /\ \A i \in Places : ins'[i] = IF i + n <= InputSize THEN ins[i + n]
                                        ELSE ins[i + n - InputSize]
<1>1. InputSize \in Nat /\ InputSize > 0 /\ n \in Nat /\ n < InputSize
  BY MuxAssumption
<1>2. ins' = [i \in 1..InputSize + 1 |->
                IF i > InputSize THEN Null
                ELSE IF i + n <= InputSize THEN ins[i + n] ELSE ins[i + n - InputSize]]
  BY DEF RotateChannels
<1>3. /\ DOMAIN ins' = 1..InputSize + 1
      /\ \A i \in 1..InputSize + 1 :
           ins'[i] = IF i > InputSize THEN Null
                     ELSE IF i + n <= InputSize THEN ins[i + n] ELSE ins[i + n - InputSize]
  BY <1>2
<1>4. ASSUME NEW i \in Places
      PROVE  ins'[i] = IF i + n <= InputSize THEN ins[i + n] ELSE ins[i + n - InputSize]
  <2>1. i \in 1..InputSize + 1 /\ ~ i > InputSize
    BY <1>1 DEF Places
  <2> QED BY <1>3, <2>1
<1>5. ins'[InputSize + 1] = Null
  BY <1>1, <1>3
<1>6. \A i \in Places : ins'[i] \in Clients
  BY <1>1, <1>4 DEF ListInv, Places
<1>7. ASSUME NEW i \in Places, NEW j \in Places, ins'[i] = ins'[j] PROVE i = j
  <2> DEFINE From(q) == IF q + n <= InputSize THEN q + n ELSE q + n - InputSize
  <2>1. From(i) \in Places /\ From(j) \in Places /\ (From(i) = From(j) => i = j)
    BY <1>1 DEF Places
  <2>2. ins[From(i)] = ins[From(j)]
    BY <1>4, <1>7
  <2> QED BY <2>1, <2>2 DEF ListInv
<1>8. ASSUME NEW c \in Clients PROVE \E i \in Places : ins'[i] = c
  <2>1. PICK q \in Places : ins[q] = c
    BY DEF ListInv
  <2>2. CASE q > n
    <3>1. q - n \in Places /\ (q - n) + n = q /\ q <= InputSize
      BY <1>1, <2>2 DEF Places
    <3> QED BY <1>4, <2>1, <3>1
  <2>3. CASE q <= n
    <3>1. /\ q - n + InputSize \in Places /\ ~ (q - n + InputSize) + n <= InputSize
          /\ (q - n + InputSize) + n - InputSize = q
      BY <1>1, <2>3 DEF Places
    <3> QED BY <1>4, <2>1, <3>1
  <2> QED BY <1>1, <2>2, <2>3 DEF Places
<1>9. outs' = ins'
  BY DEF ListInv
<1> QED BY <1>3, <1>4, <1>5, <1>6, <1>7, <1>8, <1>9 DEF ListInv

\* An alternation ends at a place of the list.
LEMMA AltEndsAtPlace ==
  ASSUME ListInv, NEW ready, NEW o \in BOOLEAN, NEW i \in AltEnds(ins, ready, o)
  PROVE  i \in Places /\ ins[i] \in ready
<1>1. i \in 1..InputSize + 1 /\ ins[i] # Null /\ ins[i] \in ready
  BY MuxAssumption DEF AltEnds, Listed, ListInv
<1> QED BY <1>1, MuxAssumption DEF Places, ListInv

\* Where each of main's branches leaves the multiplexer's own state.
LEMMA StepKeepsList ==
  ASSUME IInv, [Next]_vars
  PROVE  IInv'
<1>1. CASE Receive
  <2>1. PICK i \in AltEnds(ins, Asking, InOrder) :
          index' = i /\ buffer' = [from |-> ins[i], exit |-> last[ins[i]]]
    BY <1>1 DEF Receive
  <2>2. i \in Places
    BY <2>1, AltEndsAtPlace, MuxAssumption DEF IInv
  <2>3. UNCHANGED <<ins, outs>>
    BY <1>1 DEF Receive
  <2> QED BY <2>1, <2>2, <2>3 DEF IInv, ListInv, BufferInv
<1>2. CASE Reply
  <2>1. InputTurn \in 0..InputSize - 1 /\ OutputTurn = InputTurn
    <3>1. index \in Places
      BY <1>2 DEF Reply, IInv, BufferInv
    <3> QED BY <3>1, MuxAssumption DEF Turn, InputTurn, OutputTurn, Places
  <2>2. /\ ins' = RotateChannels(ins, InputSize, InputTurn)
        /\ outs' = RotateChannels(outs, InputSize, InputTurn)
        /\ at' \in {"alt", "spexit"}
    BY <1>2, <2>1 DEF Reply
  <2>3. ListInv'
    BY <2>1, <2>2, TurnKeepsList DEF IInv
  <2> QED BY <2>2, <2>3 DEF IInv, BufferInv
<1>3. CASE \/ TakeExit \/ PassOn \/ PassBack \/ SpExit
  <2>1. UNCHANGED <<ins, outs, index, buffer>>
    BY <1>3 DEF TakeExit, PassOn, PassBack, SpExit
  <2>2. at' \in {"exit", "pass", "host", "reply"} => at \in {"exit", "pass", "host", "reply"}
    BY <1>3 DEF TakeExit, PassOn, PassBack, SpExit
  <2> QED BY <2>1, <2>2 DEF IInv, ListInv, BufferInv
<1>4. CASE (\E c \in Clients : Ask(c)) \/ Gone \/ UNCHANGED vars
  BY <1>4 DEF Ask, Gone, vars, mux, IInv, ListInv, BufferInv
<1> QED BY <1>1, <1>2, <1>3, <1>4 DEF Next

\* The lists hold at first.
LEMMA InitList == Init => IInv
<1> DEFINE cs == [c \in Clients |-> c]
<1>1. InputSize \in Nat /\ InputSize > 0
  BY MuxAssumption
<1>2. cs \in Seq(Clients)
  <2>1. cs \in [1..InputSize -> Clients]
    BY DEF Clients
  <2> QED BY <1>1, <2>1, SeqDef
<1>3. Len(cs) = InputSize
  <2>1. DOMAIN cs = 1..InputSize
    BY DEF Clients
  <2>2. Len(cs) \in Nat /\ DOMAIN cs = 1..Len(cs)
    BY <1>2, LenProperties
  <2> QED BY <1>1, <2>1, <2>2
<1>4. CreateChannels(cs) = [i \in 1..InputSize + 1 |-> IF i <= InputSize THEN i ELSE Null]
  BY <1>1, <1>3 DEF CreateChannels, Clients
<1> HIDE DEF cs
<1>5. ASSUME Init PROVE IInv
  <2>1. /\ ins = [i \in 1..InputSize + 1 |-> IF i <= InputSize THEN i ELSE Null]
        /\ outs = ins /\ at = "alt"
    BY <1>4, <1>5 DEF Init, cs
  <2>2. /\ DOMAIN ins = 1..InputSize + 1 /\ ins[InputSize + 1] = Null
        /\ \A i \in Places : ins[i] = i
    <3>1. /\ DOMAIN ins = 1..InputSize + 1
          /\ \A i \in 1..InputSize + 1 : ins[i] = IF i <= InputSize THEN i ELSE Null
      BY <2>1
    <3>2. ins[InputSize + 1] = Null
      BY <1>1, <3>1
    <3>3. ASSUME NEW i \in Places PROVE ins[i] = i
      <4>1. i \in 1..InputSize + 1 /\ i <= InputSize
        BY <1>1 DEF Places
      <4> QED BY <3>1, <4>1
    <3> QED BY <3>1, <3>2, <3>3
  <2>3. ListInv
    BY <2>1, <2>2 DEF ListInv, Places, Clients
  <2> QED BY <2>1, <2>3 DEF IInv, BufferInv
<1> QED BY <1>5

\* However many programs there are, and however often the lists have been
\* turned, the reply in the buffer goes to the program that asked (main of
\* HOSTMULT.C: ChanOut(Output[Index], ...)).
THEOREM RepliesGoBack == Spec => []RepliesToSender
<1>1. Spec => []IInv
  BY InitList, StepKeepsList, PTL DEF Spec
<1>2. IInv => RepliesToSender
  BY DEF IInv, ListInv, BufferInv, RepliesToSender
<1> QED BY <1>1, <1>2, PTL

\* What has been served while a program asks, by its place in the list.  While
\* a packet is under way those before its sender have been asking for less
\* than the service.
Waiting ==
  \A i \in Places :
    client[ins[i]] = "asks" =>
      IF at \in {"alt", "spexit", "gone"} THEN passed[ins[i]] <= InputSize - i
      ELSE /\ i > index => passed[ins[i]] <= InputSize - i + 1
           /\ i < index => passed[ins[i]] = 0
           /\ i # index

\* Who has been served stands behind everyone who waits.
FairInv ==
  /\ at \in {"alt", "exit", "pass", "host", "reply", "spexit", "gone"}
  /\ DOMAIN client = Clients /\ DOMAIN passed = Clients
  /\ \A c \in Clients : passed[c] \in Nat /\ passed[c] < InputSize
  /\ at \in {"exit", "pass", "host", "reply"} => client[ins[index]] = "waits"
  /\ Waiting

\* It holds at first.
LEMMA InitFair == Init => FairInv
<1> SUFFICES ASSUME Init PROVE FairInv
  OBVIOUS
<1>1. /\ at = "alt" /\ DOMAIN client = Clients /\ DOMAIN passed = Clients
      /\ \A c \in Clients : passed[c] = 0 /\ client[c] = "runs"
  BY DEF Init
<1>2. Waiting
  BY <1>1, InitList DEF Waiting, IInv, ListInv
<1> QED BY <1>1, <1>2, MuxAssumption DEF FairInv

\* An alternation in order passes over the places where nobody asks.
LEMMA AltEndsInOrder ==
  ASSUME ListInv, NEW ready, NEW i \in AltEnds(ins, ready, TRUE), NEW j \in Places, j < i
  PROVE  ins[j] \notin ready
<1>1. i \in Places
  BY AltEndsAtPlace
<1>2. \A q \in 1..j : q \in Places /\ ins[q] # Null
  <2> SUFFICES ASSUME NEW q \in 1..j PROVE q \in Places /\ ins[q] # Null
    OBVIOUS
  <2>1. q \in 1..i
    BY <1>1, MuxAssumption DEF Places
  <2> QED BY <1>1, <2>1, MuxAssumption DEF AltEnds, Listed, Places
<1>3. j \in Listed(ins)
  BY <1>2, MuxAssumption DEF Listed, ListInv, Places
<1> QED BY <1>3 DEF AltEnds

\* It is kept when a packet is received,
LEMMA ReceiveFair ==
  ASSUME IInv, FairInv, Receive, InOrder = TRUE
  PROVE  FairInv'
<1>1. PICK i \in AltEnds(ins, Asking, TRUE) :
        /\ index' = i
        /\ client' = [client EXCEPT ![ins[i]] = "waits"]
        /\ passed' = [d \in Clients |->
                        IF d \in Asking \ {ins[i]} /\ passed[d] < InputSize
                        THEN passed[d] + 1 ELSE passed[d]]
        /\ at' = IF last[ins[i]] THEN "exit" ELSE "pass"
  BY DEF Receive
<1>2. at = "alt" /\ UNCHANGED ins
  BY DEF Receive
<1>3. i \in Places /\ ins[i] \in Clients /\ ins[i] \in Asking
  BY AltEndsAtPlace, <1>1, MuxAssumption DEF IInv, ListInv
<1>4. \A j \in Places : j < i => ins[j] \notin Asking
  BY AltEndsInOrder, <1>1 DEF IInv
<1>5. InputSize \in Nat
  BY MuxAssumption
<1>6. ASSUME NEW j \in Places, client'[ins[j]] = "asks"
      PROVE  j > i /\ passed'[ins[j]] <= InputSize - j + 1
  <2>1. ins[j] \in Clients /\ ins[j] # ins[i] /\ client[ins[j]] = "asks"
    BY <1>1, <1>3, <1>6 DEF IInv, ListInv, FairInv
  <2>2. ins[j] \in Asking
    BY <2>1 DEF Asking
  <2>3. ~ j < i
    BY <1>4, <2>2
  <2>4. j > i
    BY <1>3, <1>5, <2>1, <2>3 DEF Places
  <2>5. passed[ins[j]] <= InputSize - j /\ passed[ins[j]] \in Nat
    BY <1>2, <2>1 DEF FairInv, Waiting
  <2>6. passed'[ins[j]] \in Nat /\ passed'[ins[j]] <= passed[ins[j]] + 1
    BY <1>1, <2>1, <2>5
  <2> QED BY <1>5, <2>4, <2>5, <2>6 DEF Places
<1>7. Waiting'
  <2>1. at' \notin {"alt", "spexit", "gone"}
    BY <1>1
  <2>2. ASSUME NEW j \in Places, client'[ins[j]] = "asks"
        PROVE  /\ j > index' => passed'[ins[j]] <= InputSize - j + 1
               /\ ~ j < index' /\ j # index'
    BY <1>1, <1>3, <1>5, <1>6, <2>2 DEF Places
  <2> QED BY <1>2, <2>1, <2>2 DEF Waiting
<1>8. ASSUME NEW c \in Clients PROVE passed'[c] \in Nat /\ passed'[c] < InputSize
  <2>1. CASE client[c] = "asks" /\ c # ins[i]
    <3>1. PICK j \in Places : ins[j] = c
      BY DEF IInv, ListInv
    <3>2. client'[c] = "asks"
      BY <1>1, <2>1 DEF FairInv
    <3>3. j > i /\ passed'[c] <= InputSize - j + 1
      BY <1>6, <3>1, <3>2
    <3>4. passed'[c] \in Nat
      BY <1>1 DEF FairInv
    <3> QED BY <1>3, <1>5, <3>3, <3>4 DEF Places
  <2>2. CASE ~ (client[c] = "asks" /\ c # ins[i])
    <3>1. passed'[c] = passed[c]
      BY <1>1, <2>2 DEF Asking
    <3> QED BY <3>1 DEF FairInv
  <2> QED BY <2>1, <2>2
<1>9. DOMAIN client' = Clients /\ DOMAIN passed' = Clients
  BY <1>1 DEF FairInv
<1>10. client'[ins'[index']] = "waits"
  BY <1>1, <1>2, <1>3 DEF FairInv
<1>11. at' \in {"alt", "exit", "pass", "host", "reply", "spexit", "gone"}
  BY <1>1
<1> QED BY <1>7, <1>8, <1>9, <1>10, <1>11 DEF FairInv

\* The counts of who has been passed are numbers.
LEMMA PassedNat ==
  ASSUME IInv, FairInv, NEW i \in Places
  PROVE  passed[ins[i]] \in Nat
BY DEF IInv, ListInv, FairInv

\* when a reply is passed on,
LEMMA ReplyFair ==
  ASSUME IInv, FairInv, Reply
  PROVE  FairInv'
<1>1. /\ at = "reply" /\ index \in Places /\ InputSize \in Nat /\ InputSize > 0
      /\ at' \in {"alt", "spexit"} /\ UNCHANGED <<passed, index>>
  BY MuxAssumption DEF Reply, IInv, BufferInv
<1>2. /\ client' = [client EXCEPT ![ins[index]] = IF last[ins[index]] THEN "gone" ELSE "runs"]
      /\ InputTurn \in 0..InputSize - 1 /\ OutputTurn = InputTurn
      /\ InputTurn = index \/ (index = InputSize /\ InputTurn = 0)
  BY <1>1, MuxAssumption DEF Reply, IInv, ListInv, Turn, InputTurn, OutputTurn, Places
<1>3. /\ ListInv'
      /\ \A i \in Places : ins'[i] = IF i + InputTurn <= InputSize THEN ins[i + InputTurn]
                                     ELSE ins[i + InputTurn - InputSize]
  BY <1>2, TurnKeepsList DEF Reply, IInv
<1>4. ASSUME NEW i \in Places, client'[ins'[i]] = "asks"
      PROVE  passed[ins'[i]] <= InputSize - i
  <2> DEFINE j == IF i + InputTurn <= InputSize THEN i + InputTurn
                  ELSE i + InputTurn - InputSize
  <2>1. j \in Places /\ ins'[i] = ins[j]
    BY <1>1, <1>2, <1>3 DEF Places
  <2>2. ins[j] # ins[index] /\ client[ins[j]] = "asks"
    BY <1>2, <1>4, <2>1 DEF FairInv, IInv, ListInv
  <2>3. /\ j > index => passed[ins[j]] <= InputSize - j + 1
        /\ j < index => passed[ins[j]] = 0
        /\ j # index
    BY <1>1, <2>1, <2>2 DEF FairInv, Waiting
  <2>4. CASE j > index
    <3>1. i + index = j \/ (index = InputSize /\ j = i)
      BY <1>1, <1>2, <2>1, <2>4 DEF Places
    <3>2. ~ index = InputSize
      BY <1>1, <2>1, <2>4 DEF Places
    <3> HIDE DEF j
    <3> QED BY <1>1, <2>1, <2>3, <2>4, <3>1, <3>2, PassedNat DEF Places
  <2>5. CASE j < index
    <3> HIDE DEF j
    <3> QED BY <1>1, <2>1, <2>3, <2>5 DEF Places
  <2> HIDE DEF j
  <2> QED BY <1>1, <2>1, <2>3, <2>4, <2>5 DEF Places
<1>5. Waiting'
  BY <1>1, <1>4 DEF Waiting
<1>6. DOMAIN client' = Clients
  BY <1>2 DEF FairInv
<1> QED BY <1>1, <1>5, <1>6 DEF FairInv

\* and by every other step.
LEMMA StepFair ==
  ASSUME IInv, FairInv, [Next]_vars, InOrder = TRUE
  PROVE  FairInv'
<1>1. CASE \/ TakeExit \/ PassOn \/ PassBack
  <2>1. /\ UNCHANGED <<ins, index, client, passed>>
        /\ at \in {"exit", "pass", "host"} /\ at' \in {"host", "reply"}
    BY <1>1 DEF TakeExit, PassOn, PassBack
  <2> QED BY <2>1 DEF FairInv, Waiting
<1>2. CASE SpExit \/ Gone \/ UNCHANGED vars
  <2>1. /\ UNCHANGED <<ins, index, client, passed>>
        /\ at' = at \/ (at = "spexit" /\ at' = "gone")
    BY <1>2 DEF SpExit, Gone, vars
  <2> QED BY <2>1 DEF FairInv, Waiting
<1>3. ASSUME NEW c \in Clients, Ask(c) PROVE FairInv'
  <2>1. /\ client[c] = "runs" /\ UNCHANGED <<ins, at, index>>
        /\ client' = [client EXCEPT ![c] = "asks"]
        /\ passed' = [passed EXCEPT ![c] = 0]
    BY <1>3 DEF Ask, mux
  <2>2. \A d \in Clients : passed'[d] \in Nat /\ passed'[d] < InputSize /\ passed'[c] = 0
    BY <2>1, MuxAssumption DEF FairInv
  <2>3. at \in {"exit", "pass", "host", "reply"} => index \in Places /\ ins[index] # c
    BY <2>1 DEF FairInv, IInv, BufferInv
  <2>4. ASSUME NEW i \in Places, ins[i] # c
        PROVE client'[ins[i]] = client[ins[i]] /\ passed'[ins[i]] = passed[ins[i]]
    BY <2>1, <2>4 DEF FairInv
  <2>5. ASSUME NEW i \in Places, client'[ins[i]] = "asks"
        PROVE  IF at \in {"alt", "spexit", "gone"} THEN passed'[ins[i]] <= InputSize - i
               ELSE /\ i > index => passed'[ins[i]] <= InputSize - i + 1
                    /\ i < index => passed'[ins[i]] = 0
                    /\ i # index
    <3>1. CASE ins[i] = c
      BY <2>2, <2>3, <3>1, MuxAssumption DEF FairInv, Places
    <3>2. CASE ins[i] # c
      BY <2>4, <2>5, <3>2 DEF FairInv, Waiting
    <3> QED BY <3>1, <3>2
  <2>6. Waiting'
    BY <2>1, <2>5 DEF Waiting
  <2>7. at \in {"exit", "pass", "host", "reply"} => client'[ins[index]] = "waits"
    BY <2>3, <2>4 DEF FairInv
  <2>8. DOMAIN client' = Clients /\ DOMAIN passed' = Clients
    BY <2>1 DEF FairInv
  <2> QED BY <2>1, <2>2, <2>6, <2>7, <2>8 DEF FairInv
<1> QED BY <1>1, <1>2, <1>3, ReceiveFair, ReplyFair DEF Next

\* When ProcAltList ends at the first channel that is ready, a program waits
\* for at most one packet of each of the others, however many there are
\* (RotateChannels by Index + 1 in main of HOSTMULT.C).
THEOREM Overtaking == ASSUME InOrder = TRUE PROVE Spec => []OvertakenOnce
<1>1. Init => IInv /\ FairInv
  BY InitList, InitFair
<1>2. IInv /\ FairInv /\ [Next]_vars => (IInv /\ FairInv)'
  BY StepKeepsList, StepFair
<1>3. IInv /\ FairInv => OvertakenOnce
  BY DEF FairInv, OvertakenOnce
<1> QED BY <1>1, <1>2, <1>3, PTL DEF Spec

-----------------------------------------------------------------------------
\* The programs that main still counts: those that have not left, but the one
\* whose exit it has counted and not answered yet.
Counted ==
  {c \in Clients : client[c] # "gone" /\ ~ (at = "reply" /\ buffer.exit /\ c = buffer.from)}

\* What is in the buffer is the packet of a program that waits.
PacketInv ==
  /\ at \in {"exit", "pass", "host", "reply"} =>
       /\ buffer.from \in Clients /\ client[buffer.from] = "waits"
       /\ buffer.exit = last[buffer.from]
  /\ at = "exit" => buffer.exit
  /\ at \in {"pass", "host"} => ~ buffer.exit

\* The host is busy with a packet, done after the exit, and idle else.
HostInv ==
  /\ host = "busy" <=> at = "host"
  /\ host = "done" <=> at = "gone"

\* ExitCount and ExitStatus are about the programs that are not counted any more.
ExitInv ==
  /\ left = Cardinality(Counted)
  /\ at \in {"spexit", "gone"} => left = 0
  /\ status = Success => \A c \in Clients \ Counted : ends[c] = Success
  /\ status # Success => \E c \in Clients : ends[c] = status

\* The inductive invariant of the multiplexer.
MuxInv == IInv /\ TypeOK /\ PacketInv /\ HostInv /\ ExitInv

\* Any set of programs is finite, and no larger than all of them.
LEMMA SomeClients ==
  ASSUME NEW S \in SUBSET Clients
  PROVE  IsFiniteSet(S) /\ Cardinality(S) \in 0..InputSize
<1>1. InputSize \in Nat /\ InputSize > 0
  BY MuxAssumption
<1>2. IsFiniteSet(Clients) /\ Cardinality(Clients) = InputSize
  BY <1>1, FS_Interval DEF Clients
<1>3. IsFiniteSet(S) /\ Cardinality(S) <= InputSize
  BY <1>2, FS_Subset
<1>4. QED
  BY <1>1, <1>3, FS_CardinalityType

\* It holds at first.
LEMMA MuxStart == ASSUME Init PROVE MuxInv
<1>1. InputSize \in Nat /\ InputSize > 0
  BY MuxAssumption
<1>2. IInv
  BY InitList
<1>3. TypeOK
  <2>1. \A cs \in {ins, outs} : /\ DOMAIN cs = 1..InputSize + 1 /\ cs[InputSize + 1] = Null
                                /\ \A i \in 1..InputSize : cs[i] \in Clients
    BY <1>2 DEF IInv, ListInv, Places
  <2>2. QED
    BY <1>1, <2>1 DEF Init, TypeOK, Clients
<1>4. Counted = Clients
  BY DEF Counted, Init
<1>5. Cardinality(Clients) = InputSize
  BY <1>1, FS_Interval DEF Clients
<1>6. QED
  BY <1>2, <1>3, <1>4, <1>5 DEF MuxInv, PacketInv, HostInv, ExitInv, Init

\* The program that is answered is the sender of the packet.
LEMMA AnswersSender ==
  ASSUME MuxInv, Reply
  PROVE  /\ outs[index] = buffer.from /\ buffer.from \in Clients
         /\ buffer.exit = last[buffer.from]
         /\ client' = [client EXCEPT ![buffer.from] = IF buffer.exit THEN "gone" ELSE "runs"]
<1>1. outs[index] = buffer.from
  BY DEF MuxInv, IInv, ListInv, BufferInv, Reply
<1>2. buffer.from \in Clients /\ buffer.exit = last[buffer.from]
  BY DEF MuxInv, PacketInv, Reply
<1>3. QED
  BY <1>1, <1>2 DEF Reply

\* Every step keeps the types,
LEMMA MuxTypes ==
  ASSUME MuxInv, [Next]_vars, IInv'
  PROVE  TypeOK'
<1>1. TypeOK /\ PacketInv /\ InputSize \in Nat
  BY MuxAssumption DEF MuxInv
<1>2. \A cs \in {ins', outs'} : /\ DOMAIN cs = 1..InputSize + 1 /\ cs[InputSize + 1] = Null
                                /\ \A i \in 1..InputSize : cs[i] \in Clients
  BY DEF IInv, ListInv, Places
<1>3. ASSUME NEW c \in Clients, Ask(c) PROVE TypeOK'
  BY <1>1, <1>2, <1>3 DEF Ask, mux, TypeOK
<1>4. CASE Receive
  <2>1. PICK i \in AltEnds(ins, Asking, InOrder) :
          /\ index' = i
          /\ buffer' = [from |-> ins[i], exit |-> last[ins[i]]]
          /\ client' = [client EXCEPT ![ins[i]] = "waits"]
          /\ passed' = [d \in Clients |->
                          IF d \in Asking \ {ins[i]} /\ passed[d] < InputSize
                          THEN passed[d] + 1 ELSE passed[d]]
          /\ at' = IF last[ins[i]] THEN "exit" ELSE "pass"
    BY <1>4 DEF Receive
  <2>2. i \in Clients /\ ins[i] \in Clients
    BY <2>1, AltEndsAtPlace, MuxAssumption DEF MuxInv, IInv, ListInv, Places, Clients
  <2>3. passed' \in [Clients -> 0..InputSize]
    BY <1>1, <2>1 DEF TypeOK
  <2>4. UNCHANGED <<left, status, host, last, ends>>
    BY <1>4 DEF Receive
  <2>5. /\ index' \in Clients /\ at' \in {"exit", "pass"}
        /\ buffer' \in [from : Clients \union {Null}, exit : BOOLEAN]
        /\ client' \in [Clients -> {"runs", "asks", "waits", "gone"}]
    BY <1>1, <2>1, <2>2 DEF TypeOK
  <2>6. QED
    BY <1>1, <1>2, <2>3, <2>4, <2>5 DEF TypeOK
<1>5. CASE TakeExit
  <2>1. left > 0
    <3>1. buffer.from \in Counted
      BY <1>1, <1>5 DEF TakeExit, PacketInv, Counted
    <3>2. IsFiniteSet(Counted) /\ Counted # {} /\ left = Cardinality(Counted)
      BY <3>1, SomeClients DEF MuxInv, ExitInv, Counted
    <3>3. QED
      BY <1>1, <3>2, FS_EmptySet DEF TypeOK
  <2>2. ends[buffer.from] \in Statuses \union {Success}
    BY <1>1, <1>5 DEF TakeExit, PacketInv, TypeOK
  <2>3. left' \in 0..InputSize /\ status' \in Statuses \union {Success}
    BY <1>1, <1>5, <2>1, <2>2 DEF TakeExit, NewStatus, TypeOK
  <2>4. QED
    BY <1>1, <1>2, <1>5, <2>3 DEF TakeExit, TypeOK
<1>6. CASE PassOn \/ PassBack \/ SpExit
  BY <1>1, <1>2, <1>6 DEF PassOn, PassBack, SpExit, TypeOK
<1>7. CASE Reply
  <2>1. client' \in [Clients -> {"runs", "asks", "waits", "gone"}]
    BY <1>1, <1>7, AnswersSender DEF TypeOK
  <2>2. /\ at' \in {"alt", "spexit"}
        /\ UNCHANGED <<index, buffer, left, status, host, last, ends, passed>>
    BY <1>7 DEF Reply
  <2>3. QED
    BY <1>1, <1>2, <2>1, <2>2 DEF TypeOK
<1>8. CASE Gone \/ UNCHANGED vars
  BY <1>1, <1>8 DEF Gone, vars, TypeOK
<1>9. QED
  BY <1>3, <1>4, <1>5, <1>6, <1>7, <1>8 DEF Next

\* what is known of the packet that is being passed on,
LEMMA MuxPackets ==
  ASSUME MuxInv, [Next]_vars
  PROVE  PacketInv' /\ HostInv'
<1>1. TypeOK /\ PacketInv /\ HostInv
  BY DEF MuxInv
<1>2. ASSUME NEW c \in Clients, Ask(c) PROVE PacketInv' /\ HostInv'
  <2>1. /\ client[c] = "runs" /\ client' = [client EXCEPT ![c] = "asks"]
        /\ \E exit \in BOOLEAN : last' = [last EXCEPT ![c] = exit]
        /\ UNCHANGED <<at, buffer, host>>
    BY <1>2 DEF Ask, mux
  <2>2. HostInv'
    BY <1>1, <2>1 DEF HostInv
  <2>3. \A d \in Clients : d # c => client'[d] = client[d] /\ last'[d] = last[d]
    BY <1>1, <2>1 DEF TypeOK
  <2>4. QED
    BY <1>1, <2>1, <2>2, <2>3 DEF PacketInv
<1>3. CASE Receive
  <2>1. PICK i \in AltEnds(ins, Asking, InOrder) :
          /\ buffer' = [from |-> ins[i], exit |-> last[ins[i]]]
          /\ client' = [client EXCEPT ![ins[i]] = "waits"]
          /\ at' = IF last[ins[i]] THEN "exit" ELSE "pass"
    BY <1>3 DEF Receive
  <2>2. ins[i] \in Clients /\ at = "alt" /\ UNCHANGED <<host, last>>
    BY <1>3, <2>1, AltEndsAtPlace, MuxAssumption DEF MuxInv, IInv, ListInv, Receive
  <2>3. /\ buffer'.from = ins[i] /\ buffer'.exit = last[ins[i]]
        /\ client'[ins[i]] = "waits" /\ last[ins[i]] \in BOOLEAN
    BY <1>1, <2>1, <2>2 DEF TypeOK
  <2>4. QED
    BY <1>1, <2>1, <2>2, <2>3 DEF PacketInv, HostInv
<1>4. CASE TakeExit \/ PassOn \/ PassBack \/ SpExit
  BY <1>1, <1>4 DEF TakeExit, PassOn, PassBack, SpExit, PacketInv, HostInv
<1>5. CASE Reply
  <2>1. at = "reply" /\ at' \in {"alt", "spexit"} /\ UNCHANGED host
    BY <1>5 DEF Reply
  <2>2. QED
    BY <1>1, <2>1 DEF PacketInv, HostInv
<1>6. CASE Gone \/ UNCHANGED vars
  BY <1>1, <1>6 DEF Gone, vars, PacketInv, HostInv
<1>7. QED
  BY <1>2, <1>3, <1>4, <1>5, <1>6 DEF Next

\* ExitCount goes down with each exit that is taken, and a program is gone only
\* when its exit was taken and answered.
LEMMA MuxCounts ==
  ASSUME MuxInv, [Next]_vars
  PROVE  ExitInv'
<1>1. TypeOK /\ PacketInv /\ ExitInv
  BY DEF MuxInv
<1>2. ASSUME Counted' = Counted, UNCHANGED <<left, status, ends>>,
             at' \in {"spexit", "gone"} => left = 0
      PROVE  ExitInv'
  BY <1>1, <1>2 DEF ExitInv
<1>3. ASSUME NEW c \in Clients, Ask(c) PROVE ExitInv'
  <2>1. /\ client[c] = "runs" /\ client' = [client EXCEPT ![c] = "asks"]
        /\ UNCHANGED <<at, buffer, left, status, ends>>
    BY <1>3 DEF Ask, mux
  <2>2. \A d \in Clients : client'[d] = "gone" <=> client[d] = "gone"
    BY <1>1, <2>1 DEF TypeOK
  <2>3. Counted' = Counted
    BY <2>1, <2>2 DEF Counted
  <2>4. QED
    BY <1>1, <1>2, <2>1, <2>3 DEF ExitInv
<1>4. CASE Receive
  <2>1. PICK i \in AltEnds(ins, Asking, InOrder) :
          client' = [client EXCEPT ![ins[i]] = "waits"] /\ at' = IF last[ins[i]] THEN "exit" ELSE "pass"
    BY <1>4 DEF Receive
  <2>2. ins[i] \in Clients /\ client[ins[i]] = "asks" /\ at = "alt"
    BY <1>4, <2>1, AltEndsAtPlace, MuxAssumption DEF MuxInv, IInv, ListInv, Receive, Asking
  <2>3. \A d \in Clients : client'[d] = "gone" <=> client[d] = "gone"
    BY <1>1, <2>1, <2>2 DEF TypeOK
  <2>4. Counted' = Counted
    BY <2>1, <2>2, <2>3 DEF Counted
  <2>5. QED
    BY <1>2, <1>4, <2>1, <2>4 DEF Receive
<1>5. CASE TakeExit
  <2>1. /\ at = "exit" /\ at' = "reply" /\ buffer.exit
        /\ buffer.from \in Counted /\ UNCHANGED <<client, buffer, ends>>
        /\ left' = left - 1 /\ status' = NewStatus(status, ends[buffer.from])
    BY <1>1, <1>5 DEF TakeExit, PacketInv, Counted
  <2>2. Counted' = Counted \ {buffer.from}
    BY <2>1 DEF Counted
  <2>3. IsFiniteSet(Counted) /\ Counted \in SUBSET Clients
    BY SomeClients DEF Counted
  <2>4. left' = Cardinality(Counted')
    BY <1>1, <2>1, <2>2, <2>3, FS_RemoveElement DEF ExitInv
  <2>5. status' = Success => \A c \in Clients \ Counted' : ends[c] = Success
    BY <1>1, <2>1, <2>2 DEF NewStatus, ExitInv
  <2>6. status' # Success => \E c \in Clients : ends[c] = status'
    BY <1>1, <2>1, <2>3 DEF NewStatus, ExitInv
  <2>7. QED
    BY <2>1, <2>4, <2>5, <2>6 DEF ExitInv
<1>6. CASE PassOn \/ PassBack
  <2>1. Counted' = Counted /\ at' \in {"host", "reply"} /\ UNCHANGED <<left, status, ends>>
    BY <1>1, <1>6 DEF PassOn, PassBack, PacketInv, Counted
  <2>2. QED
    BY <1>2, <2>1
<1>7. CASE Reply
  <2>1. /\ at = "reply" /\ at' = (IF left > 0 THEN "alt" ELSE "spexit")
        /\ UNCHANGED <<left, status, ends, buffer>>
    BY <1>7 DEF Reply
  <2>2. /\ buffer.from \in Clients /\ client[buffer.from] = "waits" /\ buffer.exit \in BOOLEAN
        /\ client' = [client EXCEPT ![buffer.from] = IF buffer.exit THEN "gone" ELSE "runs"]
    BY <1>1, <1>7, <2>1, AnswersSender DEF PacketInv, TypeOK
  <2>3. \A d \in Clients :
          client'[d] = "gone" <=> client[d] = "gone" \/ (buffer.exit /\ d = buffer.from)
    BY <1>1, <2>2 DEF TypeOK
  <2>4. Counted' = Counted
    BY <2>1, <2>3 DEF Counted
  <2>5. at' = "spexit" => left = 0
    BY <1>1, <2>1 DEF TypeOK
  <2>6. QED
    BY <1>2, <2>1, <2>4, <2>5
<1>8. CASE SpExit \/ Gone \/ UNCHANGED vars
  <2>1. /\ at' = at \/ (at = "spexit" /\ at' = "gone")
        /\ UNCHANGED <<client, buffer, left, status, ends>>
    BY <1>8 DEF SpExit, Gone, vars
  <2>2. Counted' = Counted
    BY <2>1 DEF Counted
  <2>3. QED
    BY <1>1, <1>2, <2>1, <2>2 DEF ExitInv
<1>9. QED
  BY <1>3, <1>4, <1>5, <1>6, <1>7, <1>8 DEF Next

\* and all of the invariant.
LEMMA MuxStep ==
  ASSUME MuxInv, [Next]_vars
  PROVE  MuxInv'
<1>1. IInv'
  BY StepKeepsList DEF MuxInv
<1>2. QED
  BY <1>1, MuxTypes, MuxPackets, MuxCounts DEF MuxInv

\* When main has told the host, nobody is counted any more.
LEMMA MuxSafe ==
  ASSUME MuxInv
  PROVE  TypeOK /\ ExitsLast
<1>1. TypeOK /\ HostInv /\ ExitInv
  BY DEF MuxInv
<1>2. ASSUME host = "done"
      PROVE  \A c \in Clients : c \notin Counted /\ client[c] = "gone"
  <2>1. at = "gone" /\ Cardinality(Counted) = 0
    BY <1>1, <1>2 DEF HostInv, ExitInv
  <2>2. Counted = {}
    BY <2>1, SomeClients, FS_EmptySet DEF Counted
  <2>3. QED
    BY <2>1, <2>2 DEF Counted
<1>3. QED
  BY <1>1, <1>2 DEF ExitsLast, ExitInv

\* For every number of programs and every status they exit with: the host hears
\* of the exit once all have left and been answered, and of a failure if there
\* was one (main of HOSTMULT.C: ExitCount, ExitStatus).
THEOREM ExitComesLast == Spec => []ExitsLast
<1>1. Init => MuxInv
  BY MuxStart
<1>2. MuxInv /\ [Next]_vars => MuxInv'
  BY MuxStep
<1>3. MuxInv => ExitsLast
  BY MuxSafe
<1>4. QED
  BY <1>1, <1>2, <1>3, PTL DEF Spec

-----------------------------------------------------------------------------
(* Beside the multiplexer: the proofs about the small servers, of each.      *)

\* The proofs of the two servers of a configuration.
FairP == INSTANCE FairServerProofs
           WITH Hello <- 7, World <- 6, Scan <- TRUE, Runs <- 2, passed <- waits
UpP == INSTANCE FairServerProofs
         WITH Hello <- 7, World <- 6, Scan <- FALSE, Runs <- 2, passed <- waits

\* Both servers hold their invariant.
ServersInv ==
  /\ MuxInv
  /\ part = "fair" => FairP!ServerInv
  /\ part = "up" => UpP!ServerInv

\* The constants of the two servers are as FairServer expects them.
LEMMA FairSizes == FairP!FairConstants /\ UpP!FairConstants
BY ServerConstants
   DEF Fair!FairConstants, Up!FairConstants, FairP!FairConstants, UpP!FairConstants,
       Fair!Workers, Up!Workers, FairP!Workers, UpP!Workers

\* The lemmas speak of the same servers as the runs.
LEMMA SameFair ==
  /\ Fair!Init <=> FairP!Init
  /\ Fair!Next <=> FairP!Next
  /\ Fair!TypeOK <=> FairP!TypeOK
  /\ Fair!WordsInTurn <=> FairP!WordsInTurn
  /\ Fair!OvertakenOnce <=> FairP!OvertakenOnce
<1>1. Fair!Init <=> FairP!Init
  BY DEF Fair!Init, FairP!Init, Fair!Workers, FairP!Workers
<1>2. Fair!Next <=> FairP!Next
  BY Zenon DEF Fair!Next, FairP!Next, Fair!Alt, FairP!Alt, Fair!In, FairP!In, Fair!Out, FairP!Out,
         Fair!Search, FairP!Search, Fair!Loop, FairP!Loop, Fair!PrintHello, FairP!PrintHello,
         Fair!PrintWorld, FairP!PrintWorld, Fair!Told, FairP!Told, Fair!NextRun, FairP!NextRun,
         Fair!AfterServe, FairP!AfterServe, Fair!Asking, FairP!Asking, Fair!Channels, FairP!Channels,
         Fair!Rest, FairP!Rest, Fair!InArray, FairP!InArray, Fair!PastIt, FairP!PastIt,
         Fair!Letters, FairP!Letters, Fair!Workers, FairP!Workers, 
         Fair!CreateChannels, FairP!CreateChannels, Fair!AltEnds, FairP!AltEnds, Fair!Listed, FairP!Listed
<1>3. Fair!TypeOK <=> FairP!TypeOK
  BY Zenon DEF Fair!TypeOK, FairP!TypeOK, Fair!Cardinality, FairP!Cardinality,  Fair!Workers, FairP!Workers, Fair!Letters, FairP!Letters
<1>4. Fair!WordsInTurn <=> FairP!WordsInTurn
  BY DEF Fair!WordsInTurn, FairP!WordsInTurn
<1>5. Fair!OvertakenOnce <=> FairP!OvertakenOnce
  BY DEF Fair!OvertakenOnce, FairP!OvertakenOnce, Fair!Workers, FairP!Workers
<1>6. QED
  BY <1>1, <1>2, <1>3, <1>4, <1>5

\* The same of the second server.
LEMMA SameUp ==
  /\ Up!Init <=> UpP!Init
  /\ Up!Next <=> UpP!Next
  /\ Up!TypeOK <=> UpP!TypeOK
  /\ Up!WordsInTurn <=> UpP!WordsInTurn
  /\ Up!OvertakenOnce <=> UpP!OvertakenOnce
<1>1. Up!Init <=> UpP!Init
  BY DEF Up!Init, UpP!Init, Up!Workers, UpP!Workers
<1>2. Up!Next <=> UpP!Next
  BY Zenon DEF Up!Next, UpP!Next, Up!Alt, UpP!Alt, Up!In, UpP!In, Up!Out, UpP!Out,
         Up!Search, UpP!Search, Up!Loop, UpP!Loop, Up!PrintHello, UpP!PrintHello,
         Up!PrintWorld, UpP!PrintWorld, Up!Told, UpP!Told, Up!NextRun, UpP!NextRun,
         Up!AfterServe, UpP!AfterServe, Up!Asking, UpP!Asking, Up!Channels, UpP!Channels,
         Up!Rest, UpP!Rest, Up!InArray, UpP!InArray, Up!PastIt, UpP!PastIt,
         Up!Letters, UpP!Letters, Up!Workers, UpP!Workers, 
         Up!CreateChannels, UpP!CreateChannels, Up!AltEnds, UpP!AltEnds, Up!Listed, UpP!Listed
<1>3. Up!TypeOK <=> UpP!TypeOK
  BY Zenon DEF Up!TypeOK, UpP!TypeOK, Up!Cardinality, UpP!Cardinality,  Up!Workers, UpP!Workers, Up!Letters, UpP!Letters
<1>4. Up!WordsInTurn <=> UpP!WordsInTurn
  BY DEF Up!WordsInTurn, UpP!WordsInTurn
<1>5. Up!OvertakenOnce <=> UpP!OvertakenOnce
  BY DEF Up!OvertakenOnce, UpP!OvertakenOnce, Up!Workers, UpP!Workers
<1>6. QED
  BY <1>1, <1>2, <1>3, <1>4, <1>5

\* It holds at first.
LEMMA ServersStart == ASSUME MCInit PROVE ServersInv
<1>1. MuxInv
  BY MuxStart DEF MCInit
<1>2. part = "fair" => FairP!ServerInv
  BY SameFair, FairSizes, FairP!ServerStart DEF MCInit
<1>3. part = "up" => UpP!ServerInv
  BY SameUp, FairSizes, UpP!ServerStart DEF MCInit
<1>4. QED
  BY <1>1, <1>2, <1>3 DEF ServersInv

\* Every step of the configuration keeps it.
LEMMA ServersStep ==
  ASSUME ServersInv, [MCNext]_<<part, vars, fairs>>
  PROVE  ServersInv'
<1>1. part' = part /\ [Next]_vars
  BY DEF MCNext, Exited
<1>2. MuxInv'
  BY <1>1, MuxStep DEF ServersInv
<1>3. ASSUME part = "fair" PROVE FairP!ServerInv'
  <2>1. FairP!Next \/ UNCHANGED fairs
    BY <1>3, SameFair DEF MCNext, Exited
  <2>2. [FairP!Next]_FairP!vars
    BY <2>1 DEF fairs, FairP!vars
  <2>3. QED
    BY <1>3, <2>2, FairSizes, FairP!ServerStep DEF ServersInv
<1>4. ASSUME part = "up" PROVE UpP!ServerInv'
  <2>1. UpP!Next \/ UNCHANGED fairs
    BY <1>4, SameUp DEF MCNext, Exited
  <2>2. [UpP!Next]_UpP!vars
    BY <2>1 DEF fairs, UpP!vars
  <2>3. QED
    BY <1>4, <2>2, FairSizes, UpP!ServerStep DEF ServersInv
<1>5. QED
  BY <1>1, <1>2, <1>3, <1>4 DEF ServersInv

\* In every behaviour of the multiplexer, and of either small server with its
\* two workers: the exit comes last and with the status of a failure, the words
\* are in turn, and the server of FAIRSERV.C lets no worker be overtaken twice.
THEOREM ClientsAreServed == MCSpec => []ClientsServed
<1>1. ServersInv => ClientsServed
  <2> SUFFICES ASSUME ServersInv PROVE ClientsServed
    OBVIOUS
  <2>1. TypeOK /\ ExitsLast
    BY MuxSafe DEF ServersInv
  <2>2. part = "fair" => Fair!TypeOK /\ Fair!WordsInTurn /\ Fair!OvertakenOnce
    BY SameFair, FairP!ServerSafe DEF ServersInv
  <2>3. part = "up" => Up!TypeOK /\ Up!WordsInTurn
    BY SameUp, UpP!ServerSafe DEF ServersInv
  <2>4. QED
    BY <2>1, <2>2, <2>3 DEF ClientsServed
<1>2. MCInit => ServersInv
  BY ServersStart
<1>3. ServersInv /\ [MCNext]_<<part, vars, fairs>> => ServersInv'
  BY ServersStep
<1>4. QED
  BY <1>1, <1>2, <1>3, PTL DEF MCSpec

=============================================================================
