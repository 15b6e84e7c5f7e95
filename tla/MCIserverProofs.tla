--------------------------- MODULE MCIserverProofs ---------------------------
(***************************************************************************)
(* What IserverProofs says of the two iservers of MCIserver: that with the *)
(* options of one command, and that with a session.  Then the proofs about *)
(* the two tables of open files.                                           *)
(***************************************************************************)
EXTENDS MCIserver, FiniteSetTheorems, TLAPS

\* The proofs of the two parts: the program by itself, and in a session.
MainP ==
  INSTANCE IserverProofs WITH
    Commands <- {None, SB, SBE, SAP, SRA, SMK}, TcpLink <- TRUE, BreakAt <- Places,
    Sources <- 3, TtyOpens <- TRUE
SessionP ==
  INSTANCE IserverProofs WITH
    Commands <- {SM, SMK, SBE, SA}, TcpLink <- TRUE, BreakAt <- Places, Sources <- 2, TtyOpens <- TRUE

\* The lemmas speak of the same iservers as the runs.
LEMMA SameMain ==
  /\ Main!Init <=> MainP!Init
  /\ Main!Next <=> MainP!Next
  /\ Main!TypeOK <=> MainP!TypeOK
  /\ Main!InMode <=> MainP!InMode
  /\ Main!KeyWanted <=> MainP!KeyWanted
  /\ Main!JumpsLive <=> MainP!JumpsLive
  /\ Main!LinkValidTrue <=> MainP!LinkValidTrue
  /\ Main!SourcesOpen <=> MainP!SourcesOpen
  /\ Main!TerminalRestored <=> MainP!TerminalRestored
  /\ Main!ClosedAtEnd <=> MainP!ClosedAtEnd
  /\ Main!CoreFits <=> MainP!CoreFits
<1>1. Main!Init <=> MainP!Init
  BY Zenon DEF Main!Init, MainP!Init
<1>2. Main!Next <=> MainP!Next
  BY Zenon DEF Main!Next, MainP!Next, Main!Steps, MainP!Steps, Main!Others, MainP!Others,
         Main!Main, MainP!Main, Main!OpenFails, MainP!OpenFails, Main!End, MainP!End,
         Main!Leave, MainP!Leave, Main!BeginClose, MainP!BeginClose,
         Main!EndClose, MainP!EndClose, Main!Exit, MainP!Exit, Main!Sync, MainP!Sync,
         Main!Parse, MainP!Parse, Main!Reset, MainP!Reset, Main!Analyse, MainP!Analyse,
         Main!Core, MainP!Core, Main!ErrorIgnore, MainP!ErrorIgnore,
         Main!Boot, MainP!Boot, Main!ErrorMode, MainP!ErrorMode, Main!Serve, MainP!Serve,
         Main!Handle, MainP!Handle, Main!SpReadStdin, MainP!SpReadStdin,
         Main!SpExit, MainP!SpExit, Main!HostBegin, MainP!HostBegin,
         Main!SetRaw, MainP!SetRaw, Main!SaidRaw, MainP!SaidRaw,
         Main!SpPollkey, MainP!SpPollkey, Main!SendReply, MainP!SendReply,
         Main!EnterShell, MainP!EnterShell, Main!Landed, MainP!Landed,
         Main!DoOpenClosed, MainP!DoOpenClosed, Main!Opened, MainP!Opened,
         Main!ReopenFails, MainP!ReopenFails, Main!OpenOk, MainP!OpenOk,
         Main!NoMemory, MainP!NoMemory, Main!ReopenOk, MainP!ReopenOk,
         Main!GetRequest, MainP!GetRequest, Main!DoHeartBeat, MainP!DoHeartBeat,
         Main!SpGetkey, MainP!SpGetkey, Main!BreakHandler, MainP!BreakHandler,
         Main!CallServer, MainP!CallServer, Main!DoOpen, MainP!DoOpen,
         Main!Beat, MainP!Beat,
         Main!SourceOpens, MainP!SourceOpens, Main!SourceFails, MainP!SourceFails,
         Main!Unsource, MainP!Unsource, Main!FallBack, MainP!FallBack,
         Main!Stacks, MainP!Stacks, Main!Top, MainP!Top, Main!Popped, MainP!Popped,
         Main!DoSource, MainP!DoSource, Main!EndOfFile, MainP!EndOfFile,
         Main!DoQuit, MainP!DoQuit, Main!CloseServer, MainP!CloseServer,
         Main!Goto, MainP!Goto, Main!Fails, MainP!Fails, Main!Stage, MainP!Stage,
         Main!ProperEnds, MainP!ProperEnds, Main!ResetTerminal, MainP!ResetTerminal,
         Main!HostEnd, MainP!HostEnd, Main!Dump, MainP!Dump, Main!Closed, MainP!Closed,
         Main!Reclosed, MainP!Reclosed, Main!Synchronous, MainP!Synchronous,
         Main!NoBeat, MainP!NoBeat, Main!Replied, MainP!Replied, Main!Room, MainP!Room,
         Main!Unstacked, MainP!Unstacked, Main!OutOfShell, MainP!OutOfShell,
         Main!tty, MainP!tty, Main!serving, MainP!serving,
         Main!shellvars, MainP!shellvars, Main!link, MainP!link,
         Main!options, MainP!options
<1>3. /\ Main!TypeOK <=> MainP!TypeOK
      /\ Main!InMode <=> MainP!InMode
      /\ Main!KeyWanted <=> MainP!KeyWanted
      /\ Main!JumpsLive <=> MainP!JumpsLive
      /\ Main!LinkValidTrue <=> MainP!LinkValidTrue
      /\ Main!SourcesOpen <=> MainP!SourcesOpen
      /\ Main!TerminalRestored <=> MainP!TerminalRestored
      /\ Main!ClosedAtEnd <=> MainP!ClosedAtEnd
      /\ Main!CoreFits <=> MainP!CoreFits
  BY Zenon DEF Main!TypeOK, MainP!TypeOK, Main!InMode, MainP!InMode,
         Main!KeyWanted, MainP!KeyWanted, Main!JumpsLive, MainP!JumpsLive,
         Main!LinkValidTrue, MainP!LinkValidTrue, Main!SourcesOpen, MainP!SourcesOpen,
         Main!TerminalRestored, MainP!TerminalRestored,
         Main!ClosedAtEnd, MainP!ClosedAtEnd, Main!CoreFits, MainP!CoreFits,
         Main!Stages, MainP!Stages, Main!Requests, MainP!Requests,
         Main!Shells, MainP!Shells, Main!Moving, MainP!Moving
<1>4. QED
  BY <1>1, <1>2, <1>3

\* The same of the session.
LEMMA SameSession ==
  /\ Session!Init <=> SessionP!Init
  /\ Session!Next <=> SessionP!Next
  /\ Session!TypeOK <=> SessionP!TypeOK
  /\ Session!InMode <=> SessionP!InMode
  /\ Session!KeyWanted <=> SessionP!KeyWanted
  /\ Session!JumpsLive <=> SessionP!JumpsLive
  /\ Session!LinkValidTrue <=> SessionP!LinkValidTrue
  /\ Session!SourcesOpen <=> SessionP!SourcesOpen
  /\ Session!TerminalRestored <=> SessionP!TerminalRestored
  /\ Session!ClosedAtEnd <=> SessionP!ClosedAtEnd
  /\ Session!CoreFits <=> SessionP!CoreFits
<1>1. Session!Init <=> SessionP!Init
  BY Zenon DEF Session!Init, SessionP!Init
<1>2. Session!Next <=> SessionP!Next
  BY Zenon DEF Session!Next, SessionP!Next, Session!Steps, SessionP!Steps,
         Session!Others, SessionP!Others, Session!Main, SessionP!Main,
         Session!OpenFails, SessionP!OpenFails, Session!End, SessionP!End,
         Session!Leave, SessionP!Leave, Session!BeginClose, SessionP!BeginClose,
         Session!EndClose, SessionP!EndClose, Session!Exit, SessionP!Exit,
         Session!Sync, SessionP!Sync, Session!Parse, SessionP!Parse,
         Session!Reset, SessionP!Reset, Session!Analyse, SessionP!Analyse,
         Session!Core, SessionP!Core, Session!ErrorIgnore, SessionP!ErrorIgnore,
         Session!Boot, SessionP!Boot, Session!ErrorMode, SessionP!ErrorMode,
         Session!Serve, SessionP!Serve, Session!Handle, SessionP!Handle,
         Session!SpReadStdin, SessionP!SpReadStdin, Session!SpExit, SessionP!SpExit,
         Session!HostBegin, SessionP!HostBegin, Session!SetRaw, SessionP!SetRaw,
         Session!SaidRaw, SessionP!SaidRaw, Session!SpPollkey, SessionP!SpPollkey,
         Session!SendReply, SessionP!SendReply, Session!EnterShell, SessionP!EnterShell,
         Session!Landed, SessionP!Landed, Session!DoOpenClosed, SessionP!DoOpenClosed,
         Session!Opened, SessionP!Opened, Session!ReopenFails, SessionP!ReopenFails,
         Session!OpenOk, SessionP!OpenOk, Session!NoMemory, SessionP!NoMemory,
         Session!ReopenOk, SessionP!ReopenOk, Session!GetRequest, SessionP!GetRequest,
         Session!DoHeartBeat, SessionP!DoHeartBeat, Session!SpGetkey, SessionP!SpGetkey,
         Session!BreakHandler, SessionP!BreakHandler,
         Session!CallServer, SessionP!CallServer, Session!DoOpen, SessionP!DoOpen,
         Session!Beat, SessionP!Beat,
         Session!SourceOpens, SessionP!SourceOpens, Session!SourceFails, SessionP!SourceFails,
         Session!Unsource, SessionP!Unsource, Session!FallBack, SessionP!FallBack,
         Session!Stacks, SessionP!Stacks, Session!Top, SessionP!Top, Session!Popped, SessionP!Popped,
         Session!DoSource, SessionP!DoSource, Session!EndOfFile, SessionP!EndOfFile,
         Session!DoQuit, SessionP!DoQuit, Session!CloseServer, SessionP!CloseServer,
         Session!Goto, SessionP!Goto, Session!Fails, SessionP!Fails,
         Session!Stage, SessionP!Stage, Session!ProperEnds, SessionP!ProperEnds,
         Session!ResetTerminal, SessionP!ResetTerminal,
         Session!HostEnd, SessionP!HostEnd, Session!Dump, SessionP!Dump,
         Session!Closed, SessionP!Closed, Session!Reclosed, SessionP!Reclosed,
         Session!Synchronous, SessionP!Synchronous, Session!NoBeat, SessionP!NoBeat,
         Session!Replied, SessionP!Replied, Session!Room, SessionP!Room,
         Session!Unstacked, SessionP!Unstacked, Session!OutOfShell, SessionP!OutOfShell,
         Session!tty, SessionP!tty, Session!serving, SessionP!serving,
         Session!shellvars, SessionP!shellvars, Session!link, SessionP!link,
         Session!options, SessionP!options
<1>3. /\ Session!TypeOK <=> SessionP!TypeOK
      /\ Session!InMode <=> SessionP!InMode
      /\ Session!KeyWanted <=> SessionP!KeyWanted
      /\ Session!JumpsLive <=> SessionP!JumpsLive
      /\ Session!LinkValidTrue <=> SessionP!LinkValidTrue
      /\ Session!SourcesOpen <=> SessionP!SourcesOpen
      /\ Session!TerminalRestored <=> SessionP!TerminalRestored
      /\ Session!ClosedAtEnd <=> SessionP!ClosedAtEnd
      /\ Session!CoreFits <=> SessionP!CoreFits
  BY Zenon DEF Session!TypeOK, SessionP!TypeOK, Session!InMode, SessionP!InMode,
         Session!KeyWanted, SessionP!KeyWanted, Session!JumpsLive, SessionP!JumpsLive,
         Session!LinkValidTrue, SessionP!LinkValidTrue,
         Session!SourcesOpen, SessionP!SourcesOpen,
         Session!TerminalRestored, SessionP!TerminalRestored,
         Session!ClosedAtEnd, SessionP!ClosedAtEnd, Session!CoreFits, SessionP!CoreFits,
         Session!Stages, SessionP!Stages, Session!Requests, SessionP!Requests,
         Session!Shells, SessionP!Shells, Session!Moving, SessionP!Moving
<1>4. QED
  BY <1>1, <1>2, <1>3

-----------------------------------------------------------------------------
\* Both parts hold their invariant.
PartsInv ==
  /\ part = "main" => MainP!IInv
  /\ part = "session" => SessionP!IInv

\* What the constants of the two are: every break leaves those pairs of steps
\* alone, and the commands of the session dump as much as each other.
LEMMA Constants ==
  /\ MainP!IserverConstants /\ MainP!CalmBreaks
  /\ SessionP!IserverConstants /\ SessionP!CalmBreaks /\ SessionP!SameSizes
<1>1. MainP!IserverConstants /\ SessionP!IserverConstants
  BY PartConstants
     DEF Main!IserverConstants, MainP!IserverConstants, Main!Options, MainP!Options,
         Session!IserverConstants, SessionP!IserverConstants, Session!Options, SessionP!Options
<1>2. MainP!CalmBreaks /\ SessionP!CalmBreaks
  BY DEF MainP!CalmBreaks, SessionP!CalmBreaks, Places
<1>3. SM.size = 8 /\ SMK.size = 8 /\ SBE.size = 8 /\ SA.size = 8
  BY DEF SM, SMK, SBE, SB, SA, None
<1>4. SessionP!SameSizes
  BY <1>3 DEF SessionP!SameSizes
<1>5. QED
  BY <1>1, <1>2, <1>4

\* It holds at first.
LEMMA PartsStart == ASSUME Init PROVE PartsInv
<1>1. part = "main" => MainP!IInv
  BY SameMain, Constants, MainP!Start DEF Init, InitOwn
<1>2. part = "session" => SessionP!IInv
  BY SameSession, Constants, SessionP!Start DEF Init, InitOwn
<1>3. QED
  BY <1>1, <1>2 DEF PartsInv

\* Every step keeps it.
LEMMA PartsStep == ASSUME PartsInv, [Next]_vars PROVE PartsInv'
<1>1. part' = part
  BY DEF Next, vars, MainAlone, LineAlone, TableAlone
<1>2. ASSUME part = "main" PROVE MainP!IInv'
  <2>1. MainP!Next \/ UNCHANGED vars
    BY <1>2, SameMain DEF Next
  <2>2. [MainP!Next]_MainP!vars
    BY <2>1 DEF vars, mainOwn, MainP!vars
  <2>3. QED
    BY <1>2, <2>2, Constants, MainP!Step DEF PartsInv
<1>3. ASSUME part = "session" PROVE SessionP!IInv'
  <2>1. SessionP!Next \/ UNCHANGED vars
    BY <1>3, SameSession DEF Next
  <2>2. [SessionP!Next]_SessionP!vars
    BY <2>1 DEF vars, mainOwn, SessionP!vars
  <2>3. QED
    BY <1>3, <2>2, Constants, SessionP!Step DEF PartsInv
<1>4. QED
  BY <1>1, <1>2, <1>3 DEF PartsInv

\* Both iservers, however their sessions fail, break and go on: OPS_* is called
\* in the mode that allows it, and a target hears of a key when it asked for one.
THEOREM CallsAreInMode == Spec => []CallsInMode
<1>1. PartsInv => CallsInMode
  <2> SUFFICES ASSUME PartsInv PROVE CallsInMode
    OBVIOUS
  <2>1. part = "main" => Main!InMode /\ Main!KeyWanted
    BY SameMain, MainP!Safe DEF PartsInv
  <2>2. part = "session" => Session!InMode /\ Session!KeyWanted
    BY SameSession, SessionP!Safe DEF PartsInv
  <2>3. QED
    BY <2>1, <2>2 DEF CallsInMode
<1>2. QED
  BY <1>1, PartsStart, PartsStep, PTL DEF Spec, Fairness

\* Both iservers, with breaks in the places of MCIserver: a jump lands in a shell
\* that has not returned, LinkValid tells the truth at the prompt, the sources on
\* the stack are open but for one on its way, no terminal is left raw, no
\* connection is left, and a core fits in its memory.
THEOREM ShellsHold == Spec => []ShellHolds
<1>1. PartsInv => ShellHolds
  <2> SUFFICES ASSUME PartsInv PROVE ShellHolds
    OBVIOUS
  <2>1. part = "main" => /\ Main!TypeOK /\ Main!JumpsLive /\ Main!LinkValidTrue /\ Main!SourcesOpen
                         /\ Main!TerminalRestored /\ Main!ClosedAtEnd
    BY SameMain, Constants, MainP!Safe DEF PartsInv
  <2>2. part = "session" => /\ Session!JumpsLive /\ Session!LinkValidTrue
                            /\ Session!SourcesOpen /\ Session!CoreFits
    BY SameSession, Constants, SessionP!Safe DEF PartsInv
  <2>3. QED
    BY <2>1, <2>2 DEF ShellHolds
<1>2. QED
  BY <1>1, PartsStart, PartsStep, PTL DEF Spec, Fairness

-----------------------------------------------------------------------------
(* The table of the program outside the shell                              *)

\* Before the program the table is empty; while it runs, every open file is in
\* the table once, what the host remembers of its last operation is no more than
\* what the table remembers, and no buffer has been freed.  No program follows.
TableInv ==
  /\ Table!TypeOK /\ answer.ok /\ twice = FALSE
  /\ ~ running /\ runs = 0 =>
       /\ FileInfo = [i \in Table!Slots |-> Table!Blank]
       /\ streams = [s \in Table!Std |-> "none"]
  /\ running =>
       /\ runs # 0 /\ Table!AllListed
       /\ \A i \in Table!InUse :
            /\ FileInfo[i].fd \in Table!Open
            /\ streams[FileInfo[i].fd] \in {"none", FileInfo[i].lastop}
       /\ \A i \in Table!Slots : FileInfo[i].llbuff # "freed"

\* A set of numbers that is not empty has a least element.
LEMMA LeastIsIn ==
  ASSUME NEW S, S \subseteq Nat, S # {}
  PROVE  (CHOOSE x \in S : \A y \in S : x <= y) \in S
<1>1. \E x \in S : \A y \in S : ~(<<y, x>> \in OpToRel(<, Nat))
  BY WFMin, NatLessThanWellFounded
<1>2. PICK x \in S : \A y \in S : ~(<<y, x>> \in OpToRel(<, Nat))
  BY <1>1
<1>3. ASSUME NEW y \in S PROVE x <= y
  <2>1. ~(y < x)
    BY <1>2 DEF OpToRel
  <2>2. QED
    BY <2>1
<1>4. QED
  BY <1>3

\* While the host opens one more file, a slot is free.
LEMMA SlotIsFree ==
  ASSUME TableInv, running, Table!Free # {}
  PROVE  Table!FindFreeSlot # {}
<1> DEFINE Names == Table!Std \cup Table!Handles
<1>1. HostFiles \in Nat /\ MaxFiles \in Nat /\ HostFiles + 3 <= MaxFiles
  BY TableConstants DEF Table!FileTableConstants
<1>2. IsFiniteSet(Names) /\ Cardinality(Names) \in Nat /\ Cardinality(Names) <= HostFiles + 3
  <2>1. IsFiniteSet(101..103) /\ Cardinality(101..103) = 3
    <3>1. 101 \in Int /\ 103 \in Int /\ ~ 101 > 103 /\ 103 - 101 + 1 = 3
      OBVIOUS
    <3>2. IsFiniteSet(101..103) /\ Cardinality(101..103) = IF 101 > 103 THEN 0 ELSE 103 - 101 + 1
      BY <3>1, FS_Interval
    <3>3. QED
      BY <3>1, <3>2
  <2>2. IsFiniteSet(1..HostFiles) /\ Cardinality(1..HostFiles) = HostFiles
    BY <1>1, FS_Interval
  <2> DEFINE S == 101..103
             T == 1..HostFiles
  <2> HIDE DEF S, T
  <2>3. IsFiniteSet(S \cap T)
    BY <2>1, FS_Intersection DEF S
  <2>4. Cardinality(S \cap T) \in Nat
    BY <2>3, FS_CardinalityType
  <2>5. IsFiniteSet(S) /\ IsFiniteSet(T) /\ Cardinality(S) = 3 /\ Cardinality(T) = HostFiles
    BY <2>1, <2>2 DEF S, T
  <2>6. /\ IsFiniteSet(S \cup T)
        /\ Cardinality(S \cup T) = Cardinality(S) + Cardinality(T) - Cardinality(S \cap T)
    BY <2>5, FS_Union
  <2>7. Cardinality(S \cup T) \in Nat
    BY <2>6, FS_CardinalityType
  <2>8. Names = S \cup T
    BY DEF S, T, Table!Std, Table!Handles
  <2> HIDE DEF Names
  <2>9. QED
    BY <1>1, <2>4, <2>5, <2>6, <2>7, <2>8
<1>3. PICK h \in Table!Handles : h \notin DOMAIN streams
  BY DEF Table!Free, Table!Open
<1>4. h \in Names
  OBVIOUS
<1> HIDE DEF Names
<1>5. IsFiniteSet(Names \ {h}) /\ Cardinality(Names \ {h}) = Cardinality(Names) - 1
  BY <1>2, <1>4, FS_RemoveElement
<1>6. IsFiniteSet(Table!Slots) /\ Cardinality(Table!Slots) = MaxFiles
  <2>1. 0 \in Int /\ MaxFiles - 1 \in Int /\ ~ 0 > MaxFiles - 1 /\ MaxFiles - 1 - 0 + 1 = MaxFiles
    BY <1>1
  <2>2. QED
    BY <2>1, FS_Interval DEF Table!Slots
<1>7. Cardinality(Names \ {h}) < Cardinality(Table!Slots)
  BY <1>1, <1>2, <1>5, <1>6
<1>8. SUFFICES ASSUME Table!FindFreeSlot = {} PROVE FALSE
  OBVIOUS
<1>9. \A i \in Table!Slots : i \in Table!InUse
  BY <1>8 DEF Table!FindFreeSlot, Table!InUse
<1> DEFINE f == [i \in Table!Slots |-> FileInfo[i].fd]
<1>10. f \in [Table!Slots -> Names \ {h}]
  <2>1. \A i \in Table!Slots : FileInfo[i].fd \in DOMAIN streams /\ FileInfo[i].fd \in Names
    BY <1>9 DEF TableInv, Table!TypeOK, Table!Open, Names
  <2>2. QED
    BY <1>3, <2>1
<1>11. \A i \in Table!Slots : f[i] = FileInfo[i].fd
  OBVIOUS
<1> HIDE DEF f
<1>12. PICK i \in Table!Slots, j \in Table!Slots : i # j /\ f[i] = f[j]
  BY <1>5, <1>6, <1>7, <1>10, FS_PigeonHole
<1>13. QED
  BY <1>9, <1>11, <1>12 DEF TableInv, Table!AllListed

\* A call that changes nothing but its answer.
Quiet == answer'.ok /\ UNCHANGED <<FileInfo, streams, running, runs, lost, twice>>

\* A call that leaves in a slot what its last operation was, and with the host
\* that operation, none, or what the host has.
TurnedBy(id, op, dirty, r) ==
  /\ FileInfo' = [FileInfo EXCEPT ![id] = [FileInfo[id] EXCEPT !.lastop = op, !.dirty = dirty]]
  /\ streams' = [s \in Table!Open |-> IF s = FileInfo[id].fd THEN r ELSE streams[s]]
  /\ r # "none" => streams[FileInfo[id].fd] \in {"none", r}
  /\ answer'.ok /\ UNCHANGED <<running, runs, lost, twice>>
Turned ==
  \E id \in Table!InUse, op \in {"none", "read", "write"}, dirty \in BOOLEAN :
    \E r \in {"none", op} : TurnedBy(id, op, dirty, r)

\* What the calls on an open file do.
LEMMA Calls ==
  ASSUME TableInv, running, NEW id \in Table!FileIds,
         \/ Table!BadId(id) \/ Table!SpSeek(id) \/ Table!SpErrStat(id) \/ Table!SpPutEOF(id)
         \/ \E op \in {"read", "write"}, results \in SUBSET {"success", "error"} :
              Table!Transfer(id, op, results)
         \/ Table!Query(id)
         \/ \E b \in BOOLEAN : Table!SpPutRec(id, b) \/ Table!SpGetRec(id, b)
  PROVE  Quiet \/ Turned
<1>1. FileInfo \in [Table!Slots -> Table!Entry]
  BY DEF TableInv, Table!TypeOK
<1>2. ASSUME Table!Found(id) # Table!NoFile
      PROVE  /\ id \in Table!InUse /\ id \in Table!Slots /\ Table!Found(id) = FileInfo[id].fd
             /\ Table!Found(id) \in Table!Open
             /\ streams[FileInfo[id].fd] \in {"none", FileInfo[id].lastop}
             /\ FileInfo[id].dirty \in BOOLEAN /\ FileInfo[id].lastop \in {"none", "read", "write"}
  <2>1. id \in Table!Slots /\ Table!Found(id) = FileInfo[id].fd
    BY <1>2 DEF Table!Found
  <2>2. id \in Table!InUse
    BY <1>2, <2>1 DEF Table!InUse
  <2>3. FileInfo[id] \in Table!Entry
    BY <1>1, <2>1
  <2>4. QED
    BY <2>1, <2>2, <2>3 DEF TableInv, Table!Entry
<1>3. ASSUME NEW res, Table!Found(id) # Table!NoFile,
             Table!Answered(res, Table!Found(id) \in Table!Open)
      PROVE  answer'.ok
  BY <1>2, <1>3, Zenon DEF Table!Answered
<1>4. ASSUME NEW res, Table!Answered(res, TRUE)
      PROVE  answer'.ok
  BY <1>4 DEF Table!Answered
\* An operation of the file, with a record that is dirty after it or not.
<1>5. ASSUME Table!Found(id) # Table!NoFile, NEW op \in {"none", "read", "write"}, NEW dirty \in BOOLEAN
      PROVE  /\ [FileInfo EXCEPT ![id].lastop = op, ![id].dirty = dirty]
                  = [FileInfo EXCEPT ![id] = [FileInfo[id] EXCEPT !.lastop = op, !.dirty = dirty]]
             /\ [FileInfo EXCEPT ![id].lastop = op]
                  = [FileInfo EXCEPT ![id] = [FileInfo[id] EXCEPT !.lastop = op,
                                                               !.dirty = FileInfo[id].dirty]]
  <2>1. FileInfo[id] \in Table!Entry /\ id \in DOMAIN FileInfo
    BY <1>1, <1>2, <1>5
  <2>2. [FileInfo[id] EXCEPT !.lastop = op]
          = [FileInfo[id] EXCEPT !.lastop = op, !.dirty = FileInfo[id].dirty]
    BY <2>1 DEF Table!Entry
  <2>3. QED
    BY <2>1, <2>2
<1>6. ASSUME NEW op \in {"none", "read", "write"}, NEW dirty \in BOOLEAN, NEW r \in {"none", op},
             Table!Found(id) # Table!NoFile, TurnedBy(id, op, dirty, r)
      PROVE  Turned
  BY <1>2, <1>6 DEF Turned
<1>7. CASE Table!BadId(id)
  BY <1>4, <1>7 DEF Table!BadId, Quiet
<1>8. CASE Table!Query(id)
  BY <1>3, <1>8 DEF Table!Query, Quiet
<1>9. CASE Table!SpErrStat(id)
  BY <1>3, <1>9 DEF Table!SpErrStat, Table!Mannered, Quiet
<1>10. CASE Table!SpPutEOF(id)
  BY <1>3, <1>10 DEF Table!SpPutEOF, Table!Mannered, Quiet
<1>11. CASE Table!SpSeek(id)
  <2>1. Table!Found(id) # Table!NoFile
    BY <1>11 DEF Table!SpSeek
  <2>2. CASE Table!Answered("error", Table!Found(id) \in Table!Open) /\ UNCHANGED <<FileInfo, streams>>
    BY <1>3, <1>11, <2>1, <2>2 DEF Table!SpSeek, Quiet
  <2>3. CASE /\ FileInfo' = [FileInfo EXCEPT ![id].lastop = "none"]
             /\ streams' = [s \in Table!Open |-> IF s = Table!Found(id) THEN "none" ELSE streams[s]]
             /\ Table!Answered("success", Table!Found(id) \in Table!Open)
    <3>1. answer'.ok /\ UNCHANGED <<running, runs, lost, twice>>
      BY <1>3, <1>11, <2>1, <2>3 DEF Table!SpSeek
    <3>2. TurnedBy(id, "none", FileInfo[id].dirty, "none")
      BY <1>2, <1>5, <2>1, <2>3, <3>1 DEF TurnedBy
    <3>3. QED
      BY <1>2, <1>6, <2>1, <3>2
  <2>4. QED
    BY <1>11, <2>2, <2>3 DEF Table!SpSeek
<1>12. ASSUME NEW op \in {"read", "write"}, NEW results, Table!Transfer(id, op, results)
       PROVE  Quiet \/ Turned
  <2>1. Table!Found(id) # Table!NoFile
    BY <1>12 DEF Table!Transfer
  <2>2. CASE ~ Table!Turn(id, op)
    BY <1>4, <1>12, <2>1, <2>2 DEF Table!Transfer, Quiet
  <2>3. CASE Table!Turn(id, op)
    <3>1. /\ FileInfo' = [FileInfo EXCEPT ![id].lastop = op]
          /\ streams' = [s \in Table!Open |-> IF s = Table!Found(id) THEN op ELSE streams[s]]
          /\ answer'.ok /\ UNCHANGED <<running, runs, lost, twice>>
      BY <1>3, <1>12, <2>1, <2>3 DEF Table!Transfer
    <3>2. streams[FileInfo[id].fd] \in {"none", op}
      BY <1>2, <2>1, <2>3 DEF Table!Turn
    <3>3. TurnedBy(id, op, FileInfo[id].dirty, op)
      BY <1>2, <1>5, <2>1, <3>1, <3>2 DEF TurnedBy
    <3>4. QED
      BY <1>2, <1>6, <2>1, <3>3
  <2>4. QED
    BY <2>2, <2>3
<1>13. ASSUME NEW b \in BOOLEAN, Table!SpPutRec(id, b)
       PROVE  Quiet \/ Turned
  <2>1. id # MaxFiles
    BY <1>13 DEF Table!SpPutRec, Table!Mannered
  <2>2. CASE ~ Table!InTable(id) \/ Table!Found(id) = Table!NoFile \/ ~ Table!Turn(id, "write")
    BY <1>4, <1>13, <2>1, <2>2 DEF Table!SpPutRec, Quiet
  <2>3. CASE Table!InTable(id) /\ Table!Found(id) # Table!NoFile /\ Table!Turn(id, "write")
    <3>1. /\ FileInfo' = [FileInfo EXCEPT ![id].lastop = "write", ![id].dirty = ~ b]
          /\ streams' = [s \in Table!Open |->
                           IF s = Table!Found(id) /\ b THEN "write" ELSE streams[s]]
          /\ Table!Answered("success", Table!Found(id) \in Table!Open)
          /\ UNCHANGED <<running, runs, lost, twice>>
      BY <1>13, <2>1, <2>3 DEF Table!SpPutRec
    <3>2. streams[FileInfo[id].fd] \in {"none", "write"}
      BY <1>2, <2>3 DEF Table!Turn
    <3>3. PICK r \in {"none", "write"} : r = IF b THEN "write" ELSE streams[FileInfo[id].fd]
      BY <3>2
    <3>4. streams' = [s \in Table!Open |-> IF s = FileInfo[id].fd THEN r ELSE streams[s]]
      BY <1>2, <2>3, <3>1, <3>3
    <3>5. TurnedBy(id, "write", ~ b, r)
      BY <1>3, <1>5, <2>3, <3>1, <3>2, <3>4 DEF TurnedBy
    <3>6. QED
      BY <1>6, <2>3, <3>5
  <2>4. QED
    BY <2>2, <2>3
<1>14. ASSUME NEW b \in BOOLEAN, Table!SpGetRec(id, b)
       PROVE  Quiet \/ Turned
  <2>1. id # MaxFiles
    BY <1>14 DEF Table!SpGetRec, Table!Mannered
  <2>2. CASE ~ Table!InTable(id) \/ ~ Table!Turn(id, "read")
    BY <1>4, <1>14, <2>1, <2>2 DEF Table!SpGetRec, Quiet
  <2>3. CASE Table!InTable(id) /\ Table!Turn(id, "read")
    <3>1. id \in Table!Slots
      BY <2>1, <2>3, TableConstants
         DEF Table!FileIds, Table!InTable, Table!Slots, Table!FileTableConstants
    <3>2. Table!Found(id) # Table!NoFile
      BY <1>14, <3>1 DEF Table!SpGetRec, Table!Mannered
    <3>3. /\ FileInfo' = [FileInfo EXCEPT ![id].lastop = "read"]
          /\ streams' = [s \in Table!Open |->
                           IF s = Table!Found(id) /\ b THEN "read" ELSE streams[s]]
          /\ \E res : Table!Answered(res, Table!Found(id) \in Table!Open)
          /\ UNCHANGED <<running, runs, lost, twice>>
      BY <1>14, <2>1, <2>3 DEF Table!SpGetRec
    <3>4. streams[FileInfo[id].fd] \in {"none", "read"}
      BY <1>2, <2>3, <3>2 DEF Table!Turn
    <3>5. PICK r \in {"none", "read"} : r = IF b THEN "read" ELSE streams[FileInfo[id].fd]
      BY <3>4
    <3>6. streams' = [s \in Table!Open |-> IF s = FileInfo[id].fd THEN r ELSE streams[s]]
      BY <1>2, <3>2, <3>3, <3>5
    <3>7. TurnedBy(id, "read", FileInfo[id].dirty, r)
      BY <1>2, <1>3, <1>5, <3>2, <3>3, <3>4, <3>6 DEF TurnedBy
    <3>8. QED
      BY <1>2, <1>6, <3>2, <3>7
  <2>4. QED
    BY <2>2, <2>3
<1>15. QED
  BY <1>7, <1>8, <1>9, <1>10, <1>11, <1>12, <1>13, <1>14

\* A call that changes nothing keeps the table.
LEMMA QuietKeeps == ASSUME TableInv, Quiet PROVE TableInv'
<1>1. /\ FileInfo' = FileInfo /\ streams' = streams /\ running' = running /\ runs' = runs
      /\ lost' = lost /\ twice' = twice /\ answer'.ok
  BY DEF Quiet
<1>2. Table!TypeOK'
  BY <1>1 DEF TableInv, Table!TypeOK, Table!Open, Table!InUse
<1>3. Table!AllListed' <=> Table!AllListed
  BY <1>1 DEF Table!AllListed, Table!Open, Table!InUse
<1>4. Table!InUse' = Table!InUse /\ Table!Open' = Table!Open
  BY <1>1 DEF Table!Open, Table!InUse
<1>5. QED
  BY <1>1, <1>2, <1>3, <1>4 DEF TableInv

\* An operation on an open file keeps it, and is one the host allows.
LEMMA TurnedKeeps ==
  ASSUME TableInv, running, Turned
  PROVE  /\ TableInv'
         /\ \A s \in Table!Open : streams'[s] \in {"none", streams[s]} \/ streams[s] = "none"
<1>1. PICK id \in Table!InUse, op \in {"none", "read", "write"}, dirty \in BOOLEAN,
           r \in {"none", "read", "write"} :
        r \in {"none", op} /\ TurnedBy(id, op, dirty, r)
  BY DEF Turned
<1> DEFINE e == [FileInfo[id] EXCEPT !.lastop = op, !.dirty = dirty]
<1>2. id \in Table!Slots /\ FileInfo \in [Table!Slots -> Table!Entry] /\ FileInfo[id] \in Table!Entry
  BY DEF TableInv, Table!TypeOK, Table!InUse
<1>3. /\ e \in Table!Entry /\ e.fd = FileInfo[id].fd /\ e.org = FileInfo[id].org
      /\ e.llbuff = FileInfo[id].llbuff /\ e.lastop = op
  BY <1>2 DEF Table!Entry
<1>4. FileInfo' = [FileInfo EXCEPT ![id] = e]
  BY <1>1 DEF TurnedBy
<1> HIDE DEF e
<1>5. FileInfo' \in [Table!Slots -> Table!Entry]
  BY <1>2, <1>3, <1>4
<1>6. \A i \in Table!Slots :
        /\ FileInfo'[i].fd = FileInfo[i].fd /\ FileInfo'[i].org = FileInfo[i].org
        /\ FileInfo'[i].llbuff = FileInfo[i].llbuff
        /\ FileInfo'[i].lastop = IF i = id THEN op ELSE FileInfo[i].lastop
  BY <1>2, <1>3, <1>4
<1>7. Table!InUse' = Table!InUse
  BY <1>6 DEF Table!InUse
<1>8. /\ Table!Open' = Table!Open
      /\ \A s \in Table!Open : streams'[s] = IF s = FileInfo[id].fd THEN r ELSE streams[s]
  BY <1>1 DEF TurnedBy, Table!Open
<1>9. UNCHANGED <<running, runs, lost, twice>> /\ answer'.ok
  BY <1>1 DEF TurnedBy
<1>10. Table!TypeOK'
  <2>1. \A s \in Table!Open' : streams'[s] \in {"none", "read", "write"}
    BY <1>8 DEF TableInv, Table!TypeOK
  <2>2. \A i \in Table!InUse' : i > 2 => FileInfo'[i].org # "none"
    BY <1>6, <1>7 DEF TableInv, Table!TypeOK, Table!InUse
  <2>3. Table!Open' \subseteq Table!Std \cup Table!Handles
    BY <1>8 DEF TableInv, Table!TypeOK
  <2>4. {running', lost', twice'} \subseteq BOOLEAN /\ runs' \in 0 .. Programs
    BY <1>9 DEF TableInv, Table!TypeOK
  <2>5. QED
    BY <1>5, <2>1, <2>2, <2>3, <2>4 DEF Table!TypeOK
<1>11. Table!AllListed'
  BY <1>6, <1>7, <1>8, <1>9 DEF TableInv, Table!AllListed, Table!InUse
<1>12. ASSUME NEW i \in Table!InUse'
       PROVE  /\ FileInfo'[i].fd \in Table!Open'
              /\ streams'[FileInfo'[i].fd] \in {"none", FileInfo'[i].lastop}
  <2>1. i \in Table!InUse /\ i \in Table!Slots
    BY <1>7 DEF Table!InUse
  <2>2. FileInfo[i].fd \in Table!Open /\ streams[FileInfo[i].fd] \in {"none", FileInfo[i].lastop}
    BY <2>1 DEF TableInv
  <2>3. FileInfo[i].fd = FileInfo[id].fd => i = id
    BY <2>1 DEF TableInv, Table!AllListed
  <2>4. QED
    BY <1>1, <1>6, <1>8, <2>1, <2>2, <2>3
<1>13. TableInv'
  BY <1>6, <1>9, <1>10, <1>11, <1>12 DEF TableInv
<1>14. ASSUME NEW s \in Table!Open
       PROVE  streams'[s] \in {"none", streams[s]} \/ streams[s] = "none"
  BY <1>1, <1>8 DEF TurnedBy
<1>15. QED
  BY <1>13, <1>14

\* A file that is opened has a slot, a handle and buffers of its own.
LEMMA OpenKeeps ==
  ASSUME TableInv, NEW org \in {"stream", "record"}, NEW buffered \in BOOLEAN,
         Table!OpenFile(org, buffered)
  PROVE  /\ TableInv'
         /\ \A s \in Table!Open : streams'[s] = streams[s]
<1> DEFINE h == Table!Least(Table!Free)
           i == Table!Least(Table!FindFreeSlot)
           e == [FileInfo[i] EXCEPT !.fd = h, !.org = org, !.dirty = FALSE, !.lastop = "none",
                   !.llbuff = IF org = "stream" THEN @ ELSE IF buffered THEN "held" ELSE "null"]
<1>1. running /\ Table!Free # {}
  BY DEF Table!OpenFile
<1>2. Table!FindFreeSlot # {}
  BY <1>1, SlotIsFree
<1>3. h \in Table!Free
  <2>1. Table!Free \subseteq Nat
    BY DEF Table!Free, Table!Handles
  <2>2. QED
    BY <1>1, <2>1, LeastIsIn DEF Table!Least
<1>4. i \in Table!FindFreeSlot
  <2>1. Table!FindFreeSlot \subseteq Nat
    BY DEF Table!FindFreeSlot, Table!Slots
  <2>2. QED
    BY <1>2, <2>1, LeastIsIn DEF Table!Least
<1>5. /\ FileInfo' = [FileInfo EXCEPT ![i] = e]
      /\ streams' = [s \in Table!Open \cup {h} |-> IF s = h THEN "none" ELSE streams[s]]
      /\ UNCHANGED <<running, runs, lost, twice>>
      /\ Table!Answered("success", TRUE)
  BY <1>2 DEF Table!OpenFile, Table!Listed
<1>6. answer'.ok
  BY <1>5 DEF Table!Answered
<1>7. /\ FileInfo \in [Table!Slots -> Table!Entry] /\ FileInfo[i] \in Table!Entry
      /\ i \in Table!Slots /\ FileInfo[i].fd = Table!NoFile
      /\ FileInfo[i].llbuff # "freed"
  BY <1>1, <1>4 DEF TableInv, Table!TypeOK, Table!FindFreeSlot
<1> HIDE DEF h, i
<1>8. h \in Table!Handles /\ h \notin Table!Open /\ h # Table!NoFile
  BY <1>3 DEF Table!Free, Table!Handles, Table!NoFile
<1>9. /\ e \in Table!Entry /\ e.fd = h /\ e.org = org /\ e.lastop = "none" /\ e.llbuff # "freed"
  BY <1>7, <1>8 DEF Table!Entry
<1> HIDE DEF e
<1>10. FileInfo' \in [Table!Slots -> Table!Entry]
  BY <1>5, <1>7, <1>9
<1>11. \A j \in Table!Slots : FileInfo'[j] = IF j = i THEN e ELSE FileInfo[j]
  BY <1>5, <1>7
<1>12. Table!InUse' = Table!InUse \cup {i} /\ i \notin Table!InUse
  BY <1>7, <1>8, <1>9, <1>11 DEF Table!InUse
<1>13. /\ Table!Open' = Table!Open \cup {h} /\ streams'[h] = "none"
       /\ \A s \in Table!Open : streams'[s] = streams[s]
  BY <1>5, <1>8 DEF Table!Open
<1>14. Table!TypeOK'
  <2>1. \A s \in Table!Open' : streams'[s] \in {"none", "read", "write"}
    BY <1>13 DEF TableInv, Table!TypeOK
  <2>2. \A j \in Table!InUse' : j > 2 => FileInfo'[j].org # "none"
    BY <1>7, <1>9, <1>11, <1>12 DEF TableInv, Table!TypeOK, Table!InUse
  <2>3. Table!Open' \subseteq Table!Std \cup Table!Handles
    BY <1>8, <1>13 DEF TableInv, Table!TypeOK
  <2>4. {running', lost', twice'} \subseteq BOOLEAN /\ runs' \in 0 .. Programs
    BY <1>5 DEF TableInv, Table!TypeOK
  <2>5. QED
    BY <1>10, <2>1, <2>2, <2>3, <2>4 DEF Table!TypeOK
<1>15. \A j \in Table!InUse : j \in Table!Slots /\ FileInfo[j].fd \in Table!Open /\ FileInfo[j].fd # h
  BY <1>1, <1>8 DEF TableInv, Table!InUse
<1>16. Table!AllListed'
  <2>1. ASSUME NEW s \in Table!Open' PROVE \E j \in Table!Slots : FileInfo'[j].fd = s
    <3>1. CASE s = h
      BY <1>7, <1>9, <1>11, <3>1
    <3>2. CASE s # h
      <4>1. s \in Table!Open /\ s # Table!NoFile
        BY <1>13, <3>2 DEF TableInv, Table!TypeOK, Table!Std, Table!Handles, Table!NoFile
      <4>2. PICK j \in Table!Slots : FileInfo[j].fd = s
        BY <1>1, <4>1 DEF TableInv, Table!AllListed
      <4>3. j # i
        BY <1>7, <4>1, <4>2
      <4>4. QED
        BY <1>11, <4>2, <4>3
    <3>3. QED
      BY <3>1, <3>2
  <2>2. ASSUME NEW j \in Table!InUse', NEW k \in Table!InUse', FileInfo'[j].fd = FileInfo'[k].fd
        PROVE  j = k
    BY <1>1, <1>7, <1>9, <1>11, <1>12, <1>15, <2>2 DEF TableInv, Table!AllListed
  <2>3. QED
    BY <2>1, <2>2 DEF Table!AllListed
<1>17. ASSUME NEW j \in Table!InUse'
       PROVE  /\ FileInfo'[j].fd \in Table!Open'
              /\ streams'[FileInfo'[j].fd] \in {"none", FileInfo'[j].lastop}
  BY <1>1, <1>7, <1>9, <1>11, <1>12, <1>13, <1>15 DEF TableInv
<1>18. \A j \in Table!Slots : FileInfo'[j].llbuff # "freed"
  BY <1>1, <1>9, <1>11 DEF TableInv
<1>19. TableInv'
  BY <1>1, <1>5, <1>6, <1>14, <1>16, <1>17, <1>18 DEF TableInv
<1>20. QED
  BY <1>13, <1>19

\* A file that is closed leaves both the table and the host.
LEMMA CloseKeeps ==
  ASSUME TableInv, NEW id \in Table!FileIds, Table!SpClose(id)
  PROVE  /\ TableInv'
         /\ \A s \in Table!Open \cap Table!Open' : streams'[s] = streams[s]
<1>1. running /\ Table!Found(id) # Table!NoFile
  BY DEF Table!SpClose
<1>2. FileInfo \in [Table!Slots -> Table!Entry]
  BY DEF TableInv, Table!TypeOK
<1>3. /\ id \in Table!Slots /\ Table!Found(id) = FileInfo[id].fd /\ FileInfo[id] \in Table!Entry
      /\ id \in Table!InUse /\ Table!Found(id) \in Table!Open
  BY <1>1, <1>2 DEF Table!Found, Table!InUse, TableInv
<1> DEFINE e == [FileInfo[id] EXCEPT !.fd = Table!NoFile]
<1>4. /\ FileInfo' = [FileInfo EXCEPT ![id] = e]
      /\ streams' = [s \in Table!Open \ {FileInfo[id].fd} |-> streams[s]]
      /\ UNCHANGED <<running, runs, lost, twice>>
  BY <1>3 DEF Table!SpClose, Table!Forgotten, Table!Cleared
<1>5. answer'.ok
  <2>1. PICK res \in {"success", "error"} : Table!Answered(res, Table!Found(id) \in Table!Open)
    BY DEF Table!SpClose
  <2>2. QED
    BY <1>3, <2>1, Zenon DEF Table!Answered
<1>6. e \in Table!Entry /\ e.fd = Table!NoFile /\ e.llbuff = FileInfo[id].llbuff
  BY <1>3 DEF Table!Entry
<1> HIDE DEF e
<1>7. FileInfo' \in [Table!Slots -> Table!Entry]
  BY <1>2, <1>3, <1>4, <1>6
<1>8. \A j \in Table!Slots : FileInfo'[j] = IF j = id THEN e ELSE FileInfo[j]
  BY <1>2, <1>3, <1>4
<1>9. Table!InUse' = Table!InUse \ {id}
  BY <1>6, <1>8 DEF Table!InUse
<1>10. /\ Table!Open' = Table!Open \ {FileInfo[id].fd}
       /\ \A s \in Table!Open' : streams'[s] = streams[s]
  BY <1>4 DEF Table!Open
<1>11. Table!TypeOK'
  <2>1. \A s \in Table!Open' : streams'[s] \in {"none", "read", "write"}
    BY <1>10 DEF TableInv, Table!TypeOK
  <2>2. \A j \in Table!InUse' : j > 2 => FileInfo'[j].org # "none"
    BY <1>8, <1>9 DEF TableInv, Table!TypeOK, Table!InUse
  <2>3. Table!Open' \subseteq Table!Std \cup Table!Handles
    BY <1>10 DEF TableInv, Table!TypeOK
  <2>4. {running', lost', twice'} \subseteq BOOLEAN /\ runs' \in 0 .. Programs
    BY <1>4 DEF TableInv, Table!TypeOK
  <2>5. QED
    BY <1>7, <2>1, <2>2, <2>3, <2>4 DEF Table!TypeOK
<1>12. \A j \in Table!InUse' :
         /\ j \in Table!InUse /\ j \in Table!Slots /\ j # id
         /\ FileInfo'[j] = FileInfo[j] /\ FileInfo[j].fd \in Table!Open
         /\ FileInfo[j].fd # FileInfo[id].fd
  BY <1>1, <1>3, <1>8, <1>9 DEF TableInv, Table!AllListed, Table!InUse
<1>13. Table!AllListed'
  <2>1. ASSUME NEW s \in Table!Open' PROVE \E j \in Table!Slots : FileInfo'[j].fd = s
    <3>1. s \in Table!Open /\ s # FileInfo[id].fd
      BY <1>10
    <3>2. PICK j \in Table!Slots : FileInfo[j].fd = s
      BY <1>1, <3>1 DEF TableInv, Table!AllListed
    <3>3. QED
      BY <1>8, <3>1, <3>2
  <2>2. \A j, k \in Table!InUse' : FileInfo'[j].fd = FileInfo'[k].fd => j = k
    BY <1>1, <1>12 DEF TableInv, Table!AllListed
  <2>3. QED
    BY <2>1, <2>2 DEF Table!AllListed
<1>14. \A j \in Table!InUse' :
         /\ FileInfo'[j].fd \in Table!Open'
         /\ streams'[FileInfo'[j].fd] \in {"none", FileInfo'[j].lastop}
  BY <1>1, <1>10, <1>12 DEF TableInv
<1>15. \A j \in Table!Slots : FileInfo'[j].llbuff # "freed"
  BY <1>1, <1>3, <1>6, <1>8 DEF TableInv
<1>16. TableInv'
  BY <1>1, <1>4, <1>5, <1>11, <1>13, <1>14, <1>15 DEF TableInv
<1>17. QED
  BY <1>10, <1>16

\* The program starts with the three predefined streams, for the table and the
\* host alike.
LEMMA StartKeeps ==
  ASSUME TableInv, Table!Start
  PROVE  /\ TableInv'
         /\ \A s \in Table!Open : streams'[s] = streams[s]
<1>1. /\ ~ running /\ runs = 0 /\ runs < Programs
      /\ FileInfo' = Table!Setup /\ running' = TRUE /\ runs' = runs + 1
      /\ streams' = [s \in Table!Open \cup Table!Std |-> IF s \in Table!Std THEN "none" ELSE streams[s]]
      /\ answer' = Table!None /\ twice' = twice
      /\ lost' = (lost \/ \E i \in Table!InUse : FileInfo[i].dirty)
  BY DEF Table!Start
<1>2. /\ FileInfo = [i \in Table!Slots |-> Table!Blank]
      /\ streams = [s \in Table!Std |-> "none"]
  BY <1>1 DEF TableInv
<1>3. Table!Blank \in Table!Entry
  BY DEF Table!Blank, Table!Entry, Table!NoFile
<1>4. \A i \in Table!Slots :
        /\ FileInfo'[i] \in Table!Entry
        /\ FileInfo'[i].fd = IF i < 3 THEN 101 + i ELSE Table!NoFile
        /\ FileInfo'[i].lastop = "none" /\ FileInfo'[i].llbuff = "null"
  <2>1. ASSUME NEW i \in Table!Slots
        PROVE  FileInfo'[i] = IF i < 3 THEN [Table!Blank EXCEPT !.fd = 101 + i, !.dirty = FALSE]
                              ELSE [Table!Blank EXCEPT !.fd = Table!NoFile]
    BY <1>1, <1>2 DEF Table!Setup, Table!SetupStream
  <2>2. ASSUME NEW i \in Table!Slots
        PROVE  i < 3 => 101 + i \in Table!Std
    BY DEF Table!Slots, Table!Std
  <2>3. /\ Table!Blank.fd = Table!NoFile /\ Table!Blank.lastop = "none"
        /\ Table!Blank.llbuff = "null"
    BY DEF Table!Blank
  <2>4. ASSUME NEW i \in Table!Slots
        PROVE  /\ FileInfo'[i] \in Table!Entry
               /\ FileInfo'[i].fd = IF i < 3 THEN 101 + i ELSE Table!NoFile
               /\ FileInfo'[i].lastop = "none" /\ FileInfo'[i].llbuff = "null"
    <3>1. CASE i < 3
      <4>1. FileInfo'[i] = [Table!Blank EXCEPT !.fd = 101 + i, !.dirty = FALSE]
            /\ 101 + i \in Table!Std
        BY <2>1, <2>2, <3>1
      <4>2. PICK fd \in Table!Std : fd = 101 + i
        BY <4>1
      <4>3. FileInfo'[i] = [Table!Blank EXCEPT !.fd = fd, !.dirty = FALSE]
        BY <4>1, <4>2
      <4>4. FileInfo'[i] \in Table!Entry /\ FileInfo'[i].fd = fd
            /\ FileInfo'[i].lastop = "none" /\ FileInfo'[i].llbuff = "null"
        BY <1>3, <2>3, <4>3 DEF Table!Entry
      <4>5. QED
        BY <3>1, <4>2, <4>4
    <3>2. CASE ~ i < 3
      <4>1. FileInfo'[i] = [Table!Blank EXCEPT !.fd = Table!NoFile]
        BY <2>1, <3>2
      <4>2. QED
        BY <1>3, <2>3, <3>2, <4>1 DEF Table!Entry
    <3>3. QED
      BY <3>1, <3>2
  <2>5. QED
    BY <2>4
<1>5. FileInfo' \in [Table!Slots -> Table!Entry]
  BY <1>1, <1>4 DEF Table!Setup
<1>6. Table!InUse' = {0, 1, 2}
  <2>1. {0, 1, 2} \subseteq Table!Slots /\ Table!Slots \subseteq Nat
    BY TableConstants DEF Table!FileTableConstants, Table!Slots
  <2>2. ASSUME NEW i \in Table!Slots PROVE FileInfo'[i].fd # Table!NoFile <=> i \in {0, 1, 2}
    <3>1. i \in Nat
      BY <2>1
    <3>2. i < 3 <=> i \in {0, 1, 2}
      BY <3>1
    <3>3. 101 + i # 0
      BY <3>1
    <3>4. QED
      BY <1>4, <3>2, <3>3 DEF Table!NoFile
  <2>3. QED
    BY <2>1, <2>2 DEF Table!InUse
<1>7. Table!Open = Table!Std /\ Table!Open' = Table!Std
      /\ \A s \in Table!Std : streams'[s] = "none" /\ streams[s] = "none"
  BY <1>1, <1>2 DEF Table!Open
<1>8. Table!TypeOK'
  <2>1. lost' \in BOOLEAN
    <3>1. lost \in BOOLEAN
      BY DEF TableInv, Table!TypeOK
    <3>2. QED
      BY <1>1, <3>1, Zenon
  <2>2. running' \in BOOLEAN /\ twice' \in BOOLEAN /\ runs' \in 0 .. Programs
    <3>1. Programs \in Nat
      BY TableConstants DEF Table!FileTableConstants
    <3>2. QED
      BY <1>1, <3>1 DEF TableInv, Table!TypeOK
  <2>3. \A i \in Table!InUse' : ~ i > 2
    BY <1>6
  <2>4. QED
    BY <1>5, <1>7, <2>1, <2>2, <2>3 DEF Table!TypeOK
<1>9. Table!AllListed'
  <2>1. {0, 1, 2} \subseteq Table!Slots
    BY TableConstants DEF Table!FileTableConstants, Table!Slots
  <2>2. FileInfo'[0].fd = 101 /\ FileInfo'[1].fd = 102 /\ FileInfo'[2].fd = 103
    BY <1>4, <2>1
  <2>3. \A s \in Table!Std : s = 101 \/ s = 102 \/ s = 103
    BY DEF Table!Std
  <2>4. \A s \in Table!Open' : \E i \in Table!Slots : FileInfo'[i].fd = s
    BY <1>7, <2>1, <2>2, <2>3
  <2>5. \A i, j \in Table!InUse' : FileInfo'[i].fd = FileInfo'[j].fd => i = j
    BY <1>6, <2>2
  <2>6. QED
    BY <2>4, <2>5 DEF Table!AllListed
<1>10. ASSUME NEW i \in Table!InUse'
       PROVE  FileInfo'[i].fd \in Table!Open' /\ streams'[FileInfo'[i].fd] = "none"
  <2>1. i \in Table!Slots /\ i < 3 /\ i \in Nat
    BY <1>6, TableConstants DEF Table!FileTableConstants, Table!Slots
  <2>2. 101 + i \in Table!Std
    BY <2>1 DEF Table!Std
  <2>3. QED
    BY <1>4, <1>7, <2>1, <2>2
<1>11. answer'.ok /\ twice' = FALSE /\ runs' # 0
  BY <1>1 DEF Table!None, TableInv
<1>12. TableInv'
  BY <1>1, <1>4, <1>8, <1>9, <1>10, <1>11 DEF TableInv
<1>13. QED
  BY <1>7, <1>12

\* The program ends, well or not: no buffer is freed twice, for none was freed.
LEMMA EndKeeps ==
  ASSUME TableInv, Table!Exit \/ Table!Fail
  PROVE  /\ TableInv'
         /\ \A s \in Table!Open \cap Table!Open' : streams'[s] = streams[s]
<1>1. running /\ running' = FALSE /\ runs' = runs /\ runs # 0
  BY DEF Table!Exit, Table!Fail, TableInv
<1>2. runs' \in 0 .. Programs
  BY <1>1 DEF TableInv, Table!TypeOK
<1>3. CASE Table!Exit
  <2>1. lost' \in BOOLEAN
    <3>1. lost' = (lost \/ (~ FALSE /\ \E i \in Table!InUse : FileInfo[i].dirty))
      BY <1>3 DEF Table!Exit
    <3>2. lost \in BOOLEAN
      BY DEF TableInv, Table!TypeOK
    <3>3. QED
      BY <3>1, <3>2, Zenon
  <2>2. UNCHANGED <<FileInfo, streams, runs, twice, answer>>
    BY <1>3 DEF Table!Exit
  <2>3. Table!TypeOK'
    BY <1>1, <1>2, <2>1, <2>2 DEF TableInv, Table!TypeOK, Table!Open, Table!InUse
  <2>4. QED
    BY <1>1, <2>2, <2>3 DEF TableInv, Table!Open
<1>4. CASE Table!Fail
  <2>1. ~ Table!FreesTwice
    BY <1>1 DEF Table!FreesTwice, TableInv, Table!InUse
  <2>2. /\ twice' = FALSE /\ UNCHANGED <<runs, lost, answer>>
        /\ FileInfo' = [i \in Table!Slots |->
             IF i \notin Table!InUse THEN FileInfo[i]
             ELSE [Table!Cleared(FileInfo[i]) EXCEPT !.llbuff = IF @ = "held" THEN "freed" ELSE @]]
        /\ streams' = [s \in Table!Open \ {FileInfo[i].fd : i \in Table!InUse} |-> streams[s]]
    BY <1>4, <2>1 DEF Table!Fail, Table!CloseOpenFiles, TableInv
  <2>3. \A i \in Table!Slots : FileInfo'[i] \in Table!Entry /\ FileInfo'[i].fd = Table!NoFile
    <3>1. ASSUME NEW i \in Table!Slots
          PROVE  FileInfo'[i] \in Table!Entry /\ FileInfo'[i].fd = Table!NoFile
      <4>1. FileInfo[i] \in Table!Entry
        BY DEF TableInv, Table!TypeOK
      <4>2. CASE i \notin Table!InUse
        BY <2>2, <4>1, <4>2 DEF Table!InUse
      <4>3. CASE i \in Table!InUse
        <5>1. FileInfo'[i] = [[FileInfo[i] EXCEPT !.fd = Table!NoFile]
                                 EXCEPT !.llbuff = IF @ = "held" THEN "freed" ELSE @]
          BY <2>2, <4>3 DEF Table!Cleared
        <5>2. QED
          BY <4>1, <5>1 DEF Table!Entry
      <4>4. QED
        BY <4>2, <4>3
    <3>2. QED
      BY <3>1
  <2>4. FileInfo' \in [Table!Slots -> Table!Entry] /\ Table!InUse' = {}
    BY <2>2, <2>3 DEF Table!InUse
  <2>5. Table!Open' \subseteq Table!Open /\ \A s \in Table!Open' : streams'[s] = streams[s]
    BY <2>2 DEF Table!Open
  <2>6. Table!TypeOK'
    BY <1>1, <1>2, <2>2, <2>4, <2>5 DEF TableInv, Table!TypeOK
  <2>7. QED
    BY <1>1, <2>2, <2>5, <2>6 DEF TableInv
<1>5. QED
  BY <1>3, <1>4

\* What the host is asked for in one call of a file.
HostTurn ==
  \A s \in Table!Open \cap DOMAIN streams' :
    /\ streams[s] = "write" => streams'[s] # "read"
    /\ streams[s] = "read" => streams'[s] # "write"

\* Every call keeps the table, and turns are the host's.
LEMMA TableStep == ASSUME TableInv, Table!Next PROVE TableInv' /\ HostTurn
<1>1. ASSUME Quiet PROVE TableInv' /\ HostTurn
  BY <1>1, QuietKeeps DEF Quiet, HostTurn
<1>2. ASSUME running, Turned PROVE TableInv' /\ HostTurn
  BY <1>2, TurnedKeeps DEF HostTurn
<1>3. ASSUME NEW id \in Table!FileIds, running,
             \/ Table!BadId(id) \/ Table!SpSeek(id) \/ Table!SpErrStat(id) \/ Table!SpPutEOF(id)
             \/ \E op \in {"read", "write"}, results \in SUBSET {"success", "error"} :
                  Table!Transfer(id, op, results)
             \/ Table!Query(id)
             \/ \E b \in BOOLEAN : Table!SpPutRec(id, b) \/ Table!SpGetRec(id, b)
      PROVE  TableInv' /\ HostTurn
  BY <1>1, <1>2, <1>3, Calls
<1>4. CASE Table!Start
  BY <1>4, StartKeeps DEF HostTurn
<1>5. CASE Table!StartFails
  BY <1>5 DEF Table!StartFails
<1>6. CASE Table!Exit \/ Table!Fail
  BY <1>6, EndKeeps DEF HostTurn, Table!Open
<1>7. CASE Table!SpOpen \/ Table!SpOpenRec
  BY <1>7, OpenKeeps DEF Table!SpOpen, Table!SpOpenRec, HostTurn
<1>8. CASE Table!OpenFails \/ Table!SpRemove \/ Table!SpRename \/ Table!SpExists
  <2>1. /\ UNCHANGED <<FileInfo, streams, running, runs, lost, twice>>
        /\ \E res \in {"success", "error"} : Table!Answered(res, TRUE)
    BY <1>8 DEF Table!OpenFails, Table!SpRemove, Table!SpRename, Table!SpExists, Table!ByName
  <2>2. Quiet
    BY <2>1 DEF Quiet, Table!Answered
  <2>3. QED
    BY <1>1, <2>2
<1>9. ASSUME NEW id \in Table!FileIds, Table!SpClose(id)
      PROVE  TableInv' /\ HostTurn
  BY <1>9, CloseKeeps DEF HostTurn, Table!Open
<1>10. ASSUME NEW id \in Table!FileIds,
              \/ Table!BadId(id) \/ Table!SpSeek(id) \/ Table!SpErrStat(id) \/ Table!SpPutEOF(id)
              \/ \E b \in BOOLEAN : Table!SpPutRec(id, b) \/ Table!SpGetRec(id, b)
       PROVE  TableInv' /\ HostTurn
  <2>1. running
    BY <1>10 DEF Table!BadId, Table!SpSeek, Table!SpErrStat, Table!SpPutEOF, Table!SpPutRec,
                 Table!SpGetRec
  <2>2. QED
    BY <1>3, <1>10, <2>1
<1>11. ASSUME NEW id \in Table!FileIds,
              \/ Table!SpRead(id) \/ Table!SpWrite(id) \/ Table!SpGetBlock(id)
              \/ Table!SpPutBlock(id) \/ Table!SpGets(id) \/ Table!SpPuts(id)
       PROVE  TableInv' /\ HostTurn
  <2>1. PICK op \in {"read", "write"}, results \in SUBSET {"success", "error"} :
          Table!Transfer(id, op, results)
    BY <1>11 DEF Table!SpRead, Table!SpWrite, Table!SpGetBlock, Table!SpPutBlock, Table!SpGets,
                 Table!SpPuts
  <2>2. running
    BY <2>1 DEF Table!Transfer
  <2>3. QED
    BY <1>3, <2>1, <2>2
<1>12. ASSUME NEW id \in Table!FileIds,
              \/ Table!SpFlush(id) \/ Table!SpTell(id) \/ Table!SpEof(id) \/ Table!SpError(id)
              \/ Table!SpIsaTTY(id)
       PROVE  TableInv' /\ HostTurn
  <2>1. Table!Query(id)
    BY <1>12 DEF Table!SpFlush, Table!SpTell, Table!SpEof, Table!SpError, Table!SpIsaTTY
  <2>2. running
    BY <2>1 DEF Table!Query
  <2>3. QED
    BY <1>3, <2>1, <2>2
<1>13. QED
  BY <1>4, <1>5, <1>6, <1>7, <1>8, <1>9, <1>10, <1>11, <1>12 DEF Table!Next

-----------------------------------------------------------------------------
(* The table of the programs in the shell                                  *)

\* The predefined slots hold no record, and are not free while a program runs;
\* no other is in use between two programs.  So no record is dirty where a table
\* is cleared.
TablesInv ==
  /\ FileInfo \in [Tables!Slots -> Tables!Entry] /\ lost = FALSE
  /\ \A i \in Tables!Slots : i < 3 =>
       /\ FileInfo[i].org = "none" /\ FileInfo[i].dirty = FALSE
       /\ running => FileInfo[i].fd # Tables!NoFile
  /\ ~ running => \A i \in Tables!Slots : ~ i < 3 => FileInfo[i].fd = Tables!NoFile

\* A slot that changes keeps them, when it is no predefined one or stays what it
\* was.
LEMMA SlotChanged ==
  ASSUME TablesInv, running, UNCHANGED <<running, lost>>, NEW i \in Tables!Slots,
         NEW e \in Tables!Entry, FileInfo' = [FileInfo EXCEPT ![i] = e],
         i < 3 => e.org = "none" /\ e.dirty = FALSE /\ e.fd = FileInfo[i].fd
  PROVE  TablesInv'
<1>1. FileInfo \in [Tables!Slots -> Tables!Entry]
  BY DEF TablesInv
<1>2. /\ FileInfo' \in [Tables!Slots -> Tables!Entry]
      /\ \A j \in Tables!Slots : FileInfo'[j] = IF j = i THEN e ELSE FileInfo[j]
  BY <1>1
<1>3. QED
  BY <1>2 DEF TablesInv

\* Closing all the files leaves no slot in use.
LEMMA ClosingAll ==
  ASSUME TablesInv, Tables!CloseOpenFiles, ~ running', lost' = lost
  PROVE  TablesInv'
<1>1. FileInfo' = [i \in Tables!Slots |->
        IF i \notin Tables!InUse THEN FileInfo[i]
        ELSE [Tables!Cleared(FileInfo[i]) EXCEPT !.llbuff = IF @ = "held" THEN "freed" ELSE @]]
  BY DEF Tables!CloseOpenFiles
<1>2. ASSUME NEW i \in Tables!Slots
      PROVE  /\ FileInfo'[i] \in Tables!Entry /\ FileInfo'[i].fd = Tables!NoFile
             /\ FileInfo'[i].org = FileInfo[i].org /\ FileInfo'[i].dirty = FileInfo[i].dirty
  <2>1. FileInfo[i] \in Tables!Entry
    BY DEF TablesInv
  <2>2. CASE i \notin Tables!InUse
    BY <1>1, <2>1, <2>2 DEF Tables!InUse
  <2>3. CASE i \in Tables!InUse
    <3>1. FileInfo'[i] = [[FileInfo[i] EXCEPT !.fd = Tables!NoFile]
                             EXCEPT !.llbuff = IF @ = "held" THEN "freed" ELSE @]
      BY <1>1, <2>3 DEF Tables!Cleared
    <3>2. QED
      BY <2>1, <3>1 DEF Tables!Entry
  <2>4. QED
    BY <2>2, <2>3
<1>3. QED
  BY <1>1, <1>2 DEF TablesInv

\* A program starts: what is cleared holds no dirty record.
LEMMA TablesStart == ASSUME TablesInv, Tables!Start PROVE TablesInv'
<1>1. ~ running /\ FileInfo' = Tables!Setup /\ running' = TRUE
      /\ lost' = (lost \/ \E i \in Tables!InUse : FileInfo[i].dirty)
  BY DEF Tables!Start
<1>2. \A i \in Tables!InUse : FileInfo[i].dirty = FALSE
  BY <1>1 DEF TablesInv, Tables!InUse
<1>3. lost' = FALSE
  BY <1>1, <1>2, Zenon DEF TablesInv
<1>4. ASSUME NEW i \in Tables!Slots
      PROVE  /\ FileInfo'[i] \in Tables!Entry
             /\ i < 3 => /\ FileInfo'[i].org = "none" /\ FileInfo'[i].dirty = FALSE
                         /\ FileInfo'[i].fd # Tables!NoFile
  <2>1. FileInfo[i] \in Tables!Entry
    BY DEF TablesInv
  <2>2. CASE i < 3
    <3>1. 101 + i \in Tables!Std /\ 101 + i # Tables!NoFile
      BY <2>2, TableConstants DEF Tables!FileTableConstants, Tables!Slots, Tables!Std, Tables!NoFile
    <3>2. PICK fd \in Tables!Std : fd = 101 + i
      BY <3>1
    <3>3. FileInfo'[i] = [FileInfo[i] EXCEPT !.fd = fd, !.dirty = FALSE]
      BY <1>1, <2>2, <3>2 DEF Tables!Setup, Tables!SetupStream
    <3>4. FileInfo[i].org = "none"
      BY <2>2 DEF TablesInv
    <3>5. QED
      BY <2>1, <3>1, <3>2, <3>3, <3>4 DEF Tables!Entry
  <2>3. CASE ~ i < 3
    <3>1. FileInfo'[i] = [FileInfo[i] EXCEPT !.fd = Tables!NoFile]
      BY <1>1, <2>3 DEF Tables!Setup
    <3>2. QED
      BY <2>1, <2>3, <3>1 DEF Tables!Entry
  <2>4. QED
    BY <2>2, <2>3
<1>5. FileInfo' \in [Tables!Slots -> Tables!Entry]
  BY <1>1, <1>4 DEF Tables!Setup
<1>6. QED
  BY <1>1, <1>3, <1>4, <1>5 DEF TablesInv

\* A program that leaves well has closed its files.
LEMMA TablesExit == ASSUME TablesInv, Tables!Exit PROVE TablesInv'
<1>1. FileInfo' = FileInfo /\ running' = FALSE /\ running
  BY DEF Tables!Exit
<1>2. lost' = (lost \/ (~ TRUE /\ \E i \in Tables!InUse : FileInfo[i].dirty))
  BY DEF Tables!Exit
<1>3. lost' = FALSE
  BY <1>2, Zenon DEF TablesInv
<1>4. \A i \in 3 .. ShellSlots - 1 : FileInfo[i].fd = Tables!NoFile
  BY DEF Tables!Exit, Tables!Mannered
<1>5. \A i \in Tables!Slots : ~ i < 3 => i \in 3 .. ShellSlots - 1
  BY TableConstants DEF Tables!FileTableConstants, Tables!Slots
<1>6. QED
  BY <1>1, <1>3, <1>4, <1>5 DEF TablesInv

\* A file is opened in no predefined slot, nor is one of those closed.
LEMMA TablesOpen ==
  ASSUME TablesInv, NEW org \in {"stream", "record"}, NEW buffered \in BOOLEAN,
         Tables!OpenFile(org, buffered)
  PROVE  TablesInv'
<1> DEFINE h == Tables!Least(Tables!Free)
           i == Tables!Least(Tables!FindFreeSlot)
           e == [FileInfo[i] EXCEPT !.fd = h, !.org = org, !.dirty = FALSE, !.lastop = "none",
                   !.llbuff = IF org = "stream" THEN @ ELSE IF buffered THEN "held" ELSE "null"]
<1>1. running /\ Tables!Free # {} /\ UNCHANGED <<running, lost>>
  BY DEF Tables!OpenFile
<1>2. CASE Tables!FindFreeSlot = {}
  <2>1. FileInfo' = FileInfo
    BY <1>2 DEF Tables!OpenFile
  <2>2. QED
    BY <1>1, <2>1 DEF TablesInv
<1>3. CASE Tables!FindFreeSlot # {}
  <2>1. h \in Tables!Free
    <3>1. Tables!Free \subseteq Nat
      BY DEF Tables!Free, Tables!Handles
    <3>2. QED
      BY <1>1, <3>1, LeastIsIn DEF Tables!Least
  <2>2. i \in Tables!FindFreeSlot
    <3>1. Tables!FindFreeSlot \subseteq Nat
      BY DEF Tables!FindFreeSlot, Tables!Slots
    <3>2. QED
      BY <1>3, <3>1, LeastIsIn DEF Tables!Least
  <2>3. FileInfo' = [FileInfo EXCEPT ![i] = e]
    BY <1>3 DEF Tables!OpenFile, Tables!Listed
  <2> HIDE DEF h, i
  <2>4. i \in Tables!Slots /\ FileInfo[i].fd = Tables!NoFile /\ FileInfo[i] \in Tables!Entry
    BY <2>2 DEF Tables!FindFreeSlot, TablesInv
  <2>5. h \in Tables!Handles
    BY <2>1 DEF Tables!Free
  <2>6. e \in Tables!Entry
    BY <2>4, <2>5 DEF Tables!Entry
  <2>7. ~ i < 3
    BY <1>1, <2>4 DEF TablesInv
  <2> HIDE DEF e
  <2>8. QED
    BY <1>1, <2>3, <2>4, <2>6, <2>7, SlotChanged
<1>4. QED
  BY <1>2, <1>3

\* A call that leaves the slots as they are, and a program running.
LEMMA TablesQuiet ==
  ASSUME TablesInv, FileInfo' = FileInfo, UNCHANGED <<running, lost>>
  PROVE  TablesInv'
BY DEF TablesInv

\* A call on an open file: a record is put in no predefined slot.
LEMMA TablesCalls ==
  ASSUME TablesInv, NEW id \in Tables!FileIds,
         \/ Tables!SpClose(id) \/ Tables!SpSeek(id)
         \/ \E op \in {"read", "write"}, results \in SUBSET {"success", "error"} :
              Tables!Transfer(id, op, results)
         \/ \E b \in BOOLEAN : Tables!SpPutRec(id, b) \/ Tables!SpGetRec(id, b)
  PROVE  TablesInv'
<1>1. running /\ UNCHANGED <<running, lost>>
  BY DEF Tables!SpClose, Tables!SpSeek, Tables!Transfer, Tables!SpPutRec, Tables!SpGetRec
<1>2. CASE FileInfo' = FileInfo
  BY <1>1, <1>2, TablesQuiet
<1>3. ASSUME FileInfo' # FileInfo
      PROVE  id \in Tables!Slots
  <2>1. Tables!Found(id) # Tables!NoFile \/ (Tables!InTable(id) /\ id # ShellSlots)
    BY <1>3 DEF Tables!SpClose, Tables!SpSeek, Tables!Transfer, Tables!SpPutRec, Tables!SpGetRec
  <2>2. Tables!InTable(id) /\ id # ShellSlots => id \in Tables!Slots
    BY TableConstants DEF Tables!FileTableConstants, Tables!FileIds, Tables!InTable, Tables!Slots
  <2>3. QED
    BY <2>1, <2>2 DEF Tables!Found
<1>4. ASSUME FileInfo' # FileInfo
      PROVE  /\ FileInfo[id] \in Tables!Entry
             /\ FileInfo[id].dirty \in BOOLEAN
             /\ id < 3 => FileInfo[id].org = "none" /\ FileInfo[id].dirty = FALSE
  BY <1>3, <1>4 DEF TablesInv, Tables!Entry
<1>5. ASSUME NEW op \in {"none", "read", "write"}, FileInfo' # FileInfo,
             FileInfo' = [FileInfo EXCEPT ![id].lastop = op]
      PROVE  TablesInv'
  <2> DEFINE e == [FileInfo[id] EXCEPT !.lastop = op]
  <2>1. /\ e \in Tables!Entry /\ e.org = FileInfo[id].org /\ e.dirty = FileInfo[id].dirty
        /\ e.fd = FileInfo[id].fd
    BY <1>4, <1>5 DEF Tables!Entry
  <2>2. FileInfo' = [FileInfo EXCEPT ![id] = e]
    BY <1>5
  <2> HIDE DEF e
  <2>3. id \in Tables!Slots /\ running /\ lost' = lost /\ running' = running
    BY <1>1, <1>3, <1>5
  <2>4. e \in Tables!Entry /\ (id < 3 => e.org = "none" /\ e.dirty = FALSE /\ e.fd = FileInfo[id].fd)
    BY <1>4, <1>5, <2>1
  <2>5. QED
    BY <2>2, <2>3, <2>4, SlotChanged, ZenonT(30)
<1>6. CASE Tables!SpClose(id)
  <2>1. ~ id < 3
    BY <1>6 DEF Tables!SpClose, Tables!Mannered
  <2> DEFINE e == [FileInfo[id] EXCEPT !.fd = Tables!NoFile]
  <2>2. FileInfo' = [FileInfo EXCEPT ![id] = e]
    BY <1>6 DEF Tables!SpClose, Tables!Forgotten, Tables!Cleared
  <2>3. FileInfo' # FileInfo => e \in Tables!Entry
    BY <1>4 DEF Tables!Entry
  <2> HIDE DEF e
  <2>4. QED
    BY <1>1, <1>2, <1>3, <2>1, <2>2, <2>3, SlotChanged
<1>7. CASE Tables!SpSeek(id)
  BY <1>2, <1>5, <1>7 DEF Tables!SpSeek
<1>8. ASSUME NEW op \in {"read", "write"}, NEW results, Tables!Transfer(id, op, results)
      PROVE  TablesInv'
  BY <1>2, <1>5, <1>8 DEF Tables!Transfer
<1>9. ASSUME NEW b \in BOOLEAN, Tables!SpGetRec(id, b)
      PROVE  TablesInv'
  BY <1>2, <1>5, <1>9 DEF Tables!SpGetRec
<1>10. ASSUME NEW b \in BOOLEAN, Tables!SpPutRec(id, b), FileInfo' # FileInfo
       PROVE  TablesInv'
  <2>1. Tables!Found(id) # Tables!NoFile
        /\ FileInfo' = [FileInfo EXCEPT ![id].lastop = "write", ![id].dirty = ~ b]
    BY <1>10 DEF Tables!SpPutRec
  <2> DEFINE e == [FileInfo[id] EXCEPT !.lastop = "write", !.dirty = ~ b]
  <2>2. FileInfo[id].org = "record"
    BY <1>3, <1>10, <2>1 DEF Tables!SpPutRec, Tables!Mannered
  <2>3. ~ id < 3
    BY <1>4, <1>10, <2>2
  <2>4. id \in DOMAIN FileInfo
    BY <1>3, <1>10 DEF TablesInv
  <2>5. FileInfo' = [FileInfo EXCEPT ![id] = e]
    BY <2>1, <2>4
  <2>6. e \in Tables!Entry
    BY <1>4, <1>10 DEF Tables!Entry
  <2> HIDE DEF e
  <2>7. QED
    BY <1>1, <1>3, <1>10, <2>3, <2>5, <2>6, SlotChanged
<1>11. QED
  BY <1>2, <1>6, <1>7, <1>8, <1>9, <1>10

\* Every step of the programs keeps the slots so.
LEMMA TablesStep == ASSUME TablesInv, Tables!Next PROVE TablesInv'
<1>1. CASE Tables!Start
  BY <1>1, TablesStart
<1>2. CASE Tables!StartFails \/ Tables!Fail
  <2>1. Tables!CloseOpenFiles /\ ~ running' /\ lost' = lost
    BY <1>2 DEF Tables!StartFails, Tables!Fail
  <2>2. QED
    BY <2>1, ClosingAll
<1>3. CASE Tables!Exit
  BY <1>3, TablesExit
<1>4. CASE Tables!SpOpen \/ Tables!SpOpenRec
  BY <1>4, TablesOpen DEF Tables!SpOpen, Tables!SpOpenRec
<1>5. CASE Tables!OpenFails \/ Tables!SpRemove \/ Tables!SpRename \/ Tables!SpExists
  BY <1>5, TablesQuiet DEF Tables!OpenFails, Tables!SpRemove, Tables!SpRename, Tables!SpExists,
                           Tables!ByName
<1>6. ASSUME NEW id \in Tables!FileIds,
             \/ Tables!SpClose(id) \/ Tables!SpSeek(id)
             \/ \E b \in BOOLEAN : Tables!SpPutRec(id, b) \/ Tables!SpGetRec(id, b)
      PROVE  TablesInv'
  BY <1>6, TablesCalls
<1>7. ASSUME NEW id \in Tables!FileIds,
             \/ Tables!SpRead(id) \/ Tables!SpWrite(id) \/ Tables!SpGetBlock(id)
             \/ Tables!SpPutBlock(id) \/ Tables!SpGets(id) \/ Tables!SpPuts(id)
      PROVE  TablesInv'
  <2>1. \E op \in {"read", "write"}, results \in SUBSET {"success", "error"} :
          Tables!Transfer(id, op, results)
    BY <1>7 DEF Tables!SpRead, Tables!SpWrite, Tables!SpGetBlock, Tables!SpPutBlock, Tables!SpGets,
                Tables!SpPuts
  <2>2. QED
    BY <2>1, TablesCalls
<1>8. ASSUME NEW id \in Tables!FileIds,
             \/ Tables!SpFlush(id) \/ Tables!SpTell(id) \/ Tables!SpEof(id) \/ Tables!SpError(id)
             \/ Tables!SpIsaTTY(id) \/ Tables!BadId(id) \/ Tables!SpErrStat(id)
             \/ Tables!SpPutEOF(id)
      PROVE  TablesInv'
  BY <1>8, TablesQuiet
     DEF Tables!SpFlush, Tables!SpTell, Tables!SpEof, Tables!SpError, Tables!SpIsaTTY, Tables!BadId,
         Tables!SpErrStat, Tables!SpPutEOF, Tables!Query
<1>9. QED
  BY <1>1, <1>2, <1>3, <1>4, <1>5, <1>6, <1>7, <1>8 DEF Tables!Next

-----------------------------------------------------------------------------
\* Either table holds its invariant.
FilesInv ==
  /\ part = "table" => TableInv
  /\ part = "tables" => TablesInv

\* It holds at first.
LEMMA FilesStart == ASSUME Init PROVE FilesInv
<1>1. ASSUME part = "table" PROVE TableInv
  <2>1. Table!Init
    BY <1>1 DEF Init, InitOwn
  <2>2. Table!Blank \in Table!Entry /\ Table!Blank.fd = Table!NoFile
    BY DEF Table!Blank, Table!Entry, Table!NoFile
  <2>3. FileInfo \in [Table!Slots -> Table!Entry] /\ Table!InUse = {}
    BY <2>1, <2>2 DEF Table!Init, Table!InUse
  <2>4. Table!TypeOK
    <3>1. Table!Open = Table!Std /\ \A s \in Table!Open : streams[s] = "none"
      BY <2>1 DEF Table!Init, Table!Open
    <3>2. {running, lost, twice} \subseteq BOOLEAN
      BY <2>1 DEF Table!Init
    <3>3. runs \in 0 .. Programs
      <4>1. Programs \in Nat
        BY TableConstants DEF Table!FileTableConstants
      <4>2. QED
        BY <2>1, <4>1 DEF Table!Init
    <3>4. QED
      BY <2>3, <3>1, <3>2, <3>3 DEF Table!TypeOK
  <2>5. answer.ok
    BY <2>1 DEF Table!Init, Table!None
  <2>6. QED
    BY <2>1, <2>4, <2>5 DEF Table!Init, TableInv
<1>2. ASSUME part = "tables" PROVE TablesInv
  <2>1. Tables!Init
    BY <1>2 DEF Init, InitOwn
  <2>2. /\ Tables!Blank \in Tables!Entry /\ Tables!Blank.fd = Tables!NoFile
        /\ Tables!Blank.org = "none" /\ Tables!Blank.dirty = FALSE
    BY DEF Tables!Blank, Tables!Entry, Tables!NoFile
  <2>3. QED
    BY <2>1, <2>2 DEF Tables!Init, TablesInv
<1>3. QED
  BY <1>1, <1>2 DEF FilesInv

\* Every step keeps it, and gives the host its turns.
LEMMA FilesStep ==
  ASSUME FilesInv, [Next]_vars
  PROVE  FilesInv' /\ (part = "table" => (vars' = vars \/ HostTurn))
<1>1. part' = part
  BY DEF Next, vars, MainAlone, LineAlone, TableAlone
<1>2. ASSUME part = "table" PROVE TableInv' /\ (vars' = vars \/ HostTurn)
  <2>1. TableInv
    BY <1>2 DEF FilesInv
  <2>2. CASE UNCHANGED vars
    <3>1. UNCHANGED <<FileInfo, streams, running, runs, lost, twice, answer>>
      BY <2>2 DEF vars, tableOwn, tablesOwn
    <3>2. answer'.ok
      BY <2>1, <3>1 DEF TableInv
    <3>3. QED
      BY <2>1, <2>2, <3>1, <3>2, QuietKeeps DEF Quiet
  <2>3. CASE Table!Next
    BY <2>1, <2>3, TableStep
  <2>4. QED
    BY <1>2, <2>2, <2>3 DEF Next
<1>3. ASSUME part = "tables" PROVE TablesInv'
  <2>1. TablesInv
    BY <1>3 DEF FilesInv
  <2>2. CASE UNCHANGED vars
    BY <2>1, <2>2, TablesQuiet DEF vars, tableOwn, tablesOwn
  <2>3. CASE Tables!Next
    BY <2>1, <2>3, TablesStep
  <2>4. QED
    BY <1>3, <2>2, <2>3 DEF Next
<1>4. QED
  BY <1>1, <1>2, <1>3 DEF FilesInv

\* Whatever files a program opens, closes and uses, well or not, with as many
\* slots as the host has files to open: each open file is in the table, once; no
\* call works on a file that is not open, and no stream or buffer is freed twice.
\* Over programs in the shell that close their files no record is dropped.
THEOREM TableIsRight == Spec => []TableHolds
<1>1. FilesInv => TableHolds
  BY DEF FilesInv, TableInv, TablesInv, TableHolds, Table!OnlyOpen, Table!ClosedOnce,
         Table!AllListed, Tables!NothingLost
<1>2. Init => FilesInv
  BY FilesStart
<1>3. FilesInv /\ [Next]_vars => FilesInv'
  BY FilesStep
<1>4. QED
  BY <1>1, <1>2, <1>3, PTL DEF Spec, Fairness

\* The host never sees a read right after a write of one file, or a write right
\* after a read, since the table remembers what the host does.
THEOREM TurnsAreTheHosts == Spec => HostTurns
<1>1. Init => FilesInv
  BY FilesStart
<1>2. FilesInv /\ [Next]_vars => FilesInv'
  BY FilesStep
<1>3. FilesInv /\ [Next]_vars =>
        [part = "table" =>
           \A s \in Table!Open \cap DOMAIN streams' :
             /\ streams[s] = "write" => streams'[s] # "read"
             /\ streams[s] = "read" => streams'[s] # "write"]_vars
  BY FilesStep DEF HostTurn
<1>4. QED
  BY <1>1, <1>2, <1>3, PTL DEF Spec, Fairness, HostTurns

=============================================================================
