---------------------------- MODULE IserverProofs ----------------------------
(***************************************************************************)
(* Proofs about Iserver, for any commands, number of sources and places    *)
(* for a break.  Stated as lemmas on one step, so that a module that runs  *)
(* the iserver beside something else can use them of its own instances.    *)
(***************************************************************************)
EXTENDS Iserver, SequenceTheorems, TLAPS

\* No break between the two steps of making the terminal raw, of opening the
\* link again, and of putting a source on the stack or taking it off.
CalmBreaks ==
  BreakAt \cap {"rawget", "rawpoll", "rawbeat", "reclosed", "opened",
                "sourcing", "unsourcing", "popping"} = {}

\* The memory for the core is got for the first command, and every command
\* dumps as much.
SameSizes == \A c, d \in Commands : c.size = d.size

\* Where the program is, in groups: before the link is valid, after a program,
Outside == {"start", "opening", "enter"}
Ending == {"ended", "leaving", "closing", "inclose", "closed", "done"}
Prompting == {"prompt", "reopen", "reclosed", "opened", "landed"} \cup Moving
Synchronised == {"enter", "parse", "reset", "analyse", "core", "ignore", "boot", "errormode"}

\* The kinds of sources.
Kinds == {"open", "stale", "null", "closed"}

\* The options are those of some command, and the shell always has a source.
Data ==
  /\ opt \in Options /\ \E c \in Commands : opt.size = c.size
  /\ ShIn \in Seq(Kinds)
  /\ InShell => Len(ShIn) > 0
  /\ pc \in Moving => Len(ShIn) > 1

\* The mode in each place, and who is in the shell.
Places ==
  /\ pc \in Synchronised => mode = "sync"
  /\ pc \in Requests => mode = "async"
  /\ pc = "closed" => mode = "closed"
  /\ pc = "done" /\ TtyOpens => mode = "closed"
  /\ pc \in Outside \cup Ending => ~ InShell
  /\ pc \in Prompting => InShell
  /\ InShell = frame /\ ~ jumped

\* LinkValid follows the mode, but for the two steps of opening again.
LinkKnown ==
  /\ pc \in Outside => LinkValid
  /\ InShell /\ pc \notin {"reclosed", "opened"} => (LinkValid <=> mode # "closed")
  /\ pc = "reclosed" => LinkValid /\ mode = "closed"
  /\ pc = "opened" => ~ LinkValid /\ mode = "sync"
  /\ pc = "reopen" => ~ LinkValid

\* A raw terminal is known to be raw, but for one step; and it is set back
\* before the user is asked for a command.
TerminalKnown ==
  /\ raw => TermMode = "get" \/ pc \in {"rawget", "rawpoll", "rawbeat"}
  /\ pc \in Outside \cup {"prompt", "reopen", "reclosed", "opened", "done"} \cup Moving => ~ raw

\* In the step before it is said, the terminal is raw.
RawKnown == pc \in {"rawget", "rawpoll", "rawbeat"} => raw

\* There is memory for the core of any command that may be run.
Memory ==
  InShell \/ pc \in {"enter"} \cup Stages \cup Requests => \A c \in Commands : c.size <= dump

\* The inductive invariant.
IInv ==
  /\ TypeOK /\ Data /\ Places /\ KeyWanted /\ RawKnown
  /\ CalmBreaks => LinkKnown /\ TerminalKnown /\ SourcesOpen
  /\ SameSizes => Memory

-----------------------------------------------------------------------------
\* TypeOK by kinds of values, without the stack.
PlaceTypes ==
  /\ pc \in {"start", "opening", "ended", "leaving", "inclose", "closing", "closed", "done"}
              \cup Stages \cup Requests \cup Shells
  /\ mode \in {"closed", "sync", "async"}
  /\ TermMode \in {"org", "get"}
  /\ status \in {"unset", "misc", "ok", "user", "errorflag", "program"}

\* TypeOK, in parts that are proved one at a time.
SizeTypes == line \in Commands /\ told \in Commands /\ dump \in Nat /\ closes \in 0 .. 2

FlagTypes ==
  /\ LinkValid \in BOOLEAN /\ InShell \in BOOLEAN /\ frame \in BOOLEAN /\ jumped \in BOOLEAN
  /\ HeartBeat \in BOOLEAN /\ polled \in BOOLEAN /\ owed \in BOOLEAN /\ leaving \in BOOLEAN
  /\ raw \in BOOLEAN

StackFits == ShIn \in Seq(Kinds) /\ Len(ShIn) <= Sources

RawMode == TermMode = "get" => raw \/ pc = "done"

\* The parts are all of it.
LEMMA TypesAre ==
  TypeOK <=> PlaceTypes /\ SizeTypes /\ FlagTypes /\ RawMode /\ StackFits
<1>1. {line, told} \subseteq Commands <=> line \in Commands /\ told \in Commands
  OBVIOUS
<1>2. {LinkValid, InShell, frame, jumped, HeartBeat, polled, owed, leaving, raw} \subseteq BOOLEAN
      <=> FlagTypes
  BY Zenon DEF FlagTypes
<1>3. QED
  BY <1>1, <1>2, Zenon DEF TypeOK, PlaceTypes, SizeTypes, RawMode, StackFits, Kinds

\* The invariant holds at first.
LEMMA Start ==
  ASSUME IserverConstants, Init
  PROVE  IInv
<1>1. line \in Options /\ opt = line /\ line \in Commands
  BY DEF Init, IserverConstants
<1>2. ShIn = << >> /\ Len(ShIn) = 0 /\ ShIn \in Seq(Kinds)
  BY DEF Init
<1>3. Data
  BY <1>1, <1>2 DEF Data, Init, Moving
<1>4. TypeOK
  <2>1. PlaceTypes /\ SizeTypes
    BY DEF Init, PlaceTypes, SizeTypes, IserverConstants
  <2>0. FlagTypes /\ RawMode
    BY Zenon DEF Init, FlagTypes, RawMode
  <2>2. Len(ShIn) <= Sources
    BY <1>2 DEF IserverConstants
  <2>3. QED
    BY <1>2, <2>0, <2>1, <2>2, TypesAre DEF StackFits
<1>5. Places /\ KeyWanted /\ RawKnown /\ LinkKnown /\ TerminalKnown /\ Memory
  BY DEF Init, Places, KeyWanted, RawKnown, LinkKnown, TerminalKnown, Memory, Outside, Ending, Prompting,
         Synchronised, Requests, Stages, Moving
<1>7. SourcesOpen
  BY <1>2 DEF SourcesOpen
<1>6. QED
  BY <1>3, <1>4, <1>5, <1>7 DEF IInv

\* The steps that touch the options.
Retyping == Parse \/ SpExit

\* The steps that touch the stack of command sources.
Sourcing == DoSource \/ SourceOpens \/ SourceFails \/ Unsource \/ EndOfFile \/ FallBack
Stacking == EnterShell \/ Sourcing

\* Only the steps that read options change them, and only those of sources the
\* stack; while a source is on its way, nothing else happens but a break.
LEMMA OtherSteps ==
  ASSUME [Next]_vars
  PROVE  /\ Retyping \/ opt' = opt
         /\ Stacking \/ (ShIn' = ShIn /\ (InShell' => InShell) /\ (pc' = pc \/ pc' \notin Moving))
         /\ pc \in Moving => Sourcing \/ BreakHandler \/ UNCHANGED vars
<1> USE DEF Moving
<1>1. CASE UNCHANGED vars
  BY <1>1 DEF vars
<1>2. CASE Main \/ OpenFails \/ End \/ Leave \/ BeginClose \/ EndClose \/ Exit \/ Sync
  BY <1>2 DEF Main, OpenFails, End, Leave, BeginClose, EndClose, Exit, Sync, Goto, Fails, CloseServer,
              options, shellvars
<1>3. CASE Parse \/ Reset \/ Analyse \/ Core \/ ErrorIgnore \/ Boot \/ ErrorMode \/ Serve
  BY <1>3 DEF Parse, Reset, Analyse, Core, ErrorIgnore, Boot, ErrorMode, Serve, Stage, ProperEnds,
              Retyping, Goto, Fails, CloseServer, options, shellvars
<1>4. CASE \/ Handle \/ SpReadStdin \/ SpExit \/ HostBegin \/ SetRaw \/ SaidRaw \/ SpPollkey
           \/ Beat \/ SendReply
  BY <1>4 DEF Handle, SpReadStdin, SpExit, HostBegin, SetRaw, SaidRaw, SpPollkey, Beat, SendReply,
              ProperEnds, Retyping, Goto, Fails, CloseServer, options, shellvars
<1>5. CASE EnterShell \/ Landed \/ DoOpenClosed \/ Opened \/ ReopenFails
  BY <1>5 DEF EnterShell, Landed, DoOpenClosed, Opened, ReopenFails, Stacking, Goto, options, shellvars
<1>6. CASE OpenOk \/ NoMemory \/ ReopenOk \/ GetRequest \/ DoHeartBeat \/ SpGetkey
  BY <1>6 DEF OpenOk, NoMemory, ReopenOk, GetRequest, DoHeartBeat, SpGetkey,
              Goto, Fails, CloseServer, options, shellvars
<1>7. CASE BreakHandler
  BY <1>7 DEF BreakHandler, CloseServer, options, shellvars
<1>8. CASE CallServer \/ DoOpen \/ DoQuit
  BY <1>8 DEF CallServer, DoOpen, DoQuit, OutOfShell, Fails, CloseServer, options, shellvars
<1>9. CASE Sourcing
  BY <1>9 DEF Sourcing, Stacking, DoSource, SourceOpens, SourceFails, Unsource, EndOfFile, FallBack,
              Stacks, options
<1>10. QED
  BY <1>1, <1>2, <1>3, <1>4, <1>5, <1>6, <1>7, <1>8, <1>9 DEF Next, Steps, Others, Sourcing

\* The three kinds of steps of the stack: it grows by one at the end, has
\* another last source, or is shorter by that.
Pushed == pc = "prompt" /\ pc' = "sourcing" /\ Len(ShIn) < Sources /\ ShIn' = Append(ShIn, "stale")

Changed(f) ==
  /\ f \in Kinds /\ Len(ShIn) > 1 /\ (pc' \in Moving \/ (pc' = "prompt" /\ f = "open"))
  /\ ShIn' = [ShIn EXCEPT ![Len(ShIn)] = f]

Shrunk == pc \in Moving /\ pc' = "prompt" /\ ShIn' = SubSeq(ShIn, 1, Len(ShIn) - 1)

LEMMA ThreeKinds ==
  ASSUME Sourcing, Data
  PROVE  InShell' = InShell /\ (Pushed \/ (\E f \in Kinds : Changed(f)) \/ Shrunk)
<1>1. InShell' = InShell
  BY DEF Sourcing, DoSource, SourceOpens, SourceFails, Unsource, EndOfFile, FallBack, Stacks
<1>2. ASSUME SourceOpens \/ SourceFails \/ EndOfFile
      PROVE  \E f \in Kinds : Changed(f)
  BY <1>2 DEF SourceOpens, SourceFails, EndOfFile, Stacks, Top, Changed, Kinds, Moving, Data
<1>3. DoSource => Pushed
  BY DEF DoSource, Room, Stacks, Pushed
<1>4. Unsource \/ FallBack => Shrunk
  BY DEF Unsource, Unstacked, FallBack, Popped, Stacks, Shrunk, Moving
<1>5. QED
  BY <1>1, <1>2, <1>3, <1>4 DEF Sourcing

\* A stack that shrinks keeps the sources below.
LEMMA Shrinks ==
  ASSUME NEW f, f \in Seq(Kinds), Len(f) > 1
  PROVE  /\ SubSeq(f, 1, Len(f) - 1) \in Seq(Kinds)
         /\ Len(SubSeq(f, 1, Len(f) - 1)) = Len(f) - 1
         /\ \A i \in 1 .. Len(f) - 1 : SubSeq(f, 1, Len(f) - 1)[i] = f[i]
<1>1. Len(f) \in Nat /\ \A i \in 1 .. Len(f) - 1 : f[i] \in Kinds
  OBVIOUS
<1>2. QED
  BY <1>1, SubSeqProperties

\* The sizes, the command and the sources stay in their types.
LEMMA DataStep ==
  ASSUME IserverConstants, IInv, [Next]_vars
  PROVE  Data' /\ StackFits'
<1>1. /\ opt \in Options /\ \E c \in Commands : opt.size = c.size
      /\ Data /\ Places /\ ShIn \in Seq(Kinds) /\ Len(ShIn) <= Sources /\ line \in Commands
  BY DEF IInv, Data, TypeOK
<1>2. opt' \in Options /\ \E c \in Commands : opt'.size = c.size
  <2>1. CASE Parse
    <3>1. opt' = line
      BY <2>1 DEF Parse
    <3>2. QED
      BY <1>1, <3>1 DEF IserverConstants
  <2>2. CASE SpExit
    <3>1. opt' = [opt EXCEPT !.error = FALSE]
      BY <2>2 DEF SpExit
    <3>2. opt' \in Options /\ opt'.size = opt.size
      BY <1>1, <3>1 DEF Options
    <3>3. QED
      BY <1>1, <3>2
  <2>3. QED
    BY <1>1, <2>1, <2>2, OtherSteps DEF Retyping
<1> DEFINE Good == /\ ShIn' \in Seq(Kinds) /\ Len(ShIn') <= Sources
                   /\ InShell' => Len(ShIn') > 0
                   /\ pc' \in Moving => Len(ShIn') > 1
<1>3. Good
  <2>0. Sources \in Nat /\ Sources > 0 /\ Len(ShIn) \in Nat
    BY <1>1 DEF IserverConstants
  <2>1. CASE EnterShell
    <3>1. \/ ShIn' = <<"open">> /\ pc' = "prompt"
          \/ ShIn' = ShIn /\ InShell' = InShell /\ pc' = "done"
      BY <2>1 DEF EnterShell
    <3>2. <<"open">> \in Seq(Kinds) /\ Len(<<"open">>) = 1
      BY DEF Kinds
    <3>3. CASE ShIn' = <<"open">> /\ pc' = "prompt"
      <4>1. ShIn' \in Seq(Kinds) /\ Len(ShIn') = 1
        BY <3>2, <3>3, Zenon
      <4>2. QED
        BY <2>0, <3>3, <4>1 DEF Moving
    <3>4. QED
      BY <1>1, <3>1, <3>3 DEF Data, Moving
  <2>2. CASE Pushed
    <3>1. InShell
      BY <1>1, <2>2 DEF Pushed, Places, Prompting
    <3>2. ShIn' \in Seq(Kinds) /\ Len(ShIn') = Len(ShIn) + 1
      BY <1>1, <2>2 DEF Pushed, Kinds
    <3>3. QED
      BY <1>1, <2>0, <2>2, <3>1, <3>2 DEF Pushed, Data
  <2>3. ASSUME NEW f \in Kinds, Changed(f) PROVE Good
    BY <1>1, <2>0, <2>3 DEF Changed
  <2>4. CASE Shrunk
    <3>1. Len(ShIn) > 1
      BY <1>1, <2>4 DEF Shrunk, Data
    <3>2. ShIn' \in Seq(Kinds) /\ Len(ShIn') = Len(ShIn) - 1 /\ pc' = "prompt"
      BY <1>1, <2>4, <3>1, Shrinks DEF Shrunk
    <3>3. QED
      BY <1>1, <2>0, <3>1, <3>2 DEF Moving
  <2>5. CASE ~ Stacking
    <3>1. ShIn' = ShIn /\ (InShell' => InShell) /\ (pc' = pc \/ pc' \notin Moving)
      BY <2>5, OtherSteps
    <3>2. QED
      BY <1>1, <3>1 DEF Data
  <2>6. QED
    BY <1>1, <2>1, <2>2, <2>3, <2>4, <2>5, ThreeKinds DEF Stacking
<1>4. QED
  BY <1>2, <1>3 DEF Data, StackFits

\* The sources stay open, while no break leaves one on its way.
LEMMA SourcesStep ==
  ASSUME IInv, [Next]_vars, CalmBreaks
  PROVE  SourcesOpen'
<1>1. /\ SourcesOpen /\ Data /\ ShIn \in Seq(Kinds) /\ Len(ShIn) \in Nat
      /\ BreakAt \cap Moving = {}
  BY DEF IInv, Data, CalmBreaks, Moving
<1>2. CASE EnterShell
  <2>1. pc \notin Moving /\ (ShIn' = <<"open">> \/ ShIn' = ShIn)
    BY <1>2 DEF EnterShell, Moving
  <2>2. CASE ShIn' = ShIn
    BY <1>1, <2>1, <2>2 DEF SourcesOpen
  <2>3. CASE ShIn' = <<"open">>
    BY <2>3 DEF SourcesOpen
  <2>4. QED
    BY <2>1, <2>2, <2>3
<1>3. CASE Pushed
  <2>1. \A i \in 1 .. Len(ShIn) : ShIn[i] = "open"
    BY <1>1, <1>3 DEF Pushed, SourcesOpen, Moving
  <2>2. QED
    BY <1>1, <1>3, <2>1 DEF Pushed, SourcesOpen, Moving
<1>4. ASSUME NEW f \in Kinds, Changed(f) PROVE SourcesOpen'
  <2>1. \A i \in 1 .. Len(ShIn) - 1 : ShIn[i] = "open"
    BY <1>1 DEF SourcesOpen
  <2>2. /\ Len(ShIn') = Len(ShIn) /\ ShIn'[Len(ShIn)] = f
        /\ \A i \in 1 .. Len(ShIn) - 1 : ShIn'[i] = ShIn[i]
    BY <1>1, <1>4 DEF Changed
  <2>3. QED
    <3>1. \A i \in 1 .. Len(ShIn) - 1 : ShIn'[i] = "open"
      BY <2>1, <2>2
    <3>2. ShIn'[Len(ShIn)] = "open" \/ pc' \in Moving
      BY <1>4, <2>2 DEF Changed
    <3>3. \A i \in 1 .. Len(ShIn) : i \in 1 .. Len(ShIn) - 1 \/ i = Len(ShIn)
      BY <1>1
    <3>4. QED
      BY <2>2, <3>1, <3>2, <3>3 DEF SourcesOpen
<1>5. CASE Shrunk
  <2>1. Len(ShIn) > 1
    BY <1>1, <1>5 DEF Shrunk, Data
  <2>2. \A i \in 1 .. Len(ShIn) - 1 : ShIn[i] = "open"
    BY <1>1 DEF SourcesOpen
  <2>3. Len(ShIn') = Len(ShIn) - 1 /\ \A i \in 1 .. Len(ShIn) - 1 : ShIn'[i] = ShIn[i]
    BY <1>1, <1>5, <2>1, Shrinks DEF Shrunk
  <2>4. QED
    BY <2>2, <2>3 DEF SourcesOpen
<1>6. CASE ~ Stacking
  <2>1. ShIn' = ShIn
    BY <1>6, OtherSteps
  <2>2. CASE pc \notin Moving
    BY <1>1, <2>1, <2>2 DEF SourcesOpen
  <2>3. CASE pc \in Moving
    <3>1. pc \notin BreakAt
      BY <1>1, <2>3
    <3>2. ~ BreakHandler
      BY <3>1 DEF BreakHandler
    <3>3. UNCHANGED vars
      BY <1>6, <2>3, <3>2, OtherSteps DEF Stacking
    <3>4. pc' = pc
      BY <3>3 DEF vars
    <3>5. QED
      BY <1>1, <2>1, <3>4 DEF SourcesOpen
  <2>4. QED
    BY <2>2, <2>3
<1>7. QED
  BY <1>1, <1>2, <1>3, <1>4, <1>5, <1>6, ThreeKinds DEF Stacking

\* So do the flags.
LEMMA FlagsStep ==
  ASSUME IInv, [Next]_vars
  PROVE  FlagTypes'
<1> USE DEF FlagTypes, Stages, Requests, Shells, Moving, tty, serving, shellvars, link, options
<1>1. FlagTypes
  BY TypesAre DEF IInv
<1>2. CASE UNCHANGED vars
  BY <1>1, Zenon, <1>2 DEF vars
<1>3. CASE Main \/ OpenFails \/ NoMemory \/ BreakHandler
  BY <1>1, Zenon, <1>3 DEF Main, OpenFails, NoMemory, BreakHandler, CloseServer
<1>4. CASE End \/ Leave \/ BeginClose \/ EndClose \/ Exit
  BY <1>1, ZenonT(30), <1>4 DEF End, Leave, HostEnd, BeginClose, EndClose, Closed, Exit
<1>5. CASE Sync \/ Parse \/ Reset
  BY <1>1, ZenonT(30), <1>5 DEF Sync, Synchronous, Parse, Reset, Stage, Goto, Fails, CloseServer
<1>6. ASSUME NEW p, NEW asked, NEW next, Stage(p, asked, next) PROVE FlagTypes'
  BY <1>1, ZenonT(30), <1>6 DEF Stage, Goto, Fails, CloseServer
<1>7. CASE Serve
  BY <1>1, ZenonT(30), <1>7 DEF Serve, NoBeat, ProperEnds, ResetTerminal, Fails, CloseServer
<1>8. CASE Handle \/ SpReadStdin \/ SpExit \/ HostBegin \/ SetRaw \/ SaidRaw
  BY <1>1, ZenonT(30), <1>8 DEF Handle, SpReadStdin, SpExit, HostBegin, SetRaw, SaidRaw, ResetTerminal, Fails,
                    CloseServer
<1>9. CASE SpPollkey \/ SpGetkey \/ GetRequest \/ DoHeartBeat \/ Beat
  BY <1>1, ZenonT(30), <1>9 DEF SpPollkey, SpGetkey, GetRequest, DoHeartBeat, Beat, Goto, Fails, CloseServer
<1>10. CASE SendReply
  BY <1>1, ZenonT(30), <1>10 DEF SendReply, Replied, ProperEnds, ResetTerminal, Fails, CloseServer
<1>11. CASE EnterShell \/ Landed \/ CallServer \/ DoQuit \/ Sourcing
  BY <1>1, ZenonT(30), <1>11 DEF EnterShell, Landed, ResetTerminal, CallServer, DoQuit, OutOfShell, Sourcing, DoSource, SourceOpens,
                     SourceFails, Unsource, EndOfFile, FallBack, Stacks, Fails, CloseServer
<1>12. CASE DoOpen \/ DoOpenClosed \/ ReopenOk \/ Opened \/ ReopenFails \/ OpenOk
  BY <1>1, ZenonT(30), <1>12 DEF DoOpen, Reclosed, DoOpenClosed, ReopenOk, Opened, ReopenFails, OpenOk, Goto
<1>13. QED
  BY <1>2, <1>3, <1>4, <1>5, <1>6, <1>7, <1>8, <1>9, <1>10, <1>11, <1>12 
     DEF Next, Steps, Others, Sourcing, Analyse, Core, ErrorIgnore, Boot, ErrorMode

\* Where the program is says what it has opened, synchronised and asked for.
LEMMA PlacesStep ==
  ASSUME IInv, [Next]_vars
  PROVE  PlaceTypes'
<1> USE DEF PlaceTypes, Stages, Requests, Shells, Moving, tty, serving, shellvars, link, options
<1>1. PlaceTypes
  BY TypesAre DEF IInv
<1>2. CASE UNCHANGED vars
  BY <1>1, <1>2 DEF vars
<1>3. CASE Main \/ OpenFails \/ NoMemory \/ BreakHandler
  BY <1>1, <1>3 DEF Main, OpenFails, NoMemory, BreakHandler, CloseServer
<1>4. CASE End \/ Leave \/ BeginClose \/ EndClose \/ Exit
  BY <1>1, <1>4 DEF End, Leave, HostEnd, BeginClose, EndClose, Closed, Exit
<1>5. CASE Sync \/ Parse \/ Reset
  BY <1>1, <1>5 DEF Sync, Synchronous, Parse, Reset, Stage, Goto, Fails, CloseServer
<1>6. CASE Analyse \/ Core \/ ErrorIgnore \/ Boot \/ ErrorMode
  BY <1>1, <1>6 DEF Analyse, Core, ErrorIgnore, Boot, ErrorMode, Stage, Goto, Fails, CloseServer
<1>7. CASE Serve
  BY <1>1, <1>7 DEF Serve, NoBeat, ProperEnds, ResetTerminal, Fails, CloseServer
<1>8. CASE Handle \/ SpReadStdin \/ SpExit \/ HostBegin \/ SetRaw \/ SaidRaw
  BY <1>1, <1>8 DEF Handle, SpReadStdin, SpExit, HostBegin, SetRaw, SaidRaw, ResetTerminal, Fails,
                    CloseServer
<1>9. CASE SpPollkey \/ SpGetkey \/ GetRequest \/ DoHeartBeat \/ Beat
  BY <1>1, <1>9 DEF SpPollkey, SpGetkey, GetRequest, DoHeartBeat, Beat, Goto, Fails, CloseServer
<1>10. CASE SendReply
  BY <1>1, <1>10 DEF SendReply, Replied, ProperEnds, ResetTerminal, Fails, CloseServer
<1>11. CASE EnterShell \/ Landed \/ CallServer \/ DoQuit \/ Sourcing
  BY <1>1, <1>11 DEF EnterShell, Landed, ResetTerminal, CallServer, DoQuit, OutOfShell, Sourcing, DoSource, SourceOpens,
                     SourceFails, Unsource, EndOfFile, FallBack, Stacks, Fails, CloseServer
<1>12. CASE DoOpen \/ DoOpenClosed \/ ReopenOk \/ Opened \/ ReopenFails \/ OpenOk
  BY <1>1, <1>12 DEF DoOpen, Reclosed, DoOpenClosed, ReopenOk, Opened, ReopenFails, OpenOk, Goto
<1>13. QED
  BY <1>2, <1>3, <1>4, <1>5, <1>6, <1>7, <1>8, <1>9, <1>10, <1>11, <1>12 DEF Next, Steps, Others, Sourcing

\* The options run are those of a command, and the memory has a size.
LEMMA SizesStep ==
  ASSUME IserverConstants, IInv, [Next]_vars
  PROVE  SizeTypes'
<1> USE DEF SizeTypes, tty, serving, shellvars, link, options
<1>1. SizeTypes /\ opt.size \in Nat
  BY TypesAre DEF IInv, Data, Options
<1>2. CASE UNCHANGED vars
  BY <1>1, <1>2 DEF vars
<1>3. CASE Main \/ OpenFails \/ NoMemory \/ BreakHandler
  BY <1>1, <1>3 DEF Main, OpenFails, NoMemory, BreakHandler, CloseServer
<1>4. CASE End \/ Leave \/ BeginClose \/ EndClose \/ Exit
  BY <1>1, <1>4 DEF End, Leave, HostEnd, BeginClose, EndClose, Closed, Exit
<1>5. CASE Sync \/ Parse \/ Reset
  BY <1>1, <1>5 DEF Sync, Synchronous, Parse, Reset, Stage, Goto, Fails, CloseServer
<1>6. CASE Analyse \/ Core \/ ErrorIgnore \/ Boot \/ ErrorMode
  BY <1>1, <1>6 DEF Analyse, Core, ErrorIgnore, Boot, ErrorMode, Stage, Goto, Fails, CloseServer
<1>7. CASE Serve
  BY <1>1, <1>7 DEF Serve, NoBeat, ProperEnds, ResetTerminal, Fails, CloseServer
<1>8. CASE Handle \/ SpReadStdin \/ SpExit \/ HostBegin \/ SetRaw \/ SaidRaw
  BY <1>1, <1>8 DEF Handle, SpReadStdin, SpExit, HostBegin, SetRaw, SaidRaw, ResetTerminal, Fails,
                    CloseServer
<1>9. CASE SpPollkey \/ SpGetkey \/ GetRequest \/ DoHeartBeat \/ Beat
  BY <1>1, <1>9 DEF SpPollkey, SpGetkey, GetRequest, DoHeartBeat, Beat, Goto, Fails, CloseServer
<1>10. CASE SendReply
  BY <1>1, <1>10 DEF SendReply, Replied, ProperEnds, ResetTerminal, Fails, CloseServer
<1>11. CASE EnterShell \/ Landed \/ CallServer \/ DoQuit \/ Sourcing
  BY <1>1, <1>11 DEF EnterShell, Landed, ResetTerminal, CallServer, DoQuit, OutOfShell, Sourcing, DoSource, SourceOpens,
                     SourceFails, Unsource, EndOfFile, FallBack, Stacks, Fails, CloseServer
<1>12. CASE DoOpen \/ DoOpenClosed \/ ReopenOk \/ Opened \/ ReopenFails \/ OpenOk
  BY <1>1, <1>12 DEF DoOpen, Reclosed, DoOpenClosed, ReopenOk, Opened, ReopenFails, OpenOk, Dump, Goto
<1>13. QED
  BY <1>2, <1>3, <1>4, <1>5, <1>6, <1>7, <1>8, <1>9, <1>10, <1>11, <1>12 DEF Next, Steps, Others, Sourcing

\* Who is in the shell jumps to it, and the mode is that of the place.
LEMMA ModesStep ==
  ASSUME IserverConstants, IInv, [Next]_vars
  PROVE  Places'
<1> USE DEF Places, FlagTypes, Outside, Ending, Prompting, Synchronised, Stages, Requests, Moving, tty, serving, shellvars, link, options
<1>1. Places /\ FlagTypes
  BY TypesAre DEF IInv
<1>2. CASE UNCHANGED vars
  BY <1>1, <1>2 DEF vars
<1>3. CASE Main \/ OpenFails \/ NoMemory \/ BreakHandler
  BY <1>1, <1>3 DEF Main, OpenFails, NoMemory, BreakHandler, CloseServer
<1>4. CASE End \/ Leave \/ BeginClose \/ EndClose \/ Exit
  BY <1>1, <1>4 DEF End, Leave, HostEnd, BeginClose, EndClose, Closed, Exit
<1>5. CASE Sync \/ Parse \/ Reset
  BY <1>1, <1>5 DEF Sync, Synchronous, Parse, Reset, Stage, Goto, Fails, CloseServer
<1>6. CASE Analyse \/ Core \/ ErrorIgnore \/ Boot \/ ErrorMode
  BY <1>1, <1>6 DEF Analyse, Core, ErrorIgnore, Boot, ErrorMode, Stage, Goto, Fails, CloseServer
<1>7. CASE Serve
  BY <1>1, <1>7 DEF Serve, NoBeat, ProperEnds, ResetTerminal, Fails, CloseServer
<1>8. CASE Handle \/ SpReadStdin \/ SpExit \/ HostBegin \/ SetRaw \/ SaidRaw
  BY <1>1, <1>8 DEF Handle, SpReadStdin, SpExit, HostBegin, SetRaw, SaidRaw, ResetTerminal, Fails,
                    CloseServer
<1>9. CASE SpPollkey \/ SpGetkey \/ GetRequest \/ DoHeartBeat \/ Beat
  BY <1>1, <1>9 DEF SpPollkey, SpGetkey, GetRequest, DoHeartBeat, Beat, Goto, Fails, CloseServer
<1>10. CASE SendReply
  BY <1>1, <1>10 DEF SendReply, Replied, ProperEnds, ResetTerminal, Fails, CloseServer
<1>11. CASE EnterShell \/ Landed \/ CallServer \/ DoQuit \/ Sourcing
  <2>1. CASE EnterShell
    BY <1>1, <2>1 DEF EnterShell
  <2>2. CASE Landed \/ Sourcing
    BY <1>1, <2>2 DEF Landed, Sourcing, DoSource, SourceOpens, SourceFails, Unsource, EndOfFile, FallBack,
                      Stacks
  <2>3. CASE CallServer \/ DoQuit
    <3>1. CASE DoQuit
      BY <1>1, <3>1 DEF DoQuit, OutOfShell
    <3>2. CASE CallServer
      BY <1>1, <3>2 DEF CallServer, Fails, CloseServer
    <3>3. QED
      BY <2>3, <3>1, <3>2
  <2>4. QED
    BY <1>11, <2>1, <2>2, <2>3
<1>12. CASE DoOpen \/ DoOpenClosed \/ ReopenOk \/ Opened \/ ReopenFails \/ OpenOk
  BY <1>1, <1>12 DEF DoOpen, Reclosed, DoOpenClosed, ReopenOk, Opened, ReopenFails, OpenOk, Goto
<1>13. QED
  BY <1>2, <1>3, <1>4, <1>5, <1>6, <1>7, <1>8, <1>9, <1>10, <1>11, <1>12 DEF Next, Steps, Others, Sourcing

\* The heartbeat lasts no longer than the target waits for a key.
LEMMA KeysStep ==
  ASSUME IserverConstants, IInv, [Next]_vars
  PROVE  KeyWanted'
<1> USE DEF KeyWanted, Requests, tty, serving, shellvars, link, options
<1>1. KeyWanted
  BY TypesAre DEF IInv
<1>2. CASE UNCHANGED vars
  BY <1>1, <1>2 DEF vars
<1>3. CASE Main \/ OpenFails \/ NoMemory \/ BreakHandler
  BY <1>1, <1>3 DEF Main, OpenFails, NoMemory, BreakHandler, CloseServer
<1>4. CASE End \/ Leave \/ BeginClose \/ EndClose \/ Exit
  BY <1>1, <1>4 DEF End, Leave, HostEnd, BeginClose, EndClose, Closed, Exit
<1>5. CASE Sync \/ Parse \/ Reset
  BY <1>1, <1>5 DEF Sync, Synchronous, Parse, Reset, Stage, Goto, Fails, CloseServer
<1>6. CASE Analyse \/ Core \/ ErrorIgnore \/ Boot \/ ErrorMode
  BY <1>1, <1>6 DEF Analyse, Core, ErrorIgnore, Boot, ErrorMode, Stage, Goto, Fails, CloseServer
<1>7. CASE Serve
  BY <1>1, <1>7 DEF Serve, NoBeat, ProperEnds, ResetTerminal, Fails, CloseServer
<1>8. CASE Handle \/ SpReadStdin \/ SpExit \/ HostBegin \/ SetRaw \/ SaidRaw
  BY <1>1, <1>8 DEF Handle, SpReadStdin, SpExit, HostBegin, SetRaw, SaidRaw, ResetTerminal, Fails,
                    CloseServer
<1>9. CASE SpPollkey \/ SpGetkey \/ GetRequest \/ DoHeartBeat \/ Beat
  BY <1>1, <1>9 DEF SpPollkey, SpGetkey, GetRequest, DoHeartBeat, Beat, Goto, Fails, CloseServer
<1>10. CASE SendReply
  BY <1>1, <1>10 DEF SendReply, Replied, ProperEnds, ResetTerminal, Fails, CloseServer
<1>11. CASE EnterShell \/ Landed \/ CallServer \/ DoQuit \/ Sourcing
  BY <1>1, <1>11 DEF EnterShell, Landed, ResetTerminal, CallServer, DoQuit, OutOfShell, Sourcing, DoSource, SourceOpens,
                     SourceFails, Unsource, EndOfFile, FallBack, Stacks, Fails, CloseServer
<1>12. CASE DoOpen \/ DoOpenClosed \/ ReopenOk \/ Opened \/ ReopenFails \/ OpenOk
  BY <1>1, <1>12 DEF DoOpen, Reclosed, DoOpenClosed, ReopenOk, Opened, ReopenFails, OpenOk, Goto
<1>13. QED
  BY <1>2, <1>3, <1>4, <1>5, <1>6, <1>7, <1>8, <1>9, <1>10, <1>11, <1>12 DEF Next, Steps, Others, Sourcing

\* LinkValid follows the mode.
LEMMA LinksStep ==
  ASSUME IInv, [Next]_vars, CalmBreaks
  PROVE  LinkKnown'
<1> USE DEF LinkKnown, Places, PlaceTypes, Outside, Ending, Prompting, Synchronised, Stages, Requests, Shells, Moving, tty, serving, shellvars, link, options
<1>1. LinkKnown /\ Places /\ PlaceTypes /\ BreakAt \cap {"rawget", "rawpoll", "rawbeat", "reclosed", "opened"} = {}
  BY TypesAre DEF IInv, CalmBreaks
<1>2. CASE UNCHANGED vars
  BY <1>1, <1>2 DEF vars
<1>3. CASE Main \/ OpenFails \/ NoMemory \/ BreakHandler
  BY <1>1, <1>3 DEF Main, OpenFails, NoMemory, BreakHandler, CloseServer
<1>4. CASE End \/ Leave \/ BeginClose \/ EndClose \/ Exit
  BY <1>1, <1>4 DEF End, Leave, HostEnd, BeginClose, EndClose, Closed, Exit
<1>5. CASE Sync \/ Parse \/ Reset
  BY <1>1, <1>5 DEF Sync, Synchronous, Parse, Reset, Stage, Goto, Fails, CloseServer
<1>6. CASE Analyse \/ Core \/ ErrorIgnore \/ Boot \/ ErrorMode
  BY <1>1, <1>6 DEF Analyse, Core, ErrorIgnore, Boot, ErrorMode, Stage, Goto, Fails, CloseServer
<1>7. CASE Serve
  BY <1>1, <1>7 DEF Serve, NoBeat, ProperEnds, ResetTerminal, Fails, CloseServer
<1>8. CASE Handle \/ SpReadStdin \/ SpExit \/ HostBegin \/ SetRaw \/ SaidRaw
  BY <1>1, <1>8 DEF Handle, SpReadStdin, SpExit, HostBegin, SetRaw, SaidRaw, ResetTerminal, Fails,
                    CloseServer
<1>9. CASE SpPollkey \/ SpGetkey \/ GetRequest \/ DoHeartBeat \/ Beat
  BY <1>1, <1>9 DEF SpPollkey, SpGetkey, GetRequest, DoHeartBeat, Beat, Goto, Fails, CloseServer
<1>10. CASE SendReply
  BY <1>1, <1>10 DEF SendReply, Replied, ProperEnds, ResetTerminal, Fails, CloseServer
<1>11. CASE EnterShell \/ Landed \/ CallServer \/ DoQuit \/ Sourcing
  BY <1>1, <1>11 DEF EnterShell, Landed, ResetTerminal, CallServer, DoQuit, OutOfShell, Sourcing, DoSource, SourceOpens,
                     SourceFails, Unsource, EndOfFile, FallBack, Stacks, Fails, CloseServer
<1>12. CASE DoOpen \/ DoOpenClosed \/ ReopenOk \/ Opened \/ ReopenFails \/ OpenOk
  BY <1>1, <1>12 DEF DoOpen, Reclosed, DoOpenClosed, ReopenOk, Opened, ReopenFails, OpenOk, Goto
<1>13. QED
  BY <1>2, <1>3, <1>4, <1>5, <1>6, <1>7, <1>8, <1>9, <1>10, <1>11, <1>12 DEF Next, Steps, Others, Sourcing

\* What is said to be raw is raw.
LEMMA RawStep ==
  ASSUME IInv, [Next]_vars
  PROVE  RawMode' /\ RawKnown'
<1> USE DEF RawMode, RawKnown, tty, serving, shellvars, link, options
<1>1. RawMode /\ RawKnown
  BY TypesAre DEF IInv
<1>2. CASE UNCHANGED vars
  BY <1>1, <1>2 DEF vars
<1>3. CASE Main \/ OpenFails \/ NoMemory \/ BreakHandler
  BY <1>1, <1>3 DEF Main, OpenFails, NoMemory, BreakHandler, CloseServer
<1>4. CASE End \/ Leave \/ BeginClose \/ EndClose \/ Exit
  BY <1>1, <1>4 DEF End, Leave, HostEnd, BeginClose, EndClose, Closed, Exit
<1>5. CASE Sync \/ Parse \/ Reset
  BY <1>1, <1>5 DEF Sync, Synchronous, Parse, Reset, Stage, Goto, Fails, CloseServer
<1>6. CASE Analyse \/ Core \/ ErrorIgnore \/ Boot \/ ErrorMode
  BY <1>1, <1>6 DEF Analyse, Core, ErrorIgnore, Boot, ErrorMode, Stage, Goto, Fails, CloseServer
<1>7. CASE Serve
  <2>1. ASSUME NEW s, ProperEnds(s), pc \in {"serve", "send"} PROVE RawMode' /\ RawKnown'
    BY <1>1, <2>1 DEF ProperEnds, ResetTerminal
  <2>2. QED
    BY <1>1, <1>7, <2>1 DEF Serve, NoBeat, Fails, CloseServer
<1>8. CASE Handle \/ SpReadStdin \/ SpExit \/ HostBegin \/ SetRaw \/ SaidRaw
  <2>1. CASE SpReadStdin
    BY <1>1, <2>1 DEF SpReadStdin, ResetTerminal
  <2>2. CASE SetRaw \/ SaidRaw
    <3>1. CASE SetRaw
      BY <1>1, <3>1 DEF SetRaw
    <3>2. CASE SaidRaw
      BY <1>1, <3>2 DEF SaidRaw
    <3>3. QED
      BY <2>2, <3>1, <3>2
  <2>3. CASE Handle \/ SpExit \/ HostBegin
    BY <1>1, <2>3 DEF Handle, SpExit, HostBegin, Fails, CloseServer
  <2>4. QED
    BY <1>8, <2>1, <2>2, <2>3
<1>9. CASE SpPollkey \/ SpGetkey \/ GetRequest \/ DoHeartBeat \/ Beat
  BY <1>1, <1>9 DEF SpPollkey, SpGetkey, GetRequest, DoHeartBeat, Beat, Goto, Fails, CloseServer
<1>10. CASE SendReply
  <2>1. ASSUME NEW s, ProperEnds(s), pc \in {"serve", "send"} PROVE RawMode' /\ RawKnown'
    BY <1>1, <2>1 DEF ProperEnds, ResetTerminal
  <2>2. QED
    BY <1>1, <1>10, <2>1 DEF SendReply, Fails, CloseServer
<1>11. CASE EnterShell \/ Landed \/ CallServer \/ DoQuit \/ Sourcing
  <2>1. CASE EnterShell
    BY <1>1, <2>1 DEF EnterShell
  <2>2. CASE Landed
    BY <1>1, <2>2 DEF Landed, ResetTerminal
  <2>3. CASE CallServer \/ DoQuit
    BY <1>1, <2>3 DEF CallServer, DoQuit, Fails, CloseServer
  <2>5. CASE Sourcing
    BY <1>1, <2>5 DEF Sourcing, DoSource, SourceOpens, SourceFails, Unsource, EndOfFile, FallBack,
                      Stacks
  <2>4. QED
    BY <1>11, <2>1, <2>2, <2>3, <2>5
<1>12. CASE DoOpen \/ DoOpenClosed \/ ReopenOk \/ Opened \/ ReopenFails \/ OpenOk
  BY <1>1, <1>12 DEF DoOpen, Reclosed, DoOpenClosed, ReopenOk, Opened, ReopenFails, OpenOk, Goto
<1>13. QED
  BY <1>2, <1>3, <1>4, <1>5, <1>6, <1>7, <1>8, <1>9, <1>10, <1>11, <1>12 DEF Next, Steps, Others, Sourcing

\* The terminal is raw only while that is known, and in its places.
LEMMA TerminalsStep ==
  ASSUME IInv, [Next]_vars, CalmBreaks
  PROVE  TerminalKnown'
<1> USE DEF TerminalKnown, RawKnown, Outside, Moving, tty, serving, shellvars, link, options
<1>1. TerminalKnown /\ RawKnown /\ BreakAt \cap {"rawget", "rawpoll", "rawbeat", "reclosed", "opened"} = {}
  BY TypesAre DEF IInv, CalmBreaks
<1>2. CASE UNCHANGED vars
  BY <1>1, <1>2 DEF vars
<1>3. CASE Main \/ OpenFails \/ NoMemory \/ BreakHandler
  BY <1>1, <1>3 DEF Main, OpenFails, NoMemory, BreakHandler, CloseServer
<1>4. CASE End \/ Leave \/ BeginClose \/ EndClose \/ Exit
  BY <1>1, <1>4 DEF End, Leave, HostEnd, BeginClose, EndClose, Closed, Exit
<1>5. CASE Sync \/ Parse \/ Reset
  BY <1>1, <1>5 DEF Sync, Synchronous, Parse, Reset, Stage, Goto, Fails, CloseServer
<1>6. CASE Analyse \/ Core \/ ErrorIgnore \/ Boot \/ ErrorMode
  BY <1>1, <1>6 DEF Analyse, Core, ErrorIgnore, Boot, ErrorMode, Stage, Goto, Fails, CloseServer
<1>7. CASE Serve
  <2>1. ASSUME NEW s, ProperEnds(s), pc \in {"serve", "send"} PROVE TerminalKnown'
    BY <1>1, <2>1 DEF ProperEnds, ResetTerminal
  <2>2. QED
    BY <1>1, <1>7, <2>1 DEF Serve, NoBeat, Fails, CloseServer
<1>8. CASE Handle \/ SpReadStdin \/ SpExit \/ HostBegin \/ SetRaw \/ SaidRaw
  <2>1. CASE SpReadStdin
    BY <1>1, <2>1 DEF SpReadStdin, ResetTerminal
  <2>2. CASE SetRaw \/ SaidRaw
    <3>1. CASE SetRaw
      BY <1>1, <3>1 DEF SetRaw
    <3>2. CASE SaidRaw
      BY <1>1, <3>2 DEF SaidRaw
    <3>3. QED
      BY <2>2, <3>1, <3>2
  <2>3. CASE Handle \/ SpExit \/ HostBegin
    BY <1>1, <2>3 DEF Handle, SpExit, HostBegin, Fails, CloseServer
  <2>4. QED
    BY <1>8, <2>1, <2>2, <2>3
<1>9. CASE SpPollkey \/ SpGetkey \/ GetRequest \/ DoHeartBeat \/ Beat
  BY <1>1, <1>9 DEF SpPollkey, SpGetkey, GetRequest, DoHeartBeat, Beat, Goto, Fails, CloseServer
<1>10. CASE SendReply
  <2>1. ASSUME NEW s, ProperEnds(s), pc \in {"serve", "send"} PROVE TerminalKnown'
    BY <1>1, <2>1 DEF ProperEnds, ResetTerminal
  <2>2. QED
    BY <1>1, <1>10, <2>1 DEF SendReply, Fails, CloseServer
<1>11. CASE EnterShell \/ Landed \/ CallServer \/ DoQuit \/ Sourcing
  <2>1. CASE EnterShell
    BY <1>1, <2>1 DEF EnterShell
  <2>2. CASE Landed
    BY <1>1, <2>2 DEF Landed, ResetTerminal
  <2>3. CASE CallServer \/ DoQuit
    BY <1>1, <2>3 DEF CallServer, DoQuit, Fails, CloseServer
  <2>5. CASE Sourcing
    BY <1>1, <2>5 DEF Sourcing, DoSource, SourceOpens, SourceFails, Unsource, EndOfFile, FallBack,
                      Stacks
  <2>4. QED
    BY <1>11, <2>1, <2>2, <2>3, <2>5
<1>12. CASE DoOpen \/ DoOpenClosed \/ ReopenOk \/ Opened \/ ReopenFails \/ OpenOk
  BY <1>1, <1>12 DEF DoOpen, Reclosed, DoOpenClosed, ReopenOk, Opened, ReopenFails, OpenOk, Goto
<1>13. QED
  BY <1>2, <1>3, <1>4, <1>5, <1>6, <1>7, <1>8, <1>9, <1>10, <1>11, <1>12 DEF Next, Steps, Others, Sourcing

\* The memory for the core is there before any command runs.
LEMMA MemoryStep ==
  ASSUME IserverConstants, IInv, [Next]_vars, SameSizes
  PROVE  Memory'
<1> USE DEF Memory, Places, Stages, Requests, Outside, Ending, Prompting, Moving, tty, serving, shellvars, link, options
<1>1. Memory /\ Places
  BY TypesAre DEF IInv
<1>2. CASE UNCHANGED vars
  BY <1>1, <1>2 DEF vars
<1>3. CASE Main \/ OpenFails \/ NoMemory \/ BreakHandler
  BY <1>1, <1>3 DEF Main, OpenFails, NoMemory, BreakHandler, CloseServer
<1>4. CASE End \/ Leave \/ BeginClose \/ EndClose \/ Exit
  BY <1>1, <1>4 DEF End, Leave, HostEnd, BeginClose, EndClose, Closed, Exit
<1>5. CASE Sync \/ Parse \/ Reset
  BY <1>1, <1>5 DEF Sync, Synchronous, Parse, Reset, Stage, Goto, Fails, CloseServer
<1>6. CASE Analyse \/ Core \/ ErrorIgnore \/ Boot \/ ErrorMode
  BY <1>1, <1>6 DEF Analyse, Core, ErrorIgnore, Boot, ErrorMode, Stage, Goto, Fails, CloseServer
<1>7. CASE Serve
  BY <1>1, <1>7 DEF Serve, NoBeat, ProperEnds, ResetTerminal, Fails, CloseServer
<1>8. CASE Handle \/ SpReadStdin \/ SpExit \/ HostBegin \/ SetRaw \/ SaidRaw
  BY <1>1, <1>8 DEF Handle, SpReadStdin, SpExit, HostBegin, SetRaw, SaidRaw, ResetTerminal, Fails,
                    CloseServer
<1>9. CASE SpPollkey \/ SpGetkey \/ GetRequest \/ DoHeartBeat \/ Beat
  BY <1>1, <1>9 DEF SpPollkey, SpGetkey, GetRequest, DoHeartBeat, Beat, Goto, Fails, CloseServer
<1>10. CASE SendReply
  BY <1>1, <1>10 DEF SendReply, Replied, ProperEnds, ResetTerminal, Fails, CloseServer
<1>11. CASE EnterShell \/ Landed \/ CallServer \/ DoQuit \/ Sourcing
  BY <1>1, <1>11 DEF EnterShell, Landed, ResetTerminal, CallServer, DoQuit, OutOfShell, Sourcing, DoSource, SourceOpens,
                     SourceFails, Unsource, EndOfFile, FallBack, Stacks, Fails, CloseServer
<1>12. CASE DoOpen \/ DoOpenClosed \/ ReopenOk \/ Opened \/ ReopenFails
  BY <1>1, <1>12 DEF DoOpen, DoOpenClosed, ReopenOk, Opened, ReopenFails, Goto
<1>13. CASE OpenOk
  <2>1. dump' = opt.size
    BY <1>13 DEF OpenOk, Dump
  <2>2. \E c \in Commands : opt.size = c.size
    BY DEF IInv, Data
  <2>3. \A c \in Commands : c.size <= opt.size
    <3>1. \A c \in Commands : c.size \in Nat /\ c.size = opt.size
      BY <2>2 DEF SameSizes, IserverConstants, Options
    <3>2. QED
      BY <3>1
  <2>4. QED
    BY <2>1, <2>3 DEF Memory
<1>14. QED
  BY <1>2, <1>3, <1>4, <1>5, <1>6, <1>7, <1>8, <1>9, <1>10, <1>11, <1>12, <1>13 DEF Next, Steps, Others, Sourcing


\* Every step keeps the invariant.
LEMMA Step ==
  ASSUME IserverConstants, IInv, [Next]_vars
  PROVE  IInv'
<1>1. TypeOK'
  <2>1. PlaceTypes' /\ SizeTypes' /\ FlagTypes' /\ RawMode' /\ StackFits'
    BY PlacesStep, SizesStep, FlagsStep, RawStep, DataStep
  <2>2. QED
    BY <2>1, TypesAre, PTL
<1>2. CalmBreaks => LinkKnown' /\ TerminalKnown' /\ SourcesOpen'
  BY LinksStep, TerminalsStep, SourcesStep
<1>3. SameSizes => Memory'
  BY MemoryStep
<1>4. Data' /\ Places' /\ KeyWanted' /\ RawKnown'
  BY DataStep, ModesStep, KeysStep, RawStep
<1>5. QED
  BY <1>1, <1>2, <1>3, <1>4, Zenon DEF IInv, CalmBreaks, SameSizes

\* What the invariant says of the properties.
LEMMA Safe ==
  ASSUME IInv
  PROVE  /\ TypeOK /\ InMode /\ KeyWanted /\ JumpsLive
         /\ TtyOpens => ClosedAtEnd
         /\ CalmBreaks => LinkValidTrue /\ TerminalRestored /\ SourcesOpen /\ ReadsOpenSource
         /\ SameSizes => CoreFits
<1>1. TypeOK /\ Data /\ Places /\ KeyWanted
  BY DEF IInv
<1>2. InMode /\ JumpsLive /\ (TtyOpens => ClosedAtEnd)
  BY <1>1 DEF Places, InMode, JumpsLive, ClosedAtEnd, Synchronised
<1>3. ASSUME CalmBreaks PROVE SourcesOpen /\ ReadsOpenSource
  <2>1. SourcesOpen
    BY <1>3 DEF IInv
  <2>2. pc = "prompt" => Len(ShIn) \in 1 .. Len(ShIn) /\ pc \notin Moving
    BY <1>1 DEF Data, Places, Prompting, Moving
  <2>3. QED
    BY <2>1, <2>2 DEF SourcesOpen, ReadsOpenSource
<1>4. ASSUME CalmBreaks PROVE LinkValidTrue /\ TerminalRestored
  <2>1. LinkKnown /\ TerminalKnown
    BY <1>4 DEF IInv
  <2>2. QED
    BY <1>1, <2>1 DEF Places, LinkKnown, TerminalKnown, LinkValidTrue, TerminalRestored, Prompting
<1>5. ASSUME SameSizes PROVE CoreFits
  <2>1. Memory
    BY <1>5 DEF IInv
  <2>2. QED
    BY <1>1, <2>1 DEF Memory, Data, Stages, CoreFits
<1>6. QED
  BY <1>1, <1>2, <1>3, <1>4, <1>5

\* For any commands, any number of sources and breaks in any place: OPS_* is
\* called in the mode that allows the call, the target is told of a key once
\* and only when it asks, and a jump lands in a shell that has not returned.
\* That LinkValid is right, the terminal set back and what the shell reads
\* commands from open needs breaks that leave the pairs of steps alone that
\* CalmBreaks names; that a core fits needs commands that dump as much as the
\* first.
THEOREM ShellAndLoop ==
  ASSUME IserverConstants
  PROVE  Spec => [](/\ TypeOK /\ InMode /\ KeyWanted /\ JumpsLive
                    /\ TtyOpens => ClosedAtEnd
                    /\ CalmBreaks => LinkValidTrue /\ TerminalRestored /\ SourcesOpen /\ ReadsOpenSource
                    /\ SameSizes => CoreFits)
<1>1. Init => IInv
  BY Start
<1>2. IInv /\ [Next]_vars => IInv'
  BY Step
<1>3. QED
  BY <1>1, <1>2, Safe, PTL DEF Spec

=============================================================================
