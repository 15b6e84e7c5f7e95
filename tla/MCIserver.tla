----------------------------- MODULE MCIserver ------------------------------
(***************************************************************************)
(* The iserver, part by part: its main program with the request loop and   *)
(* the shell, its command line, and its table of open files under the      *)
(* programs it serves.  A behaviour is of the part that it starts with,    *)
(* and the variables of the others hold 0.  Two parts may be the same      *)
(* module with other constants.                                            *)
(***************************************************************************)
EXTENDS Integers, Sequences

CONSTANTS
  MaxFiles, HostFiles,     \* of the table of a program outside the shell
  ShellSlots, ShellFiles,  \* of the table of the programs in the shell
  Programs                 \* bound: programs that are run

VARIABLES
  part,
  \* Iserver
  mode, told, dump, LinkValid, InShell, frame, jumped, ShIn, HeartBeat, polled, owed,
  leaving, raw, TermMode, closes, status,
  \* CommandLine
  argv, FullArgv, ServerArg, taken, doctored,
  \* of both
  pc, line, opt,
  \* FileTable
  FileInfo, streams, running, runs, lost, twice, answer

mainOwn == <<mode, told, dump, LinkValid, InShell, frame, jumped, ShIn, HeartBeat, polled, owed,
             leaving, raw, TermMode, closes, status>>
lineOwn == <<argv, FullArgv, ServerArg, taken, doctored>>
tablesOwn == <<FileInfo, streams, running, runs, lost, twice>>
tableOwn == <<tablesOwn, answer>>
vars == <<part, mainOwn, lineOwn, pc, line, opt, tableOwn>>

-----------------------------------------------------------------------------
\* The options of iserver -sb, -sb -se, -sa -ss, -sm and none, and others.
None == [session |-> FALSE, retry |-> FALSE, reset |-> FALSE, analyse |-> FALSE,
         load |-> FALSE, serve |-> FALSE, error |-> FALSE, size |-> 8]
SB == [None EXCEPT !.reset = TRUE, !.load = TRUE, !.serve = TRUE]
SBE == [SB EXCEPT !.error = TRUE]
SA == [None EXCEPT !.analyse = TRUE, !.serve = TRUE]
SAP == [SA EXCEPT !.size = 16]
SRA == [SA EXCEPT !.reset = TRUE]
SM == [None EXCEPT !.session = TRUE]
SMK == [SM EXCEPT !.retry = TRUE]

\* A break may come anywhere but between the two steps of making the terminal
\* raw, of closing a connection, of opening it again, and of putting a source on
\* the stack or taking it off: see the README.
Places ==
  {"start", "opening", "ended", "closing", "closed", "sync", "parse", "reset", "analyse", "core",
   "ignore", "boot", "errormode", "serve", "get", "handle", "key", "poll", "beat", "send", "enter",
   "prompt", "reopen", "landed"}

Main ==
  INSTANCE Iserver WITH
    Commands <- {None, SB, SBE, SAP, SRA, SMK}, TcpLink <- TRUE, BreakAt <- Places,
    Sources <- 3, TtyOpens <- TRUE
Session ==
  INSTANCE Iserver WITH
    Commands <- {SM, SMK, SBE, SA}, TcpLink <- TRUE, BreakAt <- Places, Sources <- 2, TtyOpens <- TRUE

\* Words of each kind: plain, with a blank, in quotes, a redirection, an empty
\* one, and the options.
SomeWords ==
  {<<>>, <<"x">>, <<"x", " ", "x">>, <<"q", "q">>, <<"q", "x", "q">>, <<"q", "x", " ", "x", "q">>,
   <<"<", "x">>, <<">", "&">>, <<"-", "s", "a">>, <<"-", "s", "b">>, <<"-", "s", "t">>, <<"-", "u">>}
Words ==
  INSTANCE CommandLine WITH
    Words <- SomeWords, MaxWords <- 4, Typed <- FALSE, MaxTyped <- 0, MaxLine <- 18, MaxString <- 16

\* A program outside the shell that may leave its files open, with a table that
\* is never full, and programs in the shell that may fill it.
Table ==
  INSTANCE FileTable WITH
    MaxFiles <- MaxFiles, HostFiles <- HostFiles, Shell <- FALSE, Programs <- Programs, Uses <- {"leave"}
Tables ==
  INSTANCE FileTable WITH
    MaxFiles <- ShellSlots, HostFiles <- ShellFiles, Shell <- TRUE, Programs <- Programs,
    Uses <- {"outside"}

ASSUME PartConstants == Main!IserverConstants /\ Session!IserverConstants
ASSUME TableConstants ==
  /\ Table!FileTableConstants /\ Tables!FileTableConstants
  /\ HostFiles + 3 <= MaxFiles

TableParts == {"table", "tables"}

-----------------------------------------------------------------------------
InitOwn ==
  CASE part = "main" -> Main!Init   [] part = "session" -> Session!Init [] part = "words" -> Words!Init
    [] part = "table" -> Table!Init [] part = "tables" -> Tables!Init

MainAway ==
  /\ mode = 0 /\ told = 0 /\ dump = 0 /\ LinkValid = 0 /\ InShell = 0 /\ frame = 0
  /\ jumped = 0 /\ ShIn = 0 /\ HeartBeat = 0 /\ polled = 0 /\ owed = 0 /\ leaving = 0
  /\ raw = 0 /\ TermMode = 0 /\ closes = 0 /\ status = 0
LineAway == argv = 0 /\ FullArgv = 0 /\ ServerArg = 0 /\ taken = 0 /\ doctored = 0
TableAway ==
  FileInfo = 0 /\ streams = 0 /\ running = 0 /\ runs = 0 /\ lost = 0 /\ twice = 0

InitOthers ==
  /\ IF part \in {"main", "session"} THEN TRUE ELSE MainAway
  /\ IF part = "words" THEN TRUE ELSE LineAway
  /\ IF part \in TableParts THEN pc = 0 /\ line = 0 /\ opt = 0 ELSE TableAway /\ answer = 0

Init == part \in {"main", "session", "words"} \cup TableParts /\ InitOwn /\ InitOthers

\* What stays as it is while a part takes its steps.
MainAlone  == UNCHANGED <<part, lineOwn, tableOwn>>
LineAlone  == UNCHANGED <<part, mainOwn, tableOwn>>
TableAlone == UNCHANGED <<part, mainOwn, lineOwn, pc, line, opt>>

Next ==
  \/ part = "main" /\ Main!Next /\ MainAlone
  \/ part = "session" /\ Session!Next /\ MainAlone
  \/ part = "words" /\ Words!Next /\ LineAlone
  \/ part = "table" /\ Table!Next /\ TableAlone
  \/ part = "tables" /\ Tables!Next /\ TableAlone

\* The iserver runs, and a resource that is waited for comes free again and
\* again; nothing is said of the user and of the target.
Steps == part = "session" /\ Session!Steps /\ MainAlone
Freed == part = "session" /\ Session!OpenOk /\ MainAlone
FreedAgain == part = "session" /\ Session!ReopenOk /\ MainAlone

Fairness == WF_vars(Steps) /\ SF_vars(Freed) /\ SF_vars(FreedAgain)

Spec == Init /\ [][Next]_vars /\ Fairness

-----------------------------------------------------------------------------
\* OPS_* is called in the mode that allows the call, and only a target that has
\* asked for a key, and was not told of one since, is told of one.
CallsInMode ==
  /\ part = "main" => Main!InMode /\ Main!KeyWanted
  /\ part = "session" => Session!InMode /\ Session!KeyWanted

\* However errors jump to SafePlace, and breaks from the places above: the
\* shell() they jump into has not returned, its LinkValid tells whether there is
\* a connection, and the command sources on its stack are open, but for one on
\* its way there or from there.  Neither a user at the prompt nor one
\* whose iserver has ended is left with a raw terminal, and an iserver that ends
\* leaves no connection.  A core that is dumped fits in the memory for it.
ShellHolds ==
  /\ part = "main" => /\ Main!TypeOK /\ Main!JumpsLive /\ Main!LinkValidTrue /\ Main!SourcesOpen
                      /\ Main!TerminalRestored /\ Main!ClosedAtEnd
  /\ part = "session" => Session!JumpsLive /\ Session!LinkValidTrue /\ Session!SourcesOpen /\ Session!CoreFits

\* A request is answered, or its session fails, unless it waits for a key; and
\* waiting for a resource ends.
SessionGoesOn ==
  /\ part = "session" /\ owed ~> part = "session" /\ (~ owed \/ pc = "key")
  /\ part = "session" /\ pc \in {"opening", "reopen"}
       ~> part = "session" /\ pc \notin {"opening", "reopen"}

\* The words of the user that are not the server's reach the program, in both
\* forms it can ask for them.
ProgramGetsItsWords ==
  part = "words" => Words!TypeOK /\ Words!RealSplitsBack /\ Words!ProgramGetsItsWords /\ Words!TwoWaysAgree

\* Every file the iserver has opened is in its table, once, no call works on a
\* file that is not open, and none is closed, nor its buffer freed, twice; over
\* the programs in the shell no record that has to be written is dropped.
TableHolds ==
  /\ part = "table" => Table!TypeOK /\ Table!AllListed /\ Table!OnlyOpen /\ Table!ClosedOnce
  /\ part = "tables" => Tables!NothingLost

\* The host never sees a read right after a write, or a write right after a
\* read, of one file, through whatever slots and calls it comes.
HostTurns ==
  [][part = "table" =>
       \A s \in Table!Open \cap DOMAIN streams' :
         /\ streams[s] = "write" => streams'[s] # "read"
         /\ streams[s] = "read" => streams'[s] # "write"]_vars
=============================================================================
