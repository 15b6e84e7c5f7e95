------------------------------- MODULE Iserver -------------------------------
(***************************************************************************)
(* The iserver's main program, its request loop and the session shell,     *)
(* ISERVER.C, SERVE.C, BOOT.C, MISC.C and SH.C, over what they see of      *)
(* OPS_*: a communication mode, and calls that succeed or fail.  Between   *)
(* any two steps a break may come where BreakAt allows one.  The table of  *)
(* files is in FileTable.                                                  *)
(***************************************************************************)
EXTENDS Integers, Sequences

CONSTANTS
  Commands,    \* option records: session, retry, reset, analyse, load, serve, error, size
  TcpLink,     \* LinkMethod is TCP_LINKOPS
  BreakAt,     \* places, as values of pc, where a break may come
  Sources,     \* MAX_SOURCES
  TtyOpens     \* the shell can open the terminal

Options ==
  [session : BOOLEAN, retry : BOOLEAN, reset : BOOLEAN, analyse : BOOLEAN, load : BOOLEAN,
   serve : BOOLEAN, error : BOOLEAN, size : Nat]

\* What the constants are; the module that gives them assumes it.
IserverConstants ==
  /\ Commands \subseteq Options
  /\ {TcpLink, TtyOpens} \subseteq BOOLEAN /\ Sources \in Nat \ {0}

VARIABLES
  pc,        \* where the iserver is
  mode,      \* OPScommsmode
  line,      \* the options of the command to be run, or running
  opt,       \* the options parsed last: the switches, RetryTime and CoreSize
  told,      \* the options the iserver was started with
  dump,      \* size of the memory behind CoreDump
  LinkValid, InShell,
  frame,     \* shell() is active, so that SafePlace can be jumped to
  jumped,    \* a jump went to a frame that is gone
  ShIn,      \* the stack of command sources: open, or not in one of three ways
  HeartBeat, \* there is a heartbeat function
  polled,    \* the target waits to be told of a key
  owed,      \* a request is not answered
  leaving,   \* the request is SP.EXIT
  raw,       \* the terminal is raw
  TermMode,  \* "org" or "get"
  closes,    \* calls of OPS_Close under way
  status     \* exit status

vars == <<pc, mode, line, opt, told, dump, LinkValid, InShell, frame, jumped, ShIn,
          HeartBeat, polled, owed, leaving, raw, TermMode, closes, status>>

tty == <<raw, TermMode>>
serving == <<HeartBeat, polled, owed, leaving>>
shellvars == <<InShell, frame, jumped, ShIn>>
link == <<mode, LinkValid, closes>>
options == <<line, opt, told, dump>>

Stages == {"sync", "parse", "reset", "analyse", "core", "ignore", "boot", "errormode", "serve"}
Requests == {"get", "handle", "rawget", "rawpoll", "rawbeat", "key", "poll", "beat", "send"}
Moving == {"sourcing", "unsourcing", "popping"}
Shells == {"enter", "prompt", "reopen", "reclosed", "opened", "landed"} \cup Moving

TypeOK ==
  /\ pc \in {"start", "opening", "ended", "leaving", "inclose", "closing", "closed", "done"} \cup Stages \cup Requests \cup Shells
  /\ mode \in {"closed", "sync", "async"}
  /\ {line, told} \subseteq Commands /\ dump \in Nat
  /\ {LinkValid, InShell, frame, jumped, HeartBeat, polled, owed, leaving, raw} \subseteq BOOLEAN
  /\ ShIn \in Seq({"open", "stale", "null", "closed"}) /\ Len(ShIn) <= Sources /\ TermMode \in {"org", "get"} /\ (TermMode = "get" => raw \/ pc = "done")
  /\ closes \in 0 .. 2 /\ status \in {"unset", "misc", "ok", "user", "errorflag", "program"}

-----------------------------------------------------------------------------
(* Starting, and failing *)

Init ==
  /\ pc = "start" /\ mode = "closed" /\ LinkValid = TRUE /\ closes = 0
  /\ line \in Commands /\ opt = line /\ told = line /\ dump = 0
  /\ InShell = FALSE /\ frame = FALSE /\ jumped = FALSE /\ ShIn = <<>>
  /\ HeartBeat = FALSE /\ polled = FALSE /\ owed = FALSE /\ leaving = FALSE
  /\ raw = FALSE /\ TermMode = "org" /\ status = "misc"

\* close_server: to the shell if InShell, else on to closing.
CloseServer(s) ==
  /\ status' = s
  /\ pc' = IF InShell THEN "landed" ELSE "closing"
  /\ jumped' = (jumped \/ (InShell /\ ~ frame))
  /\ owed' = FALSE
  /\ UNCHANGED <<InShell, frame, ShIn, HeartBeat, polled, leaving>>

\* main up to OPS_Open.  No link is named, or there are too many options.
Main ==
  /\ pc = "start" /\ UNCHANGED <<link, options, tty>>
  /\ \/ pc' = "opening" /\ UNCHANGED <<shellvars, serving, status>>
     \/ CloseServer("misc")

Dump(c) == c.size

\* OPS_Open, and the memory for the core.
OpenOk ==
  /\ pc = "opening" /\ mode' = "sync" /\ dump' = Dump(opt)
  /\ pc' = IF opt.session THEN "enter" ELSE "sync"
  /\ UNCHANGED <<LinkValid, closes, line, opt, told, shellvars, serving, tty, status>>

NoMemory ==
  /\ pc = "opening" /\ mode' = "sync" /\ CloseServer("misc")
  /\ UNCHANGED <<LinkValid, closes, options, tty>>

\* Without a retry time the iserver ends; with one it sleeps and tries again.
OpenFails ==
  /\ pc = "opening" /\ ~ opt.retry /\ CloseServer("misc")
  /\ UNCHANGED <<link, options, tty>>

BreakHandler ==
  /\ pc \in BreakAt /\ pc \notin {"leaving", "done"}
  /\ CloseServer("user")
  /\ UNCHANGED <<mode, LinkValid, closes, options, tty>>

-----------------------------------------------------------------------------
(* Ending *)

\* main after the shell or server_proper: SIGINT is ignored from here.
End ==
  /\ pc = "ended" /\ pc' = "leaving"
  /\ UNCHANGED <<link, options, shellvars, serving, tty, status>>

ResetTerminal == raw' = (raw /\ TermMode = "org") /\ TermMode' = "org"

HostEnd == raw' = FALSE /\ UNCHANGED TermMode

Leave ==
  /\ pc = "leaving" /\ HostEnd /\ mode' = "closed" /\ pc' = "done"
  /\ UNCHANGED <<LinkValid, closes, options, shellvars, serving, status>>

\* close_server outside the shell.  OPS_Close takes its time.
BeginClose ==
  /\ pc = "closing" /\ pc' = "inclose" /\ closes < 2 /\ closes' = closes + 1
  /\ UNCHANGED <<mode, LinkValid, options, shellvars, serving, tty, status>>

Closed == "closed"
Reclosed == "closed"

EndClose ==
  /\ pc = "inclose" /\ pc' = "closed" /\ mode' = Closed /\ closes' = 0
  /\ UNCHANGED <<LinkValid, options, shellvars, serving, tty, status>>

Exit ==
  /\ pc = "closed" /\ HostEnd /\ pc' = "done"
  /\ UNCHANGED <<link, options, shellvars, serving, status>>

-----------------------------------------------------------------------------
(* server_proper *)

Goto(p) == pc' = p /\ UNCHANGED <<options, shellvars, serving, tty, status>>
Fails(p, s) == pc = p /\ CloseServer(s) /\ UNCHANGED <<link, options, tty>>

Synchronous == "sync"

\* An error transition counts as success.
Sync ==
  \/ pc = "sync" /\ mode # "closed" /\ mode' = Synchronous /\ Goto("parse") /\ UNCHANGED <<LinkValid, closes>>
  \/ Fails("sync", "misc")

\* The switches are cleared and set anew; a bad option fails.
Parse ==
  \/ /\ pc = "parse" /\ opt' = line
     /\ ~ (line.reset /\ line.analyse) /\ pc' = "reset"
     /\ UNCHANGED <<link, line, told, dump, shellvars, serving, tty, status>>
  \/ pc = "parse" /\ opt' = line /\ CloseServer("misc") /\ UNCHANGED <<link, line, told, dump, tty>>

\* A stage that is asked for calls OPS_*, which succeeds or not; the others
\* are passed over.
Stage(p, asked, next) ==
  \/ pc = p /\ Goto(next) /\ (asked => mode = "sync") /\ UNCHANGED link
  \/ asked /\ Fails(p, "misc")

\* A target that is reset waits for no key.
Reset ==
  \/ /\ pc = "reset" /\ opt.reset /\ mode = "sync" /\ pc' = "analyse" /\ polled' = FALSE
     /\ UNCHANGED <<link, options, shellvars, HeartBeat, owed, leaving, tty, status>>
  \/ ~ opt.reset /\ Stage("reset", FALSE, "analyse")
  \/ opt.reset /\ Fails("reset", "misc")

Analyse == Stage("analyse", opt.analyse, "core")
Core == Stage("core", opt.analyse, "ignore")
ErrorIgnore == Stage("ignore", opt.load, "boot")
Boot == Stage("boot", opt.load, "errormode")
ErrorMode == Stage("errormode", TRUE, "serve")

ProperEnds(s) ==
  /\ ResetTerminal /\ status' = s
  /\ pc' = IF InShell THEN "prompt" ELSE "ended"

\* Serve, or nothing to serve: with no action at all the status is not set.
KeepBeating == HeartBeat                    \* mutant
NoBeat == FALSE

Serve ==
  \/ /\ pc = "serve" /\ opt.serve /\ HeartBeat' = NoBeat /\ mode # "closed" /\ mode' = "async" /\ pc' = "get"
     /\ leaving' = FALSE
     /\ UNCHANGED <<LinkValid, closes, options, shellvars, polled, owed, tty, status>>
  \/ opt.serve /\ Fails("serve", "misc")
  \/ /\ pc = "serve" /\ ~ opt.serve
     /\ ProperEnds(IF opt.reset \/ opt.analyse \/ opt.load \/ opt.error THEN "misc" ELSE "unset")
     /\ UNCHANGED <<link, options, shellvars, serving>>

-----------------------------------------------------------------------------
(* The request loop *)

GetRequest ==
  \/ /\ pc = "get" /\ ~ owed /\ owed' = TRUE /\ pc' = "handle"
     /\ UNCHANGED <<link, options, shellvars, HeartBeat, polled, leaving, tty, status>>
  \/ Fails("get", "misc")
  \/ opt.error /\ Fails("get", "errorflag")

\* DoHeartBeat polls the terminal, raw again, while a request is waited for.
DoHeartBeat ==
  /\ pc = "get" /\ HeartBeat /\ pc' = "rawbeat" /\ raw' = TRUE
  /\ UNCHANGED <<link, options, shellvars, serving, TermMode, status>>

\* There is no key, or the target is told of it, which may fail.
Beat ==
  \/ pc = "beat" /\ Goto("get") /\ UNCHANGED link
  \/ /\ pc = "beat" /\ pc' = "get" /\ HeartBeat' = FALSE /\ polled' = FALSE
     /\ UNCHANGED <<link, options, shellvars, owed, leaving, tty, status>>
  \/ Fails("beat", "misc")

\* Of most commands the loop sees nothing but that they set the reply.
Handle ==
  /\ pc = "handle" /\ pc' = "send"
  /\ UNCHANGED <<link, options, shellvars, serving, tty, status>>

\* Reading stdin sets the terminal back first.
SpReadStdin ==
  /\ pc = "handle" /\ pc' = "send" /\ ResetTerminal
  /\ UNCHANGED <<link, options, shellvars, serving, status>>

SpExit ==
  /\ pc = "handle" /\ pc' = "send" /\ leaving' = TRUE /\ opt' = [opt EXCEPT !.error = FALSE]
  /\ UNCHANGED <<link, line, told, dump, shellvars, HeartBeat, polled, owed, tty, status>>

\* HostBegin, before the first key: there is no terminal.
HostBegin == Fails("handle", "misc")

\* GetAKey and PollKey make the terminal raw, and then say so.
SetRaw ==
  /\ pc = "handle" /\ pc' \in {"rawget", "rawpoll"} /\ raw' = TRUE
  /\ UNCHANGED <<link, options, shellvars, serving, TermMode, status>>

SaidRaw ==
  /\ \/ pc = "rawget" /\ pc' = "key"
     \/ pc = "rawpoll" /\ pc' = "poll"
     \/ pc = "rawbeat" /\ pc' = "beat"
  /\ TermMode' = "get"
  /\ UNCHANGED <<link, options, shellvars, serving, raw, status>>

\* A key is struck.  If the target waits to be told, it is told, and then
\* answered.
SpGetkey ==
  \/ /\ pc = "key" /\ pc' = "send" /\ HeartBeat' = FALSE
     /\ polled' = (polled /\ ~ HeartBeat)
     /\ UNCHANGED <<link, options, shellvars, owed, leaving, tty, status>>
  \/ HeartBeat /\ Fails("key", "misc")

SpPollkey ==
  /\ pc = "poll" /\ pc' = "send"
  /\ \E key \in BOOLEAN : HeartBeat' = (~ key /\ TcpLink) /\ polled' = (~ key /\ TcpLink)
  /\ UNCHANGED <<link, options, shellvars, owed, leaving, tty, status>>

NoReply == UNCHANGED owed                   \* mutant: the command returns to the loop at once
Replied == owed' = FALSE

SendReply ==
  \/ /\ pc = "send" /\ ~ leaving /\ Replied /\ pc' = "get"
     /\ UNCHANGED <<link, options, shellvars, HeartBeat, polled, leaving, tty, status>>
  \/ /\ pc = "send" /\ leaving /\ Replied /\ ProperEnds("program")
     /\ UNCHANGED <<link, options, shellvars, HeartBeat, polled, leaving>>
  \/ Fails("send", "misc")
  \/ opt.error /\ Fails("send", "errorflag")

-----------------------------------------------------------------------------
(* The shell *)

EnterShell ==
  /\ pc = "enter" /\ UNCHANGED <<link, options, jumped, serving, tty>>
  /\ IF TtyOpens
     THEN pc' = "prompt" /\ InShell' = TRUE /\ frame' = TRUE /\ ShIn' = <<"open">> /\ UNCHANGED status
     ELSE pc' = "done" /\ status' = "misc" /\ UNCHANGED <<InShell, frame, ShIn>>

\* Where close_server and BreakHandler jump to.
Landed ==
  /\ pc = "landed" /\ pc' = "prompt" /\ ResetTerminal
  /\ mode' \in IF mode = "closed" THEN {mode} ELSE {mode, "sync"}
  /\ UNCHANGED <<LinkValid, closes, options, shellvars, serving, status>>

CallServer ==
  \/ /\ pc = "prompt" /\ LinkValid /\ line' \in Commands /\ pc' = "sync"
     /\ UNCHANGED <<link, opt, told, dump, shellvars, serving, tty, status>>
  \/ LinkValid /\ Fails("prompt", "misc")

DoOpen ==
  /\ pc = "prompt"
  /\ IF LinkValid THEN mode' = Reclosed /\ pc' = "reclosed" ELSE pc' = "reopen" /\ UNCHANGED mode
  /\ UNCHANGED <<LinkValid, closes, options, shellvars, serving, tty, status>>

DoOpenClosed ==
  /\ pc = "reclosed" /\ LinkValid' = FALSE /\ Goto("reopen") /\ UNCHANGED <<mode, closes>>

ReopenOk ==
  /\ pc = "reopen" /\ mode = "closed" /\ mode' = "sync" /\ Goto("opened") /\ UNCHANGED <<LinkValid, closes>>

Opened ==
  /\ pc = "opened" /\ LinkValid' = TRUE /\ Goto("prompt") /\ UNCHANGED <<mode, closes>>

ReopenFails ==
  /\ pc = "reopen" /\ ~ opt.retry /\ Goto("prompt") /\ UNCHANGED link

Room == Len(ShIn) < Sources

\* The shell goes on at p with another stack of sources.
Stacks(p, stack) ==
  /\ ShIn' = stack /\ pc' = p
  /\ UNCHANGED <<link, options, InShell, frame, jumped, serving, tty, status>>

Top(f) == [ShIn EXCEPT ![Len(ShIn)] = f]
Popped == SubSeq(ShIn, 1, Len(ShIn) - 1)

\* A script, at most Sources of them.  The stack grows before the file is
\* opened: until then the slot holds whatever it held.
DoSource == pc = "prompt" /\ Room /\ Stacks("sourcing", Append(ShIn, "stale"))
SourceOpens == pc = "sourcing" /\ Stacks("prompt", Top("open"))
SourceFails == pc = "sourcing" /\ Stacks("unsourcing", Top("null"))

Unstacked == Popped

Unsource == pc = "unsourcing" /\ Stacks("prompt", Unstacked)

\* A script ends: it is closed, and then the stack shrinks.
EndOfFile == pc = "prompt" /\ Len(ShIn) > 1 /\ Stacks("popping", Top("closed"))
FallBack == pc = "popping" /\ Stacks("prompt", Popped)

StillIn == TRUE                             \* mutant: InShell outlives the shell
OutOfShell == FALSE

DoQuit ==
  /\ pc = "prompt" /\ InShell' = OutOfShell /\ frame' = FALSE /\ pc' = "ended" /\ status' = "ok"
  /\ UNCHANGED <<link, options, jumped, ShIn, serving, tty>>

-----------------------------------------------------------------------------
Steps ==
  \/ Main \/ OpenFails \/ End \/ Leave \/ BeginClose \/ EndClose \/ Exit
  \/ Sync \/ Parse \/ Reset \/ Analyse \/ Core \/ ErrorIgnore \/ Boot \/ ErrorMode \/ Serve
  \/ Handle \/ SpReadStdin \/ SpExit \/ HostBegin \/ SetRaw \/ SaidRaw \/ SpPollkey \/ Beat \/ SendReply
  \/ EnterShell \/ Landed \/ DoOpenClosed \/ Opened \/ ReopenFails
  \/ SourceOpens \/ SourceFails \/ Unsource \/ FallBack

Others ==
  \/ OpenOk \/ NoMemory \/ ReopenOk \/ GetRequest \/ DoHeartBeat \/ SpGetkey \/ BreakHandler
  \/ CallServer \/ DoOpen \/ DoSource \/ EndOfFile \/ DoQuit

Next == Steps \/ Others

Spec == Init /\ [][Next]_vars

-----------------------------------------------------------------------------
\* The shell's LinkValid tells whether there is a connection, whenever it is
\* looked at.
LinkValidTrue == pc = "prompt" => (LinkValid <=> mode # "closed")

\* OPS_* is called in the mode that allows the call.
InMode ==
  /\ pc \in {"reset", "analyse", "core", "ignore", "boot", "errormode"} => mode = "sync"
  /\ pc \in Requests => mode = "async"

\* Neither a user at the prompt nor one whose iserver has ended is left with a
\* raw terminal.
TerminalRestored == pc \in {"prompt", "reopen", "done"} => ~ raw

\* A jump to SafePlace lands in a shell() that has not returned.
JumpsLive == ~ jumped

\* Only a target that has asked for a key, and was not told of one since, is
\* told of one.
KeyWanted == pc \in Requests => (HeartBeat => polled)

\* The core that is peeked fits in the memory for it.
CoreFits == pc = "core" /\ opt.analyse => opt.size <= dump

\* Every command source on the stack is open, but for the one on its way to it
\* or from it.
SourcesOpen == \A i \in 1 .. Len(ShIn) : ShIn[i] = "open" \/ (i = Len(ShIn) /\ pc \in Moving)

\* What the shell reads its next command from is open.
ReadsOpenSource == pc = "prompt" => ShIn[Len(ShIn)] = "open"

\* The iserver does not end with an open connection.
ClosedAtEnd == pc = "done" => mode = "closed"

\* A connection that is being closed is not closed in the middle of it.
ClosedOnce == closes < 2

\* The open command retries if the iserver was told to.
RetriesAsTold == [][pc = "reopen" /\ pc' = "prompt" => ~ told.retry]_vars

=============================================================================
