-------------------------------- MODULE MCMux --------------------------------
(* The two servers of the examples that take their clients in turn: the       *)
(* multiplexer of the host, which this module extends, and beside it the      *)
(* server of FAIRSERV.C and that of UPSERVE.C.  A behaviour is of the server  *)
(* that it starts with; the other's variables hold 0, or their first values.  *)
EXTENDS HostMux

VARIABLES
  part,                                                    \* "mux", "fair" or "up"
  worker, letter, server, k, serving, run, printed, waits  \* of FairServer

fairs == <<worker, letter, server, k, serving, run, printed, waits>>

Fair == INSTANCE FairServer WITH Hello <- 7, World <- 6, Scan <- TRUE, Runs <- 2, passed <- waits
Up   == INSTANCE FairServer WITH Hello <- 7, World <- 6, Scan <- FALSE, Runs <- 2, passed <- waits

ASSUME ServerConstants == Fair!FairConstants /\ Up!FairConstants

MCInit ==
  /\ part \in {"mux", "fair", "up"}
  /\ Init /\ (part # "mux" => ends = [c \in Clients |-> Success])
  /\ CASE part = "fair" -> Fair!Init
       [] part = "up" -> Up!Init
       [] part = "mux" ->
            /\ worker = 0 /\ letter = 0 /\ server = 0 /\ k = 0 /\ serving = 0 /\ run = 0
            /\ printed = 0 /\ waits = 0

\* main has ended with exit, and the server with it.
Exited == part # "mux" /\ run = 3 /\ UNCHANGED <<part, vars, fairs>>

MCNext ==
  \/ part = "mux" /\ Next /\ UNCHANGED <<part, fairs>>
  \/ part = "fair" /\ Fair!Next /\ UNCHANGED <<part, vars>>
  \/ part = "up" /\ Up!Next /\ UNCHANGED <<part, vars>>
  \/ Exited

\* The multiplexer is scheduled, and the host answers; every process of the
\* other two that can run is scheduled.
Multiplexer ==
  /\ part = "mux" /\ (Receive \/ TakeExit \/ PassOn \/ PassBack \/ Reply \/ SpExit)
  /\ UNCHANGED <<part, fairs>>
Server ==
  \/ part = "fair" /\ (Fair!Alt \/ Fair!In \/ Fair!Out \/ Fair!Search) /\ UNCHANGED <<part, vars>>
  \/ part = "up" /\ (Up!Alt \/ Up!In \/ Up!Out \/ Up!Search) /\ UNCHANGED <<part, vars>>
Worker(w) ==
  /\ part # "mux" /\ UNCHANGED <<part, vars>>
  /\ Fair!Loop(w) \/ (w = 1 /\ Fair!PrintHello) \/ (w = 2 /\ Fair!PrintWorld)
MainProgram == part # "mux" /\ Fair!NextRun /\ UNCHANGED <<part, vars>>

MCSpec ==
  /\ MCInit /\ [][MCNext]_<<part, vars, fairs>>
  /\ WF_<<part, vars, fairs>>(Multiplexer) /\ WF_<<part, vars, fairs>>(Server)
  /\ WF_<<part, vars, fairs>>(MainProgram)
  /\ \A w \in {1, 2} : WF_<<part, vars, fairs>>(Worker(w))

-----------------------------------------------------------------------------
\* The host is told of the exit once, when every program has left and been
\* answered, with the status of one that failed, if one did; and the two words
\* are on the screen in turn, of whichever server the workers are clients.  A
\* worker of the fair server waits for one letter of the other at most.
ClientsServed ==
  /\ TypeOK /\ ExitsLast
  /\ part = "fair" => Fair!TypeOK /\ Fair!WordsInTurn /\ Fair!OvertakenOnce
  /\ part = "up" => Up!TypeOK /\ Up!WordsInTurn

\* A program that asks is answered by the multiplexer, and the workers' main
\* comes to its end.
AllAnswered ==
  /\ \A c \in Clients : part = "mux" /\ client[c] = "asks" ~> client[c] \in {"runs", "gone"}
  /\ (part # "mux") ~> (part # "mux" /\ run = 3 /\ Len(printed) = 4)
=============================================================================
