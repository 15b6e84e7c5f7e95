----------------------------- MODULE FairServer -----------------------------
(* FAIRSERV.C: two workers give a server the letters of their words, one by  *)
(* one, and wait for each to come back; the second prints its word when the  *)
(* first has printed its own.  main runs the two twice, then exits, and the  *)
(* server, which never ends, with it.  The server takes the first channel    *)
(* that is ready, then goes on through the rest of its array before it       *)
(* starts again at the front; UPSERVE.C's starts again at once.              *)
EXTENDS ChannelLists, FiniteSets

CONSTANTS
  Hello,     \* the letters in the word of hello_proc, worker 1
  World,     \* and of world_proc, worker 2
  Scan,      \* TRUE: FAIRSERV.C; FALSE: UPSERVE.C
  Runs       \* the ProcPar calls of main

Workers == {1, 2}

\* What the constants are; the module that gives them assumes it.  A worker's
\* channel is no NULL.
FairConstants ==
  /\ Hello \in Nat \ {0} /\ World \in Nat \ {0}
  /\ Runs \in Nat \ {0} /\ Scan \in BOOLEAN
  /\ Null \notin Workers

Letters == <<Hello, World>>

VARIABLES
  worker,    \* where each is: "ask", "reply", "busy", "print", "sync" or "over"
  letter,    \* letters it has had back
  server,    \* where the server is: "alt", "in", "out" or "scan"
  k,         \* its k: the place the rest of the array begins at, from 1
  serving,   \* the argument of serve
  run,       \* the ProcPar that main is in; Runs + 1: it has exited
  printed,   \* the words on the screen
  passed     \* history: letters of the other taken while a worker asks

vars == <<worker, letter, server, k, serving, run, printed, passed>>

Init ==
  /\ worker = [w \in Workers |-> "busy"]
  /\ letter = [w \in Workers |-> 0]
  /\ server = "alt" /\ k = 1 /\ serving = 1
  /\ run = 1 /\ printed = <<>>
  /\ passed = [w \in Workers |-> 0]

Asking == {w \in Workers : worker[w] = "ask"}
Channels == CreateChannels(<<1, 2>>)

\* k = ProcAltList (ins)
Alt ==
  /\ server = "alt"
  /\ \E i \in AltEnds(Channels, Asking, TRUE) : serving' = i /\ k' = i + 1
  /\ server' = "in"
  /\ UNCHANGED <<worker, letter, run, printed, passed>>

\* serve: its input, and the output of the letter.
In ==
  /\ server = "in" /\ worker[serving] = "ask"
  /\ worker' = [worker EXCEPT ![serving] = "reply"]
  /\ passed' = [w \in Workers |-> IF w = serving THEN 0
                                  ELSE IF w \in Asking THEN passed[w] + 1 ELSE passed[w]]
  /\ server' = "out"
  /\ UNCHANGED <<letter, k, serving, run, printed>>

AfterServe == IF Scan THEN "scan" ELSE "alt"

Out ==
  /\ server = "out" /\ worker[serving] = "reply"
  /\ letter' = [letter EXCEPT ![serving] = @ + 1]
  /\ worker' = [worker EXCEPT ![serving] = "busy"]
  /\ server' = AfterServe
  /\ UNCHANGED <<k, serving, run, printed, passed>>

\* A worker has its letter back and goes round its loop, or leaves it.
Loop(w) ==
  /\ worker[w] = "busy"
  /\ worker' = [worker EXCEPT ![w] = IF letter[w] < Letters[w] THEN "ask"
                                     ELSE IF w = 1 THEN "print" ELSE "sync"]
  /\ UNCHANGED <<letter, server, k, serving, run, printed, passed>>

\* ProcSkipAltList (&(ins[k])): the first channel of the rest that is ready.
Rest == SubSeq(Channels, k, Len(Channels))
InArray(i) == i + k - 1          \* serve (i+k, ...)

PastIt(i) == k + i               \* k += i+1

Search ==
  /\ server = "scan"
  /\ IF AltEnds(Rest, Asking, TRUE) = {}
     THEN server' = "alt" /\ UNCHANGED <<serving, k>>
     ELSE \E i \in AltEnds(Rest, Asking, TRUE) :
            server' = "in" /\ serving' = InArray(i) /\ k' = PastIt(i)
  /\ UNCHANGED <<worker, letter, run, printed, passed>>

\* hello_proc prints its word and tells world_proc to go.
PrintHello ==
  /\ worker[1] = "print"
  /\ printed' = Append(printed, 1)
  /\ worker' = [worker EXCEPT ![1] = "sync"]
  /\ UNCHANGED <<letter, server, k, serving, run, passed>>

Told == worker[2] = "sync" /\ worker[1] = "sync"    \* ChanOutInt (c, 1), ChanInInt (c)

PrintWorld ==
  /\ Told
  /\ printed' = Append(printed, 2)
  /\ worker' = [worker EXCEPT ![1] = IF @ = "sync" THEN "over" ELSE @, ![2] = "over"]
  /\ UNCHANGED <<letter, server, k, serving, run, passed>>

\* main: ProcPar returns when both are over; the next, or exit.
NextRun ==
  /\ run <= Runs /\ \A w \in Workers : worker[w] = "over"
  /\ run' = run + 1
  /\ letter' = [w \in Workers |-> 0]
  /\ worker' = [w \in Workers |-> IF run < Runs THEN "busy" ELSE "over"]
  /\ UNCHANGED <<server, k, serving, printed, passed>>

Next == \/ Alt \/ In \/ Out \/ Search
        \/ \E w \in Workers : Loop(w)
        \/ PrintHello \/ PrintWorld \/ NextRun

Spec == Init /\ [][Next]_vars

-----------------------------------------------------------------------------
TypeOK ==
  /\ worker \in [Workers -> {"busy", "ask", "reply", "print", "sync", "over"}]
  /\ \A w \in Workers : letter[w] \in 0..Letters[w]
  /\ server \in {"alt", "in", "out", "scan"}
  /\ k \in 1..Cardinality(Workers) + 1 /\ serving \in Workers
  /\ run \in 1..Runs + 1
  /\ printed \in Seq(Workers) /\ passed \in [Workers -> Nat]

\* "search remainder of the array until none to do": a worker that has asked
\* waits for one letter of the other at most, on whichever side of it the
\* other is in the array.
OvertakenOnce == \A w \in Workers : passed[w] <= 1

\* "The first one synchronises with the second after it printed its word": the
\* screen shows the two words in turn, from the first, in each run.
WordsInTurn == \A i \in 1..Len(printed) : printed[i] = IF i % 2 = 1 THEN 1 ELSE 2

=============================================================================
