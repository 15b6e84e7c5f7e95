-------------------------- MODULE FairServerProofs --------------------------
(* Proofs about FairServer, for words of any length, any number of runs and  *)
(* both servers.  Stated as lemmas on one step, so that a module that runs   *)
(* the server beside something else can use them of its own instances.       *)
EXTENDS FairServer, SequenceTheorems, FiniteSetTheorems, TLAPS

\* A worker that has asked has letters to come.
MoreToCome == \A w \in Workers : worker[w] \in {"ask", "reply"} => letter[w] < Letters[w]

\* The first worker prints between two words of the second, and the second
\* when the first has.
Halves ==
  /\ worker[2] # "print" /\ (worker[2] = "over" => worker[1] = "over")
  /\ worker[1] = "sync" => Len(printed) % 2 = 1
  /\ worker[1] # "sync" => Len(printed) % 2 = 0
  /\ worker[1] = "over" => worker[2] = "over"

\* From the place it served the server goes on behind it.
GoesOn == server # "alt" => k = serving + 1

\* Who has been passed over is served next: it is the one being served, or the
\* other has been and is searched past, or it is the first in the array.
NextIsPassed ==
  \A w \in Workers :
    /\ passed[w] <= 1
    /\ passed[w] = 1 =>
         /\ worker[w] = "ask"
         /\ server = "in" => serving = w
         /\ server \in {"out", "scan"} => serving # w
         /\ server = "alt" => w = 1

\* The inductive invariant.
ServerInv ==
  /\ TypeOK /\ MoreToCome /\ Halves /\ WordsInTurn /\ GoesOn
  /\ Scan => NextIsPassed

-----------------------------------------------------------------------------
\* TypeOK, without the cardinality.
Types ==
  /\ worker \in [Workers -> {"busy", "ask", "reply", "print", "sync", "over"}]
  /\ \A w \in Workers : letter[w] \in 0..Letters[w]
  /\ server \in {"alt", "in", "out", "scan"}
  /\ k \in 1..3 /\ serving \in Workers
  /\ run \in 1..Runs + 1
  /\ printed \in Seq(Workers) /\ passed \in [Workers -> Nat]

\* There are two workers, and Types is TypeOK.
LEMMA TwoWorkers == TypeOK <=> Types
<1>1. Cardinality(Workers) = 2
  <2>1. IsFiniteSet({1}) /\ Cardinality({1}) = 1
    BY FS_Singleton
  <2>2. Cardinality({1} \cup {2}) = 2
    BY <2>1, FS_AddElement
  <2>3. Workers = {1} \cup {2}
    BY DEF Workers
  <2>4. QED
    BY <2>2, <2>3
<1>2. QED
  BY <1>1 DEF TypeOK, Types

\* The array of the server: the two channels, then NULL.
LEMMA TheArray ==
  /\ Channels = [i \in 1..3 |-> IF i <= 2 THEN i ELSE Null]
  /\ Channels \in Seq({1, 2, Null}) /\ Len(Channels) = 3
<1>1. Channels = [i \in 1..3 |-> IF i <= 2 THEN i ELSE Null]
  BY DEF Channels, CreateChannels
<1>2. Channels \in [1..3 -> {1, 2, Null}]
  BY <1>1
<1>3. Channels \in Seq({1, 2, Null})
  BY <1>2, SeqDef
<1>4. DOMAIN Channels = 1..3
  BY <1>1
<1>5. Len(Channels) = 3
  BY <1>3, <1>4, LenProperties
<1>6. QED
  BY <1>1, <1>3, <1>5

\* The server's alternation ends at the first worker that asks.
LEMMA AltFinds ==
  ASSUME NEW i \in AltEnds(Channels, Asking, TRUE), FairConstants
  PROVE  i \in Workers /\ worker[i] = "ask" /\ (i = 2 => worker[1] # "ask")
<1>1. /\ DOMAIN Channels = 1..3 /\ Channels[1] = 1 /\ Channels[2] = 2 /\ Channels[3] = Null
  BY TheArray
<1>2. /\ i \in 1..3 /\ \A j \in 1..i : Channels[j] # Null
      /\ Channels[i] \in Asking
      /\ \A j \in Listed(Channels) : j < i => Channels[j] \notin Asking
  BY <1>1 DEF AltEnds, Listed
<1>3. i \in Workers
  BY <1>1, <1>2 DEF Workers
<1>4. 1 \in Listed(Channels)
  BY <1>1 DEF Listed, FairConstants, Workers
<1>5. QED
  BY <1>1, <1>2, <1>3, <1>4 DEF Workers, Asking

\* The rest of the array, behind the first channel or behind both: what is
\* found there is a worker that asks, and one that asks is found.
LEMMA RestFinds ==
  ASSUME FairConstants, k \in 2..3
  PROVE  /\ \A i \in AltEnds(Rest, Asking, TRUE) :
              k = 2 /\ i = 1 /\ worker[2] = "ask"
         /\ k = 2 /\ worker[2] = "ask" => 1 \in AltEnds(Rest, Asking, TRUE)
<1>1. Len(Channels) = 3 /\ Channels \in Seq({1, 2, Null})
      /\ Channels[1] = 1 /\ Channels[2] = 2 /\ Channels[3] = Null
  BY TheArray
<1>2. /\ Len(Rest) = 4 - k /\ Rest \in Seq({1, 2, Null})
      /\ \A i \in 1..4 - k : Rest[i] = Channels[k + i - 1]
  BY <1>1, SubSeqProperties DEF Rest
<1>3. DOMAIN Rest = 1..4 - k
  BY <1>2, LenProperties
<1>4. CASE k = 2
  <2>1. DOMAIN Rest = 1..2 /\ Rest[1] = 2 /\ Rest[2] = Null
    BY <1>1, <1>2, <1>3, <1>4
  <2>2. Listed(Rest) = {1}
    BY <2>1 DEF Listed, FairConstants, Workers
  <2>3. QED
    BY <1>4, <2>1, <2>2 DEF AltEnds, Asking, Workers
<1>5. CASE k = 3
  <2>1. DOMAIN Rest = {1} /\ Rest[1] = Null
    BY <1>1, <1>2, <1>3, <1>5
  <2>2. Listed(Rest) = {}
    BY <2>1 DEF Listed
  <2>3. QED
    BY <1>5, <2>2 DEF AltEnds
<1>6. k = 2 \/ k = 3
  OBVIOUS
<1>7. QED
  BY <1>4, <1>5, <1>6, Zenon

-----------------------------------------------------------------------------
\* It holds at first.
LEMMA ServerStart ==
  ASSUME FairConstants, Init
  PROVE  ServerInv
<1>1. Types
  BY DEF Types, Init, FairConstants, Workers, Letters
<1>2. TypeOK
  BY <1>1, TwoWorkers
<1>3. printed = << >> /\ Len(printed) = 0
  BY DEF Init
<1>4. MoreToCome /\ Halves
  BY <1>3 DEF MoreToCome, Halves, Init, Workers
<1>5. WordsInTurn
  BY <1>3 DEF WordsInTurn
<1>6. GoesOn /\ NextIsPassed
  BY DEF GoesOn, NextIsPassed, Init, Workers
<1>7. QED
  BY <1>2, <1>4, <1>5, <1>6 DEF ServerInv

\* Each step leaves every variable in its set, and a worker asks only when it
\* has letters to come.
LEMMA ServerTypes ==
  ASSUME FairConstants, ServerInv, [Next]_vars
  PROVE  TypeOK' /\ MoreToCome'
<1> USE DEF Workers
<1>1. Types /\ MoreToCome
  BY TwoWorkers DEF ServerInv
<1>2. ASSUME Types' PROVE TypeOK'
  BY <1>2, TwoWorkers, PTL
<1>3. CASE Alt
  <2>1. PICK i \in AltEnds(Channels, Asking, TRUE) : serving' = i /\ k' = i + 1
    BY <1>3 DEF Alt
  <2>2. i \in Workers
    BY <2>1, AltFinds
  <2>3. QED
    BY <1>1, <1>2, <1>3, <2>1, <2>2 DEF Alt, Types, MoreToCome
<1>4. CASE In
  BY <1>1, <1>2, <1>4 DEF In, Types, MoreToCome
<1>5. CASE Out
  BY <1>1, <1>2, <1>5 DEF Out, AfterServe, Types, MoreToCome, Letters, FairConstants
<1>6. CASE Search
  <2>1. k \in 2..3
    BY <1>1, <1>6 DEF Search, ServerInv, GoesOn, Types
  <2>2. CASE AltEnds(Rest, Asking, TRUE) = {}
    BY <1>1, <1>2, <1>6, <2>2 DEF Search, Types, MoreToCome
  <2>3. CASE AltEnds(Rest, Asking, TRUE) # {}
    <3>1. PICK i \in AltEnds(Rest, Asking, TRUE) :
            server' = "in" /\ serving' = InArray(i) /\ k' = PastIt(i)
      BY <1>6, <2>3 DEF Search
    <3>2. k = 2 /\ i = 1
      BY <2>1, RestFinds
    <3>3. serving' = 2 /\ k' = 3
      BY <3>1, <3>2 DEF InArray, PastIt
    <3>4. QED
      BY <1>1, <1>2, <1>6, <3>1, <3>3 DEF Search, Types, MoreToCome
  <2>4. QED
    BY <2>2, <2>3
<1>7. ASSUME NEW w \in Workers, Loop(w) PROVE TypeOK' /\ MoreToCome'
  BY <1>1, <1>2, <1>7 DEF Loop, Types, MoreToCome, Letters, FairConstants
<1>8. CASE PrintHello
  BY <1>1, <1>2, <1>8 DEF PrintHello, Types, MoreToCome
<1>9. CASE PrintWorld
  BY <1>1, <1>2, <1>9 DEF PrintWorld, Types, MoreToCome
<1>10. CASE NextRun
  BY <1>1, <1>2, <1>10 DEF NextRun, Types, MoreToCome, Letters, FairConstants
<1>11. CASE UNCHANGED vars
  BY <1>1, <1>2, <1>11 DEF vars, Types, MoreToCome
<1>12. QED
  BY <1>3, <1>4, <1>5, <1>6, <1>7, <1>8, <1>9, <1>10, <1>11 DEF Next

\* The words stay in turn: only the first worker prints after an even number of
\* words, and only the second after an odd one.
LEMMA ServerPrints ==
  ASSUME ServerInv, [Next]_vars
  PROVE  Halves' /\ WordsInTurn'
<1> USE DEF Workers
<1>1. Types /\ Halves /\ WordsInTurn
  BY TwoWorkers DEF ServerInv
<1>2. Len(printed) \in Nat
  BY <1>1 DEF Types
<1>3. CASE Alt \/ Search \/ UNCHANGED vars
  <2>1. UNCHANGED <<worker, printed>>
    BY <1>3 DEF Alt, Search, vars
  <2>2. QED
    BY <1>1, <2>1 DEF Halves, WordsInTurn
<1>4. CASE \/ In \/ Out \/ NextRun \/ \E w \in Workers : Loop(w)
  <2>1. UNCHANGED printed
    BY <1>4 DEF In, Out, Loop, NextRun
  <2>2. Halves'
    BY <1>1, <1>4, <2>1 DEF In, Out, Loop, NextRun, Types, Halves
  <2>3. QED
    BY <1>1, <2>1, <2>2 DEF WordsInTurn
<1>5. ASSUME NEW w \in Workers, printed' = Append(printed, w),
             Len(printed) % 2 = w - 1
      PROVE  WordsInTurn' /\ Len(printed') % 2 = 2 - w
  <2>1. /\ Len(printed') = Len(printed) + 1 /\ printed'[Len(printed) + 1] = w
        /\ \A i \in 1..Len(printed) : printed'[i] = printed[i]
    BY <1>1, <1>5 DEF Types
  <2>2. (Len(printed) + 1) % 2 = 2 - w
    BY <1>2, <1>5
  <2>3. QED
    BY <1>1, <1>2, <2>1, <2>2 DEF WordsInTurn
<1>6. CASE PrintHello
  BY <1>1, <1>5, <1>6 DEF PrintHello, Halves, Types
<1>7. CASE PrintWorld
  BY <1>1, <1>5, <1>7 DEF PrintWorld, Told, Halves, Types
<1>8. QED
  BY <1>3, <1>4, <1>6, <1>7 DEF Next

\* Who has been passed over is served before the other is served again: by the
\* search when it is behind the other in the array, by the next alternation
\* when it is in front.
LEMMA ServerFair ==
  ASSUME FairConstants, ServerInv, [Next]_vars
  PROVE  GoesOn' /\ (Scan => NextIsPassed')
<1> USE DEF Workers
<1>1. Types /\ GoesOn /\ (Scan => NextIsPassed)
  BY TwoWorkers DEF ServerInv
<1>2. CASE Alt
  <2>1. PICK i \in AltEnds(Channels, Asking, TRUE) : serving' = i /\ k' = i + 1
    BY <1>2 DEF Alt
  <2>2. i \in Workers /\ (i = 2 => worker[1] # "ask")
    BY <2>1, AltFinds
  <2>3. QED
    BY <1>1, <1>2, <2>1, <2>2 DEF Alt, GoesOn, NextIsPassed, Types
<1>3. CASE In
  <2>1. GoesOn'
    BY <1>1, <1>3 DEF In, GoesOn
  <2>2. ASSUME Scan, NEW w \in Workers
        PROVE  /\ passed'[w] <= 1
               /\ passed'[w] = 1 => worker'[w] = "ask" /\ serving # w
    <3>1. CASE w = serving
      BY <1>1, <1>3, <3>1 DEF In, Types
    <3>2. CASE w # serving
      <4>1. passed[w] = 0
        BY <1>1, <1>3, <2>2, <3>2 DEF In, NextIsPassed, Types
      <4>2. QED
        BY <1>1, <1>3, <3>2, <4>1 DEF In, Asking, Types
    <3>3. QED
      BY <3>1, <3>2
  <2>3. QED
    BY <1>3, <2>1, <2>2 DEF In, NextIsPassed
<1>4. CASE Out
  <2>1. GoesOn'
    BY <1>1, <1>4 DEF Out, GoesOn
  <2>2. ASSUME Scan PROVE NextIsPassed'
    <3>1. server' = "scan" /\ server = "out" /\ worker[serving] = "reply"
          /\ UNCHANGED <<k, serving, passed>>
      BY <1>4, <2>2 DEF Out, AfterServe
    <3>2. QED
      BY <1>1, <1>4, <2>2, <3>1 DEF Out, NextIsPassed, Types
  <2>3. QED
    BY <2>1, <2>2
<1>5. CASE Search
  <2>1. k \in 2..3 /\ k = serving + 1
    BY <1>1, <1>5 DEF Search, GoesOn, Types
  <2>2. CASE AltEnds(Rest, Asking, TRUE) = {}
    <3>1. ~ (k = 2 /\ worker[2] = "ask")
      BY <2>1, <2>2, RestFinds
    <3>2. server = "scan" /\ server' = "alt" /\ UNCHANGED <<worker, passed>>
      BY <1>5, <2>2 DEF Search
    <3>3. QED
      BY <1>1, <2>1, <3>1, <3>2 DEF GoesOn, NextIsPassed, Types
  <2>3. CASE AltEnds(Rest, Asking, TRUE) # {}
    <3>1. PICK i \in AltEnds(Rest, Asking, TRUE) :
            server' = "in" /\ serving' = InArray(i) /\ k' = PastIt(i)
      BY <1>5, <2>3 DEF Search
    <3>2. k = 2 /\ i = 1
      BY <2>1, RestFinds
    <3>3. serving' = 2 /\ k' = 3 /\ serving = 1
      BY <2>1, <3>1, <3>2, <1>1 DEF InArray, PastIt, Types
    <3>4. server = "scan" /\ server' = "in" /\ UNCHANGED <<worker, passed>>
      BY <1>5, <3>1 DEF Search
    <3>5. QED
      BY <1>1, <3>3, <3>4 DEF GoesOn, NextIsPassed, Types
  <2>4. QED
    BY <2>2, <2>3
<1>6. CASE PrintHello \/ PrintWorld \/ NextRun \/ \E w \in Workers : Loop(w)
  <2>1. UNCHANGED <<server, k, serving, passed>>
    BY <1>6 DEF PrintHello, PrintWorld, NextRun, Loop
  <2>2. \A w \in Workers : worker[w] = "ask" => worker'[w] = "ask"
    BY <1>1, <1>6 DEF PrintHello, PrintWorld, Told, NextRun, Loop, Types
  <2>3. QED
    BY <1>1, <2>1, <2>2 DEF GoesOn, NextIsPassed
<1>7. CASE UNCHANGED vars
  BY <1>1, <1>7 DEF vars, GoesOn, NextIsPassed
<1>8. QED
  BY <1>2, <1>3, <1>4, <1>5, <1>6, <1>7 DEF Next

\* Every step keeps it.
LEMMA ServerStep ==
  ASSUME FairConstants, ServerInv, [Next]_vars
  PROVE  ServerInv'
BY ServerTypes, ServerPrints, ServerFair, Zenon DEF ServerInv

\* What the invariant says of the properties.
LEMMA ServerSafe ==
  ASSUME ServerInv
  PROVE  TypeOK /\ WordsInTurn /\ (Scan => OvertakenOnce)
BY DEF ServerInv, NextIsPassed, OvertakenOnce

\* For words of any length and any number of runs: the screen shows the words in
\* turn, and a worker of the server that searches the rest of its array waits
\* for one letter of the other at most (FAIRSERV.C: "search remainder of the
\* array until none to do").
THEOREM FairService ==
  ASSUME FairConstants
  PROVE  Spec => [](TypeOK /\ WordsInTurn /\ (Scan => OvertakenOnce))
<1>1. Init => ServerInv
  BY ServerStart
<1>2. ServerInv /\ [Next]_vars => ServerInv'
  BY ServerStep
<1>3. ServerInv => TypeOK /\ WordsInTurn /\ (Scan => OvertakenOnce)
  BY ServerSafe
<1>4. QED
  BY <1>1, <1>2, <1>3, PTL DEF Spec
=============================================================================
