---------------------------- MODULE PassNetProofs ---------------------------
(* Proofs about PassNet.  In any network a process has its channels back in  *)
(* the order of the configuration when it answers, and where the channels    *)
(* are paired a round is over for all when it is over for the host.          *)
EXTENDS MCNetworks, FiniteSetTheorems, WellFoundedInduction, TLAPS

\* InsertChannel undoes DeleteChannel on every list of channels, for every
\* place in it (DeleteChannel and InsertChannel of MULTPASS.C).
LEMMA InsertUndoesDelete ==
  ASSUME NEW S, NEW cs \in Seq(S), NEW i \in 1..Len(cs)
  PROVE  InsertChannel(DeleteChannel(CreateChannels(cs), Len(cs), i), Len(cs), i)
           = CreateChannels(cs)
<1> DEFINE n == Len(cs)
           A == [j \in 1..n + 1 |-> IF j <= n THEN cs[j] ELSE Null]
           R == RotateChannels(A, n, i)
           D == [R EXCEPT ![n + 1] = R[n], ![n] = Null]
           E == [D EXCEPT ![n] = D[n + 1], ![n + 1] = Null]
<1>1. n \in Nat /\ i \in Nat /\ i >= 1 /\ i <= n
  OBVIOUS
<1>2. CreateChannels(cs) = A
  BY DEF CreateChannels
<1> HIDE DEF n, A
<1>3. A = [j \in 1..n + 1 |-> A[j]] /\ A[n + 1] = Null
  BY <1>1 DEF A
<1>4. /\ R = [j \in 1..n + 1 |-> R[j]]
      /\ R[n + 1] = Null
      /\ \A j \in 1..n : R[j] = IF j + i <= n THEN A[j + i] ELSE A[j + i - n]
  <2>1. R = [j \in 1..n + 1 |-> IF j > n THEN Null
                                 ELSE IF j + i <= n THEN A[j + i] ELSE A[j + i - n]]
    BY DEF RotateChannels
  <2> HIDE DEF R
  <2>2. R = [j \in 1..n + 1 |-> R[j]]
    BY <2>1, Zenon
  <2>3. \A j \in 1..n + 1 : R[j] = IF j > n THEN Null
                              ELSE IF j + i <= n THEN A[j + i] ELSE A[j + i - n]
    BY <2>1
  <2>4. R[n + 1] = Null
    BY <1>1, <2>3
  <2>5. ASSUME NEW j \in 1..n
        PROVE  R[j] = IF j + i <= n THEN A[j + i] ELSE A[j + i - n]
    <3>1. j \in 1..n + 1 /\ ~ j > n
      BY <1>1
    <3> QED BY <2>3, <3>1
  <2> QED BY <2>2, <2>4, <2>5
<1> HIDE DEF R
<1>5. E = R
  BY <1>1, <1>4, SMTT(30)
<1>6. RotateChannels(R, n, n - i) = A
  <2>1. RotateChannels(R, n, n - i) = [j \in 1..n + 1 |-> RotateChannels(R, n, n - i)[j]]
    BY DEF RotateChannels
  <2>2. ASSUME NEW j \in 1..n + 1
        PROVE  RotateChannels(R, n, n - i)[j] = A[j]
    <3>1. CASE j = n + 1
      BY <1>1, <1>3, <3>1 DEF RotateChannels
    <3>2. CASE j <= i
      <4>1. j + (n - i) <= n /\ j + (n - i) \in 1..n
        BY <1>1, <3>2
      <4>2. RotateChannels(R, n, n - i)[j] = R[j + (n - i)]
        BY <1>1, <3>2, <4>1 DEF RotateChannels
      <4>3. ~ (j + (n - i)) + i <= n /\ (j + (n - i)) + i - n = j
        BY <1>1
      <4> QED BY <4>1, <4>2, <4>3, <1>4
    <3>3. CASE j > i /\ j <= n
      <4>1. ~ j + (n - i) <= n /\ j + (n - i) - n = j - i /\ j - i \in 1..n
        BY <1>1, <3>3
      <4>2. RotateChannels(R, n, n - i)[j] = R[j - i]
        BY <1>1, <3>3, <4>1 DEF RotateChannels
      <4>3. (j - i) + i <= n /\ (j - i) + i = j
        BY <1>1, <3>3
      <4> QED BY <4>1, <4>2, <4>3, <1>4
    <3> QED BY <1>1, <3>1, <3>2, <3>3
  <2> QED BY <2>1, <2>2, <1>3
<1>7. InsertChannel(DeleteChannel(A, n, i), n, i) = RotateChannels(E, n, n - i)
  BY DEF InsertChannel, DeleteChannel, R
<1> QED BY <1>2, <1>5, <1>6, <1>7 DEF n

\* The lists while a process has them changed, and the place it must put back.
ListInvOf(p) ==
  /\ index[p] \in 1..Size(p)
  /\ at[p] \in {"top", "answer", "print"} \/ p = Host =>
       ins[p] = CreateChannels(InputOf[p]) /\ outs[p] = CreateChannels(OutputOf[p])
  /\ at[p] = "io" /\ p # Host =>
       /\ ins[p] = DeleteChannel(CreateChannels(InputOf[p]), Size(p), index[p])
       /\ outs[p] = DeleteChannel(CreateChannels(OutputOf[p]), Size(p), index[p])

\* What is known of the lists, of the arrays, and both.
ListInv == \A p \in Procs : ListInvOf(p)

ArrayInv ==
  /\ DOMAIN at = Procs /\ DOMAIN index = Procs
  /\ DOMAIN ins = Procs /\ DOMAIN outs = Procs
  /\ \A p \in Procs : at[p] \in {"top", "io", "answer", "print", "halted"}
  /\ \A p \in Procs \ {Host} : at[p] # "print"
  /\ at[Host] # "top" /\ at[Host] # "answer"

IInv == ArrayInv /\ ListInv

\* It holds at first.
LEMMA InitInv == Init => IInv
<1> SUFFICES ASSUME Init PROVE IInv
  OBVIOUS
<1>1. ArrayInv
  BY NetAssumption DEF Init, ArrayInv
<1>2. ListInv
  <2> SUFFICES ASSUME NEW p \in Procs
               PROVE /\ index[p] \in 1..Size(p)
                     /\ ins[p] = CreateChannels(InputOf[p])
                     /\ outs[p] = CreateChannels(OutputOf[p])
                     /\ at[p] = "io" => p = Host
    BY DEF ListInv, ListInvOf
  <2>1. Size(p) \in Nat /\ Size(p) > 0
    BY NetAssumption DEF Size
  <2> QED BY <2>1 DEF Init
<1> QED BY <1>1, <1>2 DEF IInv

\* The lists of one process, which are all that ListInv says of it.
Kept(p) ==
  /\ \/ at'[p] = at[p]
     \/ at[p] = "answer" /\ at'[p] = "top"
     \/ at'[p] = "halted"
     \/ p = Host
  /\ ins'[p] = ins[p] /\ outs'[p] = outs[p] /\ index'[p] = index[p]

\* A process whose lists a step leaves alone still fits ListInv.
LEMMA KeptIsEnough ==
  ASSUME IInv, NEW p \in Procs, Kept(p)
  PROVE  ListInvOf(p)'
<1>1. CASE p = Host
  BY <1>1 DEF IInv, ListInv, ListInvOf, Kept
<1>2. CASE p # Host /\ at'[p] = at[p]
  BY <1>2 DEF IInv, ListInv, ListInvOf, Kept
<1>3. CASE p # Host /\ at[p] = "answer" /\ at'[p] = "top"
  BY <1>3 DEF IInv, ListInv, ListInvOf, Kept
<1>4. CASE p # Host /\ at'[p] = "halted"
  BY <1>4 DEF IInv, ListInv, ListInvOf, Kept
<1> QED BY <1>1, <1>2, <1>3, <1>4 DEF Kept

\* The alternation ends at a channel, never at the NULL.
LEMMA ListedIsLive ==
  ASSUME NEW cs, NEW i \in Listed(cs), DOMAIN cs \subseteq Nat \ {0}
  PROVE  i \in DOMAIN cs /\ cs[i] # Null
BY DEF Listed

\* It is kept when a value is taken,
LEMMA TakeInv ==
  ASSUME IInv, NEW p \in Procs, Take(p)
  PROVE  IInv'
<1>1. p # Host /\ at[p] = "top"
  BY DEF Take
<1>2. PICK i \in Listed(ins[p]), s \in Procs :
        /\ Sends(s, ins[p][i])
        /\ index' = [index EXCEPT ![p] = i]
        /\ ins' = [ins EXCEPT ![p] = DeleteChannel(@, Size(p), i)]
        /\ outs' = [outs EXCEPT ![p] = DeleteChannel(@, Size(p), i)]
        /\ \/ at' = SentAt(s, [at EXCEPT ![p] = "io"])
           \/ at' = SentAt(s, [at EXCEPT ![p] = "halted"])
  BY DEF Take
<1>3. s # p /\ at[s] \in {"io", "answer"}
  BY <1>1, <1>2 DEF Sends
<1>4. /\ DOMAIN at' = Procs
      /\ at'[p] \in {"io", "halted"}
      /\ \A q \in Procs \ {p} : at'[q] = IF q = s /\ at[s] = "answer" THEN "top" ELSE at[q]
  <2>1. DOMAIN at = Procs
    BY DEF IInv, ArrayInv
  <2>2. CASE at' = SentAt(s, [at EXCEPT ![p] = "io"])
    BY <2>1, <2>2, <1>3 DEF SentAt
  <2>3. CASE at' = SentAt(s, [at EXCEPT ![p] = "halted"])
    BY <2>1, <2>3, <1>3 DEF SentAt
  <2> QED BY <2>2, <2>3, <1>2
<1>5. ArrayInv'
  <2>1. DOMAIN ins' = Procs /\ DOMAIN outs' = Procs /\ DOMAIN index' = Procs
    BY <1>2 DEF IInv, ArrayInv
  <2>2. ASSUME NEW q \in Procs
        PROVE  /\ at'[q] \in {"top", "io", "answer", "print", "halted"}
               /\ q # Host => at'[q] # "print"
               /\ q = Host => at'[q] # "top" /\ at'[q] # "answer"
    BY <1>1, <1>4 DEF IInv, ArrayInv
  <2> QED BY <2>1, <2>2, <1>4, NetAssumption DEF ArrayInv
<1>6. i \in 1..Size(p)
  <2>1. ins[p] = CreateChannels(InputOf[p])
    BY <1>1 DEF IInv, ListInv, ListInvOf
  <2>2. i \in 1..Size(p) + 1 /\ ins[p][i] # Null /\ Size(p) \in Nat
    <3>1. Size(p) \in Nat /\ DOMAIN ins[p] = 1..Size(p) + 1
      BY <2>1, NetAssumption DEF CreateChannels, Size
    <3>2. i \in DOMAIN ins[p] /\ ins[p][i] # Null
      BY <1>2, <3>1, ListedIsLive
    <3> QED BY <3>1, <3>2
  <2>3. i # Size(p) + 1
    BY <2>1, <2>2 DEF CreateChannels, Size
  <2> QED BY <2>2, <2>3
<1>7. ASSUME NEW q \in Procs \ {p} PROVE Kept(q)
  <2>1. ins'[q] = ins[q] /\ outs'[q] = outs[q] /\ index'[q] = index[q]
    BY <1>2 DEF IInv, ArrayInv
  <2>2. at'[q] = at[q] \/ (at[q] = "answer" /\ at'[q] = "top")
    BY <1>4
  <2> QED BY <2>1, <2>2 DEF Kept
<1>8. ListInv'
  <2> SUFFICES ASSUME NEW q \in Procs
               PROVE ListInvOf(q)'
    BY DEF ListInv
  <2>1. CASE q # p
    BY <2>1, <1>7, KeptIsEnough DEF ListInvOf
  <2>2. CASE q = p
    <3>1. ins[p] = CreateChannels(InputOf[p]) /\ outs[p] = CreateChannels(OutputOf[p])
      BY <1>1 DEF IInv, ListInv, ListInvOf
    <3> QED BY <2>2, <3>1, <1>1, <1>2, <1>4, <1>6 DEF IInv, ArrayInv, ListInvOf
  <2> QED BY <2>1, <2>2
<1> QED BY <1>5, <1>8 DEF IInv

\* when a sum is made,
LEMMA AddInv ==
  ASSUME IInv, NEW p \in Procs, Add(p)
  PROVE  IInv'
<1>1. PICK s \in Procs : \/ at' = SentAt(s, at)
                        \/ at' = SentAt(s, [at EXCEPT ![p] = "halted"])
  BY DEF Add
<1>2. at[p] = "io" /\ UNCHANGED <<ins, outs, index>>
  BY DEF Add
<1>3. /\ DOMAIN at' = Procs
      /\ \A q \in Procs : \/ at'[q] = at[q]
                          \/ at[q] = "answer" /\ at'[q] = "top"
                          \/ at'[q] = "halted"
  <2>1. DOMAIN at = Procs
    BY DEF IInv, ArrayInv
  <2>2. CASE at' = SentAt(s, at)
    BY <2>1, <2>2 DEF SentAt
  <2>3. CASE at' = SentAt(s, [at EXCEPT ![p] = "halted"])
    BY <2>1, <2>3, <1>2 DEF SentAt
  <2> QED BY <2>2, <2>3, <1>1
<1>4. ArrayInv'
  <2>1. ASSUME NEW q \in Procs
        PROVE  /\ at'[q] \in {"top", "io", "answer", "print", "halted"}
               /\ q # Host => at'[q] # "print"
               /\ q = Host => at'[q] # "top" /\ at'[q] # "answer"
    BY <1>3 DEF IInv, ArrayInv
  <2> QED BY <2>1, <1>2, <1>3, NetAssumption DEF IInv, ArrayInv
<1>5. \A q \in Procs : Kept(q)
  BY <1>2, <1>3 DEF Kept
<1>6. ListInv'
  BY <1>5, KeptIsEnough DEF ListInv
<1> QED BY <1>4, <1>6 DEF IInv

\* when outputs and inputs are done,
LEMMA JoinInv ==
  ASSUME IInv, NEW p \in Procs, Join(p)
  PROVE  IInv'
<1>1. CASE p = Host
  <2>1. /\ at' = [at EXCEPT ![p] = "print"]
        /\ UNCHANGED <<ins, outs, index>>
    BY <1>1 DEF Join
  <2>2. ArrayInv'
    BY <2>1, <1>1, NetAssumption DEF IInv, ArrayInv
  <2>3. \A q \in Procs : Kept(q)
    BY <2>1, <1>1 DEF IInv, ArrayInv, Kept
  <2> QED BY <2>2, <2>3, KeptIsEnough DEF IInv, ListInv
<1>2. CASE p # Host
  <2>1. /\ at[p] = "io" /\ at' = [at EXCEPT ![p] = "answer"]
        /\ ins' = [ins EXCEPT ![p] = InsertChannel(@, Size(p), index[p])]
        /\ outs' = [outs EXCEPT ![p] = InsertChannel(@, Size(p), index[p])]
        /\ index' = index
    BY <1>2 DEF Join
  <2>2. ArrayInv'
    BY <2>1, <1>2, NetAssumption DEF IInv, ArrayInv
  <2>3. ASSUME NEW q \in Procs \ {p} PROVE Kept(q)
    BY <2>1 DEF IInv, ArrayInv, Kept
  <2>4. ListInvOf(p)'
    <3>1. /\ index[p] \in 1..Size(p)
          /\ ins[p] = DeleteChannel(CreateChannels(InputOf[p]), Size(p), index[p])
          /\ outs[p] = DeleteChannel(CreateChannels(OutputOf[p]), Size(p), index[p])
      BY <1>2, <2>1 DEF IInv, ListInv, ListInvOf
    <3>2. /\ InputOf[p] \in Seq(Wires) /\ OutputOf[p] \in Seq(Wires)
          /\ Size(p) = Len(InputOf[p]) /\ Size(p) = Len(OutputOf[p])
      BY NetAssumption DEF Size
    <3>3. InsertChannel(ins[p], Size(p), index[p]) = CreateChannels(InputOf[p])
      BY <3>1, <3>2, InsertUndoesDelete
    <3>4. InsertChannel(outs[p], Size(p), index[p]) = CreateChannels(OutputOf[p])
      BY <3>1, <3>2, InsertUndoesDelete
    <3>5. at'[p] = "answer" /\ index'[p] = index[p]
      BY <2>1 DEF IInv, ArrayInv
    <3>6. ins'[p] = CreateChannels(InputOf[p]) /\ outs'[p] = CreateChannels(OutputOf[p])
      BY <2>1, <3>3, <3>4 DEF IInv, ArrayInv
    <3> QED BY <3>1, <3>5, <3>6 DEF ListInvOf, Size
  <2>5. ListInv'
    <3> SUFFICES ASSUME NEW q \in Procs PROVE ListInvOf(q)'
      BY DEF ListInv
    <3> QED BY <2>3, <2>4, KeptIsEnough
  <2> QED BY <2>2, <2>5 DEF IInv
<1> QED BY <1>1, <1>2

\* and by the report.
LEMMA ReportInv == ASSUME IInv, Report PROVE IInv'
<1>1. /\ at' = [at EXCEPT ![Host] = "io"] \/ at' = [at EXCEPT ![Host] = "halted"]
      /\ UNCHANGED <<ins, outs, index>>
  BY DEF Report
<1>2. ArrayInv'
  BY <1>1, NetAssumption DEF IInv, ArrayInv
<1>3. \A q \in Procs : Kept(q)
  BY <1>1 DEF IInv, ArrayInv, Kept
<1> QED BY <1>2, <1>3, KeptIsEnough DEF IInv, ListInv

\* and so by every step.
LEMMA ListsStep == ASSUME IInv, [Next]_vars PROVE IInv'
<1>1. CASE UNCHANGED vars
  <2>1. \A q \in Procs : Kept(q)
    BY <1>1 DEF vars, Kept
  <2>2. ArrayInv'
    BY <1>1 DEF IInv, ArrayInv, vars
  <2> QED BY <2>1, <2>2, KeptIsEnough DEF IInv, ListInv
<1>2. CASE Stopped
  BY <1>1, <1>2 DEF Stopped
<1> QED BY <1>1, <1>2, TakeInv, AddInv, JoinInv, ReportInv DEF Next

\* IInv holds in every state, in any network.
THEOREM ListsInvariant == Spec => []IInv
<1>1. IInv /\ [Next]_vars => IInv'
  BY ListsStep
<1> QED BY <1>1, InitInv, PTL DEF Spec

\* A process that answers, or that waits for a round, has the lists of the
\* configuration, however often it has taken a channel out and put it back
\* (DeleteChannel and InsertChannel around IOProcesses in main, MULTPASS.C).
THEOREM ListsAreRestored == Spec => []ListsRestored
<1>1. IInv => ListsRestored
  BY DEF IInv, ListInv, ListInvOf, ListsRestored
<1> QED BY <1>1, ListsInvariant, PTL

-----------------------------------------------------------------------------
(* The types, for every network.                                           *)

\* What TypeOK leaves out.
CountersInv == DOMAIN got = Procs /\ DOMAIN put = Procs

\* The procedures on lists keep their types.
LEMMA ListTypes ==
  ASSUME NEW n \in Nat, NEW cs \in [1..n + 1 -> Channels], NEW i \in 1..n
  PROVE  /\ DeleteChannel(cs, n, i) \in [1..n + 1 -> Channels]
         /\ InsertChannel(cs, n, i) \in [1..n + 1 -> Channels]
<1>1. ASSUME NEW ds \in [1..n + 1 -> Channels], NEW k \in 0..n
      PROVE  RotateChannels(ds, n, k) \in [1..n + 1 -> Channels]
  BY DEF RotateChannels, Channels
<1>2. n \in 1..n + 1 /\ n + 1 \in 1..n + 1
  OBVIOUS
<1>3. DeleteChannel(cs, n, i) \in [1..n + 1 -> Channels]
  <2> DEFINE r == RotateChannels(cs, n, i)
  <2>1. r \in [1..n + 1 -> Channels]
    BY <1>1
  <2> HIDE DEF r
  <2>2. [r EXCEPT ![n + 1] = r[n], ![n] = Null] \in [1..n + 1 -> Channels]
    BY <2>1, <1>2 DEF Channels
  <2>3. QED
    BY <2>2 DEF DeleteChannel, r
<1>4. InsertChannel(cs, n, i) \in [1..n + 1 -> Channels]
  <2> DEFINE c == [cs EXCEPT ![n] = cs[n + 1], ![n + 1] = Null]
  <2>1. c \in [1..n + 1 -> Channels]
    BY <1>2 DEF Channels
  <2> HIDE DEF c
  <2>2. RotateChannels(c, n, n - i) \in [1..n + 1 -> Channels]
    BY <1>1, <2>1
  <2>3. QED
    BY <2>2 DEF InsertChannel, c
<1>5. QED
  BY <1>3, <1>4

\* A round is a number below the bound, and so is the next.
LEMMA NextRound ==
  ASSUME NEW r \in 0..Rounds - 1
  PROVE  (r + 1) % Rounds \in 0..Rounds - 1
BY NetAssumption

\* A count of rounds never stands still, and steps that are equal come from
\* counts that are equal.
LEMMA RoundsMove ==
  ASSUME NEW r \in 0..Rounds - 1
  PROVE  (r + 1) % Rounds # r
<1>1. Rounds \in Nat /\ Rounds >= 2
  BY NetAssumption
<1>2. CASE r + 1 < Rounds
  <2>1. (r + 1) % Rounds = r + 1
    BY <1>1, <1>2
  <2>2. QED
    BY <2>1
<1>3. CASE r + 1 = Rounds
  <2>1. (r + 1) % Rounds = 0
    BY <1>1, <1>3
  <2>2. QED
    BY <2>1, <1>1, <1>3
<1>4. QED
  BY <1>1, <1>2, <1>3

\* The types hold at first.
LEMMA TypesStart == ASSUME Init PROVE TypeOK /\ CountersInv
<1>1. \A p \in Procs : Size(p) \in Nat /\ Size(p) > 0 /\ Len(OutputOf[p]) = Size(p)
                       /\ InputOf[p] \in Seq(Wires) /\ OutputOf[p] \in Seq(Wires)
  BY NetAssumption DEF Size
<1>2. ASSUME NEW p \in Procs
      PROVE  ins[p] \in [1..Size(p) + 1 -> Channels] /\ outs[p] \in [1..Size(p) + 1 -> Channels]
  <2>1. ASSUME NEW cs \in Seq(Wires)
        PROVE  CreateChannels(cs) \in [1..Len(cs) + 1 -> Channels]
    BY DEF CreateChannels, Channels
  <2>2. ins[p] = CreateChannels(InputOf[p]) /\ outs[p] = CreateChannels(OutputOf[p])
    BY DEF Init
  <2>3. Len(InputOf[p]) = Size(p)
    BY DEF Size
  <2>4. QED
    BY <1>1, <2>1, <2>2, <2>3
<1>3. ASSUME NEW p \in Procs
      PROVE  index[p] \in 1..Size(p) /\ got[p] \in 0..Size(p) /\ put[p] \in 0..Size(p)
  BY <1>1 DEF Init
<1>4. at \in [Procs -> {"top", "io", "answer", "print", "halted"}]
  BY DEF Init
<1>5. Plus(0, 1) \in 0..LongMax /\ 0 \in 0..LongMax /\ {0, 1} \subseteq 0..Rounds - 1
  BY NetAssumption DEF Plus
<1>6. value \in [Procs -> 0..LongMax] /\ sends \in [Procs -> 0..LongMax]
  BY <1>5 DEF Init
<1>7. rounds \in [Procs -> 0..Rounds - 1]
  BY <1>5 DEF Init
<1>8. CountersInv
  BY DEF CountersInv, Init
<1>9. QED
  BY <1>2, <1>3, <1>4, <1>6, <1>7, <1>8 DEF TypeOK

\* What moves in one step: the place of a process that receives and of the one
\* that sends to it, and their counts.
LEMMA TypesOfTake ==
  ASSUME TypeOK, CountersInv, IInv, NEW p \in Procs, Take(p)
  PROVE  TypeOK' /\ CountersInv'
<1>1. PICK i \in Listed(ins[p]), s \in Procs :
       /\ Sends(s, ins[p][i])
       /\ index' = [index EXCEPT ![p] = i]
       /\ value' = [value EXCEPT ![p] = Carried(s)]
       /\ ins' = [ins EXCEPT ![p] = DeleteChannel(@, Size(p), i)]
       /\ outs' = [outs EXCEPT ![p] = DeleteChannel(@, Size(p), i)]
       /\ got' = [got EXCEPT ![p] = 0]
       /\ put' = SentPut(s, [put EXCEPT ![p] = 0])
       /\ \/ /\ Carried(s) < LongMax
             /\ sends' = [sends EXCEPT ![p] = Increment(Carried(s))]
             /\ at' = SentAt(s, [at EXCEPT ![p] = "io"])
          \/ /\ at' = SentAt(s, [at EXCEPT ![p] = "halted"])
             /\ UNCHANGED sends
  BY DEF Take
<1>2. p # Host /\ at[p] = "top" /\ rounds' = [rounds EXCEPT ![p] = (@ + 1) % Rounds]
  BY DEF Take
<1>3. s # p /\ at[s] \in {"io", "answer"} /\ (at[s] = "io" => put[s] < Count(s))
  BY <1>1, <1>2 DEF Sends, OutputReady
<1>4. IInv'
  BY TakeInv
<1>5. i \in 1..Size(p) /\ \A q \in Procs : Size(q) \in Nat /\ Size(q) > 0
  <2>1. \A q \in Procs : Size(q) \in Nat /\ Size(q) > 0
    BY NetAssumption DEF Size
  <2>2. index'[p] = i
    BY <1>1 DEF IInv, ArrayInv
  <2>3. QED
    BY <1>4, <2>1, <2>2 DEF IInv, ListInv, ListInvOf, Size
<1>6. at' \in [Procs -> {"top", "io", "answer", "print", "halted"}]
  BY <1>1 DEF TypeOK, SentAt
<1>7. ASSUME NEW q \in Procs
      PROVE  /\ ins'[q] \in [1..Size(q) + 1 -> Channels]
             /\ outs'[q] \in [1..Size(q) + 1 -> Channels]
  <2>1. ins[q] \in [1..Size(q) + 1 -> Channels] /\ outs[q] \in [1..Size(q) + 1 -> Channels]
    BY DEF TypeOK
  <2>2. CASE q = p
    <3>1. ins'[p] = DeleteChannel(ins[p], Size(p), i) /\ outs'[p] = DeleteChannel(outs[p], Size(p), i)
      BY <1>1 DEF IInv, ArrayInv
    <3>2. /\ DeleteChannel(ins[p], Size(p), i) \in [1..Size(p) + 1 -> Channels]
          /\ DeleteChannel(outs[p], Size(p), i) \in [1..Size(p) + 1 -> Channels]
      <4>1. Size(p) \in Nat /\ i \in 1..Size(p)
        BY <1>5
      <4>2. ins[p] \in [1..Size(p) + 1 -> Channels] /\ outs[p] \in [1..Size(p) + 1 -> Channels]
        BY <2>1, <2>2
      <4>3. QED
        BY <4>1, <4>2, ListTypes
    <3>3. QED
      BY <2>2, <3>1, <3>2
  <2>3. CASE q # p
    BY <2>1, <2>3, <1>1 DEF IInv, ArrayInv
  <2>4. QED
    BY <2>2, <2>3
<1>8. ASSUME NEW q \in Procs
      PROVE  /\ index'[q] \in 1..Size(q) /\ got'[q] \in 0..Size(q) /\ put'[q] \in 0..Size(q)
  <2>1. index[q] \in 1..Size(q) /\ got[q] \in 0..Size(q) /\ put[q] \in 0..Size(q)
    BY DEF TypeOK
  <2>2. Count(q) \in Int /\ Count(q) <= Size(q)
    BY <1>5 DEF Count
  <2>3. index'[q] \in 1..Size(q) /\ got'[q] \in 0..Size(q)
    BY <1>1, <1>5, <2>1 DEF CountersInv, IInv, ArrayInv
  <2>4. put'[q] = IF q = p THEN 0 ELSE IF q = s /\ at[s] = "io" THEN put[q] + 1 ELSE put[q]
    BY <1>1, <1>3 DEF CountersInv, SentPut
  <2>5. QED
    BY <1>3, <1>5, <2>1, <2>2, <2>3, <2>4
<1>9. Carried(s) \in 0..LongMax /\ (Carried(s) < LongMax => Increment(Carried(s)) \in 0..LongMax)
  BY NetAssumption, SMTT(30) DEF TypeOK, Carried, Increment, Plus
<1>10. value' \in [Procs -> 0..LongMax] /\ sends' \in [Procs -> 0..LongMax]
  BY <1>1, <1>9 DEF TypeOK
<1>11. rounds' \in [Procs -> 0..Rounds - 1]
  BY <1>2, NextRound DEF TypeOK
<1>12. CountersInv'
  BY <1>1 DEF CountersInv, SentPut
<1>13. QED
  BY <1>6, <1>7, <1>8, <1>10, <1>11, <1>12 DEF TypeOK, Size

\* The same for the other steps.
LEMMA TypesOfAdd ==
  ASSUME TypeOK, CountersInv, NEW p \in Procs, Add(p)
  PROVE  TypeOK' /\ CountersInv'
<1>1. PICK s \in Procs :
       /\ \E i : Sends(s, ins[p][i])
       /\ put' = SentPut(s, put)
       /\ \/ /\ Fits(Carried(s), value[p])
             /\ value' = [value EXCEPT ![p] = Plus(@, Carried(s))]
             /\ got' = [got EXCEPT ![p] = @ + 1]
             /\ at' = SentAt(s, at)
          \/ /\ at' = SentAt(s, [at EXCEPT ![p] = "halted"])
             /\ UNCHANGED <<value, got>>
  BY DEF Add
<1>2. at[p] = "io" /\ got[p] < Count(p) /\ UNCHANGED <<ins, outs, sends, index, rounds>>
  BY DEF Add
<1>3. at[s] = "io" => put[s] < Count(s)
  BY <1>1 DEF Sends, OutputReady
<1>4. \A q \in Procs : Size(q) \in Nat /\ Count(q) \in Int /\ Count(q) <= Size(q)
  <2>1. \A q \in Procs : Size(q) \in Nat /\ Size(q) > 0
    BY NetAssumption DEF Size
  <2>2. QED
    BY <2>1 DEF Count
<1>5. at' \in [Procs -> {"top", "io", "answer", "print", "halted"}]
  BY <1>1 DEF TypeOK, SentAt
<1>6. ASSUME NEW q \in Procs
      PROVE  got'[q] \in 0..Size(q) /\ put'[q] \in 0..Size(q)
  <2>1. got[q] \in 0..Size(q) /\ put[q] \in 0..Size(q)
    BY DEF TypeOK
  <2>2. got'[q] = got[q] \/ (q = p /\ got'[q] = got[q] + 1)
    BY <1>1 DEF CountersInv
  <2>3. put'[q] = put[q] \/ (q = s /\ at[s] = "io" /\ put'[q] = put[q] + 1)
    BY <1>1 DEF CountersInv, SentPut
  <2>4. QED
    BY <1>2, <1>3, <1>4, <2>1, <2>2, <2>3
<1>7. Carried(s) \in 0..LongMax /\ value[p] \in 0..LongMax
  BY NetAssumption DEF TypeOK, Carried
<1>8. Fits(Carried(s), value[p]) => Plus(value[p], Carried(s)) \in 0..LongMax
  BY <1>7, NetAssumption DEF Fits, Plus
<1>9. value' \in [Procs -> 0..LongMax]
  BY <1>1, <1>8 DEF TypeOK
<1>10. CountersInv'
  BY <1>1 DEF CountersInv, SentPut
<1>11. QED
  BY <1>2, <1>5, <1>6, <1>9, <1>10 DEF TypeOK, Size

\* A join and a report change no count but those of the host.
LEMMA TypesOfJoin ==
  ASSUME TypeOK, CountersInv, IInv, NEW p \in Procs, Join(p)
  PROVE  TypeOK' /\ CountersInv'
<1>1. /\ at' \in [Procs -> {"top", "io", "answer", "print", "halted"}]
      /\ UNCHANGED <<value, sends, index, got, put, rounds>>
  BY DEF Join, TypeOK
<1>2. ASSUME NEW q \in Procs
      PROVE  /\ ins'[q] \in [1..Size(q) + 1 -> Channels]
             /\ outs'[q] \in [1..Size(q) + 1 -> Channels]
  <2>1. ins[q] \in [1..Size(q) + 1 -> Channels] /\ outs[q] \in [1..Size(q) + 1 -> Channels]
    BY DEF TypeOK
  <2>2. CASE q = p /\ p # Host
    <3>1. /\ ins'[p] = InsertChannel(ins[p], Size(p), index[p])
          /\ outs'[p] = InsertChannel(outs[p], Size(p), index[p])
      BY <2>2 DEF Join, IInv, ArrayInv
    <3>2. Size(p) \in Nat /\ index[p] \in 1..Size(p)
      BY NetAssumption DEF TypeOK, Size
    <3>3. ins[p] \in [1..Size(p) + 1 -> Channels] /\ outs[p] \in [1..Size(p) + 1 -> Channels]
      BY <2>1, <2>2
    <3>4. /\ InsertChannel(ins[p], Size(p), index[p]) \in [1..Size(p) + 1 -> Channels]
          /\ InsertChannel(outs[p], Size(p), index[p]) \in [1..Size(p) + 1 -> Channels]
      BY <3>2, <3>3, ListTypes
    <3>5. QED
      BY <2>2, <3>1, <3>4
  <2>3. CASE q # p \/ p = Host
    BY <2>1, <2>3 DEF Join, IInv, ArrayInv
  <2>4. QED
    BY <2>2, <2>3
<1>3. CountersInv'
  BY <1>1 DEF CountersInv
<1>4. QED
  BY <1>1, <1>2, <1>3 DEF TypeOK, Size

\* The report.
LEMMA TypesOfReport ==
  ASSUME TypeOK, CountersInv, Report
  PROVE  TypeOK' /\ CountersInv'
<1>1. /\ at' \in [Procs -> {"top", "io", "answer", "print", "halted"}]
      /\ UNCHANGED <<ins, outs, value, index>>
  BY DEF Report, TypeOK
<1>2. Size(Host) \in Nat /\ value[Host] \in 0..LongMax
  BY NetAssumption DEF TypeOK, Size
<1>3. value[Host] < LongMax => Increment(value[Host]) \in 0..LongMax
  BY <1>2, NetAssumption DEF Increment, Plus
<1>4. sends' \in [Procs -> 0..LongMax]
  BY <1>3 DEF Report, TypeOK
<1>5. rounds' \in [Procs -> 0..Rounds - 1]
  BY NextRound, NetAssumption DEF Report, TypeOK
<1>6. ASSUME NEW q \in Procs
      PROVE  got'[q] \in 0..Size(q) /\ put'[q] \in 0..Size(q)
  BY <1>2 DEF Report, TypeOK, CountersInv
<1>7. CountersInv'
  BY DEF Report, CountersInv
<1>8. QED
  BY <1>1, <1>4, <1>5, <1>6, <1>7 DEF TypeOK, Size

\* Every step keeps the types.
LEMMA TypesStep ==
  ASSUME TypeOK, CountersInv, IInv, [Next]_vars
  PROVE  TypeOK' /\ CountersInv'
<1>1. CASE UNCHANGED vars
  BY <1>1 DEF vars, TypeOK, CountersInv, Size
<1>2. CASE Stopped
  BY <1>1, <1>2 DEF Stopped
<1>3. QED
  BY <1>1, <1>2, TypesOfTake, TypesOfAdd, TypesOfJoin, TypesOfReport DEF Next

-----------------------------------------------------------------------------
(* One round.  It is an echo: what a process takes first comes from the one  *)
(* that it will answer, and it answers when it has a value from each other   *)
(* place.  So when the host has one from each of its own, all are done.      *)

\* p has taken part in the round of the host.
Joined(p) == rounds[p] = rounds[Host]

\* Where place i of p is in its lists while i0 = index[p] is taken out.
Turned(p, i) == IF i > index[p] THEN i - index[p] ELSE i + Size(p) - index[p]

\* p has sent its value of this round from place i.
HasSent(p, i) ==
  IF p = Host THEN i <= put[p]
  ELSE Joined(p) /\ (at[p] = "top" \/ Turned(p, i) <= put[p])

\* The place at the other end.
Mate(p, i) == CHOOSE n \in Ports : OutputAt(n) = InputAt(<<p, i>>) /\ InputAt(n) = OutputAt(<<p, i>>)

\* So p has got one at place i.
HasGot(p, i) == HasSent(Mate(p, i)[1], Mate(p, i)[2])

\* The places that IOProcesses is called with, and those of them it has read.
Others(p) == {i \in 1..Size(p) : p = Host \/ i # index[p]}
GotOn(p) == {i \in Others(p) : HasGot(p, i)}

\* Who has joined is counted with the host, the others are one round behind.
RoundInv ==
  \A p \in Procs : Joined(p) \/ (rounds[p] + 1) % Rounds = rounds[Host]

\* Who has not joined has not been sent to.
QuietInv ==
  \A p \in Procs : ~ Joined(p) => at[p] = "top" /\ \A i \in 1..Size(p) : ~ HasGot(p, i)

\* Who has joined was sent to from where it will answer.
FirstInv == \A p \in Procs \ {Host} : Joined(p) => HasGot(p, index[p])

\* InputProcess counts the places it has read, OutputProcess those it has written.
CountInv ==
  \A p \in Procs :
    /\ at[p] = "io" => got[p] = Cardinality(GotOn(p))
    /\ at[p] \in {"io", "answer", "halted"} => put[p] <= Count(p)
    /\ at[p] \in {"answer", "print"} => put[p] = Count(p)

\* Who answers, prints or is done has got all.
AllInv ==
  \A p \in Procs :
    at[p] \in {"answer", "print"} \/ (at[p] = "top" /\ Joined(p)) => \A i \in 1..Size(p) : HasGot(p, i)

\* Those that are not done form a tree under the host: each is deeper than the
\* one it will answer.
Unanswered == {p \in Procs \ {Host} : at[p] \in {"io", "answer", "halted"}}
TreeInv ==
  \E depth \in [Procs -> Nat] :
    \A p \in Unanswered : depth[Mate(p, index[p])[1]] < depth[p]

EchoInv == RoundInv /\ QuietInv /\ FirstInv /\ CountInv /\ AllInv /\ TreeInv

-----------------------------------------------------------------------------
(* Places and their mates.                                                 *)

\* A place is a process and a number of its lists.
LEMMA PortsAre ==
  /\ \A p \in Procs : \A i \in 1..Size(p) : <<p, i>> \in Ports
  /\ \A m \in Ports : m = <<m[1], m[2]>> /\ m[1] \in Procs /\ m[2] \in 1..Size(m[1])
BY DEF Ports

\* A place has one mate, which leads back to it.
LEMMA Mates ==
  ASSUME Paired, NEW p \in Procs, NEW i \in 1..Size(p)
  PROVE  /\ Mate(p, i) \in Ports
         /\ OutputAt(Mate(p, i)) = InputAt(<<p, i>>)
         /\ InputAt(Mate(p, i)) = OutputAt(<<p, i>>)
<1>1. <<p, i>> \in Ports
  BY PortsAre
<1>2. \E n \in Ports : OutputAt(n) = InputAt(<<p, i>>) /\ InputAt(n) = OutputAt(<<p, i>>)
  BY <1>1 DEF Paired
<1>3. QED
  BY <1>2 DEF Mate

\* Every place has one.
LEMMA MatesThere ==
  ASSUME Paired, NEW p \in Procs, NEW i \in 1..Size(p)
  PROVE  \E q \in Procs : \E j \in 1..Size(q) : Mate(p, i) = <<q, j>>
<1> DEFINE m == Mate(p, i)
<1>1. m \in Ports
  BY Mates
<1> HIDE DEF m
<1>2. m = <<m[1], m[2]>> /\ m[1] \in Procs /\ m[2] \in 1..Size(m[1])
  BY <1>1, PortsAre
<1>3. QED
  BY <1>2 DEF m

\* Two places have two mates.
LEMMA MatesDiffer ==
  ASSUME Paired, NEW p \in Procs, NEW i \in 1..Size(p), NEW q \in Procs, NEW j \in 1..Size(q),
         Mate(p, i) = Mate(q, j)
  PROVE  p = q /\ i = j
<1>1. OutputAt(<<p, i>>) = OutputAt(<<q, j>>)
  BY Mates
<1>2. <<p, i>> \in Ports /\ <<q, j>> \in Ports
  BY PortsAre
<1>3. <<p, i>> = <<q, j>>
  BY <1>1, <1>2 DEF Paired
<1>4. QED
  BY <1>3

\* The mate of the mate is the place itself.
LEMMA MateOfMate ==
  ASSUME Paired, NEW p \in Procs, NEW i \in 1..Size(p), NEW q \in Procs, NEW j \in 1..Size(q),
         Mate(p, i) = <<q, j>>
  PROVE  Mate(q, j) = <<p, i>>
<1>1. OutputAt(<<q, j>>) = InputAt(<<p, i>>) /\ InputAt(<<q, j>>) = OutputAt(<<p, i>>)
  BY Mates
<1>2. Mate(q, j) \in Ports /\ OutputAt(Mate(q, j)) = InputAt(<<q, j>>)
  BY Mates
<1>3. <<p, i>> \in Ports
  BY PortsAre
<1>4. QED
  BY <1>1, <1>2, <1>3 DEF Paired

\* The list without the channel at i.
LEMMA Deleted ==
  ASSUME NEW S, NEW cs \in Seq(S), NEW i \in 1..Len(cs)
  PROVE  /\ DOMAIN DeleteChannel(CreateChannels(cs), Len(cs), i) = 1..Len(cs) + 1
         /\ DeleteChannel(CreateChannels(cs), Len(cs), i)[Len(cs)] = Null
         /\ \A k \in 1..Len(cs) - 1 :
              DeleteChannel(CreateChannels(cs), Len(cs), i)[k]
                = IF k + i <= Len(cs) THEN cs[k + i] ELSE cs[k + i - Len(cs)]
<1> DEFINE n == Len(cs)
           R == RotateChannels(CreateChannels(cs), n, i)
<1>1. n \in Nat /\ i \in 1..n /\ n > 0
  OBVIOUS
<1>2. /\ DOMAIN R = 1..n + 1
      /\ \A k \in 1..n - 1 : R[k] = IF k + i <= n THEN cs[k + i] ELSE cs[k + i - n]
  <2> DEFINE A == CreateChannels(cs)
  <2>1. \A k \in 1..n : A[k] = cs[k]
    BY <1>1 DEF CreateChannels
  <2> HIDE DEF A
  <2>2. R = [k \in 1..n + 1 |-> IF k > n THEN Null ELSE IF k + i <= n THEN A[k + i] ELSE A[k + i - n]]
    BY DEF RotateChannels, A
  <2> HIDE DEF R
  <2>3. ASSUME NEW k \in 1..n - 1
        PROVE  R[k] = IF k + i <= n THEN cs[k + i] ELSE cs[k + i - n]
    <3>1. k \in 1..n + 1 /\ ~ k > n
      BY <1>1
    <3>2. R[k] = IF k + i <= n THEN A[k + i] ELSE A[k + i - n]
      BY <2>2, <3>1
    <3>3. IF k + i <= n THEN k + i \in 1..n ELSE k + i - n \in 1..n
      BY <1>1
    <3>4. QED
      BY <2>1, <3>2, <3>3
  <2>4. QED
    BY <2>2, <2>3
<1>3. R = [k \in 1..n + 1 |-> R[k]]
  BY DEF RotateChannels
<1> HIDE DEF R
<1>4. DeleteChannel(CreateChannels(cs), n, i) = [R EXCEPT ![n + 1] = R[n], ![n] = Null]
  BY DEF DeleteChannel, R
<1>5. /\ DOMAIN [R EXCEPT ![n + 1] = R[n], ![n] = Null] = 1..n + 1
      /\ [R EXCEPT ![n + 1] = R[n], ![n] = Null][n] = Null
      /\ \A k \in 1..n - 1 : [R EXCEPT ![n + 1] = R[n], ![n] = Null][k] = R[k]
  BY <1>1, <1>2
<1>6. QED
  BY <1>1, <1>2, <1>4, <1>5

\* What place k of the lists is in IOProcesses.
LEMMA PlaceOf ==
  ASSUME IInv, NEW p \in Procs, at[p] = "io", NEW k \in 1..Count(p)
  PROVE  \E i \in Others(p) :
           /\ ins[p][k] = InputAt(<<p, i>>) /\ outs[p][k] = OutputAt(<<p, i>>)
           /\ p = Host => i = k
           /\ p # Host => Turned(p, i) = k
<1>1. /\ InputOf[p] \in Seq(Wires) /\ OutputOf[p] \in Seq(Wires)
      /\ Len(InputOf[p]) = Size(p) /\ Len(OutputOf[p]) = Size(p) /\ Size(p) \in Nat
  BY NetAssumption DEF Size
<1>2. CASE p = Host
  <2>1. k \in 1..Size(p) /\ k \in Others(p)
    BY <1>1, <1>2 DEF Count, Others
  <2>2. ins[p] = CreateChannels(InputOf[p]) /\ outs[p] = CreateChannels(OutputOf[p])
    BY <1>2 DEF IInv, ListInv, ListInvOf
  <2>3. ins[p][k] = InputOf[p][k] /\ outs[p][k] = OutputOf[p][k]
    BY <1>1, <2>1, <2>2 DEF CreateChannels
  <2>4. QED
    BY <1>2, <2>1, <2>3 DEF InputAt, OutputAt
<1>3. CASE p # Host
  <2>1. k \in 1..Size(p) - 1 /\ index[p] \in 1..Size(p)
    BY <1>3 DEF Count, IInv, ListInv, ListInvOf, Size
  <2> DEFINE i == IF k + index[p] <= Size(p) THEN k + index[p] ELSE k + index[p] - Size(p)
  <2>2. i \in 1..Size(p) /\ i # index[p] /\ Turned(p, i) = k
    BY <1>1, <2>1 DEF Turned
  <2>3. /\ ins[p] = DeleteChannel(CreateChannels(InputOf[p]), Size(p), index[p])
        /\ outs[p] = DeleteChannel(CreateChannels(OutputOf[p]), Size(p), index[p])
    BY <1>3 DEF IInv, ListInv, ListInvOf, Size
  <2>4. ins[p][k] = InputOf[p][i]
    <3>1. index[p] \in 1..Len(InputOf[p]) /\ k \in 1..Len(InputOf[p]) - 1
      BY <1>1, <2>1
    <3>2. DeleteChannel(CreateChannels(InputOf[p]), Len(InputOf[p]), index[p])[k]
            = IF k + index[p] <= Len(InputOf[p]) THEN InputOf[p][k + index[p]]
              ELSE InputOf[p][k + index[p] - Len(InputOf[p])]
      BY <1>1, <3>1, Deleted
    <3>3. QED
      BY <1>1, <2>3, <3>2
  <2>5. outs[p][k] = OutputOf[p][i]
    <3>1. index[p] \in 1..Len(OutputOf[p]) /\ k \in 1..Len(OutputOf[p]) - 1
      BY <1>1, <2>1
    <3>2. DeleteChannel(CreateChannels(OutputOf[p]), Len(OutputOf[p]), index[p])[k]
            = IF k + index[p] <= Len(OutputOf[p]) THEN OutputOf[p][k + index[p]]
              ELSE OutputOf[p][k + index[p] - Len(OutputOf[p])]
      BY <1>1, <3>1, Deleted
    <3>3. QED
      BY <1>1, <2>3, <3>2
  <2>6. QED
    BY <1>3, <2>2, <2>4, <2>5 DEF InputAt, OutputAt, Others
<1>4. QED
  BY <1>2, <1>3

\* The places that the alternation looks at.
LEMMA ListedPlaces ==
  ASSUME IInv, NEW p \in Procs, NEW k \in Listed(ins[p])
  PROVE  /\ at[p] = "io" => k \in 1..Count(p)
         /\ at[p] = "top" => k \in 1..Size(p) /\ ins[p][k] = InputAt(<<p, k>>)
<1>1. InputOf[p] \in Seq(Wires) /\ Len(InputOf[p]) = Size(p) /\ Size(p) \in Nat /\ Size(p) > 0
  BY NetAssumption DEF Size
<1>2. CASE ins[p] = CreateChannels(InputOf[p])
  <2>1. DOMAIN ins[p] = 1..Size(p) + 1 /\ ins[p][Size(p) + 1] = Null
        /\ \A j \in 1..Size(p) : ins[p][j] = InputOf[p][j]
    <3>1. ins[p] = [j \in 1..Size(p) + 1 |-> IF j <= Size(p) THEN InputOf[p][j] ELSE Null]
      BY <1>1, <1>2 DEF CreateChannels
    <3>2. Size(p) + 1 \in 1..Size(p) + 1 /\ ~ Size(p) + 1 <= Size(p)
      BY <1>1
    <3>3. \A j \in 1..Size(p) : j \in 1..Size(p) + 1 /\ j <= Size(p)
      BY <1>1
    <3> HIDE DEF Size
    <3>4. QED
      BY <3>1, <3>2, <3>3
  <2>2. k \in 1..Size(p) + 1 /\ ins[p][k] # Null
    BY <2>1 DEF Listed
  <2>3. k \in 1..Size(p)
    BY <1>1, <2>1, <2>2
  <2>4. at[p] = "io" => p = Host \/ ins[p] = DeleteChannel(CreateChannels(InputOf[p]), Size(p), index[p])
    BY DEF IInv, ListInv, ListInvOf
  <2>5. p # Host /\ at[p] = "io" => k # Size(p)
    <3>1. SUFFICES ASSUME p # Host, at[p] = "io" PROVE ins[p][Size(p)] = Null
      BY <2>2
    <3>2. index[p] \in 1..Size(p)
      BY DEF IInv, ListInv, ListInvOf, Size
    <3>3. QED
      BY <1>1, <2>4, <3>1, <3>2, Deleted
  <2>6. QED
    BY <1>1, <2>1, <2>3, <2>5 DEF Count, InputAt
<1>3. CASE at[p] = "io" /\ p # Host
  <2>1. /\ ins[p] = DeleteChannel(CreateChannels(InputOf[p]), Size(p), index[p])
        /\ index[p] \in 1..Size(p)
    BY <1>3 DEF IInv, ListInv, ListInvOf, Size
  <2>2. DOMAIN ins[p] = 1..Size(p) + 1 /\ ins[p][Size(p)] = Null
    BY <1>1, <2>1, Deleted
  <2>3. k \in 1..Size(p) + 1 /\ \A j \in 1..k : ins[p][j] # Null
    BY <2>2 DEF Listed
  <2>4. k < Size(p)
    BY <1>1, <2>2, <2>3
  <2>5. QED
    BY <1>1, <1>3, <2>3, <2>4 DEF Count
<1>4. QED
  BY <1>2, <1>3 DEF IInv, ListInv, ListInvOf

-----------------------------------------------------------------------------
(* What a communication changes.                                           *)

\* The value that s is about to send, in the places of the configuration.
Offers(s, j) ==
  /\ j \in 1..Size(s)
  /\ \/ /\ at[s] = "io" /\ put[s] < Count(s)
        /\ IF s = Host THEN j = put[s] + 1 ELSE Turned(s, j) = put[s] + 1
     \/ at[s] = "answer" /\ s # Host /\ j = index[s]

\* Places are numbers, and taking one out turns the others.
LEMMA Turning ==
  ASSUME IInv, NEW p \in Procs
  PROVE  /\ Size(p) \in Nat /\ Size(p) > 0 /\ index[p] \in 1..Size(p)
         /\ Count(p) \in Nat /\ (p # Host => Count(p) = Size(p) - 1) /\ (p = Host => Count(p) = Size(p))
         /\ \A i \in 1..Size(p) : Turned(p, i) \in 1..Size(p)
         /\ \A i \in 1..Size(p) : Turned(p, i) = Size(p) <=> i = index[p]
         /\ \A i, j \in 1..Size(p) : Turned(p, i) = Turned(p, j) => i = j
<1>1. Size(p) \in Nat /\ Size(p) > 0
  BY NetAssumption DEF Size
<1>2. index[p] \in 1..Size(p)
  BY DEF IInv, ListInv, ListInvOf, Size
<1>3. QED
  BY <1>1, <1>2 DEF Turned, Count

\* What is sent into a place comes from its mate.
LEMMA Sender ==
  ASSUME Paired, IInv, NEW p \in Procs, NEW i \in 1..Size(p), NEW s \in Procs,
         put[s] \in Nat, Sends(s, InputAt(<<p, i>>))
  PROVE  \E j \in 1..Size(s) : Mate(p, i) = <<s, j>> /\ Offers(s, j)
<1>1. ASSUME NEW j \in 1..Size(s), OutputAt(<<s, j>>) = InputAt(<<p, i>>)
      PROVE  Mate(p, i) = <<s, j>>
  <2>1. <<s, j>> \in Ports
    BY PortsAre
  <2>2. Mate(p, i) \in Ports /\ OutputAt(Mate(p, i)) = InputAt(<<p, i>>)
    BY Mates
  <2>3. QED
    BY <1>1, <2>1, <2>2 DEF Paired
<1>2. CASE at[s] = "io"
  <2>1. put[s] < Count(s) /\ outs[s][put[s] + 1] = InputAt(<<p, i>>)
    BY <1>2 DEF Sends, OutputReady
  <2>2. put[s] + 1 \in 1..Count(s)
    BY <2>1, Turning
  <2>3. PICK j \in Others(s) :
          /\ outs[s][put[s] + 1] = OutputAt(<<s, j>>)
          /\ s = Host => j = put[s] + 1
          /\ s # Host => Turned(s, j) = put[s] + 1
    BY <1>2, <2>2, PlaceOf
  <2>4. j \in 1..Size(s)
    BY DEF Others
  <2>5. Offers(s, j)
    BY <1>2, <2>1, <2>3, <2>4 DEF Offers
  <2>6. QED
    BY <1>1, <2>1, <2>3, <2>4, <2>5
<1>3. CASE at[s] = "answer"
  <2>1. outs[s][index[s]] = InputAt(<<p, i>>)
    BY <1>3 DEF Sends
  <2>2. s # Host
    BY <1>3 DEF IInv, ArrayInv
  <2>3. outs[s] = CreateChannels(OutputOf[s])
    BY <1>3 DEF IInv, ListInv, ListInvOf
  <2>4. OutputOf[s] \in Seq(Wires) /\ Len(OutputOf[s]) = Size(s)
    BY NetAssumption DEF Size
  <2>5. index[s] \in 1..Size(s) /\ Size(s) \in Nat
    BY Turning
  <2>6. outs[s][index[s]] = OutputAt(<<s, index[s]>>)
    BY <2>3, <2>4, <2>5 DEF CreateChannels, OutputAt
  <2>7. Offers(s, index[s])
    BY <1>3, <2>2, <2>5 DEF Offers
  <2>8. QED
    BY <1>1, <2>1, <2>5, <2>6, <2>7
<1>4. QED
  BY <1>2, <1>3 DEF Sends

\* A communication is that place's, and nobody else's.
LEMMA SenderMoves ==
  ASSUME IInv, QuietInv, CountInv, NEW s \in Procs, NEW j \in 1..Size(s), Offers(s, j), put[s] \in Nat,
         rounds'[s] = rounds[s], rounds'[Host] = rounds[Host], index'[s] = index[s],
         put'[s] = IF at[s] = "io" THEN put[s] + 1 ELSE put[s],
         at[s] = "answer" => at'[s] = "top",
         at[s] = "io" => at'[s] \in {"io", "halted"}
  PROVE  /\ ~ HasSent(s, j)
         /\ \A l \in 1..Size(s) : HasSent(s, l)' <=> HasSent(s, l) \/ l = j
<1>1. Joined(s) /\ Joined(s)'
  BY DEF QuietInv, Offers, Joined
<1>2. Count(s) = Size(s) - 1 \/ s = Host
  BY Turning
<1>3. ASSUME NEW l \in 1..Size(s)
      PROVE  Turned(s, l)' = Turned(s, l) /\ Turned(s, l) \in 1..Size(s)
  BY Turning DEF Turned, Size
<1>4. CASE s = Host
  <2>1. at[s] = "io" /\ j = put[s] + 1
    BY <1>4 DEF Offers
  <2>2. QED
    BY <1>4, <2>1 DEF HasSent
<1>5. CASE s # Host /\ at[s] = "io"
  <2>1. Turned(s, j) = put[s] + 1 /\ put'[s] = put[s] + 1
    BY <1>5 DEF Offers
  <2>2. ~ HasSent(s, j)
    BY <1>5, <2>1 DEF HasSent
  <2>3. ASSUME NEW l \in 1..Size(s)
        PROVE  HasSent(s, l)' <=> HasSent(s, l) \/ l = j
    <3>1. HasSent(s, l) <=> Turned(s, l) <= put[s]
      BY <1>1, <1>5 DEF HasSent
    <3>2. HasSent(s, l)' <=> Turned(s, l) <= put[s] + 1
      BY <1>1, <1>3, <1>5, <2>1 DEF HasSent
    <3>3. Turned(s, l) = put[s] + 1 => l = j
      BY <2>1, Turning
    <3>4. QED
      BY <1>3, <2>1, <3>1, <3>2, <3>3
  <2>4. QED
    BY <2>2, <2>3
<1>6. CASE s # Host /\ at[s] = "answer"
  <2>1. j = index[s] /\ put[s] = Size(s) - 1 /\ at'[s] = "top"
    BY <1>2, <1>6 DEF Offers, CountInv
  <2>2. ASSUME NEW l \in 1..Size(s)
        PROVE  /\ HasSent(s, l) <=> l # j
               /\ HasSent(s, l)'
    <3>1. HasSent(s, l) <=> Turned(s, l) <= Size(s) - 1
      BY <1>1, <1>6, <2>1 DEF HasSent
    <3>2. Turned(s, l) <= Size(s) - 1 <=> Turned(s, l) # Size(s)
      BY <1>3, Turning
    <3>3. HasSent(s, l)'
      BY <1>1, <1>6, <2>1 DEF HasSent
    <3>4. QED
      BY <2>1, <3>1, <3>2, <3>3, Turning
  <2>3. QED
    BY <2>2
<1>7. QED
  BY <1>4, <1>5, <1>6 DEF Offers

\* The sends of a process that is only seen to halt.
LEMMA Bystander ==
  ASSUME NEW q \in Procs, rounds'[q] = rounds[q], rounds'[Host] = rounds[Host],
         index'[q] = index[q], put'[q] = put[q],
         at'[q] = at[q] \/ (at[q] # "top" /\ at'[q] # "top"), NEW l
  PROVE  HasSent(q, l)' <=> HasSent(q, l)
BY DEF HasSent, Joined, Turned, Size

\* The mate is of the configuration, and does not change.
LEMMA MateStays ==
  ASSUME NEW p \in Procs, NEW i \in 1..Size(p), NEW q \in Procs, NEW j \in 1..Size(q),
         Mate(p, i) = <<q, j>>
  PROVE  /\ HasGot(p, i) <=> HasSent(q, j)
         /\ HasGot(p, i)' <=> HasSent(q, j)'
<1>1. HasGot(p, i) <=> HasSent(q, j)
  BY DEF HasGot
<1>2. Mate(p, i)' = Mate(p, i)
  BY DEF Mate, Ports, OutputAt, InputAt, Size
<1>3. HasGot(p, i)' <=> HasSent(q, j)'
  BY <1>2 DEF HasGot, HasSent, Joined, Turned, Size
<1>4. QED
  BY <1>1, <1>3

\* So one place more has got its value.
Delivers(p, i) ==
  /\ ~ HasGot(p, i)
  /\ \A q \in Procs : \A l \in 1..Size(q) : HasGot(q, l)' <=> HasGot(q, l) \/ (q = p /\ l = i)

\* The send of the mate of a place is what that place gets, and no other.
LEMMA Delivered ==
  ASSUME Paired, NEW p \in Procs, NEW i \in 1..Size(p), NEW s \in Procs, NEW j \in 1..Size(s),
         Mate(p, i) = <<s, j>>, ~ HasSent(s, j),
         \A l \in 1..Size(s) : HasSent(s, l)' <=> HasSent(s, l) \/ l = j,
         \A q \in Procs \ {s} : \A l \in 1..Size(q) : HasSent(q, l)' <=> HasSent(q, l)
  PROVE  Delivers(p, i)
<1>1. ~ HasGot(p, i)
  BY MateStays
<1>2. ASSUME NEW q \in Procs, NEW l \in 1..Size(q)
      PROVE  HasGot(q, l)' <=> HasGot(q, l) \/ (q = p /\ l = i)
  <2>0. PICK r \in Procs : \E k \in 1..Size(r) : Mate(q, l) = <<r, k>>
    BY MatesThere
  <2>1. PICK k \in 1..Size(r) : Mate(q, l) = <<r, k>>
    BY <2>0
  <2>2. /\ HasGot(q, l) <=> HasSent(r, k)
        /\ HasGot(q, l)' <=> HasSent(r, k)'
    BY <2>1, MateStays
  <2>3. r = s /\ k = j <=> q = p /\ l = i
    BY <2>1, MatesDiffer
  <2>4. HasSent(r, k)' <=> HasSent(r, k) \/ (r = s /\ k = j)
    OBVIOUS
  <2>5. QED
    BY <2>2, <2>3, <2>4
<1>3. QED
  BY <1>1, <1>2 DEF Delivers

-----------------------------------------------------------------------------
(* The steps, as RoundInv and the others see them.                         *)

\* What a communication from s into place i of p does to both.
Passed(p, i, s) ==
  /\ i \in 1..Size(p) /\ at[s] \in {"io", "answer"} /\ Delivers(p, i)
  /\ \E j \in 1..Size(s) : Mate(p, i) = <<s, j>> /\ HasSent(s, j)'
  /\ \A q \in Procs \ {p} :
       /\ index'[q] = index[q] /\ got'[q] = got[q] /\ rounds'[q] = rounds[q]
       /\ put'[q] = IF q = s /\ at[s] = "io" THEN put[q] + 1 ELSE put[q]
       /\ at'[q] = IF q = s /\ at[s] = "answer" THEN "top" ELSE at[q]
  /\ at[s] = "io" => put[s] < Count(s)

\* What RoundInv and the others need to know of each process.
Base == TypeOK /\ CountersInv /\ IInv

\* The first value of a round.
LEMMA Taken ==
  ASSUME Paired, Base, EchoInv, NEW p \in Procs, Take(p)
  PROVE  /\ p # Host /\ at[p] = "top" /\ ~ Joined(p)
         /\ \E i \in 1..Size(p), s \in Procs \ {p} :
              /\ Passed(p, i, s)
              /\ index'[p] = i /\ got'[p] = 0 /\ put'[p] = 0 /\ at'[p] \in {"io", "halted"}
              /\ rounds'[p] = rounds[Host]
<1> USE DEF Base
<1>1. p # Host /\ at[p] = "top"
  BY DEF Take
<1>2. PICK i \in Listed(ins[p]), s \in Procs :
        /\ Sends(s, ins[p][i])
        /\ index' = [index EXCEPT ![p] = i]
        /\ got' = [got EXCEPT ![p] = 0]
        /\ put' = SentPut(s, [put EXCEPT ![p] = 0])
        /\ \/ at' = SentAt(s, [at EXCEPT ![p] = "io"])
           \/ at' = SentAt(s, [at EXCEPT ![p] = "halted"])
  BY DEF Take
<1>3. rounds' = [rounds EXCEPT ![p] = (@ + 1) % Rounds]
  BY DEF Take
<1>4. i \in 1..Size(p) /\ ins[p][i] = InputAt(<<p, i>>)
  BY <1>1, ListedPlaces
<1>5. s # p /\ at[s] \in {"io", "answer"}
  BY <1>1, <1>2 DEF Sends
<1>6. put[s] \in Nat
  BY NetAssumption DEF TypeOK, Size
<1>7. PICK j \in 1..Size(s) : Mate(p, i) = <<s, j>> /\ Offers(s, j)
  BY <1>2, <1>4, <1>6, Sender
<1>8. at[s] = "io" => put[s] < Count(s)
  BY <1>7 DEF Offers
<1>9. /\ at'[p] \in {"io", "halted"}
      /\ \A q \in Procs \ {p} : at'[q] = IF q = s /\ at[s] = "answer" THEN "top" ELSE at[q]
  <2>1. DOMAIN at = Procs
    BY DEF IInv, ArrayInv
  <2>2. CASE at' = SentAt(s, [at EXCEPT ![p] = "io"])
    BY <2>1, <2>2, <1>5 DEF SentAt
  <2>3. CASE at' = SentAt(s, [at EXCEPT ![p] = "halted"])
    BY <2>1, <2>3, <1>5 DEF SentAt
  <2> QED BY <2>2, <2>3, <1>2
<1>10. /\ put'[p] = 0
       /\ \A q \in Procs \ {p} : put'[q] = IF q = s /\ at[s] = "io" THEN put[q] + 1 ELSE put[q]
  BY <1>2, <1>5 DEF SentPut, CountersInv
<1>11. /\ index'[p] = i /\ got'[p] = 0
       /\ \A q \in Procs \ {p} : index'[q] = index[q] /\ got'[q] = got[q] /\ rounds'[q] = rounds[q]
  BY <1>2, <1>3 DEF CountersInv, IInv, ArrayInv, TypeOK
<1>12. rounds'[Host] = rounds[Host]
  BY <1>1, <1>11, NetAssumption
<1>13. /\ ~ HasSent(s, j)
       /\ \A l \in 1..Size(s) : HasSent(s, l)' <=> HasSent(s, l) \/ l = j
  BY <1>5, <1>6, <1>7, <1>9, <1>10, <1>11, <1>12, SenderMoves DEF EchoInv
<1>14. ~ Joined(p)
  <2>1. ~ HasGot(p, i)
    BY <1>4, <1>7, <1>13, MateStays
  <2>2. QED
    BY <1>1, <1>4, <2>1 DEF EchoInv, AllInv
<1>15. ASSUME NEW q \in Procs \ {s}, NEW l \in 1..Size(q)
       PROVE  HasSent(q, l)' <=> HasSent(q, l)
  <2>1. CASE q = p
    <3>1. ~ HasSent(p, l)
      BY <1>1, <1>14 DEF HasSent
    <3>2. Turned(p, l)' \in 1..Size(p)
      BY <1>4, <1>11, <2>1, Turning DEF Turned, Size
    <3>3. ~ HasSent(p, l)'
      BY <1>1, <1>9, <1>10, <3>2 DEF HasSent
    <3>4. QED
      BY <2>1, <3>1, <3>3
  <2>2. CASE q # p
    BY <1>9, <1>10, <1>11, <1>12, <2>2, Bystander
  <2>3. QED
    BY <2>1, <2>2
<1>16. Delivers(p, i)
  BY <1>4, <1>7, <1>13, <1>15, Delivered
<1>17. rounds'[p] = rounds[Host]
  <2>1. rounds'[p] = (rounds[p] + 1) % Rounds
    BY <1>3 DEF TypeOK
  <2>2. QED
    BY <1>14, <2>1 DEF EchoInv, RoundInv
<1>18. HasSent(s, j)'
  BY <1>13
<1>19. Passed(p, i, s)
  BY <1>4, <1>5, <1>7, <1>8, <1>9, <1>10, <1>11, <1>16, <1>18 DEF Passed
<1>20. QED
  BY <1>1, <1>4, <1>5, <1>9, <1>10, <1>11, <1>14, <1>17, <1>19

\* The others.
LEMMA Added ==
  ASSUME Paired, Base, EchoInv, NEW p \in Procs, Add(p)
  PROVE  /\ at[p] = "io" /\ index' = index /\ rounds' = rounds
         /\ \E i \in Others(p), s \in Procs :
              /\ Passed(p, i, s)
              /\ \/ at'[p] = "halted"
                 \/ at'[p] = "io" /\ got'[p] = got[p] + 1
              /\ put'[p] = IF p = s THEN put[p] + 1 ELSE put[p]
<1> USE DEF Base
<1>1. at[p] = "io" /\ index' = index /\ rounds' = rounds
  BY DEF Add
<1>2. PICK k \in Listed(ins[p]), s \in Procs :
        /\ Sends(s, ins[p][k])
        /\ put' = SentPut(s, put)
        /\ \/ got' = [got EXCEPT ![p] = @ + 1] /\ at' = SentAt(s, at)
           \/ got' = got /\ at' = SentAt(s, [at EXCEPT ![p] = "halted"])
  BY DEF Add
<1>3. k \in 1..Count(p)
  BY <1>1, ListedPlaces
<1>4. PICK i \in Others(p) : ins[p][k] = InputAt(<<p, i>>)
  BY <1>1, <1>3, PlaceOf
<1>5. i \in 1..Size(p)
  BY DEF Others
<1>6. put[s] \in Nat
  BY NetAssumption DEF TypeOK, Size
<1>7. PICK j \in 1..Size(s) : Mate(p, i) = <<s, j>> /\ Offers(s, j)
  BY <1>2, <1>4, <1>5, <1>6, Sender
<1>8. at[s] \in {"io", "answer"} /\ (at[s] = "io" => put[s] < Count(s))
  BY <1>7 DEF Offers
<1>9. /\ \A q \in Procs \ {p} : at'[q] = IF q = s /\ at[s] = "answer" THEN "top" ELSE at[q]
      /\ \/ at'[p] = "halted"
         \/ at'[p] = "io" /\ got'[p] = got[p] + 1
  <2>1. DOMAIN at = Procs /\ DOMAIN got = Procs
    BY DEF IInv, ArrayInv, CountersInv
  <2>2. CASE got' = [got EXCEPT ![p] = @ + 1] /\ at' = SentAt(s, at)
    BY <2>1, <2>2, <1>1 DEF SentAt
  <2>3. CASE at' = SentAt(s, [at EXCEPT ![p] = "halted"])
    <3>1. s = p => at[s] = "io"
      BY <1>1
    <3>2. CASE at[s] = "answer"
      <4>1. s # p
        BY <3>1, <3>2
      <4>2. at' = [[at EXCEPT ![p] = "halted"] EXCEPT ![s] = "top"]
        BY <2>3, <3>2, Zenon DEF SentAt
      <4>3. QED
        BY <2>1, <3>2, <4>1, <4>2
    <3>3. CASE at[s] # "answer"
      <4>1. at' = [at EXCEPT ![p] = "halted"]
        BY <2>3, <3>3, Zenon DEF SentAt
      <4>2. QED
        BY <2>1, <3>3, <4>1
    <3> QED BY <3>2, <3>3
  <2> QED BY <2>2, <2>3, <1>2
<1>10. \A q \in Procs : put'[q] = IF q = s /\ at[s] = "io" THEN put[q] + 1 ELSE put[q]
  BY <1>2 DEF SentPut, CountersInv
<1>11. \A q \in Procs \ {p} : index'[q] = index[q] /\ got'[q] = got[q] /\ rounds'[q] = rounds[q]
  BY <1>1, <1>2 DEF CountersInv
<1>12. /\ ~ HasSent(s, j)
       /\ \A l \in 1..Size(s) : HasSent(s, l)' <=> HasSent(s, l) \/ l = j
  <2>1. at[s] = "io" => at'[s] \in {"io", "halted"}
    BY <1>9
  <2>2. at[s] = "answer" => at'[s] = "top"
    BY <1>1, <1>9
  <2>3. put'[s] = IF at[s] = "io" THEN put[s] + 1 ELSE put[s]
    BY <1>10
  <2>4. QED
    BY <1>1, <1>6, <1>7, <2>1, <2>2, <2>3, SenderMoves DEF EchoInv
<1>13. ASSUME NEW q \in Procs \ {s}, NEW l \in 1..Size(q)
       PROVE  HasSent(q, l)' <=> HasSent(q, l)
  <2>1. put'[q] = put[q]
    BY <1>10
  <2>2. at'[q] = at[q] \/ (at[q] # "top" /\ at'[q] # "top")
    BY <1>1, <1>9
  <2>3. QED
    BY <1>1, <2>1, <2>2, Bystander
<1>14. Delivers(p, i)
  BY <1>5, <1>7, <1>12, <1>13, Delivered
<1>15. HasSent(s, j)'
  BY <1>12
<1>16. Passed(p, i, s)
  BY <1>5, <1>7, <1>8, <1>9, <1>10, <1>11, <1>14, <1>15 DEF Passed
<1>17. put'[p] = IF p = s THEN put[p] + 1 ELSE put[p]
  BY <1>1, <1>10
<1>18. QED
  BY <1>1, <1>9, <1>16, <1>17

\* The place that will be answered, after a step.
LEMMA AnsweredPlace ==
  ASSUME NEW q \in Procs, NEW l \in 1..Size(q), index'[q] = l
  PROVE  /\ HasGot(q, index[q])' <=> HasGot(q, l)'
         /\ Mate(q, index[q])' = Mate(q, l)
<1>1. Mate(q, index[q])' = Mate(q, l) /\ Mate(q, l)' = Mate(q, l)
  BY DEF Mate, Ports, OutputAt, InputAt, Size
<1>2. HasGot(q, index[q])' <=> HasGot(q, l)'
  BY <1>1 DEF HasGot, HasSent, Joined, Turned, Size
<1>3. QED
  BY <1>1, <1>2

\* Only the host and those that have joined have sent anything.
LEMMA SendersJoined ==
  ASSUME NEW p \in Procs, NEW i, HasGot(p, i)
  PROVE  Mate(p, i)[1] = Host \/ Joined(Mate(p, i)[1])
BY DEF HasGot, HasSent

\* What has been read of a process that a step leaves alone.
LEMMA SameGotOn ==
  ASSUME NEW q \in Procs, index'[q] = index[q],
         \A l \in 1..Size(q) : HasGot(q, l)' <=> HasGot(q, l)
  PROVE  GotOn(q)' = GotOn(q)
BY DEF GotOn, Others, Size

\* The first value of a round keeps all of it.
LEMMA TakeEcho ==
  ASSUME Paired, Base, EchoInv, NEW p \in Procs, Take(p)
  PROVE  EchoInv'
<1>1. p # Host /\ at[p] = "top" /\ ~ Joined(p)
  BY Taken
<1>2. PICK i \in 1..Size(p), s \in Procs \ {p} :
        /\ Passed(p, i, s)
        /\ index'[p] = i /\ got'[p] = 0 /\ put'[p] = 0 /\ at'[p] \in {"io", "halted"}
        /\ rounds'[p] = rounds[Host]
  BY Taken
<1>3. /\ at[s] \in {"io", "answer"} /\ (at[s] = "io" => put[s] < Count(s))
      /\ ~ HasGot(p, i) /\ Mate(p, i)[1] = s
      /\ \A q \in Procs \ {p} :
           /\ index'[q] = index[q] /\ got'[q] = got[q] /\ rounds'[q] = rounds[q]
           /\ put'[q] = IF q = s /\ at[s] = "io" THEN put[q] + 1 ELSE put[q]
           /\ at'[q] = IF q = s /\ at[s] = "answer" THEN "top" ELSE at[q]
  BY <1>2 DEF Passed, Delivers
<1>4. \A q \in Procs : \A l \in 1..Size(q) : HasGot(q, l)' <=> HasGot(q, l) \/ (q = p /\ l = i)
  BY <1>2 DEF Passed, Delivers
<1>5. rounds'[Host] = rounds[Host]
  BY <1>1, <1>3, NetAssumption
<1>6. Joined(p)' /\ \A q \in Procs \ {p} : Joined(q)' <=> Joined(q)
  BY <1>2, <1>3, <1>5 DEF Joined
<1>7. Joined(s)
  BY <1>3 DEF EchoInv, QuietInv
<1>8. RoundInv'
  BY <1>3, <1>5, <1>6 DEF EchoInv, RoundInv
<1>9. QuietInv'
  <2> SUFFICES ASSUME NEW q \in Procs, ~ Joined(q)'
               PROVE  at'[q] = "top" /\ \A l \in 1..Size(q) : ~ HasGot(q, l)'
    BY DEF QuietInv, Size
  <2>1. q # p /\ ~ Joined(q) /\ q # s
    BY <1>6, <1>7
  <2>2. QED
    BY <1>3, <1>4, <2>1 DEF EchoInv, QuietInv
<1>10. FirstInv'
  <2> SUFFICES ASSUME NEW q \in Procs \ {Host}, Joined(q)'
               PROVE  HasGot(q, index[q])'
    BY DEF FirstInv
  <2>1. CASE q = p
    BY <1>2, <1>4, <2>1, AnsweredPlace
  <2>2. CASE q # p
    <3>1. index'[q] = index[q] /\ index[q] \in 1..Size(q)
      BY <1>3, <2>2, Turning DEF Base
    <3>2. HasGot(q, index[q])
      BY <1>6, <2>2 DEF EchoInv, FirstInv
    <3>3. \A l \in 1..Size(q) : l = index[q] => HasGot(q, l)'
      BY <1>4, <3>2
    <3>4. QED
      BY <3>1, <3>3, AnsweredPlace
  <2>3. QED
    BY <2>1, <2>2
<1>11. CountInv'
  <2>1. ASSUME NEW q \in Procs
        PROVE  /\ at'[q] = "io" => got'[q] = Cardinality(GotOn(q)')
               /\ at'[q] \in {"io", "answer", "halted"} => put'[q] <= Count(q)
               /\ at'[q] \in {"answer", "print"} => put'[q] = Count(q)
    <3>1. Count(q) \in Nat
      BY Turning DEF Base
    <3>2. CASE q = p
      <4>1. ASSUME NEW l \in 1..Size(p), l # i
            PROVE  ~ HasGot(p, l)'
        BY <1>1, <1>4, <4>1 DEF EchoInv, QuietInv
      <4>2. \A l \in GotOn(p)' : l \in 1..Size(p) /\ l # i /\ HasGot(p, l)'
        BY <1>1, <1>2 DEF GotOn, Others, Size
      <4>3. GotOn(p)' = {}
        BY <4>1, <4>2
      <4>4. Cardinality(GotOn(p)') = 0
        BY <4>3, FS_EmptySet
      <4>5. QED
        BY <1>2, <3>1, <3>2, <4>4
    <3>3. CASE q # p
      <4>1. GotOn(q)' = GotOn(q)
        BY <1>3, <1>4, <3>3, SameGotOn
      <4>2. /\ got'[q] = got[q]
            /\ put'[q] = IF q = s /\ at[s] = "io" THEN put[q] + 1 ELSE put[q]
            /\ at'[q] = IF q = s /\ at[s] = "answer" THEN "top" ELSE at[q]
        BY <1>3, <3>3
      <4>3. put[q] \in Nat
        BY NetAssumption DEF Base, TypeOK, Size
      <4>4. at'[q] = "io" => at[q] = "io" /\ got'[q] = Cardinality(GotOn(q)')
        BY <4>1, <4>2 DEF EchoInv, CountInv
      <4>5. at'[q] \in {"io", "answer", "halted"} => put'[q] <= Count(q)
        BY <1>3, <3>1, <4>2, <4>3 DEF EchoInv, CountInv
      <4>6. at'[q] \in {"answer", "print"} => put'[q] = Count(q)
        BY <1>3, <4>2 DEF EchoInv, CountInv
      <4>7. QED
        BY <4>4, <4>5, <4>6
    <3>4. QED
      BY <3>2, <3>3
  <2>2. QED
    BY <2>1 DEF CountInv, Count, Size
<1>12. AllInv'
  <2> SUFFICES ASSUME NEW q \in Procs,
                      at'[q] \in {"answer", "print"} \/ (at'[q] = "top" /\ Joined(q)'),
                      NEW l \in 1..Size(q)
               PROVE  HasGot(q, l)'
    BY DEF AllInv, Size
  <2>1. q # p
    BY <1>2
  <2>2. at[q] \in {"answer", "print"} \/ (at[q] = "top" /\ Joined(q))
    BY <1>3, <1>6, <2>1
  <2>3. HasGot(q, l)
    BY <2>2 DEF EchoInv, AllInv
  <2>4. QED
    BY <1>4, <2>3
<1>13. TreeInv'
  <2>1. PICK depth \in [Procs -> Nat] :
          \A q \in Unanswered : depth[Mate(q, index[q])[1]] < depth[q]
    BY DEF EchoInv, TreeInv
  <2> DEFINE deeper == [depth EXCEPT ![p] = depth[s] + 1]
  <2>2. deeper \in [Procs -> Nat]
    BY <2>1
  <2>3. ASSUME NEW q \in Unanswered'
        PROVE  deeper[Mate(q, index[q])'[1]] < deeper[q]
    <3>1. q \in Procs \ {Host} /\ at'[q] \in {"io", "answer", "halted"}
      BY DEF Unanswered
    <3>2. CASE q = p
      <4>1. Mate(p, index[p])' = Mate(p, i)
        BY <1>2, AnsweredPlace
      <4>2. QED
        BY <1>3, <2>1, <3>2, <4>1
    <3>3. CASE q # p
      <4>1. at[q] \in {"io", "answer", "halted"} /\ q \in Unanswered
        BY <1>3, <3>1, <3>3 DEF Unanswered
      <4>2. Joined(q)
        BY <3>1, <4>1 DEF EchoInv, QuietInv
      <4>3. HasGot(q, index[q])
        BY <3>1, <4>2 DEF EchoInv, FirstInv
      <4>4. Mate(q, index[q])[1] # p
        BY <1>1, <3>1, <4>3, SendersJoined
      <4>5. index'[q] = index[q] /\ index[q] \in 1..Size(q)
        BY <1>3, <3>1, <3>3, Turning DEF Base
      <4>6. Mate(q, index[q])' = Mate(q, index[q])
        BY <3>1, <4>5, AnsweredPlace
      <4>7. Mate(q, index[q])[1] \in Procs
        BY <3>1, <4>5, Mates, PortsAre
      <4>8. QED
        BY <2>1, <3>1, <3>3, <4>1, <4>4, <4>6, <4>7
    <3>4. QED
      BY <3>2, <3>3
  <2>4. QED
    BY <2>2, <2>3 DEF TreeInv
<1>14. QED
  BY <1>8, <1>9, <1>10, <1>11, <1>12, <1>13 DEF EchoInv

\* So does every other value.
LEMMA AddEcho ==
  ASSUME Paired, Base, EchoInv, NEW p \in Procs, Add(p)
  PROVE  EchoInv'
<1>1. at[p] = "io" /\ index' = index /\ rounds' = rounds
  BY Added
<1>2. PICK i \in Others(p), s \in Procs :
        /\ Passed(p, i, s)
        /\ \/ at'[p] = "halted"
           \/ at'[p] = "io" /\ got'[p] = got[p] + 1
        /\ put'[p] = IF p = s THEN put[p] + 1 ELSE put[p]
  BY Added
<1>3. /\ at[s] \in {"io", "answer"} /\ (at[s] = "io" => put[s] < Count(s))
      /\ ~ HasGot(p, i) /\ i \in 1..Size(p)
      /\ \A q \in Procs \ {p} :
           /\ got'[q] = got[q]
           /\ put'[q] = IF q = s /\ at[s] = "io" THEN put[q] + 1 ELSE put[q]
           /\ at'[q] = IF q = s /\ at[s] = "answer" THEN "top" ELSE at[q]
  BY <1>2 DEF Passed, Delivers
<1>4. \A q \in Procs : \A l \in 1..Size(q) : HasGot(q, l)' <=> HasGot(q, l) \/ (q = p /\ l = i)
  BY <1>2 DEF Passed, Delivers
<1>5. \A q \in Procs : Joined(q)' <=> Joined(q)
  BY <1>1 DEF Joined
<1>6. Joined(s) /\ Joined(p)
  BY <1>1, <1>3 DEF EchoInv, QuietInv
<1>7. RoundInv'
  BY <1>1, <1>5 DEF EchoInv, RoundInv
<1>8. QuietInv'
  <2> SUFFICES ASSUME NEW q \in Procs, ~ Joined(q)'
               PROVE  at'[q] = "top" /\ \A l \in 1..Size(q) : ~ HasGot(q, l)'
    BY DEF QuietInv, Size
  <2>1. q # p /\ ~ Joined(q) /\ q # s
    BY <1>5, <1>6
  <2>2. QED
    BY <1>3, <1>4, <2>1 DEF EchoInv, QuietInv
<1>9. FirstInv'
  <2> SUFFICES ASSUME NEW q \in Procs \ {Host}, Joined(q)'
               PROVE  HasGot(q, index[q])'
    BY DEF FirstInv
  <2>1. index'[q] = index[q] /\ index[q] \in 1..Size(q)
    BY <1>1, Turning DEF Base
  <2>2. HasGot(q, index[q])
    BY <1>5 DEF EchoInv, FirstInv
  <2>3. \A l \in 1..Size(q) : l = index[q] => HasGot(q, l)'
    BY <1>4, <2>2
  <2>4. QED
    BY <2>1, <2>3, AnsweredPlace
<1>10. CountInv'
  <2>1. ASSUME NEW q \in Procs
        PROVE  /\ at'[q] = "io" => got'[q] = Cardinality(GotOn(q)')
               /\ at'[q] \in {"io", "answer", "halted"} => put'[q] <= Count(q)
               /\ at'[q] \in {"answer", "print"} => put'[q] = Count(q)
    <3>1. Count(q) \in Nat /\ put[q] \in Nat
      BY Turning, NetAssumption DEF Base, TypeOK, Size
    <3>2. CASE q = p
      <4>1. GotOn(p)' = GotOn(p) \union {i}
        <5>1. Others(p)' = Others(p)
          BY <1>1 DEF Others, Size
        <5>2. \A l \in Others(p) : l \in 1..Size(p)
          BY DEF Others
        <5>3. \A l \in Others(p) : HasGot(p, l)' <=> HasGot(p, l) \/ l = i
          BY <1>4, <5>2
        <5>4. GotOn(p)' = {l \in Others(p) : HasGot(p, l)'}
          BY <5>1 DEF GotOn
        <5>5. QED
          BY <5>3, <5>4 DEF GotOn
      <4>2. i \notin GotOn(p)
        BY <1>3 DEF GotOn
      <4>3. IsFiniteSet(GotOn(p))
        <5>1. IsFiniteSet(1..Size(p))
          BY FS_Interval, Turning DEF Base
        <5>2. QED
          BY <5>1, FS_Subset DEF GotOn, Others
      <4>4. Cardinality(GotOn(p)') = Cardinality(GotOn(p)) + 1
        BY <4>1, <4>2, <4>3, FS_AddElement
      <4>5. at'[p] = "io" => got'[p] = Cardinality(GotOn(p)')
        BY <1>1, <1>2, <4>4 DEF EchoInv, CountInv
      <4>6. put'[p] <= Count(p)
        BY <1>1, <1>2, <1>3, <3>1, <3>2 DEF EchoInv, CountInv
      <4>7. QED
        BY <1>2, <3>2, <4>5, <4>6
    <3>3. CASE q # p
      <4>1. GotOn(q)' = GotOn(q)
        BY <1>1, <1>4, <3>3, SameGotOn
      <4>2. /\ got'[q] = got[q]
            /\ put'[q] = IF q = s /\ at[s] = "io" THEN put[q] + 1 ELSE put[q]
            /\ at'[q] = IF q = s /\ at[s] = "answer" THEN "top" ELSE at[q]
        BY <1>3, <3>3
      <4>3. at'[q] = "io" => at[q] = "io" /\ got'[q] = Cardinality(GotOn(q)')
        BY <4>1, <4>2 DEF EchoInv, CountInv
      <4>4. at'[q] \in {"io", "answer", "halted"} => put'[q] <= Count(q)
        BY <1>3, <3>1, <4>2 DEF EchoInv, CountInv
      <4>5. at'[q] \in {"answer", "print"} => put'[q] = Count(q)
        BY <1>3, <4>2 DEF EchoInv, CountInv
      <4>6. QED
        BY <4>3, <4>4, <4>5
    <3>4. QED
      BY <3>2, <3>3
  <2>2. QED
    BY <2>1 DEF CountInv, Count, Size
<1>11. AllInv'
  <2> SUFFICES ASSUME NEW q \in Procs,
                      at'[q] \in {"answer", "print"} \/ (at'[q] = "top" /\ Joined(q)'),
                      NEW l \in 1..Size(q)
               PROVE  HasGot(q, l)'
    BY DEF AllInv, Size
  <2>1. q # p
    BY <1>2
  <2>2. at[q] \in {"answer", "print"} \/ (at[q] = "top" /\ Joined(q))
    BY <1>3, <1>5, <2>1
  <2>3. HasGot(q, l)
    BY <2>2 DEF EchoInv, AllInv
  <2>4. QED
    BY <1>4, <2>3
<1>12. Unanswered' \subseteq Unanswered
  BY <1>1, <1>3 DEF Unanswered
<1>13. TreeInv'
  <2>1. PICK depth \in [Procs -> Nat] :
          \A q \in Unanswered : depth[Mate(q, index[q])[1]] < depth[q]
    BY DEF EchoInv, TreeInv
  <2>2. ASSUME NEW q \in Unanswered'
        PROVE  depth[Mate(q, index[q])'[1]] < depth[q]
    <3>1. q \in Unanswered /\ q \in Procs
      BY <1>12 DEF Unanswered
    <3>2. index'[q] = index[q] /\ index[q] \in 1..Size(q)
      BY <1>1, <3>1, Turning DEF Base
    <3>3. Mate(q, index[q])' = Mate(q, index[q])
      BY <3>1, <3>2, AnsweredPlace
    <3>4. QED
      BY <2>1, <3>1, <3>3
  <2>3. QED
    BY <2>1, <2>2 DEF TreeInv
<1>14. QED
  BY <1>7, <1>8, <1>9, <1>10, <1>11, <1>13 DEF EchoInv

\* When InputProcess has counted to the end it has read all of its places.
LEMMA CountedAll ==
  ASSUME Base, CountInv, NEW p \in Procs, at[p] = "io", got[p] = Count(p)
  PROVE  \A i \in 1..Size(p) : (i = index[p] /\ p # Host) \/ HasGot(p, i)
<1>1. /\ Size(p) \in Nat /\ Size(p) > 0 /\ index[p] \in 1..Size(p)
      /\ (p # Host => Count(p) = Size(p) - 1) /\ (p = Host => Count(p) = Size(p))
  BY Turning DEF Base
<1>2. IsFiniteSet(1..Size(p)) /\ Cardinality(1..Size(p)) = Size(p)
  BY <1>1, FS_Interval
<1>3. IsFiniteSet(Others(p)) /\ Cardinality(Others(p)) = Count(p)
  <2>1. CASE p = Host
    <3>1. Others(p) = 1..Size(p)
      BY <2>1 DEF Others
    <3>2. QED
      BY <1>1, <1>2, <2>1, <3>1
  <2>2. CASE p # Host
    <3>1. Others(p) = (1..Size(p)) \ {index[p]}
      BY <2>2 DEF Others
    <3> DEFINE S == 1..Size(p)
    <3>2. IsFiniteSet(S) /\ Cardinality(S) = Size(p) /\ index[p] \in S
      BY <1>1, <1>2
    <3> HIDE DEF S
    <3>3. IsFiniteSet(S \ {index[p]}) /\ Cardinality(S \ {index[p]}) = Cardinality(S) - 1
      BY <3>2, FS_RemoveElement
    <3>4. Cardinality(S \ {index[p]}) = Count(p)
      BY <1>1, <2>2, <3>2, <3>3
    <3>5. QED
      BY <3>1, <3>3, <3>4 DEF S
  <2>3. QED
    BY <2>1, <2>2
<1>4. GotOn(p) \subseteq Others(p) /\ Cardinality(GotOn(p)) = Cardinality(Others(p))
  BY <1>3 DEF GotOn, CountInv
<1>5. GotOn(p) = Others(p)
  BY <1>3, <1>4, FS_Subset
<1>6. QED
  BY <1>5 DEF GotOn, Others

\* The end of ProcPar keeps all of it: InputProcess has counted to the end.
LEMMA JoinEcho ==
  ASSUME Paired, Base, EchoInv, NEW p \in Procs, Join(p)
  PROVE  EchoInv'
<1>1. /\ at[p] = "io" /\ put[p] = Count(p) /\ got[p] = Count(p)
      /\ at' = [at EXCEPT ![p] = IF p = Host THEN "print" ELSE "answer"]
      /\ UNCHANGED <<index, got, put, rounds>>
  BY DEF Join, BothDone
<1>2. /\ at'[p] = IF p = Host THEN "print" ELSE "answer"
      /\ \A q \in Procs \ {p} : at'[q] = at[q]
  BY <1>1 DEF Base, TypeOK
<1>3. \A q \in Procs : Joined(q)' <=> Joined(q)
  BY <1>1 DEF Joined
<1>4. ASSUME NEW q \in Procs, NEW l \in 1..Size(q)
      PROVE  HasSent(q, l)' <=> HasSent(q, l)
  <2>1. at'[q] = at[q] \/ (at[q] # "top" /\ at'[q] # "top")
    BY <1>1, <1>2
  <2>2. QED
    BY <1>1, <2>1, Bystander
<1>5. ASSUME NEW q \in Procs, NEW l \in 1..Size(q)
      PROVE  HasGot(q, l)' <=> HasGot(q, l)
  <2>1. PICK r \in Procs : \E k \in 1..Size(r) : Mate(q, l) = <<r, k>>
    BY MatesThere
  <2>2. PICK k \in 1..Size(r) : Mate(q, l) = <<r, k>>
    BY <2>1
  <2>3. QED
    BY <1>4, <2>2, MateStays
<1>6. \A q \in Procs : index'[q] = index[q] /\ index[q] \in 1..Size(q)
  BY <1>1, Turning DEF Base
<1>7. RoundInv' /\ QuietInv'
  <2>1. RoundInv'
    BY <1>1, <1>3 DEF EchoInv, RoundInv
  <2>2. ASSUME NEW q \in Procs, ~ Joined(q)'
        PROVE  at'[q] = "top" /\ \A l \in 1..Size(q) : ~ HasGot(q, l)'
    <3>1. ~ Joined(q) /\ at[q] = "top" /\ q # p
      BY <1>1, <1>3, <2>2 DEF EchoInv, QuietInv
    <3>2. QED
      BY <1>2, <1>5, <3>1 DEF EchoInv, QuietInv
  <2>3. QED
    BY <2>1, <2>2 DEF QuietInv, Size
<1>8. FirstInv'
  <2> SUFFICES ASSUME NEW q \in Procs \ {Host}, Joined(q)'
               PROVE  HasGot(q, index[q])'
    BY DEF FirstInv
  <2>1. HasGot(q, index[q])
    BY <1>3 DEF EchoInv, FirstInv
  <2>2. \A l \in 1..Size(q) : l = index[q] => HasGot(q, l)'
    BY <1>5, <2>1
  <2>3. QED
    BY <1>6, <2>2, AnsweredPlace
<1>9. CountInv'
  <2>1. ASSUME NEW q \in Procs
        PROVE  /\ at'[q] = "io" => got'[q] = Cardinality(GotOn(q)')
               /\ at'[q] \in {"io", "answer", "halted"} => put'[q] <= Count(q)
               /\ at'[q] \in {"answer", "print"} => put'[q] = Count(q)
    <3>1. Count(q) \in Nat
      BY Turning DEF Base
    <3>2. GotOn(q)' = GotOn(q)
      BY <1>5, <1>6, SameGotOn
    <3>3. QED
      BY <1>1, <1>2, <3>1, <3>2 DEF EchoInv, CountInv
  <2>2. QED
    BY <2>1 DEF CountInv, Count, Size
<1>10. AllInv'
  <2> SUFFICES ASSUME NEW q \in Procs,
                      at'[q] \in {"answer", "print"} \/ (at'[q] = "top" /\ Joined(q)'),
                      NEW l \in 1..Size(q)
               PROVE  HasGot(q, l)
    BY <1>5 DEF AllInv, Size
  <2>1. CASE q = p
    <3>1. p # Host => Joined(p)
      BY <1>1 DEF EchoInv, QuietInv
    <3>2. p # Host => HasGot(p, index[p])
      BY <3>1 DEF EchoInv, FirstInv
    <3>3. QED
      BY <1>1, <2>1, <3>2, CountedAll DEF EchoInv
  <2>2. CASE q # p
    BY <1>2, <1>3, <2>2 DEF EchoInv, AllInv
  <2>3. QED
    BY <2>1, <2>2
<1>11. Unanswered' \subseteq Unanswered
  BY <1>1, <1>2 DEF Unanswered
<1>12. TreeInv'
  <2>1. PICK depth \in [Procs -> Nat] :
          \A q \in Unanswered : depth[Mate(q, index[q])[1]] < depth[q]
    BY DEF EchoInv, TreeInv
  <2>2. ASSUME NEW q \in Unanswered'
        PROVE  depth[Mate(q, index[q])'[1]] < depth[q]
    <3>1. q \in Unanswered /\ q \in Procs
      BY <1>11 DEF Unanswered
    <3>2. Mate(q, index[q])' = Mate(q, index[q])
      BY <1>6, <3>1, AnsweredPlace
    <3>3. QED
      BY <2>1, <3>1, <3>2
  <2>3. QED
    BY <2>1, <2>2 DEF TreeInv
<1>13. QED
  BY <1>7, <1>8, <1>9, <1>10, <1>12 DEF EchoInv

-----------------------------------------------------------------------------
(* The end of a round.                                                     *)

\* Among some processes one is least deep.
LEMMA LeastDeep ==
  ASSUME NEW S, NEW depth \in [Procs -> Nat], S \subseteq Procs, S # {}
  PROVE  \E u \in S : \A v \in S : ~ depth[v] < depth[u]
<1> DEFINE D == {depth[q] : q \in S}
<1>1. D \subseteq Nat /\ D # {}
  OBVIOUS
<1>2. PICK least \in D : \A d \in D : <<d, least>> \notin OpToRel(<, Nat)
  BY <1>1, WFMin, NatLessThanWellFounded
<1>3. \A d \in D : ~ d < least
  BY <1>1, <1>2 DEF OpToRel
<1>4. QED
  BY <1>2, <1>3

\* When the host prints nobody is left to answer: the least deep of them would
\* answer one that is done, which has got that answer.
LEMMA NoneUnanswered ==
  ASSUME Paired, Base, EchoInv, at[Host] = "print"
  PROVE  Unanswered = {}
<1> SUFFICES ASSUME Unanswered # {} PROVE FALSE
  OBVIOUS
<1>1. PICK depth \in [Procs -> Nat] :
        \A q \in Unanswered : depth[Mate(q, index[q])[1]] < depth[q]
  BY DEF EchoInv, TreeInv
<1>2. Unanswered \subseteq Procs
  BY DEF Unanswered
<1>3. PICK u \in Unanswered : \A v \in Unanswered : ~ depth[v] < depth[u]
  BY <1>2, LeastDeep
<1>4. u \in Procs \ {Host} /\ at[u] \in {"io", "answer", "halted"}
  BY DEF Unanswered
<1>5. index[u] \in 1..Size(u) /\ Size(u) \in Nat /\ Count(u) = Size(u) - 1 /\ Turned(u, index[u]) = Size(u)
  BY <1>4, Turning DEF Base
<1>6. PICK q \in Procs : \E j \in 1..Size(q) : Mate(u, index[u]) = <<q, j>>
  BY <1>4, <1>5, MatesThere
<1>7. PICK j \in 1..Size(q) : Mate(u, index[u]) = <<q, j>>
  BY <1>6
<1>8. q \notin Unanswered
  BY <1>1, <1>3, <1>7
<1>9. HasSent(q, j)
  <2>1. Joined(u)
    BY <1>4 DEF EchoInv, QuietInv
  <2>2. HasGot(u, index[u])
    BY <1>4, <2>1 DEF EchoInv, FirstInv
  <2>3. QED
    BY <1>4, <1>5, <1>7, <2>2, MateStays
<1>10. at[q] = "print" \/ (at[q] = "top" /\ Joined(q))
  <2>1. CASE q = Host
    BY <2>1
  <2>2. CASE q # Host
    <3>1. Joined(q)
      BY <1>9, <2>2 DEF HasSent
    <3>2. at[q] = "top"
      BY <1>8, <2>2 DEF Unanswered, Base, IInv, ArrayInv
    <3>3. QED
      BY <3>1, <3>2
  <2>3. QED
    BY <2>1, <2>2
<1>11. HasGot(q, j)
  BY <1>10 DEF EchoInv, AllInv
<1>12. Mate(q, j) = <<u, index[u]>>
  BY <1>4, <1>5, <1>7, MateOfMate
<1>13. HasSent(u, index[u])
  BY <1>4, <1>5, <1>11, <1>12, MateStays
<1>14. Turned(u, index[u]) <= put[u]
  BY <1>4, <1>13 DEF HasSent
<1>15. put[u] <= Count(u) /\ put[u] \in Nat
  BY <1>4, NetAssumption, SMTT(30) DEF EchoInv, CountInv, Base, TypeOK, Size
<1>16. QED
  BY <1>5, <1>14, <1>15

\* And everybody has taken part, since who is done has sent to all its neighbours.
LEMMA RoundOver ==
  ASSUME Paired, Connected, Base, EchoInv, at[Host] = "print", NEW p \in Procs \ {Host}
  PROVE  at[p] = "top" /\ Joined(p)
<1> DEFINE S == {q \in Procs : Joined(q)}
<1>1. Host \in S
  BY NetAssumption DEF Joined
<1>2. \A q \in Procs \ {Host} : at[q] = "top"
  <2>1. Unanswered = {}
    BY NoneUnanswered
  <2>2. QED
    BY <2>1 DEF Unanswered, Base, IInv, ArrayInv
<1>3. ASSUME NEW q \in S, NEW i \in 1..Size(q)
      PROVE  HasSent(q, i)
  <2>1. CASE q = Host
    <3>1. put[q] = Size(q)
      BY <2>1, Turning DEF EchoInv, CountInv, Base
    <3>2. Size(q) \in Nat
      BY Turning DEF Base
    <3>3. QED
      BY <2>1, <3>1, <3>2 DEF HasSent
  <2>2. CASE q # Host
    BY <1>2, <2>2 DEF HasSent
  <2>3. QED
    BY <2>1, <2>2
<1>4. Leads(S)
  <2> SUFFICES ASSUME NEW m \in Ports, NEW n \in Ports, m[1] \in S, OutputAt(m) = InputAt(n)
               PROVE  n[1] \in S
    BY DEF Leads
  <2>1. /\ m = <<m[1], m[2]>> /\ m[1] \in Procs /\ m[2] \in 1..Size(m[1])
        /\ n = <<n[1], n[2]>> /\ n[1] \in Procs /\ n[2] \in 1..Size(n[1])
    BY PortsAre
  <2>2. Mate(n[1], n[2]) = m
    <3>1. Mate(n[1], n[2]) \in Ports /\ OutputAt(Mate(n[1], n[2])) = InputAt(<<n[1], n[2]>>)
      BY <2>1, Mates
    <3>2. OutputAt(Mate(n[1], n[2])) = OutputAt(m)
      BY <2>1, <3>1
    <3>3. QED
      BY <3>1, <3>2 DEF Paired
  <2>3. HasSent(m[1], m[2])
    BY <1>3, <2>1
  <2>4. HasGot(n[1], n[2])
    BY <2>2, <2>3 DEF HasGot
  <2>5. QED
    BY <2>1, <2>4 DEF EchoInv, QuietInv
<1>5. S = Procs
  BY <1>1, <1>4 DEF Connected
<1>6. QED
  BY <1>2, <1>5

\* The report starts the next round, for which nothing has been sent.
LEMMA ReportEcho ==
  ASSUME Paired, Connected, Base, EchoInv, Report
  PROVE  EchoInv'
<1>1. /\ at[Host] = "print"
      /\ at' = [at EXCEPT ![Host] = IF value[Host] < LongMax THEN "io" ELSE "halted"]
      /\ got' = [got EXCEPT ![Host] = 0] /\ put' = [put EXCEPT ![Host] = 0]
      /\ rounds' = [rounds EXCEPT ![Host] = (@ + 1) % Rounds]
      /\ UNCHANGED index
  BY DEF Report
<1>2. /\ at'[Host] \in {"io", "halted"} /\ got'[Host] = 0 /\ put'[Host] = 0
      /\ rounds'[Host] = (rounds[Host] + 1) % Rounds
      /\ \A q \in Procs \ {Host} : at'[q] = at[q] /\ rounds'[q] = rounds[q]
  BY <1>1, NetAssumption DEF Base, TypeOK, CountersInv
<1>3. \A q \in Procs \ {Host} : at'[q] = "top" /\ rounds[q] = rounds[Host]
  BY <1>1, <1>2, RoundOver DEF Joined
<1>4. rounds[Host] \in 0..Rounds - 1
  BY NetAssumption DEF Base, TypeOK
<1>5. \A q \in Procs \ {Host} : ~ Joined(q)'
  BY <1>2, <1>3, <1>4, RoundsMove DEF Joined
<1>6. ASSUME NEW q \in Procs, NEW l \in 1..Size(q)
      PROVE  ~ HasSent(q, l)'
  BY <1>2, <1>5 DEF HasSent
<1>7. ASSUME NEW q \in Procs, NEW l \in 1..Size(q)
      PROVE  ~ HasGot(q, l)'
  <2>1. PICK r \in Procs : \E k \in 1..Size(r) : Mate(q, l) = <<r, k>>
    BY MatesThere
  <2>2. PICK k \in 1..Size(r) : Mate(q, l) = <<r, k>>
    BY <2>1
  <2>3. QED
    BY <1>6, <2>2, MateStays
<1>8. RoundInv'
  BY <1>2, <1>3 DEF RoundInv, Joined
<1>9. QuietInv'
  <2>1. Joined(Host)'
    BY DEF Joined
  <2>2. QED
    BY <1>3, <1>7, <2>1 DEF QuietInv, Size
<1>10. FirstInv'
  BY <1>5 DEF FirstInv
<1>11. CountInv'
  <2>1. GotOn(Host)' = {}
    BY <1>7, NetAssumption DEF GotOn, Others, Size
  <2>2. Cardinality(GotOn(Host)') = 0
    BY <2>1, FS_EmptySet
  <2>3. Count(Host) \in Nat
    BY NetAssumption, Turning DEF Base
  <2>4. ASSUME NEW q \in Procs
        PROVE  /\ at'[q] = "io" => got'[q] = Cardinality(GotOn(q)')
               /\ at'[q] \in {"io", "answer", "halted"} => put'[q] <= Count(q)
               /\ at'[q] \in {"answer", "print"} => put'[q] = Count(q)
    BY <1>2, <1>3, <2>2, <2>3
  <2>5. QED
    BY <2>4 DEF CountInv, Count, Size
<1>12. AllInv'
  <2> SUFFICES ASSUME NEW q \in Procs
               PROVE  ~ (at'[q] \in {"answer", "print"} \/ (at'[q] = "top" /\ Joined(q)'))
    BY DEF AllInv
  <2>1. QED
    BY <1>2, <1>3, <1>5
<1>13. TreeInv'
  <2>1. Unanswered' = {}
    BY <1>3 DEF Unanswered
  <2>2. [q \in Procs |-> 0] \in [Procs -> Nat]
    OBVIOUS
  <2>3. QED
    BY <2>1, <2>2 DEF TreeInv
<1>14. QED
  BY <1>8, <1>9, <1>10, <1>11, <1>12, <1>13 DEF EchoInv

\* At first only the host is in a round.
LEMMA EchoStart == ASSUME Paired, Init PROVE EchoInv
<1>1. /\ at[Host] = "io" /\ put[Host] = 0 /\ got[Host] = 0 /\ rounds[Host] = 1
      /\ \A q \in Procs \ {Host} : at[q] = "top" /\ rounds[q] = 0
  BY NetAssumption DEF Init
<1>2. Base
  BY InitInv, TypesStart DEF Base
<1>3. \A q \in Procs \ {Host} : ~ Joined(q)
  BY <1>1 DEF Joined
<1>4. ASSUME NEW q \in Procs, NEW l \in 1..Size(q)
      PROVE  ~ HasSent(q, l)
  BY <1>1, <1>3 DEF HasSent
<1>5. ASSUME NEW q \in Procs, NEW l \in 1..Size(q)
      PROVE  ~ HasGot(q, l)
  <2>1. PICK r \in Procs : \E k \in 1..Size(r) : Mate(q, l) = <<r, k>>
    BY MatesThere
  <2>2. PICK k \in 1..Size(r) : Mate(q, l) = <<r, k>>
    BY <2>1
  <2>3. QED
    BY <1>4, <2>2, MateStays
<1>6. RoundInv
  <2>1. Rounds \in Nat /\ Rounds >= 2
    BY NetAssumption
  <2>2. (0 + 1) % Rounds = 1
    BY <2>1
  <2>3. QED
    BY <1>1, <2>2 DEF RoundInv, Joined
<1>7. QuietInv
  <2>1. Joined(Host)
    BY DEF Joined
  <2>2. QED
    BY <1>1, <1>5, <2>1 DEF QuietInv
<1>8. FirstInv
  BY <1>3 DEF FirstInv
<1>9. CountInv
  <2>1. GotOn(Host) = {}
    BY <1>5, NetAssumption DEF GotOn, Others
  <2>2. Cardinality(GotOn(Host)) = 0
    BY <2>1, FS_EmptySet
  <2>3. Count(Host) \in Nat
    BY <1>2, NetAssumption, Turning DEF Base
  <2>4. QED
    BY <1>1, <2>2, <2>3 DEF CountInv
<1>10. AllInv
  BY <1>1, <1>3 DEF AllInv
<1>11. TreeInv
  <2>1. Unanswered = {}
    BY <1>1 DEF Unanswered
  <2>2. [q \in Procs |-> 0] \in [Procs -> Nat]
    OBVIOUS
  <2>3. QED
    BY <2>1, <2>2 DEF TreeInv
<1>12. QED
  BY <1>6, <1>7, <1>8, <1>9, <1>10, <1>11 DEF EchoInv

\* What is kept by every step.
LEMMA EchoStep ==
  ASSUME Paired, Connected, Base, EchoInv, [Next]_vars
  PROVE  EchoInv'
<1>1. CASE UNCHANGED vars
  <2>1. \A q \in Procs : index'[q] = index[q] /\ index[q] \in 1..Size(q)
    BY <1>1, Turning DEF vars, Base
  <2>2. \A q \in Procs : Joined(q)' <=> Joined(q)
    BY <1>1 DEF vars, Joined
  <2>3. ASSUME NEW q \in Procs, NEW l \in 1..Size(q)
        PROVE  HasGot(q, l)' <=> HasGot(q, l)
    <3>1. PICK r \in Procs : \E k \in 1..Size(r) : Mate(q, l) = <<r, k>>
      BY MatesThere
    <3>2. PICK k \in 1..Size(r) : Mate(q, l) = <<r, k>>
      BY <3>1
    <3>3. HasSent(r, k)' <=> HasSent(r, k)
      BY <1>1, Bystander DEF vars
    <3>4. QED
      BY <3>2, <3>3, MateStays
  <2>4. \A q \in Procs : GotOn(q)' = GotOn(q)
    BY <2>1, <2>3, SameGotOn
  <2>5. \A q \in Procs : Mate(q, index[q])' = Mate(q, index[q])
    BY <2>1, AnsweredPlace
  <2>6. RoundInv'
    BY <1>1, <2>2 DEF vars, EchoInv, RoundInv
  <2>7. QuietInv'
    BY <1>1, <2>2, <2>3 DEF vars, EchoInv, QuietInv, Size
  <2>8. FirstInv'
    <3> SUFFICES ASSUME NEW q \in Procs \ {Host}, Joined(q)'
                 PROVE  HasGot(q, index[q])'
      BY DEF FirstInv
    <3>1. HasGot(q, index[q])
      BY <2>2 DEF EchoInv, FirstInv
    <3>2. \A l \in 1..Size(q) : l = index[q] => HasGot(q, l)'
      BY <2>3, <3>1
    <3>3. QED
      BY <2>1, <3>2, AnsweredPlace
  <2>9. CountInv'
    BY <1>1, <2>4 DEF vars, EchoInv, CountInv, Count, Size
  <2>10. AllInv'
    BY <1>1, <2>2, <2>3 DEF vars, EchoInv, AllInv, Size
  <2>11. TreeInv'
    <3>1. Unanswered' = Unanswered /\ Unanswered \subseteq Procs
      BY <1>1 DEF vars, Unanswered
    <3>2. PICK depth \in [Procs -> Nat] :
            \A q \in Unanswered : depth[Mate(q, index[q])[1]] < depth[q]
      BY DEF EchoInv, TreeInv
    <3>3. \A q \in Unanswered' : depth[Mate(q, index[q])'[1]] < depth[q]
      BY <2>5, <3>1, <3>2
    <3>4. QED
      BY <3>2, <3>3 DEF TreeInv
  <2>12. QED
    BY <2>6, <2>7, <2>8, <2>9, <2>10, <2>11 DEF EchoInv
<1>2. CASE Stopped
  BY <1>1, <1>2 DEF Stopped
<1>3. QED
  BY <1>1, <1>2, TakeEcho, AddEcho, JoinEcho, ReportEcho DEF Next

\* In every state of a network whose channels are paired, and in which every
\* process can be reached from the host: values stay in a long int, and when the
\* host prints the sum of a round every process has taken part in that round
\* once and has answered, and no process is in a round of its own (the loops of
\* main in MULTPASS.C and HOSTPASS.C).  The boot beside it changes none of it.
THEOREM RoundsAreRight ==
  ASSUME Paired, Connected
  PROVE  MCSpec => []RoundsRight
<1>1. MCInit => Base /\ EchoInv
  BY InitInv, TypesStart, EchoStart DEF MCInit, Base
<1>2. Base /\ EchoInv /\ [MCNext]_all => Base' /\ EchoInv'
  <2> SUFFICES ASSUME Base, EchoInv, [MCNext]_all PROVE Base' /\ EchoInv'
    OBVIOUS
  <2>1. [Next]_vars
    BY DEF MCNext, all
  <2>2. EchoInv'
    BY <2>1, EchoStep
  <2>3. TypeOK' /\ CountersInv'
    BY <2>1, TypesStep DEF Base
  <2>4. IInv'
    BY <2>1, ListsStep DEF Base
  <2>5. QED
    BY <2>2, <2>3, <2>4 DEF Base
<1>3. Base /\ EchoInv => RoundsRight
  <2> SUFFICES ASSUME Base, EchoInv PROVE RoundsRight
    OBVIOUS
  <2>1. ASSUME at[Host] = "print", NEW p \in Procs \ {Host}
        PROVE  at[p] = "top" /\ rounds[p] = rounds[Host]
    BY <2>1, RoundOver DEF Joined
  <2>2. ASSUME NEW p \in Procs \ {Host}, at[p] \in {"io", "answer"}
        PROVE  rounds[p] = rounds[Host]
    BY <2>2 DEF EchoInv, QuietInv, Joined
  <2>3. QED
    BY <2>1, <2>2 DEF RoundsRight, RoundsAgree, Base
<1>4. QED
  BY <1>1, <1>2, <1>3, PTL DEF MCSpec

=============================================================================
