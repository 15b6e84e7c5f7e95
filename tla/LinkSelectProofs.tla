-------------------------- MODULE LinkSelectProofs --------------------------
(***************************************************************************)
(* Proofs about the search for a link and its opening, for any database of *)
(* any size, any names and any set of drivers that has the one for TCP.    *)
(***************************************************************************)
EXTENDS MCLinkSelect, FiniteSetTheorems, WellFoundedInduction, TLAPS

-----------------------------------------------------------------------------
(* Two facts about numbers.                                                *)

\* A set of numbers that is not empty has a least element.
LEMMA Least ==
  ASSUME NEW T, T \subseteq Nat, T # {}
  PROVE  \E x \in T : \A y \in T : x <= y
<1>1. \E x \in T : \A y \in T : ~(<<y, x>> \in OpToRel(<, Nat))
  BY WFMin, NatLessThanWellFounded
<1>2. PICK x \in T : \A y \in T : ~(<<y, x>> \in OpToRel(<, Nat))
  BY <1>1
<1>3. ASSUME NEW y \in T PROVE x <= y
  <2>1. ~(y < x)
    BY <1>2 DEF OpToRel
  <2>2. QED
    BY <2>1
<1>4. QED
  BY <1>3

\* Min of FiniteSetsExt is that element.
LEMMA MinIsLeast ==
  ASSUME NEW T, T \subseteq Nat, T # {}
  PROVE  Min(T) \in T /\ \A y \in T : Min(T) <= y
BY Least DEF Min

\* A sequence without repetitions over 1 .. n has at most n members.
LEMMA NoRepetition ==
  ASSUME NEW n \in Nat, NEW s \in Seq(1 .. n),
         \A k, l \in 1 .. Len(s) : k < l => s[k] # s[l]
  PROVE  Len(s) <= n
<1>1. IsFiniteSet(1 .. n) /\ Cardinality(1 .. n) = n
  BY FS_Interval
<1>2. /\ Len(s) \in Nat /\ s \in [1 .. Len(s) -> 1 .. n]
      /\ IsFiniteSet(1 .. Len(s)) /\ Cardinality(1 .. Len(s)) = Len(s)
  <2>1. Len(s) \in Nat /\ 1 \in Int /\ s \in [1 .. Len(s) -> 1 .. n]
    OBVIOUS
  <2>2. \A m \in Nat : IsFiniteSet(1 .. m) /\ Cardinality(1 .. m) = m
    BY FS_Interval
  <2>3. QED
    BY <2>1, <2>2
<1>3. SUFFICES ASSUME Len(s) > n PROVE FALSE
  BY <1>2
<1>4. PICK x, y \in 1 .. Len(s) : x # y /\ s[x] = s[y]
  BY <1>1, <1>2, <1>3, FS_PigeonHole
<1>5. x < y \/ y < x
  BY <1>2, <1>4
<1>6. QED
  BY <1>4, <1>5

-----------------------------------------------------------------------------
(* What OnePassSearch and CM_DoSearch return.                              *)

\* What the verdict on a record says of it.
LEMMA Verdicts ==
  ASSUME NEW e, NEW type, NEW q, NEW which, NEW show \in BOOLEAN,
         e.form \in Forms
  PROVE  LET v == Look(e, type, q, which, show) IN
         /\ v \in {"corrupt", "end", "skip", "found"}
         /\ v = "end" => ~ show /\ e.form = "cut"
         /\ v = "skip" => ~ Matches(e, type, q) \/ ~ Allowed(e, q, which)
         /\ v = "found" => /\ Matches(e, type, q) /\ Allowed(e, q, which)
                           /\ e.form # "cut"
<1> DEFINE M == Matches(e, type, q)
           A == Allowed(e, q, which)
<1> HIDE DEF M, A
<1>1. CASE e.form = "stray"
  BY <1>1, Zenon DEF Look, FirstFieldErrors
<1>2. CASE e.form = "cut"
  BY <1>2 DEF Look, FirstFieldErrors
<1>3. CASE e.form \in {"good", "bad", "more"} /\ ~ M
  BY <1>3 DEF Look, FirstFieldErrors, M
<1>4. CASE e.form = "bad" /\ M
  BY <1>4 DEF Look, FirstFieldErrors, FieldErrors, M
<1>5. CASE e.form \in {"good", "more"} /\ M
  BY <1>5 DEF Look, FirstFieldErrors, FieldErrors, M
<1>6. QED
  BY <1>1, <1>2, <1>3, <1>4, <1>5
     DEF Forms, FirstFieldErrors, FieldErrors, Continuations

\* What OnePassSearch returns: where it stops, and that it has only skipped
\* the records before that.
LEMMA PassShape ==
  ASSUME NEW n \in Nat, Len(db) = n, \A i \in 1 .. n : db[i].form \in Forms,
         \A i \in 1 .. n : db[i].form = "cut" => i = n,
         NEW from \in 0 .. n, NEW which, NEW show \in BOOLEAN
  PROVE  LET r == OnePassSearch(from, which, show)
             Skipped(p) == Look(db[p], search_type, query, which, show) = "skip" IN
         /\ r.at \in from .. n
         /\ r.result \in {"NOERROR", "BAD_OPERATION", "BAD_TARGET_NAME", "ENDOFFILE"}
         /\ r.result = "NOERROR" =>
              /\ r.at > from
              /\ Look(db[r.at], search_type, query, which, show) = "found"
              /\ \A p \in from + 1 .. r.at - 1 : Skipped(p)
         /\ r.result = "BAD_TARGET_NAME" => show /\ \A p \in from + 1 .. n : Skipped(p)
         /\ r.result = "ENDOFFILE" =>
              ~ show /\ \A p \in from + 1 .. n : Skipped(p) \/ db[p].form = "cut"
<1> DEFINE V(p) == Look(db[p], search_type, query, which, show)
           stops == {p \in from + 1 .. Len(db) : V(p) # "skip"}
           next == Min(stops)
           r == OnePassSearch(from, which, show)
<1>0. \A p \in 1 .. n : /\ V(p) \in {"corrupt", "end", "skip", "found"}
                        /\ V(p) = "end" => ~ show /\ db[p].form = "cut"
  BY Verdicts
<1>1. CASE Leftover(from)
  <2>1. r = [result |-> "BAD_OPERATION", at |-> from]
    BY <1>1 DEF OnePassSearch
  <2>2. QED
    BY <2>1
<1>2. CASE ~ Leftover(from) /\ stops = {}
  <2>1. r = [result |-> IF show THEN "BAD_TARGET_NAME" ELSE "ENDOFFILE", at |-> n]
    BY <1>2 DEF OnePassSearch
  <2>2. \A p \in from + 1 .. n : V(p) = "skip"
    BY <1>2
  <2>3. QED
    BY <2>1, <2>2
<1>3. CASE ~ Leftover(from) /\ stops # {}
  <2>0. next \in stops /\ \A p \in stops : next <= p
    <3>1. stops \subseteq Nat
      OBVIOUS
    <3> HIDE DEF stops
    <3>2. QED
      BY <1>3, <3>1, MinIsLeast
  <2>1. /\ next \in from + 1 .. n /\ V(next) # "skip"
        /\ \A p \in from + 1 .. n : p < next => V(p) = "skip"
    <3>1. next \in from + 1 .. n /\ V(next) # "skip"
      BY <2>0
    <3> HIDE DEF next, V
    <3>2. ASSUME NEW p \in from + 1 .. n, p < next, V(p) # "skip" PROVE FALSE
      <4>1. p \in stops
        BY <3>2
      <4>2. QED
        BY <2>0, <3>1, <3>2, <4>1
    <3>3. QED
      BY <3>1, <3>2
  <2>2. r = [result |-> CASE V(next) = "found"   -> "NOERROR"
                          [] V(next) = "corrupt" -> "BAD_OPERATION"
                          [] V(next) = "end"     -> "ENDOFFILE",
             at |-> next]
    BY <1>3 DEF OnePassSearch
  <2>3. V(next) \in {"corrupt", "end", "found"} /\ (V(next) = "end" => ~ show /\ next = n)
    BY <1>0, <2>1
  <2> HIDE DEF next, r, V
  <2>4. CASE V(next) = "found"
    <3>1. r.result = "NOERROR" /\ r.at = next
      BY <2>2, <2>4
    <3>2. QED
      BY <2>1, <2>4, <3>1 DEF V, r
  <2>5. CASE V(next) = "corrupt"
    <3>1. r.result = "BAD_OPERATION" /\ r.at = next
      BY <2>2, <2>5
    <3>2. QED
      BY <2>1, <3>1 DEF r
  <2>6. CASE V(next) = "end"
    <3>1. r.result = "ENDOFFILE" /\ r.at = next
      BY <2>2, <2>6
    <3>2. ~ show /\ next = n /\ db[n].form = "cut"
      BY <1>0, <2>1, <2>3, <2>6 DEF V
    <3>3. QED
      BY <2>1, <3>1, <3>2 DEF V, r
  <2>7. QED
    BY <2>3, <2>4, <2>5, <2>6
<1>4. QED
  BY <1>1, <1>2, <1>3

\* The database a search reads: of whole records, but for the last.
Database ==
  /\ Len(db) \in 0 .. MaxEntries /\ DOMAIN db = 1 .. Len(db)
  /\ \A i \in 1 .. Len(db) : db[i] \in Entries /\ (db[i].form = "cut" => i = Len(db))

\* The records to be tried that a search has gone past when it has read l
\* lines in the given pass.
Past(l, pass) ==
  {i \in Candidates :
     \/ i <= l /\ (~ JustMachine /\ pass = 1 => Local(db[i], query))
     \/ ~ JustMachine /\ pass = 2 /\ Local(db[i], query)}

\* What CM_DoSearch promises: it finds the next record to be tried, if the
\* record is one to be tried at all, or it has gone past all of them.
FindsNext(s) ==
  /\ s.pass \in {1, 2} /\ s.show \in BOOLEAN /\ s.r.at \in 0 .. Len(db)
  /\ s.r.result \in {"NOERROR", "BAD_OPERATION", "BAD_TARGET_NAME"}
  /\ s.r.result = "NOERROR" =>
       /\ s.r.at \in 1 .. Len(db) /\ db[s.r.at].form # "cut"
       /\ Matches(db[s.r.at], SearchType(query), query)
       /\ ~ JustMachine => (s.pass = 1 <=> Local(db[s.r.at], query))
       /\ Past(s.r.at, s.pass) = Past(line, search_pass) \cup ({s.r.at} \cap Candidates)
       /\ s.r.at \notin Past(line, search_pass)
       /\ \A j \in Past(line, search_pass) : Before(j, s.r.at)
  /\ s.r.result = "BAD_TARGET_NAME" => Past(line, search_pass) = Candidates

\* The database is a sequence of at most MaxEntries records.
LEMMA SizeOfDatabase ==
  ASSUME Database
  PROVE  Len(db) \in Nat /\ Len(db) <= MaxEntries /\ DOMAIN db = 1 .. Len(db)
<1>1. MaxEntries \in Nat
  BY ConlibAssumption
<1>2. Len(db) \in 0 .. MaxEntries /\ DOMAIN db = 1 .. Len(db)
  BY DEF Database
<1>3. QED
  BY <1>1, <1>2

\* The type of a search is one of three; "just" if no resource is named.
LEMMA TypeOfSearch ==
  ASSUME NEW q
  PROVE  /\ SearchType(q) \in {"named", "any", "just"}
         /\ SearchType(q) = "just" <=> q.res = ""
<1>1. CASE q.res = ""
  BY <1>1 DEF SearchType
<1>2. CASE q.res # "" /\ q.machine = ""
  BY <1>2 DEF SearchType
<1>3. CASE q.res # "" /\ q.machine # ""
  BY <1>3 DEF SearchType
<1>4. QED
  BY <1>1, <1>2, <1>3

\* One pass: the records to be tried that it skips are not those it is
\* interested in, and the one it stops at is.
LEMMA PassFinds ==
  ASSUME Database, search_type = SearchType(query),
         NEW from \in 0 .. Len(db), NEW show \in BOOLEAN,
         NEW which \in {"localonly", "remoteonly", "localorremote"}
  PROVE  LET r == OnePassSearch(from, which, show)
             Wants(i) == i \in Candidates /\ Allowed(db[i], query, which) IN
         /\ r.at \in from .. Len(db)
         /\ r.result \in {"NOERROR", "BAD_OPERATION", "BAD_TARGET_NAME", "ENDOFFILE"}
         /\ r.result = "NOERROR" =>
              /\ r.at \in from + 1 .. Len(db) /\ db[r.at].form # "cut"
              /\ Matches(db[r.at], SearchType(query), query)
              /\ Allowed(db[r.at], query, which)
              /\ \A p \in from + 1 .. r.at - 1 : ~ Wants(p)
         /\ r.result = "BAD_TARGET_NAME" => show /\ \A p \in from + 1 .. Len(db) : ~ Wants(p)
         /\ r.result = "ENDOFFILE" => ~ show /\ \A p \in from + 1 .. Len(db) : ~ Wants(p)
<1> DEFINE r == OnePassSearch(from, which, show)
           V(p) == Look(db[p], search_type, query, which, show)
           Wants(i) == i \in Candidates /\ Allowed(db[i], query, which)
<1>1. /\ Len(db) \in Nat /\ \A i \in 1 .. Len(db) : db[i].form \in Forms
      /\ \A i \in 1 .. Len(db) : db[i].form = "cut" => i = Len(db)
  <2>1. \A i \in 1 .. Len(db) : db[i] \in Entries /\ (db[i].form = "cut" => i = Len(db))
    BY DEF Database
  <2>2. \A e \in Entries : e.form \in Forms
    BY ConlibAssumption
  <2>3. Len(db) \in Nat
    BY SizeOfDatabase
  <2>4. QED
    BY <2>1, <2>2, <2>3
<1>2. /\ r.at \in from .. Len(db)
      /\ r.result \in {"NOERROR", "BAD_OPERATION", "BAD_TARGET_NAME", "ENDOFFILE"}
      /\ r.result = "NOERROR" =>
           r.at > from /\ V(r.at) = "found" /\ \A p \in from + 1 .. r.at - 1 : V(p) = "skip"
      /\ r.result = "BAD_TARGET_NAME" => show /\ \A p \in from + 1 .. Len(db) : V(p) = "skip"
      /\ r.result = "ENDOFFILE" =>
           ~ show /\ \A p \in from + 1 .. Len(db) : V(p) = "skip" \/ db[p].form = "cut"
  BY <1>1, PassShape
<1>3. ASSUME NEW p \in 1 .. Len(db), V(p) = "skip" \/ db[p].form = "cut" PROVE ~ Wants(p)
  <2>1. V(p) = "skip" => ~ Matches(db[p], search_type, query) \/ ~ Allowed(db[p], query, which)
    BY <1>1, Verdicts
  <2>2. QED
    BY <1>3, <2>1 DEF Candidates
<1>4. ASSUME NEW p \in 1 .. Len(db), V(p) = "found"
      PROVE  /\ Matches(db[p], SearchType(query), query) /\ Allowed(db[p], query, which)
             /\ db[p].form # "cut"
  BY <1>1, <1>4, Verdicts
<1> HIDE DEF r, V, Wants
<1>5. CASE r.result = "NOERROR"
  <2>1. r.at \in from + 1 .. Len(db) /\ r.at \in 1 .. Len(db)
    BY <1>1, <1>2, <1>5
  <2>2. \A p \in from + 1 .. r.at - 1 : p \in 1 .. Len(db) /\ ~ Wants(p)
    BY <1>1, <1>2, <1>3, <1>5, <2>1
  <2>3. QED
    BY <1>2, <1>4, <1>5, <2>1, <2>2 DEF r, V, Wants
<1>6. CASE r.result = "BAD_OPERATION"
  BY <1>2, <1>6 DEF r
<1>7. CASE r.result \in {"BAD_TARGET_NAME", "ENDOFFILE"}
  <2>1. \A p \in from + 1 .. Len(db) : p \in 1 .. Len(db) /\ ~ Wants(p)
    BY <1>1, <1>2, <1>3, <1>7
  <2>2. QED
    BY <1>2, <1>7, <2>1 DEF r, Wants
<1>8. QED
  BY <1>2, <1>5, <1>6, <1>7 DEF r, Wants

\* The records a pass is interested in.
Wanted(i, pass) == JustMachine \/ (pass = 1 <=> Local(db[i], query))

\* A pass that reads on to the next record of them goes past that one alone.
LEMMA PastGrows ==
  ASSUME Database, NEW l \in 0 .. Len(db), NEW a \in l + 1 .. Len(db), NEW pass \in {1, 2},
         \A p \in l + 1 .. a - 1 : ~(p \in Candidates /\ Wanted(p, pass)),
         Wanted(a, pass)
  PROVE  /\ Past(a, pass) = Past(l, pass) \cup ({a} \cap Candidates)
         /\ a \notin Past(l, pass)
         /\ \A j \in Past(l, pass) : Before(j, a)
<1> DEFINE here(i) == Local(db[i], query)
<1>0. Len(db) \in Nat /\ \A i \in Candidates : i \in 1 .. Len(db)
  BY SizeOfDatabase DEF Candidates
<1>1. ASSUME NEW i \in Candidates
      PROVE  i \in Past(a, pass) <=> i \in Past(l, pass) \/ i = a
  <2>1. CASE i <= l
    BY <1>0, <2>1 DEF Past, Local
  <2>2. CASE i = a
    BY <1>0, <2>2 DEF Past, Wanted, Local
  <2>3. CASE i > l /\ i < a
    <3>1. ~ Wanted(i, pass)
      BY <1>0, <2>3
    <3>2. QED
      BY <1>0, <2>3, <3>1 DEF Past, Wanted
  <2>4. CASE i > a
    BY <1>0, <2>4 DEF Past, Local
  <2>5. QED
    BY <1>0, <2>1, <2>2, <2>3, <2>4
<1>2. a \notin Past(l, pass)
  BY <1>0 DEF Past, Wanted, Local
<1>3. ASSUME NEW j \in Past(l, pass) PROVE Before(j, a)
  <2>1. CASE j <= l
    BY <1>0, <2>1 DEF Past, Before, Wanted, Local
  <2>2. CASE ~ JustMachine /\ pass = 2 /\ Local(db[j], query)
    BY <2>2 DEF Before, Wanted, Local
  <2>3. QED
    BY <2>1, <2>2 DEF Past
<1>4. QED
  BY <1>1, <1>2, <1>3 DEF Past

\* A pass that finds no more of them has gone past all of them.
LEMMA PastEnds ==
  ASSUME Database, NEW l \in 0 .. Len(db), NEW pass \in {1, 2},
         \A p \in l + 1 .. Len(db) : ~(p \in Candidates /\ Wanted(p, pass))
  PROVE  /\ JustMachine \/ pass = 2 => Past(l, pass) = Candidates
         /\ ~ JustMachine /\ pass = 1 => Past(l, pass) = Past(0, 2)
<1>0. Len(db) \in Nat /\ \A i \in Candidates : i \in 1 .. Len(db)
  BY SizeOfDatabase DEF Candidates
<1>1. ASSUME NEW i \in Candidates, i > l PROVE ~ Wanted(i, pass)
  BY <1>0, <1>1
<1>2. CASE JustMachine \/ pass = 2
  BY <1>0, <1>1, <1>2 DEF Past, Wanted, Local
<1>3. CASE ~ JustMachine /\ pass = 1
  BY <1>0, <1>1, <1>3 DEF Past, Wanted, Local
<1>4. QED
  BY <1>2, <1>3

\* A pass that begins where the search stands, and its outcome.
LEMMA PassFindsNext ==
  ASSUME Database, search_type = SearchType(query),
         NEW l \in 0 .. Len(db), NEW pass \in {1, 2}, NEW show \in BOOLEAN,
         NEW which \in {"localonly", "remoteonly", "localorremote"},
         \A i \in 1 .. Len(db) : Allowed(db[i], query, which) <=> Wanted(i, pass),
         Past(l, pass) = Past(line, search_pass),
         show => JustMachine \/ pass = 2,
         NEW r, r = OnePassSearch(l, which, show), r.result # "ENDOFFILE"
  PROVE  FindsNext([pass |-> pass, show |-> show, r |-> r])
<1> DEFINE N == Len(db)
           wants(i) == i \in Candidates /\ Wanted(i, pass)
           s == [pass |-> pass, show |-> show, r |-> r]
<1>0. N \in Nat /\ \A i \in Candidates : i \in 1 .. N
  BY SizeOfDatabase DEF Candidates
<1>1. /\ r.at \in l .. N
      /\ r.result \in {"NOERROR", "BAD_OPERATION", "BAD_TARGET_NAME"}
      /\ r.result = "NOERROR" =>
           /\ r.at \in l + 1 .. N /\ db[r.at].form # "cut"
           /\ Matches(db[r.at], SearchType(query), query)
           /\ Allowed(db[r.at], query, which)
           /\ \A p \in l + 1 .. r.at - 1 : ~(p \in Candidates /\ Allowed(db[p], query, which))
      /\ r.result = "BAD_TARGET_NAME" =>
           show /\ \A p \in l + 1 .. N : ~(p \in Candidates /\ Allowed(db[p], query, which))
  BY PassFinds
<1>2. s.pass = pass /\ s.show = show /\ s.r = r
  OBVIOUS
<1> HIDE DEF s
<1>3. CASE r.result = "NOERROR"
  <2>1. r.at \in 1 .. N /\ Wanted(r.at, pass)
    BY <1>0, <1>1, <1>3
  <2>2. \A p \in l + 1 .. r.at - 1 : ~ wants(p)
    BY <1>0, <1>1, <1>3
  <2>3. /\ Past(r.at, pass) = Past(l, pass) \cup ({r.at} \cap Candidates)
        /\ r.at \notin Past(l, pass)
        /\ \A j \in Past(l, pass) : Before(j, r.at)
    BY <1>1, <1>3, <2>1, <2>2, PastGrows
  <2>4. ~ JustMachine => (pass = 1 <=> Local(db[r.at], query))
    BY <2>1 DEF Wanted
  <2>5. r.at \in 0 .. N
    BY <1>0, <2>1
  <2>6. FindsNext(s)
    BY <1>1, <1>2, <1>3, <2>1, <2>3, <2>4, <2>5 DEF FindsNext
  <2>7. QED
    BY <2>6 DEF s
<1>4. CASE r.result # "NOERROR"
  <2>1. r.at \in 0 .. N
    BY <1>0, <1>1
  <2>2. ASSUME r.result = "BAD_TARGET_NAME" PROVE Past(line, search_pass) = Candidates
    <3>1. \A p \in l + 1 .. N : ~ wants(p)
      BY <1>0, <1>1, <2>2
    <3>2. JustMachine \/ pass = 2
      BY <1>1, <2>2
    <3>3. QED
      BY <3>1, <3>2, PastEnds
  <2>3. FindsNext(s)
    BY <1>1, <1>2, <1>4, <2>1, <2>2 DEF FindsNext
  <2>4. QED
    BY <2>3 DEF s
<1>5. QED
  BY <1>3, <1>4

\* CM_DoSearch finds the next record.
LEMMA SearchFinds ==
  ASSUME Database, search_type = SearchType(query), search_pass \in {1, 2},
         line \in 0 .. Len(db)
  PROVE  FindsNext(Searched)
<1> DEFINE N == Len(db)
           first == OnePassSearch(line, "localonly", FALSE)
           just == OnePassSearch(line, "localorremote", TRUE)
           second == OnePassSearch(0, "remoteonly", TRUE)
           rest == OnePassSearch(line, "remoteonly", TRUE)
<1>0. N \in Nat /\ 0 \in 0 .. N
  BY SizeOfDatabase
<1>1. \A e, q : /\ Allowed(e, q, "localonly") <=> Local(e, q)
                /\ Allowed(e, q, "remoteonly") <=> ~ Local(e, q)
                /\ Allowed(e, q, "localorremote")
  BY DEF Allowed, Local
<1>2. search_type = "just" <=> JustMachine
  BY TypeOfSearch DEF JustMachine
<1>3. CASE search_type = "just"
  <2>1. Searched = [pass |-> 1, show |-> TRUE, r |-> just]
    BY <1>3 DEF Searched
  <2>2. /\ \A i \in 1 .. N : Allowed(db[i], query, "localorremote") <=> Wanted(i, 1)
        /\ Past(line, 1) = Past(line, search_pass)
    BY <1>1, <1>2, <1>3 DEF Wanted, Past
  <2>3. just.result # "ENDOFFILE"
    BY PassFinds
  <2>4. QED
    BY <1>2, <1>3, <2>1, <2>2, <2>3, PassFindsNext
<1>4. CASE search_type # "just" /\ search_pass = 1 /\ first.result # "ENDOFFILE"
  <2>1. Searched = [pass |-> 1, show |-> FALSE, r |-> first]
    <3>1. search_pass # 2
      BY <1>4
    <3>2. QED
      BY <1>4, <3>1, Zenon DEF Searched
  <2>2. \A i \in 1 .. N : Allowed(db[i], query, "localonly") <=> Wanted(i, 1)
    BY <1>1, <1>2, <1>4 DEF Wanted
  <2>3. QED
    BY <1>4, <2>1, <2>2, PassFindsNext
<1>5. CASE search_type # "just" /\ search_pass = 1 /\ first.result = "ENDOFFILE"
  <2>1. Searched = [pass |-> 2, show |-> TRUE, r |-> second]
    <3>1. search_pass # 2 /\ second = SecondPass(first.at) /\ PassAfter(1) = 2
      BY <1>5 DEF SecondPass, PassAfter
    <3>2. QED
      BY <1>5, <3>1, Zenon DEF Searched
  <2>2. \A i \in 1 .. N : /\ Allowed(db[i], query, "localonly") <=> Wanted(i, 1)
                          /\ Allowed(db[i], query, "remoteonly") <=> Wanted(i, 2)
    BY <1>1, <1>2, <1>5 DEF Wanted, Local
  <2>3. Past(0, 2) = Past(line, search_pass)
    <3>1. \A p \in line + 1 .. N : ~(p \in Candidates /\ Allowed(db[p], query, "localonly"))
      BY <1>5, PassFinds
    <3>2. \A p \in line + 1 .. N : ~(p \in Candidates /\ Wanted(p, 1))
      BY <1>0, <2>2, <3>1
    <3>3. QED
      BY <1>2, <1>5, <3>2, PastEnds
  <2>4. second.result # "ENDOFFILE"
    BY <1>0, PassFinds
  <2>5. QED
    BY <1>0, <2>1, <2>2, <2>3, <2>4, PassFindsNext
<1>6. CASE search_type # "just" /\ search_pass = 2
  <2>1. Searched = [pass |-> 2, show |-> TRUE, r |-> rest]
    BY <1>6 DEF Searched
  <2>2. \A i \in 1 .. N : Allowed(db[i], query, "remoteonly") <=> Wanted(i, 2)
    BY <1>1, <1>2, <1>6 DEF Wanted, Local
  <2>3. rest.result # "ENDOFFILE"
    BY PassFinds
  <2>4. QED
    BY <1>6, <2>1, <2>2, <2>3, PassFindsNext
<1>7. QED
  BY <1>3, <1>4, <1>5, <1>6

-----------------------------------------------------------------------------
(* The invariant of the loop.                                              *)

\* While an open runs its search is on, and no driver is open yet.
Looping ==
  pc # "idle" =>
    /\ search_type = SearchType(query) /\ search_pass \in {1, 2} /\ file = "open"
    /\ query.host = Host
    /\ link = 0 /\ driver = "none" /\ commsmode = "closed" /\ opsmethod = "undefined"

\* The record found is the one just read.  It works, and it comes after those
\* already tried.
AtFound ==
  pc = "found" =>
    /\ found = line /\ found \in 1 .. Len(db) /\ db[found].working
    /\ db[found].form # "cut" /\ Matches(db[found], SearchType(query), query)
    /\ Wanted(found, search_pass)
    /\ \A j \in Tried : Before(j, found)
    /\ IF api = "ops" THEN Usable(db[found], query) ELSE metamethod = db[found].method

\* Of the records to be tried, those the search has gone past have been.
TriedSoFar ==
  pc # "idle" =>
    Tried = Past(line, search_pass) \ (IF pc = "found" THEN {found} ELSE {})

\* A program that calls OpenLink itself leaves the OPS_* variables alone.
OneInterface ==
  /\ api \in {"ops", "link"}
  /\ api = "link" => commsmode = "closed" /\ opsmethod = "undefined"

LinkInv ==
  /\ TypeOK /\ Database /\ OneInterface
  /\ Looping /\ AtFound /\ TriedSoFar /\ TriesInOrder
  /\ OpenIsRight /\ FileClosed

\* Of two records the search has gone past only the later, everything before
\* the later has been passed too.
LEMMA PastIsClosed ==
  ASSUME Database, NEW l \in 0 .. Len(db), NEW pass \in {1, 2},
         NEW i \in Candidates, NEW j \in Past(l, pass), Before(i, j)
  PROVE  i \in Past(l, pass)
<1>0. Len(db) \in Nat /\ i \in 1 .. Len(db) /\ j \in 1 .. Len(db)
  BY SizeOfDatabase DEF Candidates, Past
<1>1. CASE JustMachine
  BY <1>0, <1>1 DEF Past, Before, Local
<1>2. CASE ~ JustMachine /\ pass = 1
  BY <1>0, <1>2 DEF Past, Before, Local
<1>3. CASE ~ JustMachine /\ pass = 2
  BY <1>0, <1>3 DEF Past, Before, Local
<1>4. QED
  BY <1>1, <1>2, <1>3

\* The history never outgrows its bound: no record is tried twice.
LEMMA TriedIsShort ==
  ASSUME Database, TriesInOrder, tried \in Seq(DOMAIN db)
  PROVE  /\ Len(tried) <= MaxEntries
         /\ \A i : Noted(i) = Append(tried, i)
<1>1. Len(db) \in Nat /\ Len(db) <= MaxEntries /\ tried \in Seq(1 .. Len(db))
  BY SizeOfDatabase
<1>2. ASSUME NEW k \in 1 .. Len(tried), NEW l \in 1 .. Len(tried), k < l
      PROVE  tried[k] # tried[l]
  <2>1. Before(tried[k], tried[l])
    BY <1>2 DEF TriesInOrder
  <2>2. tried[k] \in Nat
    BY <1>1
  <2>3. QED
    BY <2>1, <2>2 DEF Before
<1>3. Len(tried) <= Len(db)
  BY <1>1, <1>2, NoRepetition
<1>4. Len(tried) \in Nat /\ MaxEntries \in Nat
  BY <1>1, ConlibAssumption
<1>5. QED
  BY <1>1, <1>3, <1>4 DEF Noted

\* What Append does to a sequence.
LEMMA AppendShape ==
  ASSUME NEW S, NEW s \in Seq(S), NEW e \in S
  PROVE  LET t == Append(s, e) IN
         /\ Len(s) \in Nat /\ Len(t) = Len(s) + 1 /\ t \in Seq(S)
         /\ t[Len(s) + 1] = e
         /\ \A k \in 1 .. Len(s) : t[k] = s[k]
OBVIOUS

\* An attempt on the record found keeps the order and completes what has been
\* tried up to here.
LEMMA TryingKeepsOrder ==
  ASSUME LinkInv, pc = "found", found \in Candidates,
         tried' = Noted(found), UNCHANGED <<db, query>>
  PROVE  /\ tried' \in Seq(DOMAIN db) /\ tried' # << >> /\ tried'[Len(tried')] = found
         /\ Tried' = Past(line, search_pass)
         /\ TriesInOrder'
<1>0. /\ Database /\ tried \in Seq(DOMAIN db) /\ line \in 0 .. Len(db) /\ search_pass \in {1, 2}
      /\ TriesInOrder /\ found \in DOMAIN db /\ found = line
      /\ Tried = Past(line, search_pass) \ {found}
      /\ \A j \in Tried : Before(j, found)
  BY SizeOfDatabase DEF LinkInv, TypeOK, Looping, AtFound, TriedSoFar
<1>1. tried' = Append(tried, found)
  BY <1>0, TriedIsShort
<1>2. /\ Len(tried) \in Nat /\ Len(tried') = Len(tried) + 1 /\ tried' \in Seq(DOMAIN db)
      /\ tried'[Len(tried) + 1] = found
      /\ \A k \in 1 .. Len(tried) : tried'[k] = tried[k]
  BY <1>0, <1>1, AppendShape, SMTT(30)
<1>3. Tried' = Tried \cup {found}
  BY <1>2 DEF Tried
<1>4. found \in Past(line, search_pass)
  <2>1. Wanted(found, search_pass) /\ found \in Nat
    BY <1>0, SizeOfDatabase DEF LinkInv, AtFound
  <2>2. QED
    BY <1>0, <2>1 DEF Past, Wanted
<1>5. Tried' = Past(line, search_pass)
  BY <1>0, <1>3, <1>4
<1>6. TriesInOrder'
  <2>1. Candidates' = Candidates
    BY DEF Candidates, Matches, Usable, Weird, Local
  <2>2. \A i, j : Before(i, j)' <=> Before(i, j)
    BY DEF Before, Local, JustMachine
  <2>3. \A i \in Candidates, j \in Past(line, search_pass) :
          Before(i, j) => i \in Past(line, search_pass)
    BY <1>0, PastIsClosed
  <2>4. Tried' \subseteq Candidates'
    BY <1>5, <2>1 DEF Past
  <2>5. ASSUME NEW k \in 1 .. Len(tried'), NEW l \in 1 .. Len(tried'), k < l
        PROVE  Before(tried'[k], tried'[l])
    <3>1. k \in 1 .. Len(tried) /\ tried'[k] = tried[k]
      BY <1>2, <2>5
    <3>2. CASE l = Len(tried) + 1
      BY <1>0, <1>2, <3>1, <3>2 DEF Tried
    <3>3. CASE l # Len(tried) + 1
      <4>1. l \in 1 .. Len(tried) /\ tried'[l] = tried[l]
        BY <1>2, <3>3
      <4>2. QED
        BY <1>0, <2>5, <3>1, <4>1 DEF TriesInOrder
    <3>4. QED
      BY <3>2, <3>3
  <2>6. \A i \in Candidates', j \in Tried' : Before(i, j)' => i \in Tried'
    BY <1>5, <2>1, <2>2, <2>3
  <2>7. QED
    BY <2>2, <2>4, <2>5, <2>6 DEF TriesInOrder
<1>7. QED
  BY <1>2, <1>5, <1>6

-----------------------------------------------------------------------------
(* Every step preserves the invariant.                                     *)

\* No step changes the database, ICONDB, the network or the interface in use.
LEMMA WorldKept ==
  [Next]_vars => UNCHANGED <<db, icondb, api, network>>
<1>1. ASSUME Next PROVE UNCHANGED <<db, icondb, api, network>>
  BY <1>1 DEF Next, Turn, OPS_Open, OpsOpenElsewhere, OpenLink, OpenElsewhere, StartSearch,
     OpsSearch, LOPS_Open, TOPS_Open, LinkSearch, LinkGivesUp, LinkTries, LinkOnly,
     Refused, WrongMode, OPS_Close, CloseLink, world
<1>2. QED
  BY <1>1 DEF vars

\* The order of what has been tried depends on nothing else.
LEMMA SameOrder ==
  ASSUME UNCHANGED <<db, query, tried>>
  PROVE  /\ Candidates' = Candidates /\ Tried' = Tried
         /\ TriesInOrder => TriesInOrder'
<1>1. Candidates' = Candidates
  BY DEF Candidates, Matches, Usable, Weird, Local
<1>2. \A i, j : Before(i, j)' <=> Before(i, j)
  BY DEF Before, Local, JustMachine
<1>3. Tried' = Tried
  BY DEF Tried
<1>4. QED
  BY <1>1, <1>2, <1>3 DEF TriesInOrder

\* A call that makes no search.
LEMMA NoSearch ==
  ASSUME LinkInv, pc' = "idle", UNCHANGED <<conlib, world, api, network, tried>>
  PROVE  /\ Database' /\ Looping' /\ AtFound' /\ TriedSoFar' /\ TriesInOrder'
         /\ pc = "idle" => FileClosed'
<1>1. TriesInOrder'
  BY SameOrder DEF LinkInv, conlib, world
<1>2. Database'
  BY DEF LinkInv, Database, world
<1>3. QED
  BY <1>1, <1>2 DEF LinkInv, Looping, AtFound, TriedSoFar, FileClosed, conlib

\* CM_EndSearch and the return of an open.
LEMMA SearchIsOver ==
  ASSUME LinkInv, pc # "idle", pc' = "idle", UNCHANGED <<world, api, network, query>>,
         TriesInOrder', file' = "closed"
  PROVE  Database' /\ Looping' /\ AtFound' /\ TriedSoFar' /\ TriesInOrder' /\ FileClosed'
<1>1. Database'
  BY DEF LinkInv, Database, world
<1>2. QED
  BY <1>1 DEF Looping, AtFound, TriedSoFar, FileClosed

\* The variables of the search between two calls of CM_EndSearch.
LEMMA EndShape ==
  ASSUME LinkInv, pc # "idle", CM_EndSearch
  PROVE  /\ search_type' = "notinit" /\ search_pass' = 0 /\ line' = 0 /\ found' = 0
         /\ file' = "closed" /\ UNCHANGED <<query, show_errors>>
<1>1. search_type # "notinit"
  BY TypeOfSearch DEF LinkInv, Looping
<1>2. QED
  BY <1>1 DEF CM_EndSearch, CloseFile

\* The types of the variables of the search when it is over.
LEMMA EndTypes ==
  ASSUME LinkInv, search_type' = "notinit", search_pass' = 0, line' = 0, found' = 0,
         file' = "closed", show_errors' \in BOOLEAN, UNCHANGED <<db, located>>
  PROVE  /\ search_type' \in {"notinit", "named", "any", "just"}
         /\ search_pass' \in 0 .. 2 /\ show_errors' \in BOOLEAN
         /\ line' \in 0 .. Len(db') /\ found' \in 0 .. Len(db') /\ file' \in {"open", "closed"}
BY SizeOfDatabase DEF LinkInv

\* The search begins, or its error is returned.
LEMMA SearchBegins ==
  ASSUME LinkInv, pc = "idle", api = "ops" => commsmode = "closed" /\ opsmethod = "undefined",
         link = 0, driver = "none",
         NEW n, NEW at, NEW failure \in Statuses, StartSearch(n, at, failure),
         metamethod' \in Methods, UNCHANGED <<commsmode, opsmethod, link, driver>>
  PROVE  LinkInv'
<1>1. /\ UNCHANGED <<db, api, network, found>> /\ located' = FALSE /\ tried' = << >>
      /\ CM_InitSearch(Query(n, at))
      /\ IF InitResult = "NOERROR" THEN pc' = "search" /\ status' = "NOERROR"
                                   ELSE pc' = "idle" /\ status' = failure
  BY DEF StartSearch, CM_InitSearch, world
<1>2. /\ Len(db) \in Nat /\ DOMAIN db = 1 .. Len(db) /\ Database
  BY SizeOfDatabase DEF LinkInv
<1>3. Database' /\ OneInterface'
  BY <1>1 DEF LinkInv, Database, OneInterface
<1>4. Tried' = {} /\ TriesInOrder' /\ tried' \in Seq(DOMAIN db')
  <2>1. Tried' = {} /\ Len(tried') = 0
    BY <1>1 DEF Tried
  <2>2. QED
    BY <1>1, <2>1 DEF TriesInOrder
<1>5. \A q : SearchType(q) \in {"notinit", "named", "any", "just"}
  BY TypeOfSearch
<1>6. CASE InitResult = "NOERROR"
  <2>1. /\ query' = Query(n, at) /\ search_type' = SearchType(query') /\ line' = 0
        /\ search_pass' = 1 /\ file' = "open" /\ show_errors' = TRUE
        /\ pc' = "search" /\ status' = "NOERROR"
    BY <1>1, <1>6 DEF CM_InitSearch
  <2>2. query'.host = Host'
    BY <1>1, <2>1 DEF Query, Host
  <2>3. Past(line, search_pass)' = {}
    BY <1>1, <1>2, <2>1 DEF Past, Candidates
  <2>4. TypeOK'
    <3>1. TypeOK
      BY DEF LinkInv
    <3>2. /\ search_type' \in {"notinit", "named", "any", "just"}
          /\ line' \in 0 .. Len(db') /\ found' \in 0 .. Len(db')
          /\ link' \in -1 .. Len(db') /\ status' \in Statuses
      BY <1>1, <1>2, <1>5, <2>1, <3>1 DEF TypeOK, Statuses
    <3>3. /\ commsmode' \in {"closed", "sync"} /\ opsmethod' \in {"undefined", "linkio", "tcp"}
          /\ driver' \in Methods \cup {"none", "tops"} /\ metamethod' \in Methods
      BY <3>1 DEF TypeOK
    <3>4. /\ search_pass' \in 0 .. 2 /\ file' \in {"open", "closed"}
          /\ pc' \in {"idle", "search", "found"}
      BY <2>1
    <3>5. show_errors' \in BOOLEAN
      BY <2>1
    <3>6. located' \in BOOLEAN
      BY <1>1
    <3>7. QED
      BY <1>4, <3>2, <3>3, <3>4, <3>5, <3>6 DEF TypeOK
  <2>5. Looping' /\ AtFound' /\ FileClosed' /\ OpenIsRight'
    BY <1>1, <2>1, <2>2 DEF LinkInv, OneInterface, Looping, AtFound, FileClosed, OpenIsRight
  <2>6. TriedSoFar'
    BY <1>4, <2>1, <2>3 DEF TriedSoFar
  <2>7. QED
    BY <1>3, <1>4, <2>4, <2>5, <2>6 DEF LinkInv
<1>7. CASE InitResult # "NOERROR"
  <2>1. /\ search_type' \in {"notinit", "named", "any", "just"}
        /\ UNCHANGED <<line, search_pass, file, show_errors>>
        /\ pc' = "idle" /\ status' = failure
    BY <1>1, <1>5, <1>7 DEF CM_InitSearch, TypeAfterFailure, LinkInv, TypeOK
  <2>2. TypeOK'
    BY <1>1, <1>2, <1>4, <2>1 DEF LinkInv, TypeOK
  <2>3. Looping' /\ AtFound' /\ TriedSoFar' /\ FileClosed'
    BY <1>1, <2>1 DEF LinkInv, Looping, AtFound, TriedSoFar, FileClosed
  <2>4. OpenIsRight'
    BY <1>1, <2>1 DEF LinkInv, OneInterface, OpenIsRight
  <2>5. QED
    BY <1>3, <1>4, <2>2, <2>3, <2>4 DEF LinkInv
<1>8. QED
  BY <1>6, <1>7

\* The calls that begin a search.
LEMMA OpensStep ==
  ASSUME LinkInv, NEW n \in Names
  PROVE  /\ OPS_Open(n) => LinkInv'
         /\ OpenLink(n) => LinkInv'
<1>1. LinkErrors \subseteq Statuses /\ {"BAD_OPERATION", "ER_LINK_SOFT"} \subseteq Statuses
      /\ "HW_X" \in Methods
  BY DEF Statuses, LinkErrors, TopsErrors, Methods
<1>2. ASSUME OPS_Open(n) PROVE LinkInv'
  <2>1. /\ pc = "idle" /\ api = "ops" /\ commsmode = "closed"
        /\ StartSearch(n, OpsAt(n), "BAD_OPERATION")
        /\ UNCHANGED <<commsmode, opsmethod, metamethod, link, driver>>
    BY <1>2 DEF OPS_Open, state
  <2>2. link = 0 /\ opsmethod = "undefined" /\ driver = "none" /\ metamethod \in Methods
    BY <2>1 DEF LinkInv, OpenIsRight, TypeOK
  <2>3. QED
    BY <1>1, <2>1, <2>2, SearchBegins
<1>3. ASSUME OpenLink(n) PROVE LinkInv'
  <2>1. /\ pc = "idle" /\ api = "link" /\ commsmode = "closed" /\ link = 0
        /\ StartSearch(n, n.at, "ER_LINK_SOFT")
        /\ metamethod' = "HW_X" /\ UNCHANGED <<commsmode, opsmethod, link, driver>>
    BY <1>3 DEF OpenLink, Closed
  <2>2. driver = "none"
    BY <2>1 DEF LinkInv, OpenIsRight
  <2>3. QED
    BY <1>1, <2>1, <2>2, SearchBegins
<1>4. QED
  BY <1>2, <1>3

\* The calls that make no search: they fail at once, open a link elsewhere by
\* TCP, or close the one that is open.
LEMMA ElsewhereStep ==
  ASSUME LinkInv, NEW n \in Names
  PROVE  /\ OpsOpenElsewhere(n) => LinkInv'
         /\ OpenElsewhere(n) => LinkInv'
<1>1. ASSUME OpsOpenElsewhere(n) PROVE LinkInv'
  <2>1. /\ pc = "idle" /\ pc' = "idle" /\ api = "ops" /\ commsmode = "closed"
        /\ UNCHANGED <<conlib, world, api, network, tried, metamethod, located>>
        /\ \/ /\ commsmode' = "sync" /\ status' = "NOERROR" /\ opsmethod' = "tcp"
              /\ link' = -1 /\ driver' = "tops"
           \/ /\ opsmethod' = "undefined" /\ UNCHANGED <<link, driver, commsmode>>
              /\ status' = "COMMS_FATAL"
    BY <1>1 DEF OpsOpenElsewhere, OpsReturnOpened, Return, Opened, NotOpened
  <2>2. Database' /\ Looping' /\ AtFound' /\ TriedSoFar' /\ TriesInOrder' /\ FileClosed'
    BY <2>1, NoSearch
  <2>3. link = 0 /\ opsmethod = "undefined" /\ driver = "none"
    BY <2>1 DEF LinkInv, OpenIsRight
  <2>4. TypeOK'
    BY <2>1, SizeOfDatabase DEF LinkInv, TypeOK, Statuses, conlib, world
  <2>5. OneInterface' /\ OpenIsRight'
    BY <2>1, <2>3 DEF LinkInv, OneInterface, OpenIsRight
  <2>6. QED
    BY <2>2, <2>4, <2>5 DEF LinkInv
<1>2. ASSUME OpenElsewhere(n) PROVE LinkInv'
  <2>1. /\ pc = "idle" /\ pc' = "idle" /\ api = "link" /\ link = 0
        /\ UNCHANGED <<conlib, world, api, network, tried, located, commsmode, opsmethod>>
        /\ \/ /\ metamethod' = "TCP_LINKOPS" /\ status' = "NOERROR"
              /\ link' = -1 /\ driver' = "TCP_LINKOPS"
           \/ /\ metamethod' = "HW_X" /\ UNCHANGED <<link, driver>>
              /\ status' \in {"ER_LINK_CANT", "ER_NO_LINK"}
    BY <1>2 DEF OpenElsewhere, Closed, Return, Opened, NotOpened, LinkOnly
  <2>2. Database' /\ Looping' /\ AtFound' /\ TriedSoFar' /\ TriesInOrder' /\ FileClosed'
    BY <2>1, NoSearch
  <2>3. driver = "none"
    BY <2>1 DEF LinkInv, OpenIsRight
  <2>4. TypeOK'
    BY <2>1, SizeOfDatabase DEF LinkInv, TypeOK, Statuses, LinkErrors, Methods, conlib, world
  <2>5. OneInterface' /\ OpenIsRight'
    BY <2>1, <2>3 DEF LinkInv, OneInterface, OpenIsRight
  <2>6. QED
    BY <2>2, <2>4, <2>5 DEF LinkInv
<1>3. QED
  BY <1>1, <1>2

\* The calls that are refused.
LEMMA RefusedStep ==
  ASSUME LinkInv, Refused \/ WrongMode
  PROVE  LinkInv'
<1>1. /\ pc = "idle" /\ pc' = "idle"
      /\ UNCHANGED <<conlib, world, api, network, tried, located, commsmode, opsmethod,
                     link, driver>>
      /\ \/ link = 0 /\ metamethod' \in {"HW_X", metamethod}
         \/ UNCHANGED metamethod
      /\ status' \in {"BAD_OPERATION", "COMMS_FATAL", "ER_LINK_SYNTAX", "ER_LINK_SOFT",
                      "BAD_COMMS_MODE"}
  BY DEF Refused, WrongMode, Closed, Return, state
<1>2. Database' /\ Looping' /\ AtFound' /\ TriedSoFar' /\ TriesInOrder' /\ FileClosed'
  BY <1>1, NoSearch
<1>3. TypeOK'
  BY <1>1, SizeOfDatabase
     DEF LinkInv, TypeOK, Statuses, LinkErrors, TopsErrors, Methods, conlib, world
<1>4. OneInterface' /\ OpenIsRight'
  BY <1>1 DEF LinkInv, OneInterface, OpenIsRight, world
<1>5. QED
  BY <1>2, <1>3, <1>4 DEF LinkInv

\* The calls that close the link.
LEMMA CloseStep ==
  ASSUME LinkInv, OPS_Close \/ CloseLink
  PROVE  LinkInv'
<1>1. /\ pc = "idle" /\ pc' = "idle"
      /\ UNCHANGED <<conlib, world, api, network, tried, located>>
      /\ link' = 0 /\ driver' = "none" /\ metamethod' \in {"HW_X", metamethod}
      /\ status' = "NOERROR"
      /\ \/ commsmode' = "closed" /\ opsmethod' = "undefined"
         \/ api = "link" /\ UNCHANGED <<commsmode, opsmethod>>
  BY DEF OPS_Close, CloseLink, Opened, Return, LinkOnly
<1>2. Database' /\ Looping' /\ AtFound' /\ TriedSoFar' /\ TriesInOrder' /\ FileClosed'
  BY <1>1, NoSearch
<1>3. TypeOK'
  BY <1>1, SizeOfDatabase DEF LinkInv, TypeOK, Statuses, Methods, conlib, world
<1>4. OneInterface' /\ OpenIsRight'
  BY <1>1 DEF LinkInv, OneInterface, OpenIsRight, world
<1>5. QED
  BY <1>2, <1>3, <1>4 DEF LinkInv

\* The search has failed, or has found no more records.
LEMMA SearchEnds ==
  ASSUME LinkInv, pc = "search", SearchAndEnd, pc' = "idle", status' \in Statuses,
         UNCHANGED <<world, api, network, commsmode, opsmethod, metamethod, link, driver>>,
         UNCHANGED <<located, tried>>
  PROVE  LinkInv'
<1>1. FindsNext(Searched)
  BY SearchFinds DEF LinkInv, Looping, TypeOK
<1>2. /\ search_type' = "notinit" /\ search_pass' = 0 /\ line' = 0 /\ found' = 0
      /\ file' = "closed" /\ show_errors' \in BOOLEAN /\ UNCHANGED <<query, db, located>>
  BY <1>1 DEF SearchAndEnd, CloseFile, FindsNext, world
<1>3. TriesInOrder'
  BY <1>2, SameOrder DEF LinkInv
<1>4. Database' /\ Looping' /\ AtFound' /\ TriedSoFar' /\ TriesInOrder' /\ FileClosed'
  BY <1>2, <1>3, SearchIsOver
<1>5. TypeOK'
  <2>1. /\ search_type' \in {"notinit", "named", "any", "just"}
        /\ search_pass' \in 0 .. 2 /\ show_errors' \in BOOLEAN
        /\ line' \in 0 .. Len(db') /\ found' \in 0 .. Len(db') /\ file' \in {"open", "closed"}
    BY <1>2, EndTypes
  <2>2. QED
    BY <1>2, <2>1 DEF LinkInv, TypeOK
<1>6. OneInterface' /\ OpenIsRight'
  BY DEF LinkInv, Looping, OneInterface, OpenIsRight
<1>7. QED
  BY <1>4, <1>5, <1>6 DEF LinkInv

\* The search has found a record: it is tried next, or it is none to be tried.
LEMMA SearchGoesOn ==
  ASSUME LinkInv, pc = "search", CM_DoSearch, Searched.r.result = "NOERROR",
         UNCHANGED <<world, api, network, commsmode, opsmethod, link, driver, status, tried>>,
         located' \in BOOLEAN, metamethod' \in Methods,
         \/ pc' = "search" /\ found' \notin Candidates
         \/ /\ pc' = "found" /\ db[found'].working
            /\ IF api = "ops" THEN Usable(db[found'], query)
                              ELSE metamethod' = db[found'].method
  PROVE  LinkInv'
<1> DEFINE s == Searched
<1>1. /\ search_pass' = s.pass /\ show_errors' = s.show /\ line' = s.r.at /\ found' = s.r.at
      /\ UNCHANGED <<search_type, file, query, db>>
  BY DEF CM_DoSearch, world
<1>2. FindsNext(s)
  BY SearchFinds DEF LinkInv, Looping, TypeOK
<1> HIDE DEF s
<1>3. /\ s.pass \in {1, 2} /\ s.show \in BOOLEAN /\ s.r.at \in 1 .. Len(db)
      /\ db[s.r.at].form # "cut"
      /\ Matches(db[s.r.at], SearchType(query), query)
      /\ ~ JustMachine => (s.pass = 1 <=> Local(db[s.r.at], query))
      /\ Past(s.r.at, s.pass) = Past(line, search_pass) \cup ({s.r.at} \cap Candidates)
      /\ s.r.at \notin Past(line, search_pass)
      /\ \A j \in Past(line, search_pass) : Before(j, s.r.at)
  BY <1>2 DEF FindsNext, s
<1>4. Tried = Past(line, search_pass) /\ Len(db) \in Nat
  BY SizeOfDatabase DEF LinkInv, TriedSoFar
<1>5. Candidates' = Candidates /\ Tried' = Tried /\ TriesInOrder'
  BY <1>1, SameOrder DEF LinkInv
<1>6. Database' /\ OneInterface' /\ OpenIsRight' /\ FileClosed'
  BY <1>1 DEF LinkInv, Database, OneInterface, OpenIsRight, FileClosed
<1>7. Looping'
  BY <1>1, <1>3 DEF LinkInv, Looping, Host
<1>8. \A i, j : Before(i, j)' <=> Before(i, j)
  BY <1>1 DEF Before, Local, JustMachine
<1>9. AtFound'
  <2>1. SUFFICES ASSUME pc' = "found" PROVE AtFound'
    BY DEF AtFound
  <2>2. /\ found' = line' /\ found' \in 1 .. Len(db') /\ db'[found'].working
        /\ db'[found'].form # "cut"
    BY <1>1, <1>3, <2>1
  <2>3. Matches(db[found], SearchType(query), query)'
    BY <1>1, <1>3 DEF Matches, SearchType
  <2>4. Wanted(found, search_pass)'
    BY <1>1, <1>3 DEF Wanted, Local, JustMachine
  <2>5. \A j \in Tried' : Before(j, found)'
    BY <1>1, <1>3, <1>4, <1>5, <1>8
  <2>6. IF api' = "ops" THEN Usable(db[found], query)' ELSE metamethod' = db'[found'].method
    BY <1>1, <2>1 DEF Usable, Weird, Local
  <2>7. QED
    BY <2>2, <2>3, <2>4, <2>5, <2>6 DEF AtFound
<1>10. TriedSoFar'
  <2>1. Past(line, search_pass)' = Past(s.r.at, s.pass)
    BY <1>1, <1>5 DEF Past, Local, JustMachine
  <2>2. CASE pc' = "search"
    BY <1>1, <1>3, <1>4, <1>5, <2>1, <2>2 DEF TriedSoFar
  <2>3. CASE pc' = "found"
    BY <1>1, <1>3, <1>4, <1>5, <2>1, <2>3 DEF TriedSoFar
  <2>4. QED
    BY <2>2, <2>3
<1>11. TypeOK'
  <2>1. /\ search_pass' \in 0 .. 2 /\ line' \in 0 .. Len(db') /\ found' \in 0 .. Len(db')
        /\ pc' \in {"idle", "search", "found"} /\ show_errors' \in BOOLEAN
    BY <1>1, <1>3, <1>4
  <2>2. QED
    BY <1>1, <2>1 DEF LinkInv, TypeOK
<1>12. QED
  BY <1>5, <1>6, <1>7, <1>9, <1>10, <1>11 DEF LinkInv

\* One turn of the loop up to the attempt: OPS_Open's and OpenLink's.
LEMMA SearchStep ==
  ASSUME LinkInv, OpsSearch \/ LinkSearch
  PROVE  LinkInv'
<1> DEFINE r == Searched.r
<1>1. /\ FindsNext(Searched) /\ pc = "search"
  BY SearchFinds DEF LinkInv, Looping, TypeOK, OpsSearch, LinkSearch
<1>2. /\ r.result \in {"NOERROR", "BAD_OPERATION", "BAD_TARGET_NAME"}
      /\ r.result = "NOERROR" =>
           /\ r.at \in 1 .. Len(db) /\ db[r.at].form # "cut"
           /\ Matches(db[r.at], SearchType(query), query)
  BY <1>1 DEF FindsNext
<1>3. \A e \in {"BAD_OPERATION", "BAD_TARGET_NAME", "ER_LINK_BAD", "ER_LINK_SOFT"} :
        e \in Statuses
  BY DEF Statuses, LinkErrors, TopsErrors
<1>4. located \in BOOLEAN /\ metamethod \in Methods
  BY DEF LinkInv, TypeOK
<1>5. CASE OpsSearch /\ r.result # "NOERROR"
  <2>1. SearchAndEnd /\ Return(r.result) /\ UNCHANGED <<world, api, network, state>>
    BY <1>5 DEF OpsSearch
  <2>2. QED
    BY <1>1, <1>2, <1>3, <1>5, <2>1, SearchEnds DEF Return, state
<1>6. CASE LinkSearch /\ r.result # "NOERROR"
  <2>1. /\ SearchAndEnd /\ UNCHANGED <<metamethod, link, driver>> /\ LinkOnly
        /\ Return(IF r.result = "BAD_TARGET_NAME" THEN "ER_LINK_BAD" ELSE "ER_LINK_SOFT")
    BY <1>6 DEF LinkSearch
  <2>2. QED
    BY <1>1, <1>3, <2>1, SearchEnds DEF Return, LinkOnly
<1>7. CASE OpsSearch /\ r.result = "NOERROR"
  <2>1. /\ CM_DoSearch /\ UNCHANGED <<world, api, network, state, name, status, tried>>
        /\ located' = (located \/ db[r.at].working) /\ api = "ops"
        /\ pc' = IF Usable(db[r.at], query) THEN "found" ELSE "search"
    BY <1>7 DEF OpsSearch
  <2>2. found' = r.at
    BY <2>1 DEF CM_DoSearch
  <2>3. located' \in BOOLEAN
    BY <2>1
  <2>4. \/ pc' = "search" /\ found' \notin Candidates
        \/ pc' = "found" /\ db[found'].working /\ Usable(db[found'], query)
    BY <2>1, <2>2 DEF Candidates, Usable
  <2>5. QED
    BY <1>1, <1>4, <1>7, <2>1, <2>3, <2>4, SearchGoesOn DEF state
<1>8. CASE LinkSearch /\ r.result = "NOERROR"
  <2>1. /\ CM_DoSearch /\ UNCHANGED <<link, driver, name, status, tried>> /\ LinkOnly
        /\ metamethod' = IF db[r.at].working THEN db[r.at].method ELSE metamethod
        /\ located' = (located \/ Usable(db[r.at], query)) /\ api = "link"
        /\ pc' = IF db[r.at].working THEN "found" ELSE "search"
    BY <1>8 DEF LinkSearch
  <2>2. found' = r.at
    BY <2>1 DEF CM_DoSearch
  <2>3. located' \in BOOLEAN
    BY <2>1
  <2>4. metamethod' \in Methods
    <3>1. db[r.at] \in Entries
      BY <1>2, <1>8 DEF LinkInv, Database
    <3>2. db[r.at].method \in Methods
      BY <3>1 DEF Methods
    <3>3. QED
      BY <1>4, <2>1, <3>2
  <2>5. \/ pc' = "search" /\ found' \notin Candidates
        \/ pc' = "found" /\ db[found'].working /\ metamethod' = db[found'].method
    BY <2>1, <2>2 DEF Candidates, Usable
  <2>6. QED
    BY <1>1, <1>8, <2>1, <2>3, <2>4, <2>5, SearchGoesOn DEF LinkOnly
<1>9. QED
  BY <1>5, <1>6, <1>7, <1>8

\* An attempt on the record found that does not open it.
LEMMA AttemptFails ==
  ASSUME LinkInv, pc = "found", found \in Candidates, tried' = Noted(found),
         TryAgain, NotOpened, UNCHANGED <<world, api, network, commsmode, located>>,
         metamethod' \in Methods, opsmethod' = "undefined"
  PROVE  LinkInv'
<1>1. /\ pc' = "search"
      /\ UNCHANGED <<db, search_type, search_pass, show_errors, line, file, query, found, status,
                     link, driver>>
  BY DEF TryAgain, NotOpened, conlib, world
<1>2. /\ tried' \in Seq(DOMAIN db) /\ Tried' = Past(line, search_pass) /\ TriesInOrder'
  BY <1>1, TryingKeepsOrder
<1>3. Candidates' = Candidates
  BY <1>1 DEF Candidates, Matches, Usable, Weird, Local
<1>4. Past(line, search_pass)' = Past(line, search_pass)
  BY <1>1, <1>3 DEF Past, Local, JustMachine
<1>5. TypeOK'
  BY <1>1, <1>2 DEF LinkInv, TypeOK
<1>6. TriedSoFar' /\ AtFound'
  BY <1>1, <1>2, <1>4 DEF TriedSoFar, AtFound
<1>7. Database' /\ OneInterface' /\ Looping'
  BY <1>1 DEF LinkInv, Database, OneInterface, Looping, Host
<1>8. OpenIsRight' /\ FileClosed'
  BY <1>1 DEF OpenIsRight, FileClosed
<1>9. QED
  BY <1>2, <1>5, <1>6, <1>7, <1>8 DEF LinkInv

\* The return of an open that has tried the record found: as an error, or with
\* that record open.
LEMMA AttemptEnds ==
  ASSUME LinkInv, pc = "found", found \in Candidates, tried' = Noted(found),
         CM_EndSearch, pc' = "idle", status' \in Statuses,
         UNCHANGED <<world, api, network, located>>, metamethod' \in Methods,
         \/ NotOpened /\ opsmethod' = "undefined" /\ commsmode' = "closed"
         \/ /\ link' = found /\ driver' \in Methods \cup {"tops"}
            /\ driver' \in {"tops", "TCP_LINKOPS", db[found].method}
            /\ driver' \notin {"none", "tops"} => metamethod' = driver'
            /\ driver' # "none"
            /\ IF api = "ops" THEN /\ commsmode' = "sync" /\ opsmethod' \in {"linkio", "tcp"}
                                   /\ opsmethod' = "tcp" <=> driver' = "tops"
                              ELSE UNCHANGED <<commsmode, opsmethod>>
  PROVE  LinkInv'
<1>1. /\ search_type' = "notinit" /\ search_pass' = 0 /\ line' = 0 /\ found' = 0
      /\ file' = "closed" /\ UNCHANGED <<query, show_errors, db>>
  BY EndShape DEF world
<1>2. /\ tried' \in Seq(DOMAIN db) /\ tried' # << >> /\ tried'[Len(tried')] = found
      /\ TriesInOrder'
  BY <1>1, TryingKeepsOrder
<1>3. Database' /\ Looping' /\ AtFound' /\ TriedSoFar' /\ FileClosed'
  BY <1>1, <1>2, SearchIsOver
<1>4. /\ Len(db) \in Nat /\ found \in 1 .. Len(db)
      /\ link = 0 /\ driver = "none" /\ commsmode = "closed" /\ opsmethod = "undefined"
  BY SizeOfDatabase DEF LinkInv, AtFound, Looping
<1>5. TypeOK'
  <2>1. TypeOK
    BY DEF LinkInv
  <2>2. link' \in -1 .. Len(db') /\ driver' \in Methods \cup {"none", "tops"}
    BY <1>1, <1>4 DEF NotOpened
  <2>3. commsmode' \in {"closed", "sync"} /\ opsmethod' \in {"undefined", "linkio", "tcp"}
    BY <1>4
  <2>4. /\ search_type' \in {"notinit", "named", "any", "just"}
        /\ search_pass' \in 0 .. 2 /\ show_errors' \in BOOLEAN
        /\ line' \in 0 .. Len(db') /\ found' \in 0 .. Len(db') /\ file' \in {"open", "closed"}
    BY <1>1, <2>1, EndTypes DEF TypeOK
  <2>5. QED
    BY <1>1, <1>2, <2>1, <2>2, <2>3, <2>4 DEF TypeOK
<1>6. OneInterface'
  BY <1>4 DEF LinkInv, OneInterface
<1>7. OpenIsRight'
  BY <1>1, <1>2, <1>4 DEF LinkInv, OneInterface, OpenIsRight, NotOpened
<1>8. QED
  BY <1>2, <1>3, <1>5, <1>6, <1>7 DEF LinkInv

\* The record of an attempt through the linkops interface.
LEMMA FoundIsCandidate ==
  ASSUME LinkInv, pc = "found", api = "ops" \/ ~ Weird(db[found], query)
  PROVE  /\ found \in Candidates /\ db[found] \in Entries
         /\ db[found].method \in Methods
<1>1. /\ found \in 1 .. Len(db) /\ db[found].working /\ db[found].form # "cut"
      /\ Matches(db[found], SearchType(query), query)
      /\ DOMAIN db = 1 .. Len(db) /\ Usable(db[found], query)
  BY SizeOfDatabase DEF LinkInv, AtFound, Usable
<1>2. db[found] \in Entries
  BY <1>1 DEF LinkInv, Database
<1>3. QED
  BY <1>1, <1>2 DEF Candidates, Methods

\* LOPS_Open: the driver opens or fails.
LEMMA LopsStep ==
  ASSUME LinkInv, LOPS_Open
  PROVE  LinkInv'
<1>1. /\ pc = "found" /\ api = "ops" /\ tried' = Noted(found)
      /\ UNCHANGED <<located, world, api, network>> /\ commsmode = "closed"
  BY DEF LOPS_Open, LinkInv, Looping
<1>2. /\ found \in Candidates /\ Entry.method \in Methods
  BY <1>1, FoundIsCandidate DEF Entry
<1>3. CASE DriverOpens(Entry) /\ opsmethod' = "linkio" /\ commsmode' = "sync"
           /\ CM_EndSearch /\ pc' = "idle" /\ status' = "NOERROR"
  <2>1. /\ metamethod' = Entry.method /\ link' = found /\ driver' = Entry.method
        /\ Entry.method \in Available
    BY <1>3 DEF DriverOpens, Opened
  <2>2. Entry.method \notin {"none", "tops"}
    BY <2>1, LinkSelectAssumption
  <2>3. status' \in Statuses
    BY <1>3 DEF Statuses
  <2>4. QED
    BY <1>1, <1>2, <1>3, <2>1, <2>2, <2>3, AttemptEnds DEF Entry
<1>4. CASE DriverFails(Entry) /\ opsmethod' = "undefined" /\ UNCHANGED commsmode /\ TryAgain
  <2>1. NotOpened /\ metamethod' \in {"HW_X", Entry.method}
    BY <1>4 DEF DriverFails
  <2>2. metamethod' \in Methods
    BY <1>2, <2>1 DEF Methods
  <2>3. QED
    BY <1>1, <1>2, <1>4, <2>1, <2>2, AttemptFails
<1>5. QED
  BY <1>3, <1>4 DEF LOPS_Open, FailedMethod

\* TOPS_Open from the loop: it opens, fails, or fails for good.
LEMMA TopsStep ==
  ASSUME LinkInv, TOPS_Open
  PROVE  LinkInv'
<1>1. /\ pc = "found" /\ api = "ops" /\ tried' = Noted(found)
      /\ UNCHANGED <<located, metamethod, world, api, network>>
      /\ commsmode = "closed" /\ metamethod \in Methods
  BY DEF TOPS_Open, LinkInv, Looping, TypeOK
<1>2. found \in Candidates
  BY <1>1, FoundIsCandidate
<1>3. status' \in {"NOERROR", "COMMS_FATAL"} => status' \in Statuses
  BY DEF Statuses
<1>4. CASE /\ Opened(found, "tops") /\ opsmethod' = "tcp" /\ commsmode' = "sync"
           /\ CM_EndSearch /\ pc' = "idle" /\ status' = "NOERROR"
  <2>1. link' = found /\ driver' = "tops"
    BY <1>4 DEF Opened
  <2>2. QED
    BY <1>1, <1>2, <1>3, <1>4, <2>1, AttemptEnds
<1>5. CASE NotOpened /\ opsmethod' = "undefined" /\ UNCHANGED commsmode /\ TryAgain
  BY <1>1, <1>2, <1>5, AttemptFails
<1>6. CASE /\ NotOpened /\ opsmethod' = "undefined" /\ UNCHANGED commsmode
           /\ CM_EndSearch /\ pc' = "idle" /\ status' = "COMMS_FATAL"
  BY <1>1, <1>2, <1>3, <1>6, AttemptEnds
<1>7. QED
  BY <1>4, <1>5, <1>6 DEF TOPS_Open, FailedMethod, EndSearchOnError

\* The two returns of OpenLink that leave the search on.
LEMMA GiveUpStep ==
  ASSUME LinkInv, LinkGivesUp
  PROVE  LinkInv'
<1>1. /\ pc = "found" /\ pc' = "idle" /\ api = "link"
      /\ status' \in {"ER_LINK_SYNTAX", "ER_LINK_SOFT"}
      /\ UNCHANGED <<conlib, world, api, network, commsmode, opsmethod, metamethod, link, driver,
                     located, tried>>
  BY DEF LinkGivesUp, Return, LinkOnly
<1>2. Database' /\ Looping' /\ AtFound' /\ TriedSoFar' /\ TriesInOrder'
  BY <1>1, NoSearch
<1>3. FileClosed' /\ OneInterface'
  BY <1>1 DEF FileClosed, LinkInv, OneInterface, world
<1>4. TypeOK'
  BY <1>1 DEF LinkInv, TypeOK, Statuses, LinkErrors, conlib, world
<1>5. OpenIsRight'
  BY <1>1 DEF LinkInv, Looping, OpenIsRight
<1>6. QED
  BY <1>2, <1>3, <1>4, <1>5 DEF LinkInv

\* OpenLink passes over a weird record, or tries the one found.
LEMMA LinkTriesStep ==
  ASSUME LinkInv, LinkTries
  PROVE  LinkInv'
<1>1. /\ pc = "found" /\ api = "link" /\ metamethod \in Available
      /\ UNCHANGED <<located, world, api, network, commsmode, opsmethod>>
  BY DEF LinkTries, LinkOnly
<1>2. metamethod = db[found].method /\ commsmode = "closed" /\ opsmethod = "undefined"
  BY <1>1 DEF LinkInv, AtFound, Looping
<1> DEFINE m == IF Local(Entry, query) THEN metamethod ELSE "TCP_LINKOPS"
<1>3. CASE /\ Weird(Entry, query) /\ pc' = "search"
           /\ UNCHANGED <<conlib, status, tried, metamethod, link, driver>>
  <2>1. found \notin Candidates
    BY <1>3 DEF Candidates, Usable, Entry
  <2>2. UNCHANGED <<db, search_type, search_pass, show_errors, line, file, query, found>>
    BY <1>1, <1>3 DEF conlib, world
  <2>3. Candidates' = Candidates /\ Tried' = Tried /\ TriesInOrder'
    BY <1>3, <2>2, SameOrder DEF LinkInv
  <2>4. Past(line, search_pass)' = Past(line, search_pass)
    BY <2>2, <2>3 DEF Past, Local, JustMachine
  <2>5. Tried' = Past(line, search_pass)'
    BY <1>1, <2>1, <2>3, <2>4 DEF LinkInv, TriedSoFar, Past
  <2>6. TypeOK'
    BY <1>1, <1>3, <2>2 DEF LinkInv, TypeOK
  <2>7. Database' /\ OneInterface' /\ Looping'
    BY <1>1, <1>3, <2>2 DEF LinkInv, Database, OneInterface, Looping, Host
  <2>8. AtFound' /\ TriedSoFar' /\ OpenIsRight' /\ FileClosed'
    BY <1>3, <2>5 DEF AtFound, TriedSoFar, OpenIsRight, FileClosed
  <2>9. QED
    BY <2>3, <2>6, <2>7, <2>8 DEF LinkInv
<1>4. CASE /\ ~ Weird(Entry, query) /\ m \in Available
           /\ tried' = Noted(found) /\ metamethod' = MethodFor(Entry)
           /\ \/ /\ Opened(found, m) /\ CM_EndSearch
                 /\ pc' = "idle" /\ status' = "NOERROR"
              \/ NotOpened /\ TryAgain
  <2>1. found \in Candidates
    BY <1>1, <1>4, FoundIsCandidate DEF Entry
  <2>2. /\ m \in Methods /\ metamethod' = m /\ m \notin {"none", "tops"}
        /\ m \in {"TCP_LINKOPS", db[found].method}
    BY <1>2, <1>4, LinkSelectAssumption DEF Methods, MethodFor
  <2> HIDE DEF m
  <2>3. CASE Opened(found, m) /\ CM_EndSearch /\ pc' = "idle" /\ status' = "NOERROR"
    <3>1. link' = found /\ driver' = m /\ status' \in Statuses
      BY <2>3 DEF Opened, Statuses
    <3>2. QED
      BY <1>1, <1>4, <2>1, <2>2, <2>3, <3>1, AttemptEnds
  <2>4. CASE NotOpened /\ TryAgain
    BY <1>1, <1>2, <1>4, <2>1, <2>2, <2>4, AttemptFails
  <2>5. QED
    BY <1>4, <2>3, <2>4
<1>5. QED
  BY <1>3, <1>4 DEF LinkTries

\* A step that changes nothing.
LEMMA LinkStutter ==
  ASSUME LinkInv, UNCHANGED vars
  PROVE  LinkInv'
<1>1. /\ UNCHANGED <<db, icondb, search_type, search_pass, show_errors, line, file, query, found>>
      /\ UNCHANGED <<api, network, pc, name, located, status, commsmode, opsmethod>>
      /\ UNCHANGED <<metamethod, link, driver, tried>>
  BY DEF vars
<1>2. Candidates' = Candidates /\ Tried' = Tried /\ TriesInOrder'
  BY <1>1, SameOrder DEF LinkInv
<1>3. Past(line, search_pass)' = Past(line, search_pass)
  BY <1>1, <1>2 DEF Past, Local, JustMachine
<1>4. \A i, j : Before(i, j)' <=> Before(i, j)
  BY <1>1 DEF Before, Local, JustMachine
<1>5. AtFound'
  BY <1>1, <1>2, <1>4
     DEF LinkInv, AtFound, Wanted, Matches, SearchType, Usable, Weird, Local, JustMachine
<1>6. TriedSoFar'
  BY <1>1, <1>2, <1>3 DEF LinkInv, TriedSoFar
<1>7. TypeOK'
  BY <1>1 DEF LinkInv, TypeOK
<1>8. Database' /\ OneInterface' /\ Looping' /\ OpenIsRight' /\ FileClosed'
  BY <1>1 DEF LinkInv, Database, OneInterface, Looping, Host, OpenIsRight, FileClosed
<1>9. QED
  BY <1>2, <1>5, <1>6, <1>7, <1>8 DEF LinkInv

\* Every step preserves the invariant.
LEMMA LinkStep ==
  LinkInv /\ [Next]_vars => LinkInv'
<1> SUFFICES ASSUME LinkInv, [Next]_vars PROVE LinkInv'
  OBVIOUS
<1>1. ASSUME NEW n \in Names,
             OPS_Open(n) \/ OpsOpenElsewhere(n) \/ OpenLink(n) \/ OpenElsewhere(n)
      PROVE  LinkInv'
  BY <1>1, OpensStep, ElsewhereStep
<1>2. CASE Turn
  BY <1>2, SearchStep, LopsStep, TopsStep, GiveUpStep, LinkTriesStep DEF Turn
<1>3. CASE Refused \/ WrongMode \/ OPS_Close \/ CloseLink
  BY <1>3, RefusedStep, CloseStep
<1>4. CASE UNCHANGED vars
  BY <1>4, LinkStutter
<1>5. QED
  BY <1>1, <1>2, <1>3, <1>4 DEF Next

\* It holds at the start, whatever the database.
LEMMA LinkStart ==
  Init => LinkInv
<1> SUFFICES ASSUME Init PROVE LinkInv
  OBVIOUS
<1>1. /\ Len(db) \in 0 .. MaxEntries /\ DOMAIN db = 1 .. Len(db)
      /\ \A i \in 1 .. Len(db) : db[i] \in Entries /\ (db[i].form = "cut" => i = Len(db))
  <2>1. PICK n \in 0 .. MaxEntries : db \in [1 .. n -> Entries]
    BY DEF Init, ConlibInit
  <2>2. Len(db) = n
    BY <2>1, ConlibAssumption
  <2>3. QED
    BY <2>1, <2>2 DEF Init, ConlibInit
<1>2. Len(db) \in Nat
  <2>1. Database
    BY <1>1 DEF Database
  <2>2. QED
    BY <2>1, SizeOfDatabase
<1>3. Tried = {} /\ TriesInOrder /\ tried \in Seq(DOMAIN db)
  <2>1. tried = << >> /\ Len(tried) = 0
    BY DEF Init
  <2>2. Tried = {}
    BY <2>1 DEF Tried
  <2>3. QED
    BY <2>1, <2>2 DEF TriesInOrder
<1>4. TypeOK
  <2>1. /\ search_type = "notinit" /\ search_pass = 0 /\ show_errors = TRUE
        /\ line = 0 /\ found = 0 /\ file = "closed"
    BY DEF Init, ConlibInit
  <2>2. /\ pc = "idle" /\ located = FALSE /\ status = "NOERROR" /\ commsmode = "closed"
        /\ opsmethod = "undefined" /\ metamethod = "HW_X" /\ link = 0 /\ driver = "none"
    BY DEF Init
  <2>3. /\ line \in 0 .. Len(db) /\ found \in 0 .. Len(db) /\ link \in -1 .. Len(db)
        /\ search_pass \in 0 .. 2
    BY <1>2, <2>1, <2>2
  <2>4. status \in Statuses /\ metamethod \in Methods
    BY <2>2 DEF Statuses, Methods
  <2>5. located \in BOOLEAN /\ show_errors \in BOOLEAN
    BY <2>1, <2>2
  <2>6. QED
    BY <1>3, <2>1, <2>2, <2>3, <2>4, <2>5 DEF TypeOK
<1>5. Database
  BY <1>1 DEF Database
<1>6. OneInterface
  BY LinkSelectAssumption DEF Init, OneInterface
<1>7. Looping /\ AtFound /\ TriedSoFar /\ OpenIsRight /\ FileClosed
  <2>1. /\ pc = "idle" /\ file = "closed" /\ link = 0 /\ driver = "none"
        /\ commsmode = "closed" /\ opsmethod = "undefined"
    BY DEF Init, ConlibInit
  <2>2. QED
    BY <2>1 DEF Looping, AtFound, TriedSoFar, OpenIsRight, FileClosed
<1>8. QED
  BY <1>3, <1>4, <1>5, <1>6, <1>7 DEF LinkInv

\* The invariant of the loop holds in every behaviour.
THEOREM LinkInvariant ==
  Spec => []LinkInv
BY LinkStart, LinkStep, PTL DEF Spec

\* An open tries the records it should try, local ones first and in the order
\* of the file, none twice and none left out (OPS_Open, OpenLink).
THEOREM TriesAreInOrder ==
  Spec => []TriesInOrder
<1>1. LinkInv => TriesInOrder
  BY DEF LinkInv
<1>2. QED
  BY <1>1, LinkInvariant, PTL

\* Between calls the variables of the interface agree with the driver that is
\* open, and the database is closed.
THEOREM OpensAreRight ==
  Spec => []OpensRight
<1>1. LinkInv => OpensRight
  BY DEF LinkInv, OpensRight
<1>2. QED
  BY <1>1, LinkInvariant, PTL

\* An open that says that the resource is not to be had has tried every record
\* of it.
THEOREM FailureIsFinal ==
  Spec => ExhaustedMeansAll
<1>1. LinkInv /\ [Next]_vars =>
        [pc = "search" /\ pc' = "idle" /\ status' \in {"BAD_TARGET_NAME", "ER_LINK_BAD"}
           => Tried = Candidates]_vars
  <2> SUFFICES ASSUME LinkInv, Next, pc = "search", pc' = "idle",
                      status' \in {"BAD_TARGET_NAME", "ER_LINK_BAD"}
               PROVE  Tried = Candidates
    OBVIOUS
  <2>1. OpsSearch \/ LinkSearch
    BY DEF Next, Turn, OPS_Open, OpsOpenElsewhere, OpenLink, OpenElsewhere, LOPS_Open, TOPS_Open,
       LinkGivesUp, LinkTries, Refused, WrongMode, OPS_Close, CloseLink
  <2>2. FindsNext(Searched)
    BY SearchFinds DEF LinkInv, Looping, TypeOK
  <2>3. Searched.r.result = "BAD_TARGET_NAME"
    <3>1. Searched.r.result \in {"NOERROR", "BAD_OPERATION", "BAD_TARGET_NAME"}
      BY <2>2 DEF FindsNext
    <3>2. CASE OpsSearch
      BY <3>1, <3>2 DEF OpsSearch, Return
    <3>3. CASE LinkSearch
      BY <3>1, <3>3 DEF LinkSearch, Return
    <3>4. QED
      BY <2>1, <3>2, <3>3
  <2>4. QED
    BY <2>2, <2>3 DEF FindsNext, LinkInv, TriedSoFar
<1>2. QED
  BY <1>1, LinkInvariant, PTL DEF Spec, ExhaustedMeansAll

=============================================================================
