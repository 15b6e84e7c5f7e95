---------------------------- MODULE CommandLine ----------------------------
(* The command line of iserver: PARSECL.C and makeargs of SH.C.  The words    *)
(* the host gives are joined into RealCommandLine, split again into FullArgv, *)
(* the server's options are taken out, and what is left is joined into        *)
(* DoctoredCommandLine for the program.  Characters matter, since quotes and  *)
(* blanks decide where a word ends: a word is a sequence of characters.       *)
EXTENDS Integers, Sequences, SequencesExt, FiniteSets

CONSTANTS
  Words,      \* the words a user may write
  MaxWords,   \* bound: words after the name of the program
  Typed,      \* TRUE: a line is typed to the shell instead, of Characters
  MaxTyped,   \* bound: characters of such a line
  MaxLine,    \* MAX_COMMAND_LINE_LENGTH
  MaxString   \* MAX_STRING_LENGTH

Characters == {"x", " ", "q"}    \* q stands for the double quote, 0 for the end of a string
Nul == "0"
Newline == "n"
White == {" ", Newline, Nul}

\* An option without parameter, one with, -st, and one that is not the server's.
Flag == <<"-", "s", "a">>
WithParameter == <<"-", "s", "b">>
IgnoreRest == <<"-", "s", "t">>
Server == <<"i">>
Options == {Flag, WithParameter, IgnoreRest}

VARIABLES
  pc,        \* "make", "split", "parse", "done" or "refused"
  argv,      \* what the host gave
  line,      \* RealCommandLine, or the line that was typed
  FullArgv,  \* its words
  ServerArg, \* which of them are the server's
  opt,       \* the next word to look at
  taken,     \* history: the options found, with their parameters
  doctored   \* DoctoredCommandLine

vars == <<pc, argv, line, FullArgv, ServerArg, opt, taken, doctored>>

UpTo(S, n) == UNION {[1..k -> S] : k \in 0..n}
QuotedArg(w) == \E k \in DOMAIN w : w[k] = " "
Quote(w) == IF QuotedArg(w) THEN <<"q">> \o w \o <<"q">> ELSE w
Join(ws) == FoldLeft(LAMBDA s, w : s \o Quote(w) \o <<" ">>, <<>>, ws)
Trim(s) == LET kept == {k \in DOMAIN s : s[k] # " "} IN
  SubSeq(s, 1, IF kept = {} THEN 0 ELSE CHOOSE k \in kept : \A j \in kept : j <= k)

Init ==
  /\ pc = IF Typed THEN "split" ELSE "make"
  /\ argv \in IF Typed THEN {<<>>} ELSE {<<Server>> \o ws : ws \in UpTo(Words, MaxWords)}
  /\ line \in IF Typed THEN {s \o <<Newline>> : s \in UpTo(Characters, MaxTyped) \ {<<>>}} ELSE {<<>>}
  /\ FullArgv = <<>> /\ ServerArg = <<>> /\ opt = 0 /\ taken = <<>> /\ doctored = <<>>

\* The line so far and the next word must fit; quotes and blanks are not counted.
Refuses(ws) == \E k \in DOMAIN ws : MaxLine - Len(Join(SubSeq(ws, 1, k - 1))) < Len(ws[k])
MakeCommandLine ==
  /\ pc = "make"
  /\ IF Refuses(argv)
     THEN pc' = "refused" /\ UNCHANGED line
     ELSE pc' = "split" /\ line' = Trim(Join(argv))
  /\ UNCHANGED <<argv, FullArgv, ServerArg, opt, taken, doctored>>

\* makeargs.  The line is copied into a buffer of zeros, and a word ends with a
\* blank or with its quote.  The scan for a first character takes the zeros for
\* blanks: after the last word it may leave the buffer.
Outside == MaxString + 1
Buffer(s) == [k \in 1..MaxString |-> IF k <= Len(s) THEN s[k] ELSE Nul]
First(from, Stops(_)) ==
  LET found == {k \in from..MaxString : Stops(k)} IN
  IF found = {} THEN Outside ELSE CHOOSE k \in found : \A j \in found : k <= j
FirstOfWord(b, i) == First(i, LAMBDA k : b[k] \notin White)
EndOfWord(b, i) == First(i, LAMBDA k : b[k] \in White)
EndOfQuote(b, i) == First(i, LAMBDA k : b[k] \in {"q", Nul})
FileName(b, i) == FirstOfWord(b, IF b[i] = ">" /\ i < MaxString /\ b[i + 1] = "&" THEN i + 2 ELSE i + 1)
Garbage == <<Nul>>

\* The words from each place of the buffer on.
WordsFrom(b) ==
  LET From[i \in 1..Outside + 1] ==
        IF i >= Outside THEN <<>> ELSE IF b[i] = Nul THEN <<>>
        ELSE LET j == FirstOfWord(b, i) IN
          CASE j = Outside -> <<Garbage>>
            [] j < Outside /\ b[j] \in {"<", ">"} -> From[EndOfWord(b, FileName(b, j)) + 1]
            [] j < Outside /\ b[j] = "q" ->
                 <<SubSeq(b, j + 1, EndOfQuote(b, j + 1) - 1)>> \o From[EndOfQuote(b, j + 1) + 1]
            [] OTHER -> <<SubSeq(b, j, EndOfWord(b, j) - 1)>> \o From[EndOfWord(b, j) + 1]
  IN From
Split(s) == WordsFrom(Buffer(s))[1]

TooLong(s) == Len(s) > MaxString
MakeArgs ==
  /\ pc = "split"
  /\ IF TooLong(line)
     THEN pc' = "refused" /\ UNCHANGED <<FullArgv, ServerArg, opt>>
     ELSE /\ pc' = IF Typed THEN "done" ELSE "parse"
          /\ FullArgv' = Split(line)
          /\ ServerArg' = [k \in 1..Len(Split(line)) |-> TRUE]
          /\ opt' = 2
  /\ UNCHANGED <<argv, line, taken, doctored>>

\* ParseCommandLine: one word, or two, at a time.
Parsing == pc = "parse" /\ opt <= Len(FullArgv)
Word == FullArgv[opt]
Unparsed == UNCHANGED <<argv, line, FullArgv, doctored>>

FlagOption ==
  /\ Parsing /\ Word = Flag
  /\ opt' = opt + 1 /\ taken' = Append(taken, Word) /\ UNCHANGED <<pc, ServerArg>> /\ Unparsed

HasParameter == opt < Len(FullArgv) /\ (FullArgv[opt + 1] = <<>> \/ FullArgv[opt + 1][1] # "-")
OnlyOption(k) == k + 1       \* mutant: the parameter is looked at again
AfterParameter(k) == k + 2
ParameterOption ==
  /\ Parsing /\ Word = WithParameter
  /\ IF HasParameter
     THEN opt' = AfterParameter(opt) /\ taken' = taken \o <<Word, FullArgv[opt + 1]>> /\ UNCHANGED pc
     ELSE pc' = "refused" /\ UNCHANGED <<opt, taken>>
  /\ UNCHANGED ServerArg /\ Unparsed

IgnoreRestOption ==
  /\ Parsing /\ Word = IgnoreRest
  /\ ServerArg' = [k \in DOMAIN ServerArg |-> ServerArg[k] /\ k <= opt]
  /\ opt' = Len(FullArgv) + 1 /\ taken' = Append(taken, Word) /\ UNCHANGED pc /\ Unparsed

NotAnOption ==
  /\ Parsing /\ Word \notin Options
  /\ ServerArg' = [ServerArg EXCEPT ![opt] = FALSE]
  /\ opt' = opt + 1 /\ UNCHANGED <<pc, taken>> /\ Unparsed

\* The words marked as the program's, which SP.COMMANDARG tells it, and the line
\* that SP.COMMAND gives it.
Unmarked == LET its == SetToSortSeq({k \in DOMAIN ServerArg : ~ServerArg[k]}, <) IN
  [k \in DOMAIN its |-> FullArgv[its[k]]]
Doctor ==
  /\ pc = "parse" /\ opt > Len(FullArgv)
  /\ doctored' = LET s == Join(Unmarked) IN SubSeq(s, 1, Len(s) - 1)
  /\ pc' = "done"
  /\ UNCHANGED <<argv, line, FullArgv, ServerArg, opt, taken>>

Next == MakeCommandLine \/ MakeArgs \/ FlagOption \/ ParameterOption \/ IgnoreRestOption \/ NotAnOption \/ Doctor
Spec == Init /\ [][Next]_vars
-----------------------------------------------------------------------------
\* The type invariant: marks and words go together, and the next word is one of
\* the line or the one after the last.
TypeOK ==
  /\ pc \in {"make", "split", "parse", "done", "refused"}
  /\ Len(ServerArg) = Len(FullArgv)
  /\ pc \in {"parse", "done"} /\ FullArgv # <<>> => opt \in 2..(Len(FullArgv) + 1)
  /\ \A k \in DOMAIN taken : \E j \in DOMAIN FullArgv : taken[k] = FullArgv[j]

\* Words that the host's own shell has not already given a meaning: not empty, no
\* quote in them, and no redirection at their head.
Plain(ws) == \A k \in DOMAIN ws : ws[k] # <<>> /\ "q" \notin ToSet(ws[k]) /\ ws[k][1] \notin {"<", ">"}

\* The words the host gave come out of the line they were joined into
\* (PARSECL.C:364) as they went in, blanks and all.
RealSplitsBack == pc = "parse" /\ Plain(argv) => FullArgv = argv

\* The program is left with the words that are not the server's: those that are
\* neither an option nor the parameter of one, and everything after -st.  The
\* reference goes by position: Takes(k) says that word k is an option.
WordsForProgram(ws) ==
  LET Takes[k \in 1..Len(ws)] == k > 1 /\ ws[k] \in Options /\ ~(Takes[k - 1] /\ ws[k - 1] = WithParameter)
      Stops == {k \in DOMAIN ws : Takes[k] /\ ws[k] = IgnoreRest}
      Behind(k) == \E j \in Stops : j < k
      its == {k \in 2..Len(ws) : Behind(k) \/ (~Takes[k] /\ ~(Takes[k - 1] /\ ws[k - 1] = WithParameter))}
      order == SetToSortSeq(its, <)
  IN [k \in DOMAIN order |-> ws[order[k]]]
ProgramGetsItsWords == pc = "done" /\ ~Typed /\ Plain(argv) => Unmarked = WordsForProgram(argv)

\* What the program reads in the line of SP.COMMAND is what SP.COMMANDARG tells
\* it word by word.  Only an empty word in quotes is lost on the way.
TwoWaysAgree ==
  pc = "done" /\ ~Typed /\ (\A k \in DOMAIN FullArgv : FullArgv[k] # <<>>) => Split(doctored) = Unmarked

\* "must be less than %d characters" (PARSECL.C:103): a line that is not refused
\* is shorter than the buffer it is copied to.
LongIsRefused == pc \in {"parse", "done"} => Len(line) < MaxString

\* "find first character of this argument" (SH.C:214): a word of the line is
\* found in the line.
FoundInTheLine == \A k \in DOMAIN FullArgv : FullArgv[k] # Garbage
==============================================================================
