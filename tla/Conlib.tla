------------------------------- MODULE Conlib -------------------------------
(***************************************************************************)
(* The connection manager library, LINKOPS/SRC/CONLIB.C: it searches the   *)
(* connection database, the text file named by ICONDB, for a resource.  A  *)
(* search is a session: CM_InitSearch opens the file, each CM_DoSearch     *)
(* reads on to the next record that fits, CM_EndSearch closes the file.    *)
(* Local records are looked for in a first pass, remote ones in a second.  *)
(*                                                                         *)
(* The file is a sequence of records.  Of the fields of a record those are *)
(* kept that decide something; form stands for how it is written:          *)
(*   good   one well-formed record                                         *)
(*   more   its description ends in a continuation, the next line is one   *)
(*   bad    a field after Machine is missing or illegal                    *)
(*   stray  its first field is empty, or it begins with a continuation     *)
(*   cut    a continuation is announced and the file ends                  *)
(* Comments and blank lines, which SkipToFieldSep passes over, are left    *)
(* out, and so are upper case and spaces, which no comparison minds.       *)
(***************************************************************************)
EXTENDS Integers, Sequences, FiniteSetsExt

CONSTANTS
  Entries,       \* the records the file may hold
  MaxEntries,    \* bound: records in the file
  Environments   \* what may be the matter with ICONDB: see Environment

\* What the readers of the fields object to, and what ReadPast follows.
FirstFieldErrors == {"stray"}
FieldErrors      == {"bad"}
Continuations    == {"more", "cut"}
Forms        == {"good"} \cup FirstFieldErrors \cup FieldErrors \cup Continuations
Environment  == {"set", "unset", "long", "nofile"}

ASSUME ConlibAssumption ==
  /\ \A e \in Entries : e.form \in Forms
  /\ MaxEntries \in Nat
  /\ Environments \subseteq Environment

VARIABLES
  db,           \* the connection database file
  icondb,       \* the environment variable ICONDB and the file it names
  search_type,  \* which fields a record must match; "notinit" if no search
  search_pass,  \* 1 local records, 2 remote records
  show_errors,  \* whether the end of the file is an error
  line,         \* records read so far in this pass: file_id, search_line
  file,         \* whether file_id is open
  query,        \* search_resourcename, search_machinename, search_hostname
  found         \* the record the CM_Get* functions return

conlib == <<search_type, search_pass, show_errors, line, file, query, found>>
world  == <<db, icondb>>

NoQuery == [res |-> "", machine |-> "", host |-> ""]

ConlibInit ==
  /\ db \in UNION {[1 .. n -> Entries] : n \in 0 .. MaxEntries}
  /\ \A i \in DOMAIN db : db[i].form = "cut" => i = Len(db)
  /\ icondb \in Environments
  /\ search_type = "notinit" /\ search_pass = 0 /\ show_errors = TRUE
  /\ line = 0 /\ file = "closed" /\ query = NoQuery /\ found = 0

-----------------------------------------------------------------------------
Local(e, q) == e.machine \in {"localhost", q.host}

\* A search for this host by its name also takes records that say "localhost".
Matches(e, type, q) ==
  CASE type = "named" -> /\ e.res = q.res
                         /\ \/ e.machine = q.machine
                            \/ e.machine = "localhost" /\ q.machine = q.host
    [] type = "any"   -> e.res = q.res
    [] type = "just"  -> e.machine = q.machine

AllowedAnywhere(e, q, which) ==  \* mutant: the first pass takes remote records too
  which # "remoteonly" \/ ~ Local(e, q)

\* Whether a pass is interested in a record that matches.
Allowed(e, q, which) ==
  CASE which = "localonly"     -> Local(e, q)
    [] which = "remoteonly"    -> ~ Local(e, q)
    [] which = "localorremote" -> TRUE

\* What OnePassSearch makes of one record.  The fields after the first that
\* does not match are not read; ReadPast only follows the continuations.
Look(e, type, q, which, show) ==
  CASE e.form \in FirstFieldErrors -> "corrupt"
    [] e.form = "cut" -> IF show THEN "corrupt" ELSE "end"
    [] e.form \in {"good", "bad", "more"} /\ ~ Matches(e, type, q) -> "skip"
    [] e.form \in FieldErrors /\ Matches(e, type, q) -> "corrupt"
    [] OTHER -> IF Allowed(e, q, which) THEN "found" ELSE "skip"

\* The lines after a record that was found are still unread: if the first of
\* them is a continuation the next pass begins with it.
Leftover(from) == from > 0 /\ from = found /\ db[from].form = "more"

OnePassSearch(from, which, show) ==
  LET Verdict(p) == Look(db[p], search_type, query, which, show)
      stops == {p \in from + 1 .. Len(db) : Verdict(p) # "skip"}
      next  == Min(stops)
      Missing == IF show THEN "BAD_TARGET_NAME" ELSE "ENDOFFILE"
  IN IF Leftover(from) THEN [result |-> "BAD_OPERATION", at |-> from]
     ELSE IF stops = {} THEN [result |-> Missing, at |-> Len(db)]
     ELSE [result |-> CASE Verdict(next) = "found"   -> "NOERROR"
                        [] Verdict(next) = "corrupt" -> "BAD_OPERATION"
                        [] Verdict(next) = "end"     -> "ENDOFFILE",
           at |-> next]

SecondPassAgain(from) ==  \* mutant: the file is not rewound for the second pass
  OnePassSearch(from, "remoteonly", TRUE)
SecondPass(from) == OnePassSearch(0, "remoteonly", TRUE)

PassAfterSame(p) == 1     \* mutant: search_pass stays 1
PassAfter(p) == 2

\* CM_DoSearch: its result and where it leaves the search.
Searched ==
  LET first == OnePassSearch(line, "localonly", FALSE) IN
  CASE search_type = "just" ->
         [pass |-> 1, show |-> TRUE, r |-> OnePassSearch(line, "localorremote", TRUE)]
    [] search_type # "just" /\ search_pass = 1 /\ first.result # "ENDOFFILE" ->
         [pass |-> 1, show |-> FALSE, r |-> first]
    [] search_type # "just" /\ search_pass = 1 /\ first.result = "ENDOFFILE" ->
         [pass |-> PassAfter(1), show |-> TRUE, r |-> SecondPass(first.at)]
    [] search_type # "just" /\ search_pass = 2 ->
         [pass |-> 2, show |-> TRUE, r |-> OnePassSearch(line, "remoteonly", TRUE)]

\* What the CM_Get* functions read: the fields of the record found.
Entry == db[found]

CM_DoSearch ==
  LET s == Searched IN
  /\ search_pass' = s.pass
  /\ show_errors' = s.show
  /\ line' = s.r.at
  /\ found' = s.r.at
  /\ UNCHANGED <<search_type, file, query>>

-----------------------------------------------------------------------------
SearchType(q) == CASE q.res # "" /\ q.machine # "" -> "named"
                   [] q.res # "" /\ q.machine = "" -> "any"
                   [] q.res = "" -> "just"

InitResult ==
  IF search_type = "notinit" /\ icondb = "set" THEN "NOERROR" ELSE "BAD_OPERATION"

\* search_type is set before ICONDB is looked at; only the failure to open
\* the file takes it back.
TypeAfterFailure(q) == IF icondb = "nofile" THEN "notinit" ELSE SearchType(q)

CM_InitSearch(q) ==
  \/ /\ InitResult = "NOERROR"
     /\ search_type' = SearchType(q) /\ query' = q
     /\ file' = "open" /\ line' = 0 /\ search_pass' = 1 /\ show_errors' = TRUE
     /\ UNCHANGED found
  \/ /\ InitResult # "NOERROR"
     /\ IF search_type = "notinit"
        THEN search_type' = TypeAfterFailure(q) /\ query' = q
        ELSE UNCHANGED <<search_type, query>>
     /\ UNCHANGED <<file, line, search_pass, show_errors, found>>

CloseFile == "closed"

CM_EndSearch ==
  IF search_type = "notinit" THEN UNCHANGED conlib
  ELSE /\ search_type' = "notinit" /\ search_pass' = 0 /\ line' = 0
       /\ file' = CloseFile
       /\ found' = 0
       /\ UNCHANGED <<query, show_errors>>

\* CM_DoSearch that fails, and the CM_EndSearch its callers then make.
SearchAndEnd ==
  /\ search_type' = "notinit" /\ search_pass' = 0 /\ line' = 0
  /\ file' = CloseFile
  /\ found' = 0
  /\ show_errors' = Searched.show
  /\ UNCHANGED query
=============================================================================
