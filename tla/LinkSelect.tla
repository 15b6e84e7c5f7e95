----------------------------- MODULE LinkSelect -----------------------------
(***************************************************************************)
(* How a link is chosen and opened: OPS_Open of LINKOPS.C and OpenLink of  *)
(* METLNKIO.C, both loops over the connection database (module Conlib),    *)
(* and LOPS_Open, which calls OpenLink from inside the loop of OPS_Open    *)
(* with the search switched off, so that OpenLink uses the record OPS_Open *)
(* has found.  A program uses the linkops interface or, if it drives the   *)
(* link itself, OpenLink and CloseLink: api says which.                    *)
(***************************************************************************)
EXTENDS Conlib

CONSTANTS
  Apis,       \* the interfaces a program may use, of "ops" and "link"
  Names,      \* the names given to them: [res |-> resource, at |-> machine or ""]
  HostName,   \* what gethostname returns
  Available   \* the methods this build can drive (method_isavailable)

ASSUME LinkSelectAssumption ==
  /\ Apis \subseteq {"ops", "link"}
  /\ HostName # "" /\ HostName # "localhost"
  /\ "TCP_LINKOPS" \in Available         \* every makefile defines LNKtcp
  /\ {"none", "tops"} \cap Available = {}

VARIABLES
  api,         \* "ops": OPS_Open and OPS_Close; "link": OpenLink and CloseLink
  network,     \* whether the network software is installed (vec_search)
  pc,          \* "idle", "search" or "found": the loop of the running open
  name,        \* the name it was given
  located,     \* its local variable located, found_but_unopened
  status,      \* what the last call returned
  commsmode,   \* OPScommsmode
  opsmethod,   \* OPSmethod
  metamethod,  \* METAmethod
  link,        \* the record whose driver is open, 0 none, -1 named by the caller
  driver,      \* that driver; "tops" for a connection of TOPS_Open
  tried        \* the records an attempt was made to open, in order

state == <<commsmode, opsmethod, metamethod, link, driver>>
run   == <<pc, name, located, status, tried>>
vars  == <<db, icondb, search_type, search_pass, show_errors, line, file, query,
           found, api, network, pc, name, located, status, commsmode, opsmethod,
           metamethod, link, driver, tried>>

LinkErrors == {"ER_LINK_BAD", "ER_LINK_CANT", "ER_LINK_SOFT", "ER_LINK_BUSY",
               "ER_NO_LINK", "ER_LINK_SYNTAX"}
TopsErrors == {"BAD_OPERATION", "BAD_SERVER", "BAD_METHOD", "BAD_TARGET_NAME",
               "TARGET_UNAVAILABLE"}
Statuses == LinkErrors \cup TopsErrors \cup
            {"NOERROR", "BAD_COMMS_MODE", "COMMS_FATAL"}
Methods == {"HW_X", "TCP_LINKOPS"} \cup Available \cup {e.method : e \in Entries}

TypeOK ==
  /\ search_type \in {"notinit", "named", "any", "just"}
  /\ search_pass \in 0 .. 2 /\ show_errors \in BOOLEAN
  /\ line \in 0 .. Len(db) /\ found \in 0 .. Len(db) /\ file \in {"open", "closed"}
  /\ pc \in {"idle", "search", "found"}
  /\ located \in BOOLEAN /\ status \in Statuses
  /\ commsmode \in {"closed", "sync"}
  /\ opsmethod \in {"undefined", "linkio", "tcp"}
  /\ metamethod \in Methods
  /\ link \in -1 .. Len(db)
  /\ driver \in Methods \cup {"none", "tops"}
  /\ tried \in Seq(DOMAIN db)

Init ==
  /\ ConlibInit
  /\ api \in Apis /\ network \in BOOLEAN
  /\ pc = "idle" /\ name = [res |-> "", at |-> ""] /\ located = FALSE
  /\ status = "NOERROR"
  /\ commsmode = "closed" /\ opsmethod = "undefined" /\ metamethod = "HW_X"
  /\ link = 0 /\ driver = "none" /\ tried = << >>

-----------------------------------------------------------------------------
(* What both opens do first: the name is split at the @, the name of this  *)
(* machine is found out, and a name of another machine is opened there     *)
(* without a search.                                                       *)

Host == IF network THEN HostName ELSE "localhost"

\* Without a network OPS_Open looks on this machine only.
OpsAt(n) == IF network THEN n.at ELSE "localhost"

ThisMachine(at) == at \in {"localhost", Host}
Elsewhere(at) == at # "" /\ ~ ThisMachine(at)

Query(n, at) ==
  [res |-> n.res, machine |-> IF at = "" THEN "" ELSE Host, host |-> Host]

Return(s) == pc' = "idle" /\ status' = s /\ UNCHANGED <<name, located, tried>>

Closed == commsmode = "closed" /\ link = 0

\* A malformed name, a gethostname that fails, a machine that is elsewhere
\* when no network is installed.
Refused ==
  /\ pc = "idle" /\ Closed
  /\ \E s \in (IF api = "ops" THEN {"BAD_OPERATION", "COMMS_FATAL"}
                              ELSE {"ER_LINK_SYNTAX", "ER_LINK_SOFT"}) : Return(s)
  /\ IF api = "link" THEN metamethod' = "HW_X" ELSE UNCHANGED metamethod
  /\ UNCHANGED <<conlib, world, api, network, commsmode, opsmethod, link, driver>>

NotInstalled(n) == ~ network /\ Elsewhere(n.at)

WrongMode ==
  /\ pc = "idle" /\ api = "ops" /\ commsmode # "closed"
  /\ Return("BAD_COMMS_MODE")
  /\ UNCHANGED <<conlib, world, api, network, state>>

\* CM_InitSearch, and then the loop or the return of its error.
StartSearch(n, at, failure) ==
  /\ CM_InitSearch(Query(n, at))
  /\ name' = n /\ located' = FALSE /\ tried' = << >>
  /\ IF InitResult = "NOERROR" THEN pc' = "search" /\ status' = "NOERROR"
                               ELSE pc' = "idle" /\ status' = failure
  /\ UNCHANGED <<world, api, network>>

Opened(i, d) == link' = i /\ driver' = d
NotOpened    == UNCHANGED <<link, driver>>

-----------------------------------------------------------------------------
(* OPS_Open *)

OpsReturnOpened ==
  commsmode' = "sync" /\ Return("NOERROR")

\* The name quotes another machine: TOPS_Open without a search.
OpsOpenElsewhere(n) ==
  /\ pc = "idle" /\ api = "ops" /\ commsmode = "closed"
  /\ network /\ Elsewhere(n.at)
  /\ \/ OpsReturnOpened /\ opsmethod' = "tcp" /\ Opened(-1, "tops")
     \/ opsmethod' = "undefined" /\ NotOpened
        /\ Return("COMMS_FATAL") /\ UNCHANGED commsmode
  /\ UNCHANGED <<conlib, world, api, network, metamethod>>

OPS_Open(n) ==
  /\ pc = "idle" /\ api = "ops" /\ commsmode = "closed"
  /\ ~ NotInstalled(n) /\ ~ Elsewhere(OpsAt(n))
  /\ StartSearch(n, OpsAt(n), "BAD_OPERATION")
  /\ UNCHANGED state

Weird(e, q) == Local(e, q) /\ e.method = "TCP_LINKOPS"

Usable(e, q) == e.working /\ ~ Weird(e, q)

\* One turn of the loop up to the attempt.  A record that does not work, or
\* whose fields contradict each other, is passed over.
OpsSearch ==
  /\ pc = "search" /\ api = "ops"
  /\ LET r == Searched.r IN
     \/ /\ r.result # "NOERROR"
        /\ SearchAndEnd
        /\ Return(r.result)
     \/ /\ r.result = "NOERROR"
        /\ CM_DoSearch
        /\ located' = (located \/ db[r.at].working)
        /\ pc' = IF Usable(db[r.at], query) THEN "found" ELSE "search"
        /\ UNCHANGED <<name, status, tried>>
  /\ UNCHANGED <<world, api, network, state>>

TryAgain == pc' = "search" /\ UNCHANGED <<conlib, status>>

\* OpenLink as LOPS_Open calls it: no search, one record, one attempt.
DriverOpens(e) ==
  /\ e.method \in Available
  /\ metamethod' = e.method /\ Opened(found, e.method)

\* METAmethod is taken back only when the driver itself has failed, not when
\* this build has no such driver or gethostname fails.
DriverFails(e) ==
  /\ NotOpened
  /\ \/ metamethod' = "HW_X" /\ e.method \in Available
     \/ metamethod' = e.method /\ (e.method \notin Available \/ e.machine # "localhost")

EndSearchOnError == CM_EndSearch

\* The record is tried.  The history has room for one more than the database
\* can hold, which is enough to see one that is tried twice.
Noted(i) == IF Len(tried) <= MaxEntries THEN Append(tried, i) ELSE tried

MethodAfterFailure(m) == m         \* mutant: OPSmethod keeps the method tried
FailedMethod(m) == "undefined"

LOPS_Open ==
  /\ pc = "found" /\ api = "ops" /\ Local(Entry, query)
  /\ tried' = Noted(found)
  /\ \/ /\ DriverOpens(Entry)
        /\ opsmethod' = "linkio" /\ commsmode' = "sync"
        /\ CM_EndSearch /\ pc' = "idle" /\ status' = "NOERROR"
     \/ /\ DriverFails(Entry)
        /\ opsmethod' = FailedMethod("linkio") /\ UNCHANGED commsmode
        /\ TryAgain
  /\ UNCHANGED <<name, located, world, api, network>>

TOPS_Open ==
  /\ pc = "found" /\ api = "ops" /\ ~ Local(Entry, query)
  /\ tried' = Noted(found)
  /\ \/ /\ Opened(found, "tops")
        /\ opsmethod' = "tcp" /\ commsmode' = "sync"
        /\ CM_EndSearch /\ pc' = "idle" /\ status' = "NOERROR"
     \/ /\ NotOpened /\ opsmethod' = FailedMethod("tcp") /\ UNCHANGED commsmode
        /\ TryAgain                        \* one of TopsErrors
     \/ /\ NotOpened /\ opsmethod' = FailedMethod("tcp") /\ UNCHANGED commsmode
        /\ EndSearchOnError /\ pc' = "idle" /\ status' = "COMMS_FATAL"
  /\ UNCHANGED <<name, located, metamethod, world, api, network>>

\* The link is closed whatever its driver answers, and the answer is dropped.
OPS_Close ==
  /\ pc = "idle" /\ api = "ops" /\ commsmode # "closed"
  /\ IF opsmethod = "linkio" THEN metamethod' = "HW_X" ELSE UNCHANGED metamethod
  /\ Opened(0, "none")
  /\ commsmode' = "closed" /\ opsmethod' = "undefined"
  /\ Return("NOERROR")
  /\ UNCHANGED <<conlib, world, api, network>>

-----------------------------------------------------------------------------
(* OpenLink and CloseLink as a program of its own calls them; their caller  *)
(* keeps to one link at a time.                                            *)

LinkOnly == UNCHANGED <<world, api, network, commsmode, opsmethod>>

OpenElsewhere(n) ==
  /\ pc = "idle" /\ api = "link" /\ Closed
  /\ network /\ Elsewhere(n.at)
  /\ \/ /\ "TCP_LINKOPS" \in Available
        /\ metamethod' = "TCP_LINKOPS" /\ Opened(-1, "TCP_LINKOPS")
        /\ Return("NOERROR")
     \/ /\ metamethod' = "HW_X" /\ NotOpened
        /\ Return(IF "TCP_LINKOPS" \in Available THEN "ER_LINK_CANT" ELSE "ER_NO_LINK")
  /\ UNCHANGED conlib /\ LinkOnly

OpenLink(n) ==
  /\ pc = "idle" /\ api = "link" /\ Closed
  /\ ~ NotInstalled(n) /\ ~ Elsewhere(n.at)
  /\ StartSearch(n, n.at, "ER_LINK_SOFT")
  /\ metamethod' = "HW_X"
  /\ UNCHANGED <<commsmode, opsmethod, link, driver>>

LinkSearch ==
  /\ pc = "search" /\ api = "link"
  /\ LET r == Searched.r IN
     \/ /\ r.result # "NOERROR"
        /\ SearchAndEnd
        /\ Return(IF r.result = "BAD_TARGET_NAME" THEN "ER_LINK_BAD" ELSE "ER_LINK_SOFT")
        /\ UNCHANGED metamethod
     \/ /\ r.result = "NOERROR"
        /\ CM_DoSearch
        /\ metamethod' = IF db[r.at].working THEN db[r.at].method ELSE metamethod
        /\ located' = (located \/ Usable(db[r.at], query))
        /\ pc' = IF db[r.at].working THEN "found" ELSE "search"
        /\ UNCHANGED <<name, status, tried>>
  /\ LinkOnly /\ UNCHANGED <<link, driver>>

\* No driver for the method, or gethostname fails: these two return from the
\* loop without CM_EndSearch.
LinkGivesUp ==
  /\ pc = "found" /\ api = "link"
  /\ \/ metamethod \notin Available /\ Return("ER_LINK_SYNTAX")
     \/ /\ metamethod \in Available /\ Entry.machine # "localhost"
        /\ Return("ER_LINK_SOFT")
  /\ UNCHANGED <<conlib, metamethod, link, driver>> /\ LinkOnly

MethodFor(e) == IF Local(e, query) THEN metamethod ELSE "TCP_LINKOPS"

LinkTries ==
  /\ pc = "found" /\ api = "link" /\ metamethod \in Available
  /\ LET e == Entry
         m == IF Local(e, query) THEN metamethod ELSE "TCP_LINKOPS" IN
     \/ /\ Weird(e, query)
        /\ pc' = "search"
        /\ UNCHANGED <<conlib, status, tried, metamethod, link, driver>>
     \/ /\ ~ Weird(e, query) /\ m \in Available
        /\ tried' = Noted(found) /\ metamethod' = MethodFor(e)
        /\ \/ /\ Opened(found, m) /\ CM_EndSearch
              /\ pc' = "idle" /\ status' = "NOERROR"
           \/ NotOpened /\ TryAgain
  /\ LinkOnly /\ UNCHANGED <<name, located>>

CloseLink ==
  /\ pc = "idle" /\ api = "link" /\ link # 0
  /\ metamethod' = "HW_X" /\ Opened(0, "none") /\ Return("NOERROR")
  /\ UNCHANGED conlib /\ LinkOnly

-----------------------------------------------------------------------------
Turn == OpsSearch \/ LOPS_Open \/ TOPS_Open \/ LinkSearch \/ LinkGivesUp \/ LinkTries

Next ==
  \/ \E n \in Names : OPS_Open(n) \/ OpsOpenElsewhere(n)
                       \/ OpenLink(n) \/ OpenElsewhere(n)
  \/ Turn \/ Refused \/ WrongMode \/ OPS_Close \/ CloseLink

\* The loop of an open is a sequential program: it takes its next turn.
Fairness == WF_vars(Turn)

Spec == Init /\ [][Next]_vars /\ Fairness

-----------------------------------------------------------------------------
\* The records an open should try: the whole ones of this name that work.
Candidates ==
  {i \in DOMAIN db : /\ Matches(db[i], SearchType(query), query)
                     /\ Usable(db[i], query)
                     /\ db[i].form # "cut"}

\* The order it should try them in: that of the file, but local records before
\* remote ones, unless the name names only a machine.
JustMachine == query.res = ""

Before(i, j) ==
  IF JustMachine \/ (Local(db[i], query) <=> Local(db[j], query))
  THEN i < j ELSE Local(db[i], query)

Tried == {tried[k] : k \in 1 .. Len(tried)}

\* An open tries records it should try, in that order, leaves none out and
\* tries none twice (the two passes of CM_DoSearch, the loop that calls it).
TriesInOrder ==
  /\ Tried \subseteq Candidates
  /\ \A k, l \in 1 .. Len(tried) : k < l => Before(tried[k], tried[l])
  /\ \A i \in Candidates, j \in Tried : Before(i, j) => i \in Tried

\* An open that reports that the resource is not to be had has tried every
\* record of it.
ExhaustedMeansAll ==
  [][pc = "search" /\ pc' = "idle" /\ status' \in {"BAD_TARGET_NAME", "ER_LINK_BAD"}
       => Tried = Candidates]_vars

\* Between calls OPSmethod, METAmethod and OPScommsmode agree with the driver
\* that is open, which is the one of the last record tried; when the mode is
\* closed none is.
OpenIsRight ==
  pc = "idle" =>
    /\ api = "ops" => /\ (commsmode = "closed") <=> (link = 0)
                      /\ (opsmethod = "undefined") <=> (link = 0)
                      /\ (opsmethod = "tcp") <=> (driver = "tops")
    /\ (link = 0) <=> (driver = "none")
    /\ driver \notin {"none", "tops"} => metamethod = driver
    /\ link > 0 => /\ tried # << >> /\ link = tried[Len(tried)]
                   /\ driver \in {"tops", "TCP_LINKOPS", db[link].method}

\* The database file is open only while an open runs: every return of OPS_Open
\* closes it.
FileClosed == pc = "idle" /\ api = "ops" => file = "closed"

\* Every open returns: the search ends, whatever the database holds.
OpenReturns == pc # "idle" ~> pc = "idle"

\* What CM_InitSearch requires of its caller, "not already initialised": no
\* search is left over when the next open begins.
SearchEnded == pc = "idle" => search_type = "notinit"

\* BAD_OPERATION from a search says that the database is corrupt.
CorruptOnly ==
  [][pc = "search" /\ pc' = "idle" /\ status' \in {"BAD_OPERATION", "ER_LINK_SOFT"}
       => \E i \in DOMAIN db : db[i].form \in {"bad", "stray", "cut"}]_vars
=============================================================================
