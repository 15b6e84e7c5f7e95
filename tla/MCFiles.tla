------------------------------- MODULE MCFiles -------------------------------
(***************************************************************************)
(* The iserver with its files: the parts of MCIserver, which this module   *)
(* extends, and beside them a record file of each kind.  A behaviour is of *)
(* the part that it starts with; the variables of the others hold 0.       *)
(***************************************************************************)
EXTENDS MCIserver

VARIABLES
  file, pos, feof, info, ll, llind, lllen, recs, at, given, past, sound, cut   \* of Records

recordOwn == <<file, pos, feof, info, ll, llind, lllen, recs, at, given, past, sound, cut>>
all == <<vars, recordOwn>>

-----------------------------------------------------------------------------
\* A new file, or one of two records.
Formatted ==
  INSTANCE Records WITH
    Org <- "formatted", Mrs <- 2, Lengths <- {1, 2, 3}, Files <- {<< >>, <<<<1>>, <<2, 2>>>>},
    LL <- 3, BufSiz <- 8, MaxCells <- 6, Uses <- {}
Unformatted ==
  INSTANCE Records WITH
    Org <- "unformatted", Mrs <- 2, Lengths <- {0, 1, 2}, Files <- {<< >>, <<<<1>>, <<2, 2>>>>},
    LL <- 3, BufSiz <- 8, MaxCells <- 9, Uses <- {}
Direct ==
  INSTANCE Records WITH
    Org <- "direct", Mrs <- 2, Lengths <- {2}, Files <- {<< >>, <<<<1, 1>>, <<2, 2>>>>},
    LL <- 3, BufSiz <- 8, MaxCells <- 6, Uses <- {}

ASSUME Formatted!RecordsConstants /\ Unformatted!RecordsConstants /\ Direct!RecordsConstants

RecordParts == {"formatted", "unformatted", "direct"}

-----------------------------------------------------------------------------
MCInit ==
  \/ /\ Init
     /\ file = 0 /\ pos = 0 /\ feof = 0 /\ info = 0 /\ ll = 0 /\ llind = 0 /\ lllen = 0
     /\ recs = 0 /\ at = 0 /\ given = 0 /\ past = 0 /\ sound = 0 /\ cut = 0
  \/ /\ part \in RecordParts
     /\ CASE part = "formatted" -> Formatted!Init [] part = "unformatted" -> Unformatted!Init
          [] part = "direct" -> Direct!Init
     /\ MainAway /\ LineAway /\ TableAway /\ pc = 0 /\ line = 0 /\ opt = 0

RecordsAlone == UNCHANGED <<part, mainOwn, lineOwn, pc, line, opt, tablesOwn>>

MCNext ==
  \/ Next /\ UNCHANGED recordOwn
  \/ part = "formatted" /\ Formatted!Next /\ RecordsAlone
  \/ part = "unformatted" /\ Unformatted!Next /\ RecordsAlone
  \/ part = "direct" /\ Direct!Next /\ RecordsAlone

\* The fairness of MCIserver, and none of a program that uses its files.
MCSpec == MCInit /\ [][MCNext]_all /\ Fairness

-----------------------------------------------------------------------------
\* Whatever has been put chunk by chunk, read, overwritten, truncated and closed:
\* a record file holds the program's records and nothing else, and the host's
\* position, less what has been read ahead, is where the program believes to be.
\* A file that is truncated while something is read ahead is an exception: it
\* keeps the records that are to be kept, but more of the others.  No record is
\* longer than its file allows, and no chunk reaches out of its record.
FileHolds ==
  /\ part = "formatted" => /\ Formatted!TypeOK /\ Formatted!FileHolds
                           /\ Formatted!Positioned /\ Formatted!RecordFits
  /\ part = "unformatted" => /\ Unformatted!TypeOK /\ Unformatted!FileHolds
                             /\ Unformatted!Positioned /\ Unformatted!ChunkFits
  /\ part = "direct" => Direct!TypeOK /\ Direct!FileHolds /\ Direct!Positioned

\* A read of a record file gets the next record, whole, and EOF only where
\* there is none.
ReadsRecord ==
  /\ part = "formatted" => Formatted!ReadsRecord
  /\ part = "unformatted" => Unformatted!ReadsRecord
  /\ part = "direct" => Direct!ReadsRecord
=============================================================================
