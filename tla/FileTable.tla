------------------------------ MODULE FileTable ------------------------------
(***************************************************************************)
(* The iserver's table of open files, FILES.C, under the calls of programs *)
(* that come one after the other, FILEC.C and the openings and checks of   *)
(* RECORD.C.  A call is one step.  What a record file holds is in Records; *)
(* here a record is only dirty or not.                                     *)
(***************************************************************************)
EXTENDS Integers, FiniteSets

CONSTANTS
  MaxFiles,   \* MAX_FILES
  HostFiles,  \* files the host lets the iserver have open, but for the first three
  Shell,      \* whether the programs run in the session shell
  Programs,   \* bound: programs that are run
  Uses        \* what programs may do beyond good manners; see Mannered

\* What the constants are; the module that gives them assumes it.
FileTableConstants ==
  /\ {HostFiles, Programs} \subseteq Nat /\ MaxFiles \in Nat /\ MaxFiles > 3
  /\ Shell \in BOOLEAN
  /\ Uses \subseteq {"outside", "closed", "reuse", "leave"}

VARIABLES
  FileInfo,  \* slot -> what the iserver knows of the file
  streams,   \* the host's open files -> their last operation
  running,   \* a program is served
  runs,      \* programs so far
  lost,      \* a dirty record has been dropped
  twice,     \* a buffer has been freed twice, or a stream closed twice
  answer     \* of the last call

vars == <<FileInfo, streams, running, runs, lost, twice, answer>>

NoFile == 0
Slots == 0 .. MaxFiles - 1
Std == 101 .. 103            \* stdin, stdout, stderr
Handles == 1 .. HostFiles
FileIds == -1 .. MaxFiles
Open == DOMAIN streams

Entry == [fd : {NoFile} \cup Std \cup Handles, org : {"none", "stream", "record"},
          lastop : {"none", "read", "write"}, dirty : BOOLEAN, llbuff : {"null", "held", "freed"}]

InUse == {i \in Slots : FileInfo[i].fd # NoFile}

TypeOK ==
  /\ FileInfo \in [Slots -> Entry]
  /\ Open \subseteq Std \cup Handles /\ \A s \in Open : streams[s] \in {"none", "read", "write"}
  /\ \A i \in InUse : i > 2 => FileInfo[i].org # "none"
  /\ {running, lost, twice} \subseteq BOOLEAN /\ runs \in 0 .. Programs

Blank == [fd |-> NoFile, org |-> "none", lastop |-> "none", dirty |-> FALSE, llbuff |-> "null"]
None == [res |-> "success", ok |-> TRUE]
\* The result, with one error for all, and whether the file the call used was
\* open.
Answered(res, ok) == answer' = [res |-> res, ok |-> ok]

\* Statics are zero.
Init ==
  /\ FileInfo = [i \in Slots |-> Blank] /\ streams = [s \in Std |-> "none"]
  /\ running = FALSE /\ runs = 0 /\ lost = FALSE /\ twice = FALSE /\ answer = None

Mannered(use, here) == here => use \in Uses

-----------------------------------------------------------------------------
(* The programs *)

\* The slots of the predefined streams: org, lastop and llbuff stay.
SetupStream(e, fd) == [e EXCEPT !.fd = fd, !.dirty = FALSE]
Setup == [i \in Slots |-> IF i < 3 THEN SetupStream(FileInfo[i], 101 + i)
                          ELSE [FileInfo[i] EXCEPT !.fd = NoFile]]

\* DupStdStreams before the one program, OpenFiles before each of the shell:
\* the slots are cleared, whatever they hold.
Start ==
  /\ ~ running /\ runs < Programs /\ (Shell \/ runs = 0)
  /\ FileInfo' = Setup
  /\ streams' = [s \in Open \cup Std |-> IF s \in Std THEN "none" ELSE streams[s]]
  /\ lost' = (lost \/ \E i \in InUse : FileInfo[i].dirty)
  /\ running' = TRUE /\ runs' = runs + 1 /\ answer' = None
  /\ UNCHANGED twice

\* SP_EXIT: the table is left as it is, and the iserver ends if it is not in
\* the shell.
Exit ==
  /\ running /\ running' = FALSE
  /\ Mannered("leave", \E i \in 3 .. MaxFiles - 1 : FileInfo[i].fd # NoFile)
  /\ lost' = (lost \/ (~ Shell /\ \E i \in InUse : FileInfo[i].dirty))
  /\ UNCHANGED <<FileInfo, streams, runs, twice, answer>>

Cleared(e) == [e EXCEPT !.fd = NoFile]
ForgottenFreed(e) == [Cleared(e) EXCEPT !.llbuff = IF @ = "held" THEN "freed" ELSE @]  \* mutant
Forgotten(e) == Cleared(e)

\* An error: close_server, and the shell's CloseOpenFiles after its longjmp.
CloseOpenFiles ==
  /\ FileInfo' = [i \in Slots |->
       IF i \notin InUse THEN FileInfo[i]
       ELSE [Cleared(FileInfo[i]) EXCEPT !.llbuff = IF @ = "held" THEN "freed" ELSE @]]
  /\ streams' = [s \in Open \ {FileInfo[i].fd : i \in InUse} |-> streams[s]]

FreesTwice == \E i \in InUse : FileInfo[i].llbuff = "freed"

Fail ==
  /\ running /\ running' = FALSE /\ CloseOpenFiles
  /\ twice' = (twice \/ FreesTwice)
  /\ UNCHANGED <<runs, lost, answer>>

\* A predefined stream of the next program does not open: freopen has closed
\* it, and close_server closes whatever the table still lists.
StartFails ==
  /\ ~ running /\ Shell /\ runs < Programs /\ CloseOpenFiles
  /\ \E s \in Std : twice' = (twice \/ FreesTwice \/ \E i \in InUse : FileInfo[i].fd = s)
  /\ runs' = runs + 1
  /\ UNCHANGED <<running, lost, answer>>

-----------------------------------------------------------------------------
(* Opening and closing *)

FindFreeSlot == {i \in Slots : FileInfo[i].fd = NoFile}
Least(S) == CHOOSE x \in S : \A y \in S : x <= y
Free == Handles \ Open

Listed(f, i, e) == [f EXCEPT ![i] = e]

\* fopen, and RememberFile in the first free slot; without one the file stays
\* open.  A record file has its buffers.
OpenFile(org, buffered) ==
  LET h == Least(Free) IN
    /\ running /\ Free # {}
    /\ streams' = [s \in Open \cup {h} |-> IF s = h THEN "none" ELSE streams[s]]
    /\ IF FindFreeSlot = {}
       THEN Answered("error", TRUE) /\ UNCHANGED FileInfo
       ELSE LET i == Least(FindFreeSlot) IN
              /\ FileInfo' = Listed(FileInfo, i,
                   [FileInfo[i] EXCEPT !.fd = h, !.org = org, !.dirty = FALSE, !.lastop = "none",
                      !.llbuff = IF org = "stream" THEN @ ELSE IF buffered THEN "held" ELSE "null"])
              /\ Answered("success", TRUE)
    /\ UNCHANGED <<running, runs, lost, twice>>

SpOpen == OpenFile("stream", FALSE)
SpOpenRec == \E formatted \in BOOLEAN : OpenFile("record", formatted)

\* A wrong argument, or fopen fails, at the latest when the host has no more.
\* Or malloc fails, and ForgetFile closes the file again.
OpenFails ==
  /\ running /\ Answered("error", TRUE)
  /\ UNCHANGED <<FileInfo, streams, running, runs, lost, twice>>

\* FindFileDes.
Found(id) == IF id \in Slots THEN FileInfo[id].fd ELSE NoFile

BadId(id) ==
  /\ running /\ Found(id) = NoFile /\ Answered("error", TRUE)
  /\ UNCHANGED <<FileInfo, streams, running, runs, lost, twice>>

\* ForgetFile: putfn for a dirty record, fclose, and the slot is free.
SpClose(id) ==
  /\ running /\ Found(id) # NoFile
  /\ Mannered("reuse", id < 3)
  /\ FileInfo' = [FileInfo EXCEPT ![id] = Forgotten(@)]
  /\ streams' = [s \in Open \ {Found(id)} |-> streams[s]]
  /\ \E res \in {"success", "error"} : Answered(res, Found(id) \in Open)
  /\ UNCHANGED <<running, runs, lost, twice>>

-----------------------------------------------------------------------------
(* Reading and writing streams *)

TurnAny(id, op) == TRUE                     \* mutant: lastop is not looked at
Turn(id, op) == FileInfo[id].lastop \notin {"read", "write"} \ {op}

Transfer(id, op, results) ==
  /\ running /\ Found(id) # NoFile
  /\ Mannered("closed", FileInfo[id].org = "record")
  /\ IF ~ Turn(id, op)
     THEN Answered("error", TRUE) /\ UNCHANGED <<FileInfo, streams>>
     ELSE /\ FileInfo' = [FileInfo EXCEPT ![id].lastop = op]
          /\ streams' = [s \in Open |-> IF s = Found(id) THEN op ELSE streams[s]]
          /\ \E res \in results : Answered(res, Found(id) \in Open)
  /\ UNCHANGED <<running, runs, lost, twice>>

\* What reads or writes nothing is a success of SpRead and SpWrite.
SpRead(id) == Transfer(id, "read", {"success"})
SpWrite(id) == Transfer(id, "write", {"success"})
SpGetBlock(id) == Transfer(id, "read", {"success", "error"})
SpPutBlock(id) == Transfer(id, "write", {"success", "error"})
SpGets(id) == Transfer(id, "read", {"success", "error"})
SpPuts(id) == Transfer(id, "write", {"success", "error"})

\* fseek, if it can.
SpSeek(id) ==
  /\ running /\ Found(id) # NoFile
  /\ \/ /\ FileInfo' = [FileInfo EXCEPT ![id].lastop = "none"]
        /\ streams' = [s \in Open |-> IF s = Found(id) THEN "none" ELSE streams[s]]
        /\ Answered("success", Found(id) \in Open)
     \/ Answered("error", Found(id) \in Open) /\ UNCHANGED <<FileInfo, streams>>
  /\ UNCHANGED <<running, runs, lost, twice>>

Query(id) ==
  /\ running /\ Found(id) # NoFile
  /\ \E res \in {"success", "error"} : Answered(res, Found(id) \in Open)
  /\ UNCHANGED <<FileInfo, streams, running, runs, lost, twice>>

SpFlush(id) == Query(id)
SpTell(id) == Query(id)
SpEof(id) == Query(id)
SpError(id) == Query(id)
SpIsaTTY(id) == Query(id)

\* SpErrStat does not look whether there is a file.
SpErrStat(id) ==
  /\ running /\ Mannered("closed", Found(id) = NoFile)
  /\ \E res \in {"success", "error"} : Answered(res, Found(id) \in Open)
  /\ UNCHANGED <<FileInfo, streams, running, runs, lost, twice>>

\* Names, not open files.
ByName ==
  /\ running /\ \E res \in {"success", "error"} : Answered(res, TRUE)
  /\ UNCHANGED <<FileInfo, streams, running, runs, lost, twice>>

SpRemove == ByName
SpRename == ByName
SpExists == ByName

-----------------------------------------------------------------------------
(* Records *)

InTable(id) == id >= 0 /\ id <= MaxFiles

\* SpPutRec.  Behind the table is other memory, that may look like a file.
SpPutRec(id, dowrite) ==
  /\ running /\ Mannered("outside", id = MaxFiles)
  /\ Mannered("closed", id \in Slots /\ Found(id) # NoFile /\ FileInfo[id].org # "record")
  /\ IF ~ InTable(id) THEN Answered("error", TRUE) /\ UNCHANGED <<FileInfo, streams>>
     ELSE IF id = MaxFiles
     THEN /\ \/ Answered("error", TRUE) \/ Answered("success", FALSE)
          /\ UNCHANGED <<FileInfo, streams>>
     ELSE IF Found(id) = NoFile
     THEN Answered("error", TRUE) /\ UNCHANGED <<FileInfo, streams>>
     ELSE IF ~ Turn(id, "write")
     THEN Answered("error", TRUE) /\ UNCHANGED <<FileInfo, streams>>
     ELSE /\ FileInfo' = [FileInfo EXCEPT ![id].lastop = "write", ![id].dirty = ~ dowrite]
          /\ streams' = [s \in Open |-> IF s = Found(id) /\ dowrite THEN "write" ELSE streams[s]]
          /\ Answered("success", Found(id) \in Open)
  /\ UNCHANGED <<running, runs, lost, twice>>

\* SpGetRec does not look whether there is a file.
SpGetRec(id, doread) ==
  /\ running /\ Mannered("outside", id = MaxFiles)
  /\ Mannered("closed", id \in Slots /\ (FileInfo[id].org # "record" \/ Found(id) = NoFile))
  /\ IF ~ InTable(id) THEN Answered("error", TRUE) /\ UNCHANGED <<FileInfo, streams>>
     ELSE IF id = MaxFiles
     THEN Answered("success", FALSE) /\ UNCHANGED <<FileInfo, streams>>
     ELSE IF ~ Turn(id, "read")
     THEN Answered("error", TRUE) /\ UNCHANGED <<FileInfo, streams>>
     ELSE /\ FileInfo' = [FileInfo EXCEPT ![id].lastop = "read"]
          /\ streams' = [s \in Open |-> IF s = Found(id) /\ doread THEN "read" ELSE streams[s]]
          /\ \E res \in {"success", "error"} : Answered(res, Found(id) \in Open)
  /\ UNCHANGED <<running, runs, lost, twice>>

\* SpPutEOF looks at nothing.
SpPutEOF(id) ==
  /\ running /\ Mannered("outside", id \notin Slots) /\ Mannered("closed", Found(id) = NoFile)
  /\ Answered("success", Found(id) \in Open)
  /\ UNCHANGED <<FileInfo, streams, running, runs, lost, twice>>

Next ==
  \/ Start \/ StartFails \/ Exit \/ Fail \/ SpOpen \/ SpOpenRec \/ OpenFails
  \/ SpRemove \/ SpRename \/ SpExists
  \/ \E id \in FileIds :
       \/ BadId(id) \/ SpClose(id) \/ SpSeek(id) \/ SpErrStat(id) \/ SpPutEOF(id)
       \/ SpRead(id) \/ SpWrite(id) \/ SpGetBlock(id) \/ SpPutBlock(id) \/ SpGets(id) \/ SpPuts(id)
       \/ SpFlush(id) \/ SpTell(id) \/ SpEof(id) \/ SpError(id) \/ SpIsaTTY(id)
       \/ \E b \in BOOLEAN : SpPutRec(id, b) \/ SpGetRec(id, b)

Spec == Init /\ [][Next]_vars

-----------------------------------------------------------------------------
\* Every file the iserver has opened is in the table, once: the program can
\* close it, and so can CloseOpenFiles.
AllListed ==
  running => /\ \A s \in Open : \E i \in Slots : FileInfo[i].fd = s
             /\ \A i, j \in InUse : FileInfo[i].fd = FileInfo[j].fd => i = j

\* No call works on a file that is not open, or on no file.
OnlyOpen == answer.ok

\* The host never sees a read right after a write, or a write right after a
\* read, of one file, through whatever slots and calls it comes.
HostTurns ==
  [][\A s \in Open \cap DOMAIN streams' :
       /\ streams[s] = "write" => streams'[s] # "read"
       /\ streams[s] = "read" => streams'[s] # "write"]_vars

\* A new program finds the predefined streams ready for either.
FreshStart == [][Start => \A i \in 0 .. 2 : FileInfo'[i].lastop = "none"]_vars

\* A record that needs writing is written before its file is forgotten.
NothingLost == ~ lost

\* A read-ahead buffer is freed once, and a stream closed once.
ClosedOnce == ~ twice
=============================================================================
