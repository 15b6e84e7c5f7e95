------------------------------- MODULE Records -------------------------------
(***************************************************************************)
(* One record file of the iserver, RECORD.C and the record part of SpSeek  *)
(* in FILEC.C, as built for SUN: sequential formatted and unformatted and  *)
(* direct files.  A call of the program is one step.  The file is a row of *)
(* cells: NL, a byte of a record, or a length word (four bytes in C).      *)
(* recs, at and given are what the program believes: its records, how many *)
(* are before the position, and what it has put of the record at hand.     *)
(***************************************************************************)
EXTENDS Integers, Sequences, SequencesExt

CONSTANTS
  Org,       \* "formatted", "unformatted" or "direct"
  Mrs,       \* the maximum record size
  Lengths,   \* lengths of the records the program writes
  Files,     \* what the file may hold at first: sequences of records
  LL,        \* LL_BUF_SIZE
  BufSiz,    \* BUFSIZ
  MaxCells,  \* bound: the length of the file
  Uses       \* calls the program may make in unusual places; see Careful

\* What the constants are; the module that gives them assumes it.
RecordsConstants ==
  /\ Org \in {"formatted", "unformatted", "direct"} /\ {Mrs, LL, BufSiz} \subseteq Nat \ {0}
  /\ Lengths \subseteq Nat /\ MaxCells \in Nat
  /\ Uses \subseteq {"stale", "start", "dirty", "partial", "eof", "chunk", "refused"}

VARIABLES
  file, pos, feof,          \* the host's file, its position and end-of-file mark
  info,                     \* the FILE_INFO of the file
  ll, llind, lllen,         \* llbuff, the read-ahead buffer
  recs, at, given, past, sound,  \* what the program believes; sound: it may do so
  cut,                      \* the file was cut behind what was read ahead
  answer                    \* of the last call

believed == <<recs, at, given, past, sound, cut>>
readahead == <<ll, llind, lllen>>
vars == <<file, pos, feof, info, ll, llind, lllen, recs, at, given, past, sound, cut, answer>>

NL == 0
Word(n) == 100 + n          \* pack32
Unpack32(cell) == cell - 100
Junk == 50                  \* what malloc left in llbuff

Lower(a, b) == IF a < b THEN a ELSE b

\* The file that holds these records.
Coded(r) ==
  CASE Org = "formatted" -> Append(r, NL)
    [] Org = "unformatted" -> <<Word(Len(r))>> \o r \o <<Word(Len(r))>>
    [] Org = "direct" -> r
Encoded(rs) == FlattenSeq([i \in 1 .. Len(rs) |-> Coded(rs[i])])
Offset(k) == Len(Encoded(SubSeq(recs, 1, k)))

TypeOK ==
  /\ Len(file) <= MaxCells /\ pos \in 0 .. MaxCells + 1 /\ feof \in BOOLEAN
  /\ info.lastop \in {"none", "read", "write"} /\ {info.dirty, info.pasteof, info.open} \subseteq BOOLEAN
  /\ info.recordsize \in -1 .. Mrs + 1 /\ Len(info.buff) = Mrs + 3
  /\ ("dirty" \notin Uses /\ info.dirty) => info.recordsize \in 0 .. Mrs
  /\ Len(ll) = LL /\ lllen \in 0 .. LL /\ at \in 0 .. Len(recs)
  /\ Len(given) <= Mrs /\ {past, sound, cut} \subseteq BOOLEAN

\* SpOpenRec has opened an existing file for update, or a new one.
Init ==
  /\ recs \in Files /\ file = Encoded(recs) /\ pos = 0 /\ feof = FALSE
  /\ info = [open |-> TRUE, recordsize |-> -1, dirty |-> FALSE, lastop |-> "none",
             pasteof |-> FALSE, buff |-> [i \in 1 .. Mrs + 3 |-> Junk]]
  /\ ll = [i \in 1 .. LL |-> Junk] /\ llind = LL /\ lllen = 0
  /\ at = 0 /\ given = << >> /\ past = FALSE /\ sound = TRUE /\ cut = FALSE
  /\ answer = [op |-> "none", res |-> "success", data |-> << >>, want |-> << >>, chunk |-> 0]

Answer(op, res) == [op |-> op, res |-> res, data |-> << >>, want |-> << >>, chunk |-> 0]

\* What fwrite leaves of a file that has cells written at a place.
Written(cells) ==
  [i \in 1 .. (IF Len(file) > pos + Len(cells) THEN Len(file) ELSE pos + Len(cells)) |->
     IF i > pos /\ i <= pos + Len(cells) THEN cells[i - pos]
     ELSE IF i <= Len(file) THEN file[i] ELSE Junk]

\* form_seq_write_rec, unform_seq_write_rec and direct_write_rec; a length
\* below 0 writes no data.
PutFn(buff, len) ==
  LET data == SubSeq(buff, 1, len) IN
    CASE Org = "formatted" -> Append(data, NL)
      [] Org = "unformatted" -> <<Word(len)>> \o data \o <<Word(len)>>
      [] Org = "direct" -> data

\* The record the program has put takes the place of the one there, or the end.
Put(rs, k, r) == SubSeq(rs, 1, k) \o <<r>> \o SubSeq(rs, k + 2, Len(rs))

-----------------------------------------------------------------------------
(* The special calls a run may leave out *)

Ahead == Org = "formatted" /\ info.lastop = "read"
EmptyFill == Org = "formatted" /\ llind >= lllen /\ pos >= Len(file) /\ ~ feof

\* Not allowed unless the run says so: a read-ahead that finds the end of the
\* file only by reading nothing; a backspace at the start; a seek while a part
\* of a record is in the buffer; a close with a record put in part; a seek of a
\* direct file after its end was read; a chunk that is not in the record; a put
\* of another size after one that was refused, which leaves its size behind.
Careful(use, here) == here => use \in Uses

-----------------------------------------------------------------------------
(* SpPutRec *)

\* The program writes where the new record fits: at the end, or over a record
\* of the same length.
Fits(n) == at < Len(recs) => Len(recs[at + 1]) = n

TooBig(n, o, c, size) == n > size \/ n > Mrs \/ o + c > Mrs

\* What the program has put of the record, with c bytes more at o.
Given(v, o, c) ==
  [i \in 1 .. (IF o + c > Len(given) THEN o + c ELSE Len(given)) |->
     IF i > o /\ i <= o + c THEN v ELSE given[i]]

AtStart(o) == 0                           \* mutant: every chunk goes to the start
Place(o) == o

\* A chunk of c bytes at o, of a record of n.  The program puts the chunks one
\* behind the other, or again, has the record written when it is whole, and may
\* put a chunk that does not fit, which is refused.
SpPutRec(v, n, o, c, dowrite) ==
  /\ info.open /\ sound /\ Fits(n) /\ pos + Len(PutFn(info.buff, 0)) + n <= MaxCells
  /\ info.dirty => info.recordsize = n
  /\ o <= Len(given) /\ (o + c <= n \/ o + c > Mrs) /\ (c = 0 => n = 0)
  /\ dowrite => Len(Given(v, o, c)) >= n
  /\ Careful("refused", info.recordsize \notin {-1, n})
  /\ UNCHANGED <<readahead, feof, cut>>
  /\ IF info.lastop = "read"
     THEN answer' = Answer("put", "noposn") /\ UNCHANGED <<file, pos, info, recs, at, given, past, sound>>
     ELSE LET size == IF info.recordsize = -1 THEN n ELSE info.recordsize
              buff == [i \in 1 .. Mrs + 3 |->
                         IF i > Place(o) /\ i <= Place(o) + c THEN v ELSE info.buff[i]] IN
          IF TooBig(n, o, c, size)
          THEN /\ answer' = Answer("put", "error") /\ info' = [info EXCEPT !.recordsize = size]
               /\ UNCHANGED <<file, pos, recs, at, given, past, sound>>
          ELSE /\ info' = [info EXCEPT !.buff = buff, !.dirty = ~ dowrite, !.lastop = "write",
                                       !.pasteof = FALSE,
                                       !.recordsize = IF dowrite THEN -1 ELSE size]
               /\ answer' = Answer("put", "success") /\ past' = FALSE /\ UNCHANGED sound
               /\ IF dowrite
                  THEN /\ file' = Written(PutFn(buff, n))
                       /\ pos' = pos + Len(PutFn(buff, n))
                       /\ recs' = Put(recs, at, Given(v, o, c)) /\ at' = at + 1 /\ given' = << >>
                  ELSE given' = Given(v, o, c) /\ UNCHANGED <<file, pos, recs, at>>

-----------------------------------------------------------------------------
(* Reading a record: each gives the state after it *)

Into(data) == [i \in 1 .. Mrs + 3 |-> IF i <= Len(data) THEN data[i] ELSE info.buff[i]]

Now == [res |-> "success", info |-> info, pos |-> pos, feof |-> feof,
        ll |-> ll, ind |-> llind, len |-> lllen, got |-> << >>, stop |-> FALSE]
AtEof(s) == [s EXCEPT !.res = "eof", !.info.pasteof = TRUE]

\* fread of LL_BUF_SIZE bytes; what it does not fill stays in llbuff.
Fill(s) ==
  LET k == Lower(LL, Len(file) - s.pos) IN
    [s EXCEPT !.pos = @ + k, !.feof = k < LL, !.ind = 0, !.len = k,
              !.ll = [i \in 1 .. LL |-> IF i <= k THEN file[s.pos + i] ELSE s.ll[i]]]

\* special_gets: nbytes characters, or to a NL, or to the end of the file.
RECURSIVE SpecialGets(_, _)
SpecialGets(s, nbytes) ==
  IF nbytes = 0 THEN s
  ELSE IF s.ind >= s.len /\ s.feof THEN [s EXCEPT !.stop = TRUE]
  ELSE LET t == IF s.ind >= s.len THEN Fill(s) ELSE s
           u == [t EXCEPT !.ind = @ + 1, !.got = Append(@, t.ll[t.ind + 1])] IN
       IF u.got[Len(u.got)] = NL THEN u ELSE SpecialGets(u, nbytes - 1)

Terminated(got) == got # << >> /\ got[Len(got)] = NL

FormRead ==
  LET s == SpecialGets(Now, Mrs + 2)
      t == [s EXCEPT !.info.buff = Into(s.got)] IN
    IF Terminated(s.got) THEN [t EXCEPT !.info.recordsize = Len(s.got) - 1]
    ELSE IF s.stop THEN AtEof(t)
    ELSE [t EXCEPT !.res = "noterm", !.info.recordsize = 0]

\* After a word and a record that are too long or not there.
UnformRead ==
  LET len == IF pos < Len(file) THEN Unpack32(file[pos + 1]) ELSE 0
      end == pos + len + 2 IN
    IF pos >= Len(file) THEN AtEof([Now EXCEPT !.feof = TRUE])
    ELSE IF len > Mrs \/ len < 0
    THEN [Now EXCEPT !.pos = @ + 1, !.info.recordsize = 0,
                     !.res = IF len < 0 THEN "error" ELSE "rectoobig"]
    ELSE IF end > Len(file) THEN AtEof([Now EXCEPT !.pos = Len(file), !.feof = TRUE])
    ELSE [Now EXCEPT !.pos = end, !.info.buff = Into(SubSeq(file, pos + 2, pos + 1 + len)),
                     !.res = IF Unpack32(file[end]) = len THEN "success" ELSE "error",
                     !.info.recordsize = IF Unpack32(file[end]) = len THEN len ELSE @]

DirectRead ==
  IF pos + Mrs > Len(file)
  THEN AtEof([Now EXCEPT !.pos = Len(file), !.feof = TRUE, !.info.recordsize = -1])
  ELSE [Now EXCEPT !.pos = @ + Mrs, !.info.recordsize = Mrs,
                   !.info.buff = Into(SubSeq(file, pos + 1, pos + Mrs))]

\* pasteof: nothing is read until a seek.
PastRead ==
  [Now EXCEPT !.res = "eof", !.info.recordsize = IF Org = "direct" THEN -1 ELSE @]
GetFn ==
  IF info.pasteof THEN PastRead
  ELSE CASE Org = "formatted" -> FormRead
         [] Org = "unformatted" -> UnformRead
         [] Org = "direct" -> DirectRead

-----------------------------------------------------------------------------
(* SpGetRec *)

OutOfTurn == info.lastop = "write"

Chunk(chunk, offset, size) == IF offset + chunk > size THEN size - offset ELSE chunk

SpGetRec(chunk, offset, doread) ==
  /\ info.open /\ sound /\ Careful("stale", doread /\ EmptyFill)
  /\ Careful("chunk", ~ doread /\ (offset > info.recordsize \/ info.lastop = "none"))
  /\ Careful("chunk", doread /\ offset > 0)
  /\ Careful("refused", ~ doread /\ info.recordsize > Mrs)
  /\ IF OutOfTurn
     THEN answer' = Answer("get", "noposn") /\ UNCHANGED <<file, pos, feof, info, readahead, believed>>
     ELSE LET s == IF doread THEN GetFn ELSE Now
              c == Chunk(chunk, offset, s.info.recordsize)
              more == ~ past /\ at < Len(recs) IN
          /\ info' = [s.info EXCEPT !.lastop = "read"]
          /\ pos' = s.pos /\ feof' = s.feof /\ ll' = s.ll /\ llind' = s.ind /\ lllen' = s.len
          /\ answer' = [op |-> IF doread THEN "get" ELSE "chunk", res |-> s.res, chunk |-> c,
                        data |-> IF s.res = "success" THEN SubSeq(s.info.buff, 1, s.info.recordsize)
                                 ELSE << >>,
                        want |-> IF more THEN recs[at + 1] ELSE <<-1>>]
          /\ IF doread
             THEN /\ at' = IF more THEN at + 1 ELSE at
                  /\ past' = (past \/ ~ more)
                  /\ sound' = (s.res \in {"success", "eof"})
             ELSE UNCHANGED <<at, past, sound>>
          /\ UNCHANGED <<file, recs, given, cut>>

-----------------------------------------------------------------------------
(* SpSeek *)

\* A backspace of a formatted file: NL is looked for in windows that end one
\* character before the one before; from 0, all of the file is read.
LastNL(a, b) == {i \in a + 1 .. b : file[i] = NL}
RECURSIVE Backspaced(_)
Backspaced(here) ==
  LET nbytes == Lower(here, Lower(BufSiz, Mrs))
      found == IF here = 0 THEN LastNL(0, Len(file)) ELSE LastNL(here - nbytes, here - 1) IN
    IF found # {} THEN CHOOSE i \in found : \A j \in found : j <= i
    ELSE IF here = 0 THEN Len(file) ELSE IF here = nbytes THEN 0 ELSE Backspaced(here - 1)

AheadNot == 0                             \* mutant: the read-ahead is forgotten
ReadAhead == IF Ahead THEN lllen - llind ELSE 0

\* A seek that has come to p, before record k, past the end of file or not.
Sought(p, b, k, e) ==
  /\ pos' = p /\ feof' = FALSE /\ info' = b /\ at' = k /\ past' = e
  /\ answer' = Answer("seek", "success")
SeekError(p, b) ==
  /\ pos' = p /\ info' = b /\ feof' = FALSE /\ answer' = Answer("seek", "error")
  /\ sound' = FALSE /\ UNCHANGED <<at, past>>

\* The record before: the end of file counts as one.
Before == IF past THEN at ELSE IF at = 0 THEN 0 ELSE at - 1

FormSeqSeek(offset, origin) ==
  LET here == pos - ReadAhead
      b == [info EXCEPT !.recordsize = -1]
      done == [b EXCEPT !.pasteof = FALSE, !.lastop = "none"] IN
    /\ llind' = IF Ahead THEN lllen ELSE llind
    /\ UNCHANGED <<ll, lllen>>
    /\ \/ origin = "set" /\ offset = 0 /\ Sought(0, done, 0, FALSE) /\ sound' = ~ cut
       \/ origin = "cur" /\ offset = 0 /\ Sought(here, done, at, FALSE) /\ UNCHANGED sound
       \/ /\ origin = "cur" /\ offset = -1
          /\ Sought(IF info.pasteof THEN Len(file) ELSE Backspaced(here), done, Before, FALSE)
          /\ UNCHANGED sound
       \/ /\ origin = "end" \/ offset \notin {0, -1} \/ (origin = "set" /\ offset # 0)
          /\ SeekError(here, b)

BackOver(p) == p - (Unpack32(file[p]) + 2)
OverNext(p) == p + Unpack32(file[p + 1]) + 2

\* One record back or forward, or an error where there is none.  An end of file
\* that has been read or put counts as a record on the way back.
UnformSeqSeek(offset, origin) ==
  LET start == CASE origin = "set" -> 0 [] origin = "cur" -> pos [] origin = "end" -> Len(file)
      k == CASE origin = "set" -> 0 [] origin = "cur" -> at [] origin = "end" -> Len(recs)
      b == [info EXCEPT !.recordsize = -1, !.pasteof = @ /\ origin # "set"]
      eaten == offset < 0 /\ b.pasteof
      c == IF eaten THEN [b EXCEPT !.pasteof = FALSE] ELSE b
      done == [c EXCEPT !.lastop = "none"] IN
    /\ UNCHANGED readahead
    /\ \/ /\ (offset = 0 \/ eaten) /\ Sought(start, done, k, c.pasteof)
          /\ sound' = (sound \/ origin = "set")
       \/ /\ offset = 1 /\ start < Len(file)
          /\ Sought(OverNext(start), done, k + 1, c.pasteof)
          /\ sound' = (sound \/ origin = "set")
       \/ /\ offset = -1 /\ ~ eaten /\ start > 0
          /\ Sought(BackOver(start), done, k - 1, c.pasteof) /\ UNCHANGED sound
       \/ /\ (offset = 1 /\ start = Len(file)) \/ (offset = -1 /\ ~ eaten /\ start = 0)
          /\ SeekError(start, c)

InRecords(offset) == offset * Mrs

\* fseek to a multiple of the record size.
DirectSeek(offset, origin) ==
  LET from == CASE origin = "set" -> 0 [] origin = "cur" -> pos [] origin = "end" -> Len(file)
      to == from + InRecords(offset) IN
    /\ UNCHANGED readahead
    /\ IF to < 0
       THEN answer' = Answer("seek", "error") /\ UNCHANGED <<pos, feof, info, at, past, sound>>
       ELSE /\ to <= Len(file)
            /\ Sought(to, [info EXCEPT !.lastop = "none"], to \div Mrs, FALSE) /\ sound' = TRUE

SpSeek(offset, origin) ==
  /\ info.open /\ Careful("dirty", info.dirty)
  /\ (sound \/ (origin = "set" /\ offset = 0))
  /\ Careful("start", Org = "formatted" /\ origin = "cur" /\ offset = -1 /\ at = 0 /\ ~ past)
  /\ Careful("eof", Org = "direct" /\ info.pasteof)
  /\ CASE Org = "formatted" -> FormSeqSeek(offset, origin)
       [] Org = "unformatted" -> UnformSeqSeek(offset, origin)
       [] Org = "direct" -> DirectSeek(offset, origin)
  /\ UNCHANGED <<file, recs, given, cut>>

-----------------------------------------------------------------------------
(* SpPutEOF, and closing: ForgetFile and CloseOpenFiles *)

\* The file is cut at the host's position.  If that is behind what was read
\* ahead, the program's position is before it, and the program is wrong about
\* the file from here on.
SpPutEOF ==
  /\ info.open /\ sound /\ Careful("dirty", info.dirty) /\ pos <= Len(file)
  /\ file' = SubSeq(file, 1, pos) /\ info' = [info EXCEPT !.pasteof = TRUE]
  /\ recs' = SubSeq(recs, 1, at) /\ past' = TRUE
  /\ cut' = (Ahead /\ llind < lllen) /\ sound' = ~ cut'
  /\ answer' = Answer("puteof", "success")
  /\ UNCHANGED <<pos, feof, readahead, at, given>>

SpClose ==
  /\ info.open /\ sound /\ Careful("partial", info.dirty /\ Len(given) # info.recordsize)
  /\ info' = [info EXCEPT !.open = FALSE]
  /\ file' = IF info.dirty THEN Written(PutFn(info.buff, info.recordsize)) ELSE file
  /\ recs' = (IF info.dirty THEN Put(recs, at, given) ELSE recs) /\ given' = << >>
  /\ answer' = Answer("close", "success")
  /\ UNCHANGED <<pos, feof, readahead, at, past, sound, cut>>

Next ==
  \/ \E v \in {1, 2}, n \in Lengths, o \in 0 .. Mrs, c \in 0 .. Mrs, dowrite \in BOOLEAN :
       SpPutRec(v, n, o, c, dowrite)
  \/ \E chunk \in {1, Mrs}, offset \in 0 .. Mrs, doread \in BOOLEAN : SpGetRec(chunk, offset, doread)
  \/ \E offset \in {-1, 0, 1}, origin \in {"set", "cur", "end"} : SpSeek(offset, origin)
  \/ SpPutEOF \/ SpClose

Spec == Init /\ [][Next]_vars

-----------------------------------------------------------------------------
\* Whatever has been put, read, overwritten, truncated and closed: the file
\* holds the program's records and nothing else.  One that is cut behind what
\* was read ahead still begins with the records that were to be kept.
FileHolds ==
  /\ sound => file = Encoded(recs)
  /\ cut => IsPrefix(Encoded(recs), file)

\* The host's position, less what has been read ahead, is where the program
\* believes to be, so that the next call works on the record it means.
Positioned ==
  sound /\ info.open => pos - (IF Ahead THEN lllen - llind ELSE 0) = Offset(at)

\* A read gets the next record, whole, and EOF only where there is none.
ReadsRecord ==
  answer.op = "get" /\ answer.res # "noposn" =>
    IF answer.want = <<-1>> THEN answer.res = "eof"
    ELSE answer.res = "success" /\ answer.data = answer.want

\* A record that is read or put is no longer than the maximum of its file.
RecordFits ==
  answer.op \in {"get", "put"} /\ answer.res = "success" => info.recordsize <= Mrs

\* The slice of a reply has a length, and lies in the record.
ChunkFits ==
  answer.op \in {"get", "chunk"} /\ answer.res = "success" =>
    answer.chunk \in 0 .. Len(answer.data)

=============================================================================
