---------------------------- MODULE ImakefDerive ----------------------------
(***************************************************************************)
(* How imakef derives what a file depends on, how it is made and where it   *)
(* is put, from the file's name and from the references inside it:          *)
(* INSTALL/SOURCE/IMAKEF, FILENAME.C and DERIVE.C.                          *)
(*                                                                         *)
(* A name is a stem, an extension and, for the extensions of three          *)
(* characters of which the last two name the processor and the error mode   *)
(* (.t4h), that pair as its kind.  A project q is what imakef is run on:    *)
(*   q.lines[f]  the lines of each text file f that exists: references,     *)
(*               or Plain for every other line;                             *)
(*   q.libs      the libraries that exist only as libraries;                *)
(*   q.onpath    the files that are found through ISEARCH alone;            *)
(*   q.targets, q.mixed (-c), q.ni (-ni), q.batch (-b), q.delete (-r).      *)
(***************************************************************************)
EXTENDS Sequences, FiniteSets, Integers

NoKind == ""
File(stem, ext) == [stem |-> stem, ext |-> ext, kind |-> NoKind]
Object(stem, ext, kind) == [stem |-> stem, ext |-> ext, kind |-> kind]
NoName == File("", "")

\* A line of a text file: a reference made with a directive, or Plain.
Line(how, to) == [how |-> how, to |-> to]
Plain == Line("plain", NoName)

\* parse_extension: true of the names that end in a type, a processor and a mode.
ParseExtension(n) == n.kind # NoKind

\* file_type: the type of a file by its extension.
TypeOfExtension ==
    [occ |-> "F_OCC", inc |-> "F_OCC", c |-> "F_C", f77 |-> "F_FORTRAN", cfs |-> "F_CFS",
     pgm |-> "F_PGM", lib |-> "F_LIB", lbb |-> "F_LBB", liu |-> "F_LBU", btl |-> "F_BTL",
     lnk |-> "F_LNK"]
TypeOfObject == [t |-> "F_TXX", l |-> "F_LXX", b |-> "F_BXX", cx |-> "F_CXX", r |-> "F_RXX"]
FileType(n) ==
    IF n.ext \in DOMAIN TypeOfExtension THEN TypeOfExtension[n.ext]
    ELSE IF ParseExtension(n) /\ n.ext \in DOMAIN TypeOfObject THEN TypeOfObject[n.ext]
    ELSE "F_UNKNOWN"

SourceTypes == {"F_OCC", "F_C", "F_FORTRAN", "F_CFS", "F_PGM", "F_LNK", "F_LBB", "F_LBU"}

\* derive_child, with set_extension for an extension that has a kind.
Child(n, ext) == File(n.stem, ext)
KindedChild(n, ext) == Object(n.stem, ext, n.kind)

\* popen_read: whether a file is found, in the directory or through ISEARCH.
Found(q, n) == n \in DOMAIN q.lines \cup q.libs

Info(n, parent, type) == [name |-> n, parent |-> parent, type |-> type]

-----------------------------------------------------------------------------
(* process_line: the dependents a line of a file adds.                      *)

\* A reference of an occam source.  A name without an extension is of the
\* kind of the target the source is compiled for; an import is taken as it is.
CompleteName(ref, parent) ==
    IF ref.to.ext # "" \/ ref.how = "IMPORT" THEN ref.to
    ELSE IF ref.how = "INCLUDE" THEN Child(ref.to, "occ")
    ELSE IF ParseExtension(parent) THEN Object(ref.to.stem, "t", parent.kind)
    ELSE ref.to
OccamType(ref, n) ==
    LET asked == CASE ref.how = "INCLUDE" -> "F_OCC" [] ref.how = "USE" -> "F_TXX"
                   [] ref.how = "SC" -> "F_SC" [] ref.how = "IMPORT" -> "F_IMPORT"
        found == FileType(n) IN
    IF asked = "F_IMPORT" THEN "F_IMPORT"
    ELSE IF found = "F_LIB" THEN "F_LIB"
    ELSE IF found = "F_UNKNOWN" THEN "F_UNKNOWN"
    ELSE IF found = "F_CXX" /\ asked # "F_OCC" THEN "F_CXX" ELSE asked
OccamLine(info, ref) ==
    LET n == CompleteName(ref, info.parent) IN <<Info(n, info.parent, OccamType(ref, n))>>

\* A #include of a C source or an INCLUDE of a FORTRAN one; what does not
\* exist is only warned about.
IncludeLine(q, info, ref) ==
    IF Found(q, ref.to) THEN <<Info(ref.to, info.parent, info.type)>> ELSE <<>>

\* A line of a linker command file, a library build file or a usage file:
\* the file that lists is the parent of what it lists.
ListedType(q, info, n) ==
    IF info.type = "F_LBU" THEN "F_USED_LIBRARY"
    ELSE IF FileType(n) # "F_TXX" \/ ~q.mixed THEN FileType(n)
    ELSE IF Found(q, Child(n, "c")) THEN "F_CTXX"
    ELSE IF Found(q, Child(n, "f77")) THEN "F_FTXX" ELSE "F_TXX"
ListLine(q, info, ref) == <<Info(ref.to, info.name, ListedType(q, info, ref.to))>>

\* A reference of a configuration: an include, or the use of a linked unit.
ConfigurationType(q, info, ref, n) ==
    IF FileType(n) = "F_UNKNOWN" THEN "F_UNKNOWN"
    ELSE IF FileType(n) = "F_LIB" THEN "F_LIB"
    ELSE IF FileType(n) = "F_CXX" /\ q.mixed /\ Found(q, Child(n, "lnk")) THEN "F_CCXX"
    ELSE IF ref.how = "INCLUDE" THEN info.type ELSE "F_CXX"
ConfigurationLine(q, info, ref) ==
    LET own == IF info.type = "F_CFS" THEN "cfs" ELSE "pgm"
        n == IF ref.how = "INCLUDE" /\ ref.to.ext = "" THEN Child(ref.to, own) ELSE ref.to IN
    <<Info(n, info.parent, ConfigurationType(q, info, ref, n))>>

ProcessLine(q, info, ref) ==
    CASE ref.how = "plain" -> <<>>
      [] info.type \in {"F_LNK", "F_LBB", "F_LBU"} -> ListLine(q, info, ref)
      [] info.type = "F_OCC" -> OccamLine(info, ref)
      [] info.type \in {"F_C", "F_FORTRAN"} -> IncludeLine(q, info, ref)
      [] info.type \in {"F_CFS", "F_PGM"} -> ConfigurationLine(q, info, ref)

\* search_for_dependents: the loop tests for the end of the file before it
\* reads, so that the last line of a text file, which ends in a new line, is
\* processed twice.
LinesRead(s) == IF s = <<>> THEN <<>> ELSE Append(s, s[Len(s)])
SearchForDependents(q, info) ==
    IF info.name \notin DOMAIN q.lines THEN <<>>
    ELSE LET s == LinesRead(q.lines[info.name])
             Upto[i \in 0..Len(s)] ==
                 IF i = 0 THEN <<>> ELSE Upto[i - 1] \o ProcessLine(q, info, s[i])
         IN  Upto[Len(s)]

-----------------------------------------------------------------------------
(* derive_dependent_info_t: what a file depends on.                         *)

\* A linked unit is linked by a command file of the user's if -c was given
\* and there is one, else by one that imakef writes.
LinkedType(q, n) == IF q.mixed /\ Found(q, Child(n, "lnk")) THEN "F_CCXX" ELSE "F_CXX"

\* The source of a configured program: occam's is looked for first, or C's
\* first with -c; with neither there it is the one that is looked for first.
ConfiguredType(q, n) ==
    LET pgm == Found(q, Child(n, "pgm"))
        cfs == Found(q, Child(n, "cfs"))
        first == IF q.mixed THEN cfs ELSE pgm
        second == IF q.mixed THEN pgm ELSE cfs IN
    IF first \/ ~second THEN (IF q.mixed THEN "F_CFB" ELSE "F_CFB_OC")
    ELSE (IF q.mixed THEN "F_CFB_OC" ELSE "F_CFB")

LibrarySource(q, n) ==
    IF Found(q, Child(n, "lbb")) THEN <<Info(Child(n, "lbb"), n, "F_LBB")>>
    ELSE IF Found(q, Child(n, "liu")) THEN <<Info(Child(n, "liu"), n, "F_LBU")>> ELSE <<>>

DeriveDependents(q, info) ==
    LET n == info.name IN
    CASE info.type \in SourceTypes         -> SearchForDependents(q, info)
      [] info.type \in {"F_RXX", "F_BXX"}  -> <<Info(KindedChild(n, "cx"), n, LinkedType(q, n))>>
      [] info.type = "F_LIB"               -> LibrarySource(q, n)
      [] info.type \in {"F_SC", "F_TXX"}   -> <<Info(Child(n, "occ"), n, "F_OCC")>>
      [] info.type = "F_CTXX"              -> <<Info(Child(n, "c"), n, "F_C")>>
      [] info.type = "F_FTXX"              -> <<Info(Child(n, "f77"), n, "F_FORTRAN")>>
      [] info.type = "F_CXX"               -> <<Info(KindedChild(n, "l"), n, "F_LXX")>>
      [] info.type = "F_CCXX"              -> <<Info(Child(n, "lnk"), n, "F_LNK")>>
      [] info.type = "F_LXX"               -> <<Info(KindedChild(n, "t"), n, "F_SC")>>
      [] info.type = "F_BTL"               -> <<Info(Child(n, "cfb"), n, ConfiguredType(q, n))>>
      [] info.type = "F_CFB"               -> <<Info(Child(n, "cfs"), n, "F_CFS")>>
      [] info.type = "F_CFB_OC"            -> <<Info(Child(n, "pgm"), n, "F_PGM")>>
      [] OTHER                             -> <<>>

-----------------------------------------------------------------------------
(* derive_action_t: the command that makes a file, and its input.           *)

\* The command file of a linked unit is of the unit's kind.
LinkerInput(n) == KindedChild(n, "l")

NoAction == [tool |-> "none", input |-> NoName]
Uses(tool, input) == [tool |-> tool, input |-> input]

CompileAction(type, n) ==
    CASE type \in {"F_TXX", "F_SC"} -> Uses("oc", Child(n, "occ"))
      [] type = "F_CTXX"            -> Uses("icc", Child(n, "c"))
      [] type = "F_FTXX"            -> Uses("if77", Child(n, "f77"))
LinkAction(type, n) ==
    Uses("ilink", IF type = "F_CCXX" THEN Child(n, "lnk") ELSE LinkerInput(n))
ConfigureAction(type, n) ==
    IF type = "F_CFB" THEN Uses("icconf", Child(n, "cfs")) ELSE Uses("occonf", Child(n, "pgm"))
CollectAction(type, n) ==
    Uses("icollect", IF type = "F_BTL" THEN Child(n, "cfb") ELSE KindedChild(n, "cx"))
LibraryAction(q, n) ==
    IF Found(q, Child(n, "lbb")) THEN Uses("ilibr", Child(n, "lbb")) ELSE NoAction

DeriveAction(q, type, n) ==
    CASE type = "F_LIB"                               -> LibraryAction(q, n)
      [] type \in {"F_TXX", "F_SC", "F_CTXX", "F_FTXX"} -> CompileAction(type, n)
      [] type \in {"F_CXX", "F_CCXX"}                 -> LinkAction(type, n)
      [] type \in {"F_CFB", "F_CFB_OC"}               -> ConfigureAction(type, n)
      [] type \in {"F_BTL", "F_BXX", "F_RXX"}         -> CollectAction(type, n)
      [] OTHER                                        -> NoAction
=============================================================================
