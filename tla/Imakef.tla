------------------------------- MODULE Imakef -------------------------------
(***************************************************************************)
(* imakef, the makefile generator: INSTALL/SOURCE/IMAKEF, MAIN.C, PROCS.C   *)
(* and OUTPUT.C.  build_tree calls itself for every dependent; its frames   *)
(* are a stack here, one step per call.  An entry of the list of files      *)
(* points at the entries it depends on, so that the "tree" is a graph;      *)
(* check_tree sweeps over the list until a sweep builds nothing new; then   *)
(* the linker command files and the makefile, the batch file or the library *)
(* usage file are written by walking over the graph.                        *)
(***************************************************************************)
EXTENDS ImakefDerive, SequencesExt

CONSTANTS
    Projects,   \* the projects imakef may be run on
    MaxFiles    \* bound: entries of the list of files that memory has room for

ASSUME ImakefAssumption == MaxFiles \in Nat \ {0}

VARIABLES
    p,          \* the project of this run
    pc,         \* what main is at
    target,     \* the target of the command line that is next
    files,      \* the list of files
    stack,      \* the calls of build_tree that have not returned
    at,         \* the cursor of the list of files
    building,   \* of check_tree: this sweep built something
    built,      \* of check_tree: this sweep has left nothing unbuilt
    links,      \* the linker command files written: name -> names listed
    rules,      \* the rules of the makefile, in order
    batch,      \* the commands of the batch file, in order
    usage       \* the names of the library usage file
vars == <<p, pc, target, files, stack, at, building, built, links, rules, batch, usage>>
written == <<links, rules, batch, usage>>

Entry(info) == [name |-> info.name, parent |-> info.parent, type |-> info.type,
                deps |-> <<>>, built |-> FALSE]
NameOf(i) == files[i].name
Names(order) == {files[order[k]].name : k \in 1..Len(order)}
Deps(i) == files[i].deps
HasSource(i, type) == Deps(i) # <<>> /\ files[Deps(i)[1]].type = type
Action(i) == DeriveAction(p, files[i].type, NameOf(i))
HasAction(i) == Action(i) # NoAction

Init ==
    /\ p \in Projects
    /\ pc = "targets"
    /\ target = 1
    /\ files = <<>> /\ stack = <<>>
    /\ at = 1
    /\ building = FALSE /\ built = TRUE
    /\ links = <<>> /\ rules = <<>> /\ batch = <<>> /\ usage = <<>>

Stop(end) == pc' = end /\ UNCHANGED <<p, target, files, stack, at, building, built, written>>

-----------------------------------------------------------------------------
(* build_tree.                                                              *)

\* find_file_t: the first entry of a name, or 0.
FindFile(n) == SelectInSeq(files, LAMBDA e : e.name = n)

\* A file that is in the list already is added again if both its parent and
\* the parent of the entry found are objects of one type but of two kinds.
Different(info, e) ==
    /\ info.type # "F_LIB"
    /\ ParseExtension(info.parent) /\ ParseExtension(e.parent)
    /\ info.parent.ext = e.parent.ext
    /\ info.parent.kind # e.parent.kind

\* The caller of build_tree appends what it returns to its dependents.
Give(list, frames, i) ==
    IF frames = <<>> THEN list ELSE [list EXCEPT ![frames[Len(frames)].entry].deps = Append(@, i)]

\* One call: the entry that is there is returned; else one is appended and
\* its dependents are derived and built one after another.  frames is the
\* stack with the argument taken off the caller's list.
BuildTree(info, frames) ==
    LET i == FindFile(info.name) IN
    IF i # 0 /\ ~Different(info, files[i])
    THEN files' = Give(files, frames, i) /\ stack' = frames
    ELSE /\ Len(files) < MaxFiles
         /\ files' = Append(files, Entry(info))
         /\ stack' = Append(frames, [entry |-> Len(files) + 1, todo |-> DeriveDependents(p, info)])

\* test_target: the types that can be made, and the language -c may find.
TargetTypes == {"F_LIB", "F_TXX", "F_BXX", "F_CXX", "F_BTL", "F_RXX"}
TargetType(q, n) ==
    LET type == FileType(n) IN
    CASE q.mixed /\ type = "F_TXX" /\ Found(q, Child(n, "c")) -> "F_CTXX"
      [] q.mixed /\ type = "F_TXX" /\ ~Found(q, Child(n, "c")) /\ Found(q, Child(n, "f77")) -> "F_FTXX"
      [] q.mixed /\ type = "F_CXX" /\ Found(q, Child(n, "lnk")) -> "F_CCXX"
      [] OTHER -> type

ForUsage == FileType(p.targets[1]) = "F_LBU"

\* main: what build_tree is called for.  A library usage file is made by itself,
\* and by way of its library.
TargetInfo(q, n) ==
    IF FileType(q.targets[1]) = "F_LBU" THEN Info(Child(n, "lib"), NoName, "F_LIB")
    ELSE Info(n, NoName, TargetType(q, n))
NextTarget ==
    /\ pc = "targets" /\ stack = <<>> /\ target <= Len(p.targets)
    /\ target' = target + 1
    /\ IF ForUsage THEN Len(p.targets) = 1 ELSE FileType(p.targets[target]) \in TargetTypes
    /\ BuildTree(TargetInfo(p, p.targets[target]), <<>>)
    /\ UNCHANGED <<p, pc, at, building, built, written>>

\* No makefile is made for a file of another type.
WrongTarget ==
    /\ pc = "targets" /\ stack = <<>> /\ target <= Len(p.targets)
    /\ IF ForUsage THEN Len(p.targets) > 1 ELSE FileType(p.targets[target]) \notin TargetTypes
    /\ Stop("error")

Top == stack[Len(stack)]
Dependent ==
    /\ pc = "targets" /\ stack # <<>> /\ Top.todo # <<>>
    /\ BuildTree(Head(Top.todo), [stack EXCEPT ![Len(stack)].todo = Tail(@)])
    /\ UNCHANGED <<p, pc, target, at, building, built, written>>

Return ==
    /\ pc = "targets" /\ stack # <<>> /\ Top.todo = <<>>
    /\ files' = Give(files, Front(stack), Top.entry)
    /\ stack' = Front(stack)
    /\ UNCHANGED <<p, pc, target, at, building, built, written>>

\* my_allocate ends the program when there is no more memory.
NoMemory == pc = "targets" /\ Len(files) = MaxFiles /\ Stop("nomemory")

-----------------------------------------------------------------------------
(* check_tree.                                                              *)

\* After the last target.  A library without a build file has no usage file;
\* one that has no source at all gives no entry to look at.
Sweep == at' = 1 /\ building' = FALSE /\ built' = TRUE
AllTargets ==
    /\ pc = "targets" /\ stack = <<>> /\ target > Len(p.targets)
    /\ pc' = CASE ForUsage /\ Deps(1) = <<>> -> "null"
               [] ForUsage /\ Deps(1) # <<>> /\ ~HasSource(1, "F_LBB") -> "error"
               [] OTHER -> "check"
    /\ Sweep
    /\ UNCHANGED <<p, target, files, stack, written>>

\* Slip: built again for each dependent, so that one that is built will do.
SomeDependent(i) == Deps(i) = <<>> \/ \E k \in 1..Len(Deps(i)) : files[Deps(i)[k]].built
\* can_build_file_entry_t.
CanBuild(i) == \A k \in 1..Len(Deps(i)) : files[Deps(i)[k]].built

CheckEntry ==
    /\ pc = "check" /\ at <= Len(files)
    /\ at' = at + 1
    /\ IF files[at].built THEN UNCHANGED <<files, building, built>>
       ELSE IF CanBuild(at)
       THEN files' = [files EXCEPT ![at].built = TRUE] /\ building' = TRUE /\ UNCHANGED built
       ELSE built' = FALSE /\ UNCHANGED <<files, building>>
    /\ UNCHANGED <<p, pc, target, stack, written>>

\* Slip: building is not reset before a sweep.
AlwaysAgain == TRUE
\* The end of a sweep: another one, or the end of the check.
Again == building
EndOfSweep ==
    /\ pc = "check" /\ at > Len(files)
    /\ IF Again THEN pc' = pc /\ Sweep
       ELSE /\ pc' = IF built THEN "output" ELSE "cyclic"
            /\ at' = 1 /\ UNCHANGED <<building, built>>
    /\ UNCHANGED <<p, target, files, stack, written>>

-----------------------------------------------------------------------------
(* The library usage file and the linker command files.                     *)

\* generate_library_build_files: what the library is made of, and what the
\* libraries in it are made of.
RECURSIVE LibraryBuildFiles(_, _)
LibraryBuildFiles(found, lbb) ==
    LET One(list, i) ==
            IF files[i].type = "F_LIB" /\ HasSource(i, "F_LBB")
            THEN LibraryBuildFiles(Append(list, i), Deps(i)[1]) ELSE Append(list, i)
    IN  FoldLeft(One, found, Deps(lbb))

\* generate_library_usage_files: a walk over all the library depends on that
\* visits each entry once; what is used and not in the library is listed.
UsedTypes == {"F_LIB", "F_TXX", "F_SC", "F_USED_LIBRARY", "F_CXX", "F_CCXX", "F_CTXX"}
Uses0(lbb) == [used |-> <<>>, inside |-> LibraryBuildFiles(<<>>, lbb), seen |-> {}]
UsedAndInside(w, i) ==
    IF files[i].type \notin UsedTypes THEN w
    ELSE [w EXCEPT
        !.used = IF NameOf(i) \in Names(w.inside) \cup Names(@) THEN @ ELSE Append(@, i),
        !.inside = IF files[i].type = "F_LIB" /\ HasSource(i, "F_LBB")
                   THEN LibraryBuildFiles(@, Deps(i)[1]) ELSE @]
RECURSIVE LibraryUsage(_, _)
LibraryUsage(w, i) ==
    LET Visit(v, j) ==
            LET x == UsedAndInside(v, j) IN
            IF files[j].type \in {"F_CXX", "F_CCXX"} THEN x ELSE LibraryUsage(x, j)
    IN  IF i \in w.seen THEN w ELSE FoldLeft(Visit, [w EXCEPT !.seen = @ \cup {i}], Deps(i))
UsageList(lbb) == LibraryUsage(Uses0(lbb), lbb).used

\* generate_linker_order: what is linked, in the order of the text; a library
\* that is built from others stands for itself and for what it uses.
LinkTypes == {"F_SC", "F_TXX", "F_CXX", "F_LIB", "F_IMPORT", "F_USED_LIBRARY",
              "F_CTXX", "F_FTXX", "F_CCXX"}
AddNew(order, i) == IF NameOf(i) \in Names(order) THEN order ELSE Append(order, i)
RECURSIVE LinkerOrder(_, _)
LinkerOrder(order, i) ==
    LET Below(list, j) ==
            IF files[i].type = "F_LIB" /\ files[j].type = "F_LBB"
            THEN FoldLeft(AddNew, list, UsageList(j)) ELSE LinkerOrder(list, j)
    IN  FoldLeft(Below, IF files[i].type \in LinkTypes THEN AddNew(order, i) ELSE order, Deps(i))

\* The main body is written first, then the SCs, then the rest.
LinkerFile(lxx) ==
    LET order == LinkerOrder(<<>>, Deps(lxx)[1])
        IsSC(i) == files[i].type = "F_SC" IN
    <<Head(order)>> \o SelectSeq(Tail(order), IsSC)
                    \o SelectSeq(Tail(order), LAMBDA i : ~IsSC(i))

LinkerCommandFile ==
    /\ pc = "output" /\ ~ForUsage /\ at <= Len(files)
    /\ at' = at + 1
    /\ links' = IF files[at].type = "F_LXX"
                THEN Append(links, [entry |-> at, order |-> LinkerFile(at)]) ELSE links
    /\ UNCHANGED <<p, pc, target, files, stack, building, built, rules, batch, usage>>

LibraryUsageFile ==
    /\ pc = "output" /\ ForUsage
    /\ usage' = UsageList(FindFile(Child(p.targets[1], "lbb")))
    /\ pc' = "done"
    /\ UNCHANGED <<p, target, files, stack, at, building, built, links, rules, batch>>

-----------------------------------------------------------------------------
(* The makefile and the batch file.                                         *)

\* derive_real_names: whether the file is put where ISEARCH finds its source.
\* For most objects that is the first dependent, for some the occam source.
FoundOnPath(n) == Found(p, n) /\ n \in p.onpath
FirstOnPath(i) == Deps(i) # <<>> /\ FoundOnPath(NameOf(Deps(i)[1]))
LibraryOnPath(i) == IF Deps(i) = <<>> THEN FoundOnPath(NameOf(i)) ELSE FirstOnPath(i)
OccamOnPath(i) == FoundOnPath(Child(NameOf(i), "occ"))
OnPath(i) ==
    LET type == files[i].type IN
    CASE type \in {"F_SC", "F_TXX", "F_CTXX", "F_FTXX", "F_CCXX", "F_BTL", "F_CFB", "F_CFB_OC"} ->
             FirstOnPath(i)
      [] type = "F_LIB" -> LibraryOnPath(i)
      [] type \in {"F_RXX", "F_BXX", "F_CXX", "F_LXX"} -> OccamOnPath(i)
      [] OTHER -> FoundOnPath(NameOf(i))
Hidden(i) == p.ni /\ OnPath(i)

\* output_dependents_file_entry_t: a file, and if it has no action what it
\* depends on; each name once, and none that -ni hides.
RECURSIVE DependentFiles(_, _)
DependentFiles(list, i) ==
    IF NameOf(i) \in Names(list) \/ Hidden(i) THEN list
    ELSE IF HasAction(i) THEN Append(list, i)
    ELSE FoldLeft(DependentFiles, Append(list, i), Deps(i))
\* Slip: only the direct dependents.
DirectOnly(i) == [entry |-> i, on |-> Deps(i)]
RuleOf(i) == [entry |-> i, on |-> FoldLeft(DependentFiles, <<>>, Deps(i))]

\* output_tree: the first entry must be one that can be made.
NotDerivable ==
    /\ pc = "output" /\ ~ForUsage /\ at = Len(files) + 1 /\ ~HasAction(1)
    /\ Stop("error")
OutputTree ==
    /\ pc = "output" /\ ~ForUsage /\ at = Len(files) + 1 /\ HasAction(1) /\ ~p.batch
    /\ rules' = LET Written(i) == HasAction(i) /\ ~Hidden(i)
                    made == SelectSeq([i \in 1..Len(files) |-> i], Written)
                IN  [k \in 1..Len(made) |-> RuleOf(made[k])]
    /\ pc' = "done"
    /\ UNCHANGED <<p, target, files, stack, at, building, built, links, batch, usage>>

\* output_batch: the commands of what an entry depends on, then its own.
RECURSIVE BatchOf(_, _)
BatchOf(done, i) ==
    IF Contains(done, i) THEN done
    ELSE LET below == FoldLeft(BatchOf, done, Deps(i))
         IN  IF HasAction(i) THEN Append(below, i) ELSE below

OutputBatch ==
    /\ pc = "output" /\ ~ForUsage /\ at = Len(files) + 1 /\ HasAction(1) /\ p.batch
    /\ batch' = BatchOf(<<>>, 1)
    /\ pc' = "done"
    /\ UNCHANGED <<p, target, files, stack, at, building, built, links, rules, usage>>

\* output_deletable_files: what the rule "clean" deletes.
Deletable == {i \in 1..Len(files) :
    /\ files[i].type \in {"F_CFB_OC", "F_SC", "F_TXX", "F_CXX", "F_CCXX", "F_CFB", "F_SC_AND_LIB",
                          "F_CTXX", "F_FTXX"}
    /\ ~Hidden(i)}
-----------------------------------------------------------------------------
Step == NextTarget \/ WrongTarget \/ Dependent \/ Return \/ NoMemory \/ AllTargets
        \/ CheckEntry \/ EndOfSweep \/ LinkerCommandFile \/ LibraryUsageFile
        \/ NotDerivable \/ OutputTree \/ OutputBatch
Ends == {"done", "error", "cyclic", "null"}
Stopped == pc \in Ends \cup {"nomemory"}
Ended == Stopped /\ UNCHANGED vars
Next == Step \/ Ended

\* One sequential program, which the host runs: it takes steps until it has
\* ended.  (As long as it has not it can take one: it never deadlocks.)
Runs == <>[]Stopped \/ []<><<TRUE>>_vars
Spec == Init /\ [][Next]_vars /\ Runs

-----------------------------------------------------------------------------
(* Properties.                                                              *)

Indices == 1..Len(files)

\* The type invariant: every pointer is to an entry of the list, every frame
\* is a call for an entry, and no call is for a later entry than the one below.
TypeOK ==
    /\ pc \in {"targets", "check", "output", "nomemory"} \cup Ends
    /\ target \in 1..(Len(p.targets) + 1)
    /\ at \in 1..(Len(files) + 1)
    /\ Len(files) <= MaxFiles
    /\ \A i \in Indices : ToSet(Deps(i)) \subseteq Indices /\ files[i].built \in BOOLEAN
    /\ \A k \in 1..Len(stack) : stack[k].entry \in Indices
    /\ \A k \in 2..Len(stack) : stack[k - 1].entry < stack[k].entry
    /\ {building, built} \subseteq BOOLEAN

\* All the entries that are reached from a set of entries, and those that are
\* reached without passing one that is made by a command of its own.
RECURSIVE Reached(_), Nearby(_)
Reached(S) == LET T == S \cup UNION {ToSet(Deps(i)) : i \in S} IN IF T = S THEN S ELSE Reached(T)
Nearby(S) == LET T == S \cup UNION {ToSet(Deps(i)) : i \in {j \in S : ~HasAction(j)}}
             IN  IF T = S THEN S ELSE Nearby(T)
OnCycle(i) == i \in Reached(ToSet(Deps(i)))
RuleFiles(i) == Nearby(ToSet(Deps(i)))

\* All the calls of build_tree that the targets of a project may lead to; and
\* those for which a file is added to the list however often it is there, once
\* it is there for another kind of object.
RECURSIVE Calls(_, _), Within(_, _, _)
Calls(q, S) ==
    LET T == S \cup UNION {ToSet(DeriveDependents(q, i)) : i \in S} IN IF T = S THEN S ELSE Calls(q, T)
AllCalls(q) == Calls(q, {TargetInfo(q, q.targets[k]) : k \in 1..Len(q.targets)})
Doubled(q) ==
    LET all == AllCalls(q) IN {i \in all : \E j \in all : j.name = i.name /\ Different(i, j)}
Within(q, D, S) ==
    LET T == S \cup (D \cap UNION {ToSet(DeriveDependents(q, i)) : i \in S})
    IN  IF T = S THEN S ELSE Within(q, D, T)

\* The projects in which a source includes itself, by however many files, and
\* is included for objects of one type but of two kinds.
Endless ==
    {q \in Projects : \E i \in Doubled(q) :
        i \in Within(q, Doubled(q), Doubled(q) \cap ToSet(DeriveDependents(q, i)))}

\* A call of build_tree is made in the middle of the same call: no end of it.
CallOf(frame) == <<files[frame.entry].name, files[frame.entry].parent, files[frame.entry].type>>
CallsItself == \E k \in 2..Len(stack) : \E m \in 1..(k - 1) : CallOf(stack[m]) = CallOf(stack[k])

\* check_tree lets a tree through if and only if nothing in it depends on
\* itself, by however many files: the sweeps in the order of the list find
\* every cycle, and take no file that is only used twice for one (MAIN.C:199).
\* A cycle that build_tree does not come back from, so that check_tree never
\* sees it, is one of Endless, and memory runs out for no other reason.
CyclesFound ==
    /\ pc \in {"output", "done"} => \A i \in Indices : ~OnCycle(i)
    /\ pc = "cyclic" => \E i \in Indices : OnCycle(i)
    /\ pc = "nomemory" => p \in Endless
    /\ pc \in {"done", "cyclic"} => p \notin Endless

\* What a target is made from has been looked through for the target's own
\* processor and error mode, also if another target looked through it first:
\* the reason why build_tree adds a source again (MAIN.C:156).
SourcesOfItsKind ==
    pc = "done" => \A i \in Indices : \A j \in RuleFiles(i) :
        HasAction(i) /\ ParseExtension(NameOf(i)) /\ files[j].type \in SourceTypes
        /\ ParseExtension(files[j].parent) => files[j].parent.kind = NameOf(i).kind

\* A rule of the makefile names all that its target is made from: though each
\* name is written once, and entries of one name differ in what they depend
\* on, a change of any of these files remakes the target (OUTPUT.C:493).
RulesComplete ==
    ~p.ni => \A k \in 1..Len(rules) :
        Names(rules[k].on) = {NameOf(j) : j \in RuleFiles(rules[k].entry)}

\* The command of a rule reads the first file that the rule depends on: what
\* derive_action_t and derive_dependent_info_t derive, each by itself and at
\* different times, is the same (DERIVE.C:900, 1180).
CommandReadsItsSource ==
    \A k \in 1..Len(rules) : LET i == rules[k].entry IN Action(i).input = NameOf(Deps(i)[1])

\* A linker command file names each unit once, the main body first, and every
\* unit that is linked in without a library between (OUTPUT.C:295).
RECURSIVE Linked(_)
Linked(S) == LET open == {i \in S : ~(files[i].type = "F_LIB" /\ HasSource(i, "F_LBB"))}
                 T == S \cup UNION {ToSet(Deps(i)) : i \in open} IN IF T = S THEN S ELSE Linked(T)
LinkFilesComplete ==
    \A k \in 1..Len(links) :
        LET order == links[k].order
            main == Deps(links[k].entry)[1] IN
        /\ Cardinality(Names(order)) = Len(order)
        /\ order[1] = main
        /\ {NameOf(i) : i \in {j \in Linked({main}) : files[j].type \in LinkTypes}} \subseteq Names(order)

\* In the batch file every command comes once, and after the commands that
\* make what it needs (OUTPUT.C:960).
BatchInOrder ==
    \A k \in 1..Len(batch) : \A j \in Reached(ToSet(Deps(batch[k]))) :
        HasAction(j) => \E m \in 1..(k - 1) : batch[m] = j

\* A library usage file names nothing that the library is itself made of,
\* directly or by a library in it, and each name once (OUTPUT.C:98).
RECURSIVE Members(_)
Members(S) ==
    LET T == S \cup UNION {ToSet(Deps(Deps(i)[1])) :
                 i \in {j \in S : files[j].type = "F_LIB" /\ HasSource(j, "F_LBB")}}
    IN  IF T = S THEN S ELSE Members(T)
UsageIsOutside ==
    ForUsage /\ pc = "done" =>
        /\ Names(usage) \cap {NameOf(i) : i \in Members(ToSet(Deps(Deps(1)[1])))} = {}
        /\ Cardinality(Names(usage)) = Len(usage)

\* imakef ends, with a makefile or with a message, whatever the references that
\* do not make a project Endless: cycles through objects among them.
Terminates == p \notin Endless => <>(pc \in Ends)

-----------------------------------------------------------------------------
(* What the code's comments and messages say and the code does not do.      *)

\* build_tree comes back, so that check_tree examines the completed tree for
\* circular references: no call is made in the middle of the same call.
TreeCompletes == ~CallsItself

\* A file is on the list once for each target it is compiled for.
EntryPerTarget ==
    \A i, j \in Indices : i # j /\ NameOf(i) = NameOf(j) =>
        <<files[i].parent.ext, files[i].parent.kind>> # <<files[j].parent.ext, files[j].parent.kind>>

\* A tree that is let through has no SC inside a library.
NoScInLibrary ==
    pc \in {"output", "done"} => \A i \in Indices : files[i].type = "F_LBB" =>
        \A j \in Reached({i}) : files[j].type # "F_SC"

\* No rule makes, and no clean deletes, a file that is a source by its name.
SourcesKept ==
    pc = "done" =>
        \A i \in Deletable \cup {rules[k].entry : k \in 1..Len(rules)} :
            FileType(NameOf(i)) \notin SourceTypes

\* What a tool makes is put into the directory of what it is made from.
MadeBesideSource ==
    \A k \in 1..Len(rules) : OnPath(rules[k].entry) = OnPath(Deps(rules[k].entry)[1])

\* The batch file holds the commands of every target.
BatchComplete ==
    pc = "done" /\ p.batch => \A k \in 1..Len(p.targets) :
        \E m \in 1..Len(batch) : NameOf(batch[m]) = p.targets[k]

\* main looks at the source of a library only if there is one.
NeverNull == pc # "null"
=============================================================================
