------------------------------ MODULE MCImakef ------------------------------
(***************************************************************************)
(* Projects for Imakef: every small occam program over three sources and a  *)
(* library, with the references in any combination, cycles among them; and  *)
(* programs of the other kinds, the example loader of the release included. *)
(***************************************************************************)
EXTENDS Imakef

a == File("a", "occ")
b == File("b", "occ")
h == File("h", "inc")
T(stem, kind) == Object(stem, "t", kind)
Ref(how, stem) == Line(how, File(stem, ""))
At(how, n) == Line(how, n)
In(n) == Line("file", n)

\* The library l, built from what lbb lists, or one that is only there.
WithLibrary(lines, lbb) == [n \in DOMAIN lines \cup {File("l", "lbb")} |->
    IF n = File("l", "lbb") THEN lbb ELSE lines[n]]

Project(lines, targets) == [lines |-> lines, libs |-> {}, onpath |-> {}, targets |-> targets,
                            mixed |-> FALSE, ni |-> FALSE, batch |-> FALSE]

ALines == {Ref("USE", "b"), Ref("SC", "b"), At("INCLUDE", h), At("USE", File("l", "lib")),
           At("IMPORT", File("i", "tco"))}
BLines == {<<Plain>>, <<At("INCLUDE", h)>>, <<At("INCLUDE", h), Plain>>, <<Ref("USE", "a")>>}
HLines == {<<Plain>>, <<Ref("USE", "b"), Plain>>, <<At("INCLUDE", h), Plain>>}
LLines == {<<In(T("b", "4h"))>>, <<In(T("c", "4h")), In(T("b", "4h"))>>}
Occam(la, lb, lh, ll) == WithLibrary(a :> la @@ b :> lb @@ h :> lh @@ File("c", "occ") :> <<Plain>>, ll)
OccamTargets == {<<Object("a", "b", "4h")>>, <<T("a", "4h"), T("a", "8h")>>,
                 <<T("b", "4h"), T("a", "8h"), T("a", "4h")>>}
OccamProjects ==
    {[Project(Occam(<<x, y>>, lb, lh, ll), ts) EXCEPT !.batch = bt] :
        x \in ALines, y \in ALines, lb \in BLines, lh \in HLines, ll \in LLines,
        ts \in OccamTargets, bt \in BOOLEAN}

\* Library usage files, with a library inside the library.
Nested(used) == WithLibrary(a :> used @@ b :> <<Plain>>
                    @@ File("m", "lbb") :> <<In(T("b", "4h"))>>,
                    <<In(T("a", "4h")), In(File("m", "lib"))>>)
UsageProjects ==
    {Project(Nested(used), <<File("l", "liu")>>) :
        used \in {<<Ref("USE", "b"), Ref("USE", "c")>>, <<At("USE", File("m", "lib")), Plain>>,
                  <<At("USE", File("k", "lib"))>>}}

\* The example loader: its makefile is LOADERT2.MAK (FNLOAD/LOADERS/OCLOADER).
oc(ext) == File("ocloader", ext)
Loader ==
    [Project(oc("cfs") :> <<At("USE", Object("ocloader", "cx", "2h"))>>
             @@ oc("lnk") :> <<In(File("cstartrd", "lnk")), In(T("ocloader", "2h"))>>
             @@ File("cstartrd", "lnk") :> <<Plain>>
             @@ oc("c") :> <<At("INCLUDE", File("stddef", "h")), Plain>>
             @@ File("stddef", "h") :> <<Plain>>, <<oc("btl")>>) EXCEPT
        !.mixed = TRUE, !.ni = TRUE, !.onpath = {File("cstartrd", "lnk"), File("stddef", "h")}]
Made(rule) == <<NameOf(rule.entry), [k \in 1..Len(rule.on) |-> NameOf(rule.on[k])]>>
\* The rules that LOADERT2.MAK, lines 27 to 37, holds of it.
ExampleMakefile ==
    p = Loader /\ pc = "done" =>
        [k \in 1..Len(rules) |-> Made(rules[k])] =
            <<<<oc("btl"), <<oc("cfb")>>>>,
              <<oc("cfb"), <<oc("cfs"), Object("ocloader", "cx", "2h")>>>>,
              <<Object("ocloader", "cx", "2h"), <<oc("lnk"), T("ocloader", "2h")>>>>,
              <<T("ocloader", "2h"), <<oc("c")>>>>>>

\* The other kinds of program: occam configured, with and without -c, FORTRAN,
\* a library by its name, and command lines that are refused.
Configured == [Project(File("a", "pgm") :> <<At("USE", Object("a", "cx", "4h")), Ref("INCLUDE", "g")>>
                       @@ File("g", "pgm") :> <<Plain>> @@ a :> <<Ref("USE", "b")>> @@ b :> <<Plain>>,
                       <<File("a", "btl")>>) EXCEPT !.batch = TRUE]
Fortran == [Project(File("f", "f77") :> <<At("INCLUDE", File("f", "f77"))>>
                    @@ File("f", "lnk") :> <<In(T("f", "8h"))>>, <<Object("f", "b", "8h"), T("f", "8h")>>)
               EXCEPT !.mixed = TRUE]
OtherProjects ==
    {Loader, Configured, [Configured EXCEPT !.mixed = TRUE], [Fortran EXCEPT !.lines[File("f", "f77")] = <<Plain>>],
     Fortran, Project(Nested(<<Plain>>), <<File("l", "lib")>>),
     Project(Nested(<<Plain>>), <<Object("a", "r", "4h")>>),
     [Project(a :> <<Plain>>, <<File("k", "lib")>>) EXCEPT !.libs = {File("k", "lib")}],
     Project(a :> <<Plain>>, <<a>>), Project(a :> <<Plain>>, <<File("l", "liu"), T("a", "4h")>>)}

AllProjects == OccamProjects \cup UsageProjects \cup OtherProjects

-----------------------------------------------------------------------------
\* A makefile that is finished is right: its rules name all that a target is made from, and
\* what has been looked through for its processor; each command reads the first
\* file of its rule; link files, library usage files and the batch file hold
\* what they must, in order; and the example's is the one of the release.
MakefileRight ==
    /\ TypeOK
    /\ pc = "done" => /\ RulesComplete /\ SourcesOfItsKind /\ CommandReadsItsSource
                      /\ LinkFilesComplete /\ UsageIsOutside /\ BatchInOrder /\ ExampleMakefile
=============================================================================
