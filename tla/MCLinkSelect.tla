---------------------------- MODULE MCLinkSelect ----------------------------
(* Small databases for LinkSelect: this machine is "here".                 *)
EXTENDS LinkSelect

Record(r, w, m, h, f) ==
  [res |-> r, working |-> w, machine |-> m, method |-> h, form |-> f]

MCAvailable == {"B004", "B008", "TCP_LINKOPS"}

\* Well-formed records: of two resources, working or not, local under either
\* name or remote, one "weird" and one of a method this build lacks.
Good == {Record("r", TRUE, "localhost", "B004", "good"),
         Record("r", TRUE, "there", "B008", "good"),
         Record("r", FALSE, "localhost", "B004", "good"),
         Record("s", TRUE, "localhost", "B004", "good"),
         Record("r", TRUE, "localhost", "TCP_LINKOPS", "good"),
         Record("r", TRUE, "here", "QT0", "good")}

\* Records with something wrong in the text of the database.
Damaged == {Record("r", TRUE, "here", "B004", "stray"),
            Record("r", TRUE, "there", "B004", "cut")}

\* A correct record whose description is continued on the next line.
Continued == {Record("r", TRUE, "here", "B004", "more")}

AnyRecord == Good \cup Damaged \cup Continued

\* A database that cannot be read is as good as empty.
MCInit == Init /\ (icondb # "set" => db = << >>)
MCSpec == MCInit /\ [][Next]_vars /\ Fairness

\* Between calls the variables of the interface agree with the driver that is
\* open, and OPS_Open has closed the database.
OpensRight == TypeOK /\ OpenIsRight /\ FileClosed

MCNames == {[res |-> "r", at |-> ""], [res |-> "r", at |-> "here"],
            [res |-> "s", at |-> "localhost"], [res |-> "r", at |-> "there"]}
AllEnvironments == {"set", "unset", "long", "nofile"}
EnvironmentSet == {"set"}
=============================================================================
