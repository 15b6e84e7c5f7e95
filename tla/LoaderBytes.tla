---------------------------- MODULE LoaderBytes ----------------------------
(* The commands of the network loader (LOADER.OCC) as bytes on a link.        *)

Pass == 129          \* operate commands, the tag included
Open == 130
Close == 131
Address == 132
Execute == 133
DataPosition == 134
CodeAddress == 136
DataAddress == 138
EntryPosition == 139
BootstrapLoad == 140
BootstrapEnd == 141
MemorySize == 142
==============================================================================
