------------------------------ MODULE BootFile ------------------------------
(* A network of four processors and the boot file for it.                     *)
(*                                                                            *)
(*     host 0 -> a,  a 1 -> b,  a 2 -> c,  b 3 -> d                           *)
(*                                                                            *)
(* The file is what a collector would write with the commands of LOADER.OCC:  *)
(* bootstraps and loader for each processor, one part of the program that all *)
(* of them keep, one of its own for each, and the start, leaves first.        *)
EXTENDS Integers, Sequences, LoaderBytes

CONSTANT NoNode

FourAndHost == {"host", "a", "b", "c", "d"}
Tree ==
  [n \in FourAndHost |-> [i \in 0..3 |->
     CASE n = "host" /\ i = 0 -> "a"
       [] n = "a" /\ i = 1 -> "b"
       [] n = "a" /\ i = 2 -> "c"
       [] n = "b" /\ i = 3 -> "d"
       [] OTHER -> NoNode]]

\* The links from a to the other processors.
Path(n) == CASE n = "a" -> <<>> [] n = "b" -> <<1>> [] n = "c" -> <<2>> [] n = "d" -> <<1, 3>>

TheLoader == <<11, 12, 13>>
\* Commands, with their operands.
Num(i) == 64 + i
WithValue(command, v) == <<command, 192 + (v \div 64), v % 64>>
Msg(bytes) == <<Len(bytes)>> \o bytes
Repeat(byte, k) == [i \in 1..k |-> byte]

\* The commands s for the processor at the end of a path, to which the links
\* are open afterwards.
Say(path, s) ==
  LET From[k \in 1..Len(path) + 1] ==
        IF k > Len(path) THEN s
        ELSE <<Pass, Num(path[k]), Open>> \o From[k + 1] \o <<Close>>
  IN  From[1]

\* Bootstrap, secondary and loader for the processors behind the open links,
\* depth levels down.
BootImage == <<7, 8>>
BelowLoader == Msg(<<21>>) \o Msg(TheLoader) \o <<0>>
Boots(depth) ==
  Repeat(BootstrapLoad, depth) \o Msg(<<7>>) \o Msg(<<8>>) \o Repeat(BootstrapEnd, depth) \o BelowLoader

\* The program of each: two bytes that all have, one of its own (for a and b one
\* that would be a command), one that was cleared, and two that the secondary
\* loads.
Own(n) == CASE n = "a" -> Open [] n = "b" -> Close [] n = "c" -> 3 [] n = "d" -> 4
Wanted == [n \in FourAndHost \ {"host"} |->
  [k \in 64..69 |-> CASE k = 64 -> 31 [] k = 65 -> 32 [] k = 66 -> Own(n) [] k = 67 -> 255 [] k = 68 -> 40 [] k = 69 -> 41]]

Prepare(n) == Say(Path(n), WithValue(MemorySize, 70) \o WithValue(CodeAddress, 64))
Shared ==
  <<128, Num(1), Open, 128, Num(3), Open, 128, Close, Close, Num(2), Open, 128, Close>> \o Msg(<<31, 32>>)
Mark(n) == Say(Path(n), <<128>>) \o Msg(<<Own(n)>>)
Start(n) ==
  Say(Path(n), WithValue(DataAddress, 5) \o WithValue(DataPosition, 6) \o WithValue(EntryPosition, 65)
               \o WithValue(Address, 68) \o <<Execute>>)
  \o Msg(<<40, 41>>) \o <<0>>

TheBootFile ==
  Msg(BootImage) \o BelowLoader
  \o <<Pass, Num(1), Num(2)>> \o Boots(1)
  \o <<Pass, Num(1), Open, Pass, Num(3), Close>> \o Boots(2)
  \o Prepare("d") \o Prepare("b") \o Prepare("c") \o Prepare("a")
  \o Shared
  \o Mark("d") \o Mark("b") \o Mark("c") \o Mark("a")
  \o Start("d") \o Start("b") \o Start("c") \o Start("a")
==============================================================================
