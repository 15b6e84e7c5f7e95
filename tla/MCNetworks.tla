----------------------------- MODULE MCNetworks ------------------------------
(* Networks of transputers: the example square, which passes values round and *)
(* round (PassNet, which this module extends), and beside it the boot of a    *)
(* tree from its host.  A behaviour is of the one that it starts with; the    *)
(* other's variables hold 0, or their first values.                           *)
EXTENDS PassNet, BootFile, TLC

VARIABLES
  part,                        \* "square" or "boot"
  stage, byte, out, mem, reg   \* of NetLoader

loader == <<stage, byte, out, mem, reg>>
all == <<part, vars, loader>>

\* SQUARE.CFS with p = 2: MultPass[i][j] is process 1 + 2i + j, and Left, Up,
\* Down and Right (HWSQUARE.CFS) are its channels 1 to 4.  A channel is named
\* for the output it comes from: <<p, i>> is p's Output[i - 1].
Five == 0..4
Pairs == Five \X (1..4)
SquareOut == [p \in Five |-> [i \in 1..(IF p = 0 THEN 2 ELSE 4) |-> <<p, i>>]]
SquareIn ==
  0 :> <<<<1, 2>>, <<4, 3>>>> @@
  1 :> <<<<4, 4>>, <<0, 1>>, <<3, 2>>, <<2, 1>>>> @@
  2 :> <<<<1, 4>>, <<3, 3>>, <<4, 2>>, <<3, 1>>>> @@
  3 :> <<<<2, 4>>, <<1, 3>>, <<2, 2>>, <<4, 1>>>> @@
  4 :> <<<<3, 4>>, <<2, 3>>, <<0, 2>>, <<1, 1>>>>

Net ==
  INSTANCE NetLoader WITH
    Nodes <- FourAndHost, Host <- "host", Null <- NoNode, Down <- Tree, Stream <- TheBootFile,
    Loader <- TheLoader, Program <- Wanted, EntryPoint <- 65, PacketLength <- 3, TwoKay <- 66,
    MemTop <- 73, got <- byte

ASSUME NetworkConstants == Net!NetLoaderConstants /\ Paired /\ Connected

MCInit ==
  /\ part \in {"square", "boot"} /\ Init
  /\ IF part = "boot" THEN Net!Init
     ELSE stage = 0 /\ byte = 0 /\ out = 0 /\ mem = 0 /\ reg = 0

MCNext ==
  \/ part = "square" /\ Next /\ UNCHANGED <<part, loader>>
  \/ part = "boot" /\ Net!Next /\ UNCHANGED <<part, vars>>
  \/ part = "boot" /\ (\A n \in FourAndHost : stage[n] = "running") /\ UNCHANGED all

\* Every process that can run is scheduled, on every transputer, and a link
\* carries what is offered.
Process(p) == part = "square" /\ (Take(p) \/ Add(p) \/ Join(p)) /\ UNCHANGED <<part, loader>>
Rounding == part = "square" /\ Report /\ UNCHANGED <<part, loader>>
Loading(n) == part = "boot" /\ Net!Step(n) /\ UNCHANGED <<part, vars>>

MCSpec ==
  /\ MCInit /\ [][MCNext]_all
  /\ WF_all(Rounding) /\ \A p \in Five : WF_all(Process(p))
  /\ \A n \in FourAndHost : WF_all(Loading(n))

-----------------------------------------------------------------------------
\* A round is over for all when it is over for the host, none is in a round that
\* the host has not started, and no value wraps.
RoundsRight == TypeOK /\ RoundsAgree

\* A processor that runs was given its own program, whole and in its place, and
\* enters it where it should; by then each one below it has all that is for it,
\* and until then nothing has been written over its loader.
BootedRight ==
  part = "boot" => Net!TypeOK /\ Net!OwnProgram /\ Net!ChildrenFirst /\ Net!LoaderIntact

\* Every round the host starts ends, unless a process has halted, whichever way
\* the first values of a round reach the square; and the whole tree is booted.
NetworksGoOn ==
  /\ (part = "square" /\ at[Host] = "io") ~> (at[Host] = "print" \/ \E p \in Procs : at[p] = "halted")
  /\ (part = "boot") ~> (part = "boot" /\ \A n \in FourAndHost : stage[n] = "running")
=============================================================================
