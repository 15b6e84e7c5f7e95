------------------------------ MODULE NetLoader ------------------------------
(* The boot of a network of transputers, from LINKBOOT: a bare processor      *)
(* reads a bootstrap from the first link that speaks to it; the primary       *)
(* bootstrap reads the secondary, the secondary reads the loader, and the     *)
(* loader (LOADER.OCC) obeys the commands on its boot link.  It keeps part    *)
(* of what comes and passes the rest on to the processors below, which it     *)
(* boots in the same way.  After execute the secondary reads the last packets *)
(* and enters the program.  Bytes are numbers below 256; links have no        *)
(* buffer, so that a byte is passed when its receiver waits for it.           *)
EXTENDS Integers, Sequences, SequencesExt, LoaderBytes

CONSTANTS
  Nodes,         \* the processors, and Host
  Host,          \* the host computer, whose link 0 leads to the first processor
  Null,          \* no processor, no byte
  Down,          \* Down[n][i]: the processor that link i of n boots, or Null
  Stream,        \* the bytes of the host's boot file
  Loader,        \* what the host sends as the loader
  Program,       \* Program[n]: what it writes for n, a function from addresses to bytes
  EntryPoint,    \* where it has n enter it
  PacketLength,  \* PACKET_LENGTH: the buffer below the loader
  TwoKay,        \* where MEMORY.SIZE starts to clear
  MemTop         \* bound: memory ends here

Processors == Nodes \ {Host}
Links == 0..3

\* What the constants are; the module that gives them assumes it.
NetLoaderConstants ==
  /\ Host \in Nodes /\ Null \notin Nodes
  /\ Down \in [Nodes -> [Links -> Nodes \cup {Null}]]
  /\ Stream \in Seq(0..255) /\ Loader \in Seq(0..255)
  /\ PacketLength \in Nat /\ TwoKay \in Nat /\ MemTop \in Nat

VARIABLES
  stage,  \* stage[n]: what reads the boot link of n, and where in it
  got,    \* got[n]: the byte it has just read
  out,    \* out[n]: what it has to send before it reads again: <link, byte>
  mem,    \* mem[n]: the memory, addresses from the start of Memory
  reg     \* reg[n]: the variables of the bootstraps and the loader

vars == <<stage, got, out, mem, reg>>

Valued == {Address, DataPosition, CodeAddress, DataAddress, EntryPosition, MemorySize}
Tag(b) == b \div 64
Operand(b) == b % 64

Registers == [loading |-> FALSE, links |-> {}, output |-> 0, last |-> 0, next |-> 0, entry |-> 0, data |-> 0,
              bootdepth |-> 0, depth |-> 0, op |-> 0, value |-> 0, size |-> 0, from |-> 0, at |-> 0, left |-> 0, loaded |-> FALSE]

Init ==
  /\ stage = [n \in Nodes |-> IF n = Host THEN "running" ELSE "reset"]
  /\ got = [n \in Nodes |-> Null]
  /\ out = [n \in Nodes |-> IF n = Host THEN [k \in 1..Len(Stream) |-> <<0, Stream[k]>>] ELSE <<>>]
  /\ mem = [n \in Nodes |-> [a \in 0..MemTop |-> 0]]
  /\ reg = [n \in Nodes |-> Registers]

\* A byte goes down a link.  A processor that runs its program no longer listens.
Communicate(n) ==
  /\ out[n] # <<>>
  /\ LET c == Down[n][Head(out[n])[1]] IN
     /\ c # Null /\ stage[c] # "running" /\ got[c] = Null /\ out[c] = <<>>
     /\ got' = [got EXCEPT ![c] = Head(out[n])[2]]
     /\ out' = [out EXCEPT ![n] = Tail(@)]
     /\ UNCHANGED <<stage, mem, reg>>

\* n has read a byte in stage s; it goes on in stage t with registers r.
In(n, s) == stage[n] = s /\ got[n] # Null
Goto(n, t, r) ==
  /\ got' = [got EXCEPT ![n] = Null]
  /\ stage' = [stage EXCEPT ![n] = t]
  /\ reg' = [reg EXCEPT ![n] = r]
Silently == UNCHANGED <<mem, out>>

\* A transfer of size bytes into the memory from address a, a byte at a time:
\* after the last byte n goes on in stage t.
Transfer(r, a, size) == [r EXCEPT !.from = a, !.at = a, !.left = size]
Moved(r) == [r EXCEPT !.at = @ + 1, !.left = @ - 1]
Store(n) == mem' = [mem EXCEPT ![n][reg[n].at] = got[n]]
LastByte(n) == reg[n].left = 1
Count(n, s, t, r) == In(n, s) /\ IF LastByte(n) THEN Goto(n, t, r) ELSE Goto(n, s, Moved(reg[n]))

\* The processor's own boot from a link, and the primary bootstrap, which
\* reads the secondary over itself.  Neither is in the memory that is modelled.
Reset(n) == In(n, "reset") /\ Goto(n, "image", Transfer(reg[n], 0, got[n])) /\ Silently
Image(n) == Count(n, "image", "length", reg[n]) /\ Silently
Length(n) == In(n, "length") /\ Goto(n, "secondary", Transfer(reg[n], 0, got[n])) /\ Silently
Secondary(n) == Count(n, "secondary", "packet", Transfer(reg[n], PacketLength, 0)) /\ Silently

\* The secondary bootstrap: packets, one after the other in memory, and the
\* empty one.  Then it enters the loader, and the second time the program.  The
\* loader does not set links.to.load: it starts with what the stack holds.
Packet(n) == In(n, "packet") /\ got[n] > 0 /\ Goto(n, "code", [reg[n] EXCEPT !.left = got[n]]) /\ Silently
Code(n) == Count(n, "code", "packet", Moved(reg[n])) /\ Store(n) /\ UNCHANGED out
EnterLoader(n) ==
  /\ In(n, "packet") /\ got[n] = 0 /\ ~reg[n].loaded
  /\ \E g \in {{}, Links} : Goto(n, "command", [Registers EXCEPT !.links = g])
  /\ Silently
EnterProgram(n) == In(n, "packet") /\ got[n] = 0 /\ reg[n].loaded /\ Goto(n, "running", reg[n]) /\ Silently

\* The loader sends bytes to every open link, in the order of the links.
Send(n, links, bytes) ==
  out' = [out EXCEPT ![n] = @ \o FlattenSeq([i \in 1..4 |->
            IF i - 1 \in links THEN [k \in 1..Len(bytes) |-> <<i - 1, bytes[k]>>] ELSE <<>>])]
Obey(n, c) == In(n, "command") /\ got[n] = c
Silent(n, t, r) == Goto(n, t, r) /\ Silently

\* message: to the buffer, or when loading to where the last one ended, and on
\* to the open links with its length before it.
NoBump(r, size) == r    \* mutant: the address is not bumped
Bump(r, size) == [r EXCEPT !.last = @ + size]
MessageRegisters(r, size) ==
  IF r.loading THEN Transfer(Bump(r, size), r.last, size) ELSE Transfer(r, 0, size)
Message(n) ==
  /\ In(n, "command") /\ Tag(got[n]) = 0
  /\ LET r == [MessageRegisters(reg[n], got[n]) EXCEPT !.size = got[n]] IN
     IF got[n] > 0
     THEN Silent(n, "body", r)
     ELSE Goto(n, "command", r) /\ Send(n, r.links, <<0>>) /\ UNCHANGED mem
Contents(n, from, size) == [k \in 1..size |-> mem'[n][from + k - 1]]
Body(n) ==
  /\ Count(n, "body", "command", Moved(reg[n])) /\ Store(n)
  /\ IF LastByte(n)
     THEN Send(n, reg[n].links, <<reg[n].size>> \o Contents(n, reg[n].from, reg[n].size))
     ELSE UNCHANGED out

\* number: the link is the output from now on, and one of those to load.
Opened(r, i) == [r EXCEPT !.output = i, !.links = @ \cup {i}]
Number(n) == In(n, "command") /\ Tag(got[n]) \in {1, 3} /\ Silent(n, "command", Opened(reg[n], Operand(got[n])))

Closed(r) == [r EXCEPT !.loading = FALSE, !.links = {}]
PassOn(n) == Obey(n, Pass) /\ Silent(n, "command", Closed(reg[n]))

\* Any operate command without a case of its own, load among them.
Load(n) ==
  /\ In(n, "command") /\ Tag(got[n]) = 2
  /\ got[n] \notin Valued \cup {Pass, Open, Execute, BootstrapLoad, BootstrapEnd}
  /\ Silent(n, "command", [reg[n] EXCEPT !.loading = TRUE, !.links = {}])

\* open: everything up to the close that belongs to it is for the output link.
OpenLink(n) == Obey(n, Open) /\ Silent(n, "open", [reg[n] EXCEPT !.depth = 1])
Deeper(b, d) == CASE b = Open -> d + 1 [] b = Close -> d - 1 [] OTHER -> d
Enclosed(n) ==
  /\ In(n, "open")
  /\ LET d == Deeper(got[n], reg[n].depth) IN
     /\ Goto(n, IF d = 0 THEN "command" ELSE "open", [reg[n] EXCEPT !.depth = d])
     /\ IF d = 0 THEN UNCHANGED out ELSE Send(n, {reg[n].output}, <<got[n]>>)
  /\ UNCHANGED mem

\* The commands with an address: six bits to a byte, the top ones first.
ValueCommand(n) ==
  In(n, "command") /\ got[n] \in Valued /\ Silent(n, "value", [reg[n] EXCEPT !.op = got[n], !.value = 0])
Encoded(v, b) == v * 64 + Operand(b)
Assigned(r, v) ==
  CASE r.op = Address -> [r EXCEPT !.last = v, !.next = v]
    [] r.op = CodeAddress -> [r EXCEPT !.last = v, !.entry = v]
    [] r.op = DataAddress -> [r EXCEPT !.last = v, !.data = v]
    [] r.op = EntryPosition -> [r EXCEPT !.entry = v]
    [] r.op = DataPosition -> [r EXCEPT !.data = v]
    [] r.op = MemorySize -> r
Cleared(m, size) == [a \in DOMAIN m |-> IF a \in TwoKay..(size - 1) THEN 255 ELSE m[a]]
Value(n) ==
  /\ In(n, "value")
  /\ LET v == Encoded(reg[n].value, got[n]) IN
     IF Tag(got[n]) = 3
     THEN Goto(n, "value", [reg[n] EXCEPT !.value = v]) /\ UNCHANGED mem
     ELSE /\ Goto(n, "command", Assigned(reg[n], v))
          /\ mem' = IF reg[n].op = MemorySize THEN [mem EXCEPT ![n] = Cleared(@, v)] ELSE mem
  /\ UNCHANGED out

\* Bootstrap.load: as many of them as come before the first message say how
\* deep below the processors to boot are.  The one above them joins the messages
\* into one packet; the others pass them on.
StartBootstrap(n) ==
  Obey(n, BootstrapLoad) /\ Silent(n, "boots", [Transfer(reg[n], 0, 0) EXCEPT !.bootdepth = 0])
Deep(n) ==
  /\ In(n, "boots") /\ got[n] >= 63
  /\ Goto(n, "boots", [reg[n] EXCEPT !.bootdepth = @ + 1])
  /\ Send(n, reg[n].links, <<got[n]>>) /\ UNCHANGED mem
FirstPiece(n) ==
  /\ In(n, "boots") /\ got[n] < 63
  /\ Silent(n, IF reg[n].bootdepth > 0 THEN "body" ELSE "piece", [reg[n] EXCEPT !.size = got[n], !.left = got[n]])
Piece(n) == Count(n, "piece", "pieces", Moved(reg[n])) /\ Store(n) /\ UNCHANGED out
NextPiece(n) == In(n, "pieces") /\ got[n] < 63 /\ Silent(n, "piece", [reg[n] EXCEPT !.left = got[n]])
BootstrapLength(r) == r.at
Boot(n) ==
  /\ In(n, "pieces") /\ got[n] >= 63
  /\ Goto(n, "command", reg[n]) /\ UNCHANGED mem
  /\ Send(n, reg[n].links, <<BootstrapLength(reg[n])>> \o Contents(n, 0, BootstrapLength(reg[n])))

\* Bootstrap.end: one for each level, the processor's own left out.
EndsToPass(r) == r.bootdepth
EndBootstrap(n) ==
  /\ Obey(n, BootstrapEnd)
  /\ IF EndsToPass(reg[n]) = 0
     THEN Silent(n, "command", [reg[n] EXCEPT !.bootdepth = 0])
     ELSE Silent(n, "ends", [reg[n] EXCEPT !.left = EndsToPass(reg[n])])
End(n) ==
  /\ In(n, "ends")
  /\ Send(n, reg[n].links, <<got[n]>>) /\ UNCHANGED mem
  /\ IF LastByte(n) THEN Goto(n, "command", [reg[n] EXCEPT !.bootdepth = 0, !.left = 0])
                ELSE Goto(n, "ends", [reg[n] EXCEPT !.left = @ - 1])

\* execute: the loader returns, and the secondary reads more packets.
Return(n) ==
  Obey(n, Execute) /\ Silent(n, "packet", [Transfer(reg[n], reg[n].next, 0) EXCEPT !.loaded = TRUE])

Bootstraps(n) ==
  \/ Reset(n) \/ Image(n) \/ Length(n) \/ Secondary(n)
  \/ Packet(n) \/ Code(n) \/ EnterLoader(n) \/ EnterProgram(n)
LoaderStep(n) ==
  \/ Message(n) \/ Body(n) \/ Number(n) \/ PassOn(n) \/ Load(n) \/ OpenLink(n) \/ Enclosed(n)
  \/ ValueCommand(n) \/ Value(n) \/ StartBootstrap(n) \/ Deep(n) \/ FirstPiece(n) \/ Piece(n)
  \/ NextPiece(n) \/ Boot(n) \/ EndBootstrap(n) \/ End(n) \/ Return(n)

Step(n) == Communicate(n) \/ Bootstraps(n) \/ LoaderStep(n)
Next == \E n \in Nodes : Step(n)
Spec == Init /\ [][Next]_vars
-----------------------------------------------------------------------------
LoaderStages == {"command", "body", "open", "value", "boots", "piece", "pieces", "ends"}
Stages == {"reset", "image", "length", "secondary", "packet", "code", "running"} \cup LoaderStages

\* The type invariant: bytes are bytes, links are links, and no address of a
\* transfer lies outside the memory.
TypeOK ==
  /\ stage \in [Nodes -> Stages]
  /\ got \in [Nodes -> (0..255) \cup {Null}]
  /\ \A n \in Nodes :
       /\ \A k \in DOMAIN out[n] : out[n][k] \in Links \X (0..255)
       /\ mem[n] \in [0..MemTop -> 0..255]
       /\ reg[n].links \subseteq Links /\ reg[n].output \in Links
       /\ stage[n] \in {"code", "body", "piece"} => reg[n].at + reg[n].left <= MemTop + 1

\* The loader stays whole as long as it runs: neither a message, nor a
\* bootstrap that it puts together in its buffer (LOADER.OCC:462), nor the
\* clearing of memory reaches it.
LoaderIntact ==
  \A n \in Processors : stage[n] \in LoaderStages =>
    \A k \in 1..Len(Loader) : mem[n][PacketLength + k - 1] = Loader[k]

\* A processor stops passing on for good only when there is nothing left to
\* pass: by then each one below it has the last byte that is for it.
HasAll(n) == stage[n] = "running" \/ (stage[n] = "packet" /\ got[n] = 0 /\ reg[n].loaded)
ChildrenFirst ==
  \A n \in Processors : stage[n] = "running" =>
    /\ out[n] = <<>>
    /\ \A i \in Links : Down[n][i] # Null => HasAll(Down[n][i])

\* A processor that runs was given its own program, whole and in its place,
\* and enters it where it should.
OwnProgram ==
  \A n \in Processors : stage[n] = "running" =>
    /\ reg[n].entry = EntryPoint
    /\ \A k \in DOMAIN Program[n] : mem[n][k] = Program[n][k]

==============================================================================
