------------------------------- MODULE HostMux -------------------------------
(* HOSTMULT.C: one process between the host and several programs that each    *)
(* believe they talk to the iserver.  It takes one request at a time, from    *)
(* the first program in its list that has one, passes it on and the reply     *)
(* back, and turns its lists so that the program it served is the last.       *)
(* A program's exit goes no further; when all have left it exits itself.      *)
EXTENDS ChannelLists

CONSTANTS
  InputSize, \* the programs
  Statuses,  \* exit statuses other than SPS_SUCCESS
  InOrder    \* TRUE: ProcAltList ends at the first channel that is ready

ASSUME MuxAssumption == InputSize \in Nat \ {0} /\ InOrder \in BOOLEAN

Clients == 1..InputSize   \* client c has Input[c - 1] and Output[c - 1]
Success == "SPS_SUCCESS"

VARIABLES
  ins, outs,   \* Input and Output: lists of clients
  at,          \* where main is
  index,       \* Index
  buffer,      \* Buffer: the sender of the packet in it, and what it is
  left,        \* ExitCount
  status,      \* ExitStatus
  host,        \* the host: "idle", "busy" or "done"
  client,      \* what each program does: "runs", "asks", "waits" or "gone"
  last,        \* its packet is an exit
  ends,        \* the status it exits with
  passed       \* history: packets of others taken while it asks, up to InputSize

vars == <<ins, outs, at, index, buffer, left, status, host, client, last, ends, passed>>
mux == <<ins, outs, at, index, buffer, left, status>>

Init ==
  /\ ins = CreateChannels([c \in Clients |-> c])
  /\ outs = CreateChannels([c \in Clients |-> c])
  /\ at = "alt" /\ index = 1
  /\ buffer = [from |-> Null, exit |-> FALSE]
  /\ left = InputSize /\ status = Success
  /\ host = "idle"
  /\ client = [c \in Clients |-> "runs"]
  /\ last = [c \in Clients |-> FALSE]
  /\ ends \in [Clients -> Statuses \union {Success}]
  /\ passed = [c \in Clients |-> 0]

\* A program (outside HOSTMULT.C) sends a request or its exit.
Ask(c) ==
  /\ client[c] = "runs"
  /\ client' = [client EXCEPT ![c] = "asks"]
  /\ \E exit \in BOOLEAN : last' = [last EXCEPT ![c] = exit]
  /\ passed' = [passed EXCEPT ![c] = 0]
  /\ UNCHANGED <<ends, host>> /\ UNCHANGED mux

Asking == {c \in Clients : client[c] = "asks"}

\* ProcAltList and the two ChanIn.
Receive ==
  /\ at = "alt"
  /\ \E i \in AltEnds(ins, Asking, InOrder) :
       LET c == ins[i] IN
       /\ index' = i
       /\ buffer' = [from |-> c, exit |-> last[c]]
       /\ client' = [client EXCEPT ![c] = "waits"]
       /\ passed' = [d \in Clients |->
                      IF d \in Asking \ {c} /\ passed[d] < InputSize
                      THEN passed[d] + 1 ELSE passed[d]]
       /\ at' = IF last[c] THEN "exit" ELSE "pass"
  /\ UNCHANGED <<ins, outs, left, status, host, last, ends>>

LastStatus(s, e) == e                          \* mutant: forgets a failure
NewStatus(s, e) == IF e # Success THEN e ELSE s  \* Status != SPS_SUCCESS

\* The branch for SP_EXIT_TAG, up to the reply.
TakeExit ==
  /\ at = "exit"
  /\ status' = NewStatus(status, ends[buffer.from])
  /\ left' = left - 1
  /\ at' = "reply"
  /\ UNCHANGED <<ins, outs, index, buffer, host, client, last, ends, passed>>

\* The other branch: the packet to the host, and the host's reply.
PassOn ==
  /\ at = "pass" /\ host = "idle"
  /\ host' = "busy" /\ at' = "host"
  /\ UNCHANGED <<ins, outs, index, buffer, left, status, client, last, ends, passed>>

PassBack ==
  /\ at = "host" /\ host = "busy"
  /\ host' = "idle" /\ at' = "reply"
  /\ UNCHANGED <<ins, outs, index, buffer, left, status, client, last, ends, passed>>

NoTurn == 0                                      \* mutant: lists stay as they are
Turn == IF index = InputSize THEN 0 ELSE index   \* (Index + 1) % InputSize
InputTurn == Turn
NoOutputTurn == 0                                \* mutant: Output is not turned
OutputTurn == Turn

\* The reply, the two RotateChannels and the test of ExitCount.
Reply ==
  /\ at = "reply"
  /\ LET c == outs[index] IN
       /\ client[c] = "waits"
       /\ client' = [client EXCEPT ![c] = IF last[c] THEN "gone" ELSE "runs"]
  /\ ins' = RotateChannels(ins, InputSize, InputTurn)
  /\ outs' = RotateChannels(outs, InputSize, OutputTurn)
  /\ at' = IF left > 0 THEN "alt" ELSE "spexit"
  /\ UNCHANGED <<index, buffer, left, status, host, last, ends, passed>>

\* SpExit: the exit of the whole program.
SpExit ==
  /\ at = "spexit" /\ host = "idle"
  /\ host' = "done" /\ at' = "gone"
  /\ UNCHANGED <<ins, outs, index, buffer, left, status, client, last, ends, passed>>

Gone == at = "gone" /\ UNCHANGED vars

Next == \/ \E c \in Clients : Ask(c)
        \/ Receive \/ TakeExit \/ PassOn \/ PassBack \/ Reply \/ SpExit \/ Gone

Spec == Init /\ [][Next]_vars

-----------------------------------------------------------------------------
TypeOK ==
  /\ \A cs \in {ins, outs} : /\ DOMAIN cs = 1..InputSize + 1 /\ cs[InputSize + 1] = Null
                             /\ \A i \in 1..InputSize : cs[i] \in Clients
  /\ at \in {"alt", "exit", "pass", "host", "reply", "spexit", "gone"}
  /\ index \in Clients /\ left \in 0..InputSize
  /\ buffer \in [from : Clients \union {Null}, exit : BOOLEAN]
  /\ status \in Statuses \union {Success}
  /\ host \in {"idle", "busy", "done"}
  /\ client \in [Clients -> {"runs", "asks", "waits", "gone"}]
  /\ last \in [Clients -> BOOLEAN]
  /\ ends \in [Clients -> Statuses \union {Success}]
  /\ passed \in [Clients -> 0..InputSize]

\* A reply goes to the program whose packet is in the buffer, however often the
\* two lists have been turned (main: Input and Output are turned apart).
RepliesToSender == at = "reply" => outs[index] = buffer.from

\* The host is told of the exit once, when every program has left and been
\* answered; with the status of one that failed, if one did (ExitStatus).
ExitsLast ==
  host = "done" => /\ \A c \in Clients : client[c] = "gone"
                   /\ \/ status = Success /\ \A c \in Clients : ends[c] = Success
                      \/ status # Success /\ \E c \in Clients : ends[c] = status

\* A program that asks waits while each of the others is served once at most
\* (RotateChannels: the one just served is the last).
OvertakenOnce == \A c \in Clients : passed[c] < InputSize

=============================================================================
