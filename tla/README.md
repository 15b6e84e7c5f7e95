# A verification of the INMOS D7314A host software

D7314A is the IBM PC release of the INMOS ANSI C Toolset. Its sources, under
`INSTALL/SOURCE`, hold the programs that connect a host to a network of
transputers. This directory holds TLA+ models of them, the TLC configurations
that check the models, and proofs checked by TLAPS.

In what follows `L` is `INSTALL/SOURCE/ISERVER/LINKOPS/SRC`, `K` is
`INSTALL/SOURCE/ISERVER/LINKIOS/SRC`, `S` is `INSTALL/SOURCE/ISERVER/ISERVER/SRC`
and `B` is `INSTALL/SOURCE/BOOTSTRP`.

## 1. Inventory

| Component | State it keeps | Operations | Interacts with |
|---|---|---|---|
| TCP linkops client, `L/TOPS.C` | protocol state, error detect flag, queue of SP requests, socket | `TOPS_Open` .. `TOPS_Restart` | a remote linkops server over TCP; called by `OPS_*` |
| `OPS_*` interface, `L/LINKOPS.C` | communication mode, error mode, method | `OPS_Open` .. `OPS_Restart` | calls TOPS or LOPS through vectors; called by iserver |
| Local linkops, `L/LOPS.C` | none beyond the link | `LOPS_*` | a link driver, the heartbeat function |
| Connection database, `L/CONLIB.C` | the search in progress: file, position, pass | `CM_InitSearch`, `CM_NextLine`, `CM_Get*`, `CM_EndSearch` | the file named by `ICONDB` |
| Link selection, `L/METLNKIO.C`, `L/LMETHOD.C` | method of the open link | `OpenLink` and a vector for each operation | connection database, link drivers |
| Link drivers, `K/*.C`, `L/TCPLINK.C` | the open link | open, close, read, write, reset, analyse, test | board registers, device drivers, a TCP peer |
| iserver main program and request loop, `S/ISERVER.C`, `SERVE.C`, `BOOT.C`, `MISC.C` | switches, connection, heartbeat function | `server_proper`, `Serve`, `Boot`, `close_server`, `BreakHandler` | `OPS_*`, the SP commands |
| Session shell, `S/SH.C` | stack of command sources, validity of the link, `SafePlace` | the shell's commands | iserver, `OPS_*` |
| Files, `S/FILES.C`, `FILEC.C` | table of open files, last operation of each | `SpOpen` .. `SpSeek` | host files |
| Record files, `S/RECORD.C` | record buffer, dirty flag, end of file | `SpOpenRec`, `SpGetRec`, `SpPutRec`, `SpPutEOF` | host files |
| Host commands, `S/HOSTC.C`, `INFO.C`, `TTYIO.C`, `MSDOSC.C`, `VAXRMS.C` | terminal mode | one SP command each | host operating system |
| Network loader, `B/*/LOADER.OCC` | address, links to load, output link | the commands of the boot stream | parent and child links |
| First stage bootstraps, `B/LINKBOOT`, `B/ROMBOOT` | registers and memory of a bare transputer | | boot link |
| Makefile generator, `INSTALL/SOURCE/IMAKEF` | the graph of targets | derivation, output | linker control files |
| C runtime start-up, function loading, `INSTALL/SOURCE/RUNTIME` | static area, loaded file | entry points | linker, configurer |
| Debugger driver, `INSTALL/SOURCE/DRIVER` | none | builds and runs one command line | iserver |
| Command line, `S/PARSECL.C` | the words, the line for the program, the switches | `ParseCommandLine`, `MakeCommandLine` | the host's arguments, `makeargs` of the shell |
| Example servers, `INSTALL/EXAMPLES/SIMPLE` | the array of channels, the place in it | serve one letter | two workers, by channels |
| Example networks, `INSTALL/EXAMPLES/ICCONF/C-CFS` | two arrays of channels that turn, a value or a packet | `HostMult`: one packet of one program; `MultPass`, `HostPass`: one round | the host, other processes, by channels |
| Other examples, libraries | | | |

iserver is a loop: `OPS_GetRequest` waits for an SP request of the program on the
transputer, the SP command carries it out on the host, `OPS_SendReply` answers.
Below it are two implementations of the same interface: LOPS drives a link on
this machine, TOPS speaks the linkops protocol to a server that owns the link.

### What is hard, and what makes each part correct

* **TOPS.** One stream carries replies (to synchronous commands), requests of the
  target, error transitions, keepalives and fatal messages. The client reads it
  in five loops, each with its own opinion about which messages may come. The
  server acts on a command later than the client sends it. Any call can end with
  an error in the middle, and a break (SIGINT) can end it between two reads.
  Correct means: no reply is taken for another's; requests are handed over once
  and in order, or their loss is reported; the queue is bounded; the mode known
  to `OPS_*`, the state of TOPS and the mode of the server agree; a closed
  connection leaves nothing behind; calls return.
* **LOPS and link drivers.** Timeouts in ticks of a 16-bit clock, reads that come
  back short, a heartbeat function that is called back in the middle. Correct
  means: a packet is whole or an error; a wait lasts as long as it was told to.
* **Connection database, link selection.** A search is a session that must be
  ended on every path out of `OpenLink` and `OPS_Open`; passes over the file
  must try each candidate once.
* **iserver and shell.** Non-local exits through `SafePlace`, retries of `open`,
  a connection that must be closed exactly once.
* **Files and records.** A table with 128 slots; a seek between a read and a
  write; a record buffer that must be written before it is reused.
* **Network loader.** Commands pass down a tree of processors, each of which
  keeps its part; each must start after it has passed on all the rest.
* **Command line.** The words are joined, split, joined and split again by rules of
  quotes and blanks that have to agree; options and their parameters are taken out
  by position. Correct means: what is not the server's reaches the program.
* **Example servers and networks.** No channel is starved by a busy one, replies go
  to whom they belong, and processes that read and write channels without buffers
  do not wait for each other in a ring.
* **Makefile generator.** A graph of files, made by a recursion over references that
  users write, with one cursor per list. Correct means: the makefile names all that
  a target is made from, a cycle is reported, and the program ends.

`PROJECT.json` lists the hazards one by one with their lines.

## 2. Plan

1. `Tops`, `RequestStream`, `TopsPipe`, `TopsProofs`: the protocol client. *Done.*
2. `Socket`: the loops around `send` and `recv`. *Done.*
3. `Conlib`, `LinkSelect`: the search session and the paths through `OpenLink` and
   `OPS_Open`. *Done.*
4. `Lops`, `LopsMemory`, `LinkDriver`, `B004Timer`, `TcpLink`: the local operations and
   every driver below them. *Done.*
5. `Iserver`, `CommandLine`: the main program, the request loop, the shell, the words
   of a command line. *Done.*
6. `FileTable`, `Records`: the files of the iserver. *Done.*
7. `NetLoader` with `LoaderBytes` and `BootFile`: booting a tree. *Done.*
8. `HostMux`, `FairServer`, `PassNet`, `ChannelLists`: the examples that are concurrent
   programs. *Done*, with `HostMuxProofs`, `FairServerProofs` and `PassNetProofs`.
9. `ImakefDerive`, `Imakef`: the makefile generator. *Done.*

Theorems, in this order: the pipeline of `Tops` and the refinement of `RequestStream`
(`TopsPipe`, `TopsProofs`); the search of `LinkSelect` (`LinkSelectProofs`); the
multiplexer and the fair server, alone and together (`HostMuxProofs`,
`FairServerProofs`); the shell and the request loop (`IserverProofs`,
`MCIserverProofs`); the rounds of `PassNet` (`PassNetProofs`); the packets of `Lops`, the boards
of `LinkDriver`, the waits of `B004Timer`, the words of `LopsMemory` and the streams of
`TcpLink` and `Socket` (`LinksProofs`); the table of `FileTable` (`MCIserverProofs`). *Done.*

## 3. What is modelled

| Module | Code | State | One step is |
|---|---|---|---|
| `Tops` | `L/TOPS.C`, the modes of `L/LINKOPS.C` | see below | a message read by one of the loops |
| `RequestStream` | (what the application is promised) | requests on the way, the last handed over | a request sent, lost or handed over |
| `Socket` | `DoSocketWrite`, `DoSocketRead`, `DoTimedSocketRead` | both streams byte by byte, the running call | one `send` or `recv` |
| `Conlib` | `L/CONLIB.C` | the file, the line reached, the pass | `CM_DoSearch` up to the next record that fits |
| `LinkSelect` | `OPS_Open`, `OPS_Close`, `LOPS_Open`, `L/METLNKIO.C`, `L/LMETHOD.C` | method and mode of `OPS_*`, method of the link, the search | one record found and tried |
| `Lops` | `L/LOPS.C` | mode, error mode, heartbeat, the buffer of the running call, the link | one call of a driver |
| `LopsMemory` | `LOPS_Poke16` .. `LOPS_Peek32` | the target's memory, answers that came late | one word |
| `LinkDriver` | `K/*.C` | handles, timeouts, file position, error and reset lines | one call, or one register or byte where the program does the work |
| `B004Timer` | `K/B004LINK.C`, `timenow` to `waitfor` | the timer's word, the deadline | one tick, one poll |
| `TcpLink` | `L/TCPLINK.C` | protocol state, `LinkIsOpen`, sockets, messages on their way | one message |
| `Records` | `S/RECORD.C`, record part of `SpSeek` | the cells of a file, the record buffer, read-ahead, turn | one call of the program |
| `FileTable` | `S/FILES.C`, `S/FILEC.C`, checks of `S/RECORD.C` | `FileInfo`, the host's streams | one call of the program |
| `Iserver` | `S/ISERVER.C`, `SERVE.C`, `BOOT.C`, `MISC.C`, `SH.C`, parts of `HOSTC.C`, `TTYIO.C` | switches, `LinkValid`, `SafePlace`, `ShIn`, heartbeat, terminal | the code between two calls of `OPS_*` or of the terminal |
| `CommandLine` | `S/PARSECL.C`, `makeargs` of `S/SH.C` | `RealCommandLine`, `FullArgv`, the words taken, the line for the program | one pass over the words, one option |
| `HostMux` | `HOSTMULT.C` | the turned lists, the packet, who waits, who has left | one packet in or out |
| `FairServer` | `FAIRSERV.C`, `UPSERVE.C` | the place in the array, what each worker does | one letter in or out |
| `ChannelLists` | the procedures on arrays of channels in the three programs above and below | | (operators) |
| `PassNet` | `MULTPASS.C`, `HOSTPASS.C` | the lists, the value, how far a round has come | one value over a channel |
| `NetLoader`, `LoaderBytes`, `BootFile` | `B/LINKBOOT/NETWORK/LOADER.OCC`, the reads of the primary and secondary bootstraps | for each processor its stage, memory and registers | one byte over a link |
| `ImakefDerive`, `Imakef` | `IMAKEF/*.C` | the lists of files and their links, the stack of `build_tree`, the rules | one call of `build_tree`, one sweep, one file written |

`MCTops` and `MCLinkSelect` give constants to one module. `MCLinks`, `MCIserver` with `MCFiles` (which
extends it by the record files, since nothing is proved of those),
`MCMux`, `MCNetworks` and `MCImakef` put parts that one caller sees side by side: a
behaviour is of the part that `part` names and the variables of the others are 0. This
checks each part whole, with as many choices of its constants as its hazards need;
it does not claim that the parts run at the same time, which they do not.

Where components interact, the interaction is in one module: `Tops` and `Lops` have the
mode checks of `OPS_*` in front of them, `LinkSelect` is the loop of `OPS_Open` around
that of `OpenLink` over one search of `Conlib`, `NetLoader` has the host, the bootstraps
and the loaders of a whole tree.

### `Tops`: the TCP client of the linkops protocol

*State.* `proto`, `errordetect` and `queue` are `TOPSprotocolstate`,
`TOPSerrordetect` and the list of `SPBuffer`; `commsmode` and `errormode` are
`OPScommsmode` and `OPSerrorflagmode`. The program counter of the running call is
`pc` (which loop) and `op` (which call), with the locals that matter: `left`
(fragments of a transfer) and `hb` (`do_heartbeat`). `status` is what the last call
returned; it is `NOERROR` while a call runs. `conn`, `c2s` and `s2c` are the TCP
connection, `srv` and `srvdetect` the mode of the remote server, `sent` and `last`
number the requests of the target and remember the last one handed over. `early`
records that a `CommsSynchronous` returned before its reply came; it is the only
variable that nothing in the program or the network corresponds to, and no
action reads it.

*Steps.* A call starts with an action named after it (`TOPS_Open`,
`TOPS_CommsSynchronous`, ...) that goes as far as its first write. Each message it
then reads is one action, named for the loop and the message: `Sync*` for
`GetSyncResponse`, `CommsSync*` for `GetCommsSynchronousReply`, `Async*`,
`QueueRequest`, `DeliverRequest` and `BadRequest` for `GetAsyncRequest`, `Wait*` for
`WaitForReply`. The server, the target and the network move between any two of
them. Calls the mode or the state forbids are the action `Refuse`.

*Messages* have a tag, a form and, for a request, its number. The form stands for
the field the loop looks at: `bad` is a reply with an error status, a fatal
message, an error transition whose flag is set, a request whose status is an
error; `cut` is a message of which the header came but the connection was lost
before the body. A header that is read without its body leaves `Junk` in the
stream: bytes that the next loop takes for a header. Junk is passed over or ends
the call, as the loops do with a tag they do not know or a size they do not
like. It is never taken for a tag they do know: the model does not choose what
the bytes of a packet are.

*Breaks.* `BreakHandler` leaves a call between two reads, or between the header and
the body of a message, as a `longjmp` out of the signal handler does; afterwards
the shell restarts the connection or the program closes it. A break in the
middle of a write is not modelled.

*External.* The remote server is not part of the sources. Its actions, `Srv*`, do
what the client's code lets one conclude of it: it obeys commands in the order
they were sent, answers each in kind, refuses one that its mode does not allow
with a fatal message, and in asynchronous mode sends requests and, if told to
detect errors, error transitions. It may send a keepalive or a fatal message at
any time, and the connection may be lost at any time with any part of what is
in flight.

*Abstracted.* Addresses, sizes, texts and the contents of packets; the search for a
resource that precedes `TOPS_Open`; sends that are cut short (see `Socket`). A timeout
may expire whenever the code waits with one, even if a message is in flight. A
select may fail wherever the failure is told to the caller.

### Notes on the others

* `RequestStream`: requests are handed over at most once, in the order they were sent;
  some may be lost. `Tops` implements it with `held` mapped to the requests that are in
  the queue or in the stream.
* `Conlib` keeps of a record what decides something, and how it is written: well-formed,
  continued on the next line, damaged, cut off by the end of the file.
* `Lops` counts and numbers the bytes of a packet, so that a packet with a byte of
  another is seen. The target sends a packet and waits for its reply. A read may
  time out in the middle of a packet where `Slow` is set.
* `LinkDriver` has eight boards, one chosen at the start. A device driver of the host
  moves any part of what it is asked to; a board that is polled has a step for
  each byte. What a register write does to the transputer is in `target`. The B011 has two
  things open, its lock (`handles`) and the descriptor of `VME_DEVICE` (`vme`). The
  descriptor is a local variable of `MapBoard`, which closes it if the mapping fails and in no
  other case: `vme` counts them, and a close does not lower it.
* `TcpLink` has `sockets`, all that are open, and `leaked`, those of opens that returned
  without a close (`OpenLeaks`).
* `Socket` numbers the bytes of the call's buffer from 1; what lies in memory before and
  behind that buffer is 0, so that it is seen when `send` is given too much.
* `Records` has cells for bytes, line ends and length words; `recs` and `at` are what
  the program has a right to believe. `Uses` (as in `FileTable`) names the unusual calls
  a program may make: with an empty `Uses` a program does nothing that the code is
  known to answer wrongly, and each name lets one such call in. A record is put in chunks
  at their offsets (`given` is what the program has put so far), in order or again, and a
  chunk that does not fit is refused. `cut` says that a file was truncated behind a read-ahead;
  what the program may believe of its end is then no more known.
* `Iserver` is the caller of `OPS_*`, which succeeds or fails as it likes within its
  modes. A break may come at every `pc` in `BreakAt`. Where the code changes two things that
  belong together, it takes two steps: the terminal and `TermMode` (in `GetAKey`, `PollKey` and
  the `PollKey` of `DoHeartBeat`), the connection and `LinkValid`, the counter `ShInNo` and the file
  of a source, in `dosource` as at the end of a script.
* `NetLoader` passes single bytes below 256. Its memory is small: the entry point,
  the length of a packet and the end of memory are constants.
* `Imakef` takes projects whose files are sequences of references and other lines; the
  files a makefile would make are never there. `Endless` are the projects for which
  `build_tree` calls itself for ever: a cycle of files that a second target of another kind
  refers to. They end in `nomemory`, as in `Memory_Error`.

## 4. What the runs check

| Run | Question | Result |
|---|---|---|
| `sync` (`TopsSync.cfg`) | With block transfers of up to two fragments and two commands in flight, do the three records of the mode agree, is a reply ever met that panics the client, is a closed client clean? | holds, 1.8 million states |
| `async` (`TopsAsync.cfg`) | Are three requests, drained and read in every order through a queue of depth one, bounded in number, in order, never duplicated, never lost without an error? | holds, 1.3 million states |
| `break` (`TopsBreak.cfg`) | With breaks anywhere, can an old reply be owed to a new command, or a reply be awaited that will never come; does every call return? | holds, 450 thousand states |
| `early` (`TopsEarly.cfg`) | Does `GetCommsSynchronousReply` ignore error transitions, as its comment says? | no |
| `linkops` (`LinkOps.cfg`) | Is each record that fits tried once, local ones first; is the interface as it was after an open that fails; does an open end? | holds, 89 thousand states |
| `link_nodriver` (`LinkNoDriver.cfg`) | Is the search over when `OpenLink` returns, as `CM_InitSearch` requires? | no |
| `links` (`Links.cfg`) | Packets, replies and boot code of `Lops`; handles, timeouts, positions and pulses of the boards; waits of the B004; words; the TCP driver; the socket loops | holds, 730 thousand states |
| `iserver` (`Iserver.cfg`) | Are `OPS_*` called in the right mode, do jumps to `SafePlace` land in a shell that is right, is every request answered; does the program get its words; is every open file in the table, closed once, with turns the host allows; do record files hold and give what the program put, chunk by chunk? | holds, 470 thousand states |
| `mux` (`Mux.cfg`) | Do replies find their way, is nobody overtaken twice or never answered, is the host told once of the end? | holds, 120 thousand states |
| `networks` (`Networks.cfg`) | Do the rounds of a square stay apart and end; does a tree boot, every processor with its own program? | holds, 19 thousand states |
| `imakef` (`Imakef.cfg`) | Is the makefile complete and its commands right; are cycles found; does imakef end, by memory running out only where it must? | holds, 266 thousand states |
| `imakef_cycle` (`ImakefCycle.cfg`) | Does `build_tree` come back from every call, so that `check_tree` sees the completed tree? | no |

The properties of `Tops`, in words (those of the other runs are stated above each
definition in the `MC` modules and in the modules they name):

* `ModeAgreement`: the mode of `OPS_*` and the state of TOPS never contradict each
  other. `CommandInMode`: nor does the server's mode contradict a command that
  reaches it. `DetectAgreement`: nor do the two copies of the error mode.
* `NoPanic`, `NoReplyOwed`, `ReplyComes`: a synchronous loop meets only its own reply
  and messages; between calls no reply is outstanding; a reply that is waited for
  is on its way.
* `NoPanic`, `NoReplyOwed`, `CommandInMode` and `DetectAgreement` make an exception for a
  connection whose `CommsSynchronous` was ended by an error transition, until it is
  restarted or closed: run `early` shows how it comes about. Without the exception
  the late reply is met by the next command, which panics.
* `QueueBound`, `LossIsReported`, `StreamOfRequests`: the queue of requests; the last is
  the refinement of `RequestStream`.
* `ClosedIsClean`: the end of a connection. `TypeOK`: the type invariant. `CallsReturn`:
  every call but `GetRequest` and `SendReply` ends.

### Disagreements between the code and its comments

Three are runs of their own.

* **An error transition is not ignored** (`early`). It ends `OPS_CommsSynchronous` with
  `TARGET_ERROR` while the reply is still in the stream (TOPS.C:993, 1815).
  `server_proper` takes that status for success, and the next command that waits
  for a reply fails with "didnt get wanted tag - panic!".
* **`OpenLink` leaves its search open** (`link_nodriver`) when a record names a method the
  build lacks (METLNKIO.C:593): the next search is refused as already initialised.
* **`build_tree` without an end** (`imakef_cycle`). With two targets of different kinds and a source that
  includes itself, `find_file_t` returns the entry of the first kind for ever, and each call for the
  second adds the file and calls itself (MAIN.C:158). With one target the same source is
  reported as a cycle, which is what `check_tree` is for (MAIN.C:191).

The others are formulas of the modules that no run checks, because they do not hold.
The table names the formula, what shows it, and the line. A reader can give any of
them to TLC with the constants named.

| Where | The code | The text it contradicts | Formula and constants |
|---|---|---|---|
| TOPS.C:855 | queues one request more than `buffer_depth` | TOPS.C:188 | `Tops!QueueWithinDepth`, `MaxRequests = 2` |
| SH.C:131 | a break during `OPS_Open` leaves the state `OpenCheck`, and nothing can be opened any more | TOPS.C:1206 | `Tops!ClosedIsClean`, `CanBreak = TRUE` |
| TOPS.C:860 | links a request into the queue before its body is read, and leaves it there when that fails | TOPS.C:714 | `Tops!WholeDelivered` |
| TOPS.C:231 | moves its buffer on after a short send and asks for all of `to_write` again, so that bytes which lie behind the buffer go out; after `ENOBUFS` goes back a byte | TOPS.C:218, 243 | `Socket!WritesExactly`, `ShortSends` or `NoBuffers` `TRUE` |
| TOPS.C:456 | a timed read of which a part has come fails | TOPS.C:292 | `Socket!FailsOnlyLost` |
| CONLIB.C:1066 | with `ICONDB` unset, fails with the search begun | CONLIB.C:977 | `LinkSelect!SearchEnded`, `Environments <- AllEnvironments` |
| CONLIB.C:761 | calls a good record corrupt that follows a continued description | CONLIB.C:561 | `LinkSelect!CorruptOnly`, `Continued` in `Entries` |
| B004LINK.C:64, 72 | a deadline that wraps ends a wait at once, or never | LOPS.C:52 | `B004Timer!NeverEarly`, `NeverLate`, `FarFromWrap = FALSE` |
| LOPS.C:230 | a second fragment of boot code is the first again | LOPS.C:219 | `Lops!BootComplete`, a code longer than `Frag` |
| LOPS.C:314 | with `BIG_ENDIAN`, 16 bit addresses are the sign only | LOPS.C:312 | `LopsMemory!PokeLands`, `BigEndian = TRUE` |
| TCPLINK.C:371 | an error passes through an unsigned char and becomes a count | TCPLINK.C:292 | `TcpLink!ResultHonest`, `Loses = TRUE` |
| TCPLINK.C:1163 | a write that moves nothing is repeated for ever | TCPLINK.C:1152 | `TcpLink!WriteReturns` (fair steps) |
| RECORD.C:669 | a backspace at the start reads the whole file | RECORD.C:647 | `Records!Positioned`, `Uses = {"start"}` |
| RECORD.C:597 | a seek leaves a part of a record to be written with length -1 | RECORD.C:596 | `Records!FileHolds`, `Uses = {"dirty"}` |
| RECORD.C:474 | a direct file whose end was read has no more records, wherever it is sought | FILES.H:54 | `Records!ReadsRecord`, `Uses = {"eof"}` |
| RECORD.C:859 | takes an old byte for data when nothing was read ahead | RECORD.C:832 | `Records!ReadsRecord`, `Uses = {"stale"}` |
| RECORD.C:414 | accepts a line one byte too long | RECORD.C:459 | `Records!RecordFits`, a line of `Mrs + 1` |
| FILEC.C:82 | leaves a file open that no slot is free for | FILES.H:8 | `FileTable!AllListed`, `HostFiles` larger than the free slots |
| RECORD.C:214 | works on the slot behind the table | FILES.H:8 | `FileTable!OnlyOpen`, `Uses = {"outside"}` |
| SH.C:370 | the next program clears the table of files left open | FILES.H:49 | `FileTable!NothingLost`, `Uses = {"leave"}` |
| FILES.C:72 | the predefined slots keep the last operation of the program before | SH.C:364 | `FileTable!FreshStart`, `Uses = {"reuse"}` |
| FILES.C:33 | closes a stream again that `freopen` has closed | MISC.C:34 | `FileTable!ClosedOnce`, `Shell = TRUE`, two programs |
| SH.C:152 | a break between `fclose` and `ShInNo--` at the end of a script leaves a closed file on top of the stack, which the shell reads and closes again; one in `dosource` between `ShInNo++` and `fopen` (SH.C:496) or after it failed (SH.C:498), the file of an earlier script, none or `NULL` | SH.C:148 | `Iserver!ReadsOpenSource`, `BreakAt` with `popping`, `sourcing` or `unsourcing` |
| SH.C:457 | a break between `OPS_Open` and `LinkValid = 1` | SH.C:322 | `Iserver!LinkValidTrue`, `BreakAt` with `opened` |
| PARSECL.C:81 | the first program of the shell ends the retries | ISERVER.C:125 | `Iserver!RetriesAsTold` |
| ISERVER.C:209 | a later program dumps more core than was allocated | ISERVER.C:122 | `Iserver!CoreFits`, programs of two sizes |
| MISC.C:38 | a break during the close closes again | ISERVER.C:229 | `Iserver!ClosedOnce`, `BreakAt` with `inclose` |
| SH.C:108 | exits with the connection open | ISERVER.C:233 | `Iserver!ClosedAtEnd`, `TtyOpens = FALSE` |
| HOSTPASS.C:63 | halts on a sum of `LONG_MAX`, which fits | MULTPASS.C:104 | `PassNet!HaltsOnOverflow`, a ring with `LongMax = 127` |
| SH.C:203 | takes a line that is one too long for its buffer | PARSECL.C:103 | `CommandLine!LongIsRefused`, `MaxString` below `MaxLine` |
| SH.C:215 | scans past the end of a line that ends in a blank | SH.C:214 | `CommandLine!FoundInTheLine`, `Typed = TRUE` |
| MAIN.C:158 | adds a file again for the second target each time it is referenced | MAIN.C:156 | `Imakef!EntryPerTarget` |
| MAIN.C:199 | looks for cycles only | MAIN.C:192 | `Imakef!NoScInLibrary` |
| DERIVE.C:319 | keeps a `#USE` of a source as a compiled file | DERIVE.C:320 | `Imakef!SourcesKept` |
| DERIVE.C:1831 | puts a `.btl` beside its `.cfb` of the last make | PROCS.C:1192 | `Imakef!MadeBesideSource` |
| OUTPUT.C:1048 | writes the batch file of the first target only | MAIN.C:566 | `Imakef!BatchComplete` |
| MAIN.C:723 | reads the type of an entry that is not there | MAIN.C:724 | `Imakef!NeverNull` |

The passing runs choose their constants so that these cases stay out, and check all
the rest of the same formulas.

Four more things the code does are in the passing runs, as exceptions of their properties, since
no text of the sources says otherwise:

* a B011 never gives back the descriptor of `VME_DEVICE`: not when it is closed (B011LINK.C:185-198), nor when
  its open fails for lack of memory, by a bus error or at `setreuid` (B011LINK.C:126-131, 141-178). `HandleAgrees`
  is about the lock of a B011, and says that no other board has such a descriptor;
* `TCPOpenLink` leaves its socket open when `setsockopt` (TCPLINK.C:673-680) or `getservbyname`
  (TCPLINK.C:719-722) fails. `OneSocket` counts them apart, and allows no other;
* `SpPutEOF` (RECORD.C:797) cuts at the host's position, without the correction `form_seq_seek` makes for what
  was read ahead (RECORD.C:600-606). `FileHolds` says of such a file that what was to be kept is kept;
* a word that `LOPS_Peek32` gave up waiting for (LOPS.C:483) comes as the answer of the next peek.
  `PeekTells` speaks of the peeks up to the first call that fails.

A break between making the terminal raw and recording it (TTYIO.C:144, 209, the latter also from
HOSTC.C:86) leaves it raw, since `ResetTerminal` (SH.C:132) does nothing then: `Iserver!TerminalRestored`,
`BreakAt` with `rawget`, `rawpoll` or `rawbeat`. It is not in the passing run.

Of `Records`, `Uses` keeps out what is listed above, and also: a close with a record put in part
(`partial`), reading a chunk from behind the end of its record, before any record
was read, or with the read of its record at an offset (`chunk`), and a put after one that was refused with another length (`refused`). The code answers
these, but not with anything a program could rely on.

### Bounds

Each is a constant; what it bounds is named in the module that declares it.

*Tops.*

* `BufferDepth = 1` is what the shell and iserver use; depth one with three requests
  has the queue empty, at its depth, over its depth, and refusing. The theorems
  have no such bound.
* `MaxRequests`, the requests of a run: three where order and overflow are at stake,
  one elsewhere.
* `MaxFragments = 2` in `sync`: the first, a middle and the last pass of the loop of a
  transfer.
* `Transfers`: one of each kind that differs in control: a boot (which goes on to
  test the error flag), a poke (which does not record that a reply is owed), a
  peek. `Poke16` and `Peek16` have the control of `Poke32` and `Peek32`.
* `SendBuffer`: commands on the way before a write blocks. Two in `sync`, so that a
  mode change and the command after it are both in flight.
* `RecvBuffer`: the server sends no event while this many messages are unread. It
  bounds events only: a reply is never held back. Two in `async`, so that a request
  can stand behind another or behind something else.
* `CanBreak`: breaks are on in `break`. In `sync` they are off, since `ClosedIsClean`
  does not hold with them; `ModeAgreement` is proved with them.

*The others.*

* `linkops`: three records, of two resources, local and remote, working or not, well
  or badly written. Three are what it takes for a record to be tried in the first
  pass, another in the second, and one to be passed over in between.
* `links`: packets of a header of three bytes and a body of at most two, so that
  each of the three reads of a packet can end in its middle; fragments of three
  bytes. Timers of six bits, with waits of one and three tenths of a second, that
  wrap several times. Bytes of two values and words of two, which already tell a
  swapped address from a right one. Transfers of five bytes in fragments of two. `MaxVme` is the
  descriptors a B011 leaves, `MaxLeaked` the sockets of failed opens: two and one, so that
  an open, and another one, follows a leak.
* Record files in `iserver`: records of at most three bytes and a read-ahead of three, so that records lie
  across the end of the buffer. Chunks of every length at every offset. `MaxCells` bounds a file: three records or more.
* `iserver`: two and three sources on the stack; every kind of command line; all places
  for breaks but nine. At `rawget`, `rawpoll`, `rawbeat` (between making the terminal raw and
  recording it), `reclosed`, `opened`, `inclose`, `sourcing`, `unsourcing` and `popping` (between the file
  of a source and the counter) a break does the harm that the table and the text
  above show, and nothing else could be checked after it. Lines of up to four words
  of twelve kinds. Two tables of four slots, of which three are the predefined ones:
  one file of a program at a time, and two programs in the shell. `TableIsRight` and
  `TurnsAreTheHosts` are for every size.
* `mux`: three programs, the smallest number with which one can be overtaken by two.
  The words of the workers have seven and six letters, as in the program.
* `networks`: four processes with four neighbours each, and the host; rounds are
  counted modulo three, which tells a process one round behind from one ahead;
  `LONG_MAX` is small, so that processes halt. A tree with a processor that has two
  below it, and one that is two links away from the root; its boot file uses every
  command of the loader.
* `imakef`: two lines in each source, three files and a library with any references
  among them, one to three targets. `MaxFiles` stands for the memory of the host. A project that is not `Endless` never
  reaches it, and one that is always does: `CyclesFound` says both.

Deadlock is checked in every run but `iserver`, where programs rightly end.

### Fairness

Each specification states no more than the scheduling of its program.

* `break`: weak fairness of the steps of a running call, which is a loop that nothing
  suspends, and weak fairness of the server reading the commands it was sent,
  without which no remote call could promise anything. Nothing is assumed of the
  target, the application, keepalives or the connection. `GetRequest` may rightly
  wait for ever. `SendReply` is left out because it reads on for as long as
  something arrives: a server that sends a keepalive between any two reads keeps it
  from returning.
* `linkops`: an open goes on.
* `links`: the running call goes on (`Program`), and so do the timer, a target in the
  middle of a packet and the server of the TCP link (`OtherEnd`).
* `iserver`: the program goes on; a resource that is waited for comes free again and
  again (strong fairness of an open that succeeds), which is what retrying is for.
  Nothing is assumed of the user, the target or breaks.
* `mux`, `networks`: each process that can run is scheduled, as on a transputer, and
  the host answers.
* `imakef`: a sequential program that does not stop before it has ended.

## 5. What is proved

`TopsProofs` proves, for every depth of the queue, number of requests, size of the
buffers and choice of transfers, with or without breaks:

* `TypeCorrect`: `Spec => []TypeOK`. `TypeOK` is inductive. It includes which call can be
  in which loop (`CallsAt`).
* `QueueIsBounded`: `Spec => []QueueBound`. By `QueueStep`, a step takes the head of the
  queue, empties it, leaves it, or adds one entry having compared the length with
  the depth; so one entry above the depth is the most there can be.
* `ModesAgree`: `Spec => []ModeAgreement`. Not inductive alone: `SyncReply` sets the state
  to `Synchronous` and leaves the mode of `OPS_*`. The strengthening `SyncLoops` says
  that the loops which do so run in synchronous mode only.
* `ClosesCleanly`: `CanBreak = FALSE /\ Spec => []ClosedIsClean`. The strengthening
  `NothingLeft` also speaks of the calls that run while the mode is closed: only
  `OPS_Open` does, and what it may not disturb is what it must leave clean when it
  fails. The hypothesis is needed: a break during the open is the counterexample.

`TopsPipe` states, and `TopsProofs` proves, what may be on the way between the
client and the linkops server in each state of the client:

* `PipeInvariant`: `Spec => []PipeInv`. The properties of `Tops` look at the head of a
  stream; whether they survive the next message depends on everything behind it, on
  the mode the server is in and the mode it will be in once it has read what was sent.
  The parts up to `CloseIsLast` hold always. Those of `Pipeline` say, for each group of
  places of the client, what may be in both streams: nothing but keepalives between
  the calls of synchronous mode (`InSync`), one reply in `GetSyncResponse` (`Awaited`),
  events in asynchronous mode (`InAsync`), events and then the reply of the change
  while it is changed (`Cancelling`). `FlagOnTheWay` says that the error detect flag of
  the client is what the last command on the way asks for. They are excepted from a
  `CommsSynchronous` that an error transition ended before its reply came (`early`),
  which is the code's own behaviour and the subject of a finding, up to the next
  `Restart` or `Close`.
* From it, `CommandsFindTheirMode` (`CommandInMode`), `RepliesFindTheirReader` (`NoPanic`),
  `NothingOwedBetweenCalls` (`NoReplyOwed`), `TransitionsAreExpected` (`DetectAgreement`)
  and `RepliesCome` (`ReplyComes`). Each step is first reduced to what it does to the two
  streams (`StreamStep`, `EnvironmentStep`); then each part is proved against the
  actions that can disturb it.
* `RequestsKeepTheirOrder`: `Spec => StreamOfRequests`, that `Tops` implements
  `RequestStream` with its requests mapped to those in the queue or on the way
  (`Held`). Each step is one of five kinds (`RequestStep`: dropped, queued, dequeued,
  delivered, posted) or leaves the requests alone; the invariant `OnTheWay` (requests
  are numbered in order, none in the stream is older than one in the queue, none is older
  than the last handed over) makes each a step of `RequestStream` or a stutter.
* `LossesReported`: `Spec => LossIsReported`, the action property, from the same steps.

`LinkSelectProofs` proves, for every database and every set of drivers that contains
the one for TCP:

* `LinkInvariant`: `Spec => []LinkInv`. That the tries are in order is not inductive: the
  next record must be later than all the tried ones. `TriedSoFar` says that the tried
  records are exactly the candidates that the two passes have gone past, and `AtFound`
  that a record that is being tried is the first after them. `TriesInOrder` is stated
  over `Candidates` and `Before`, which are sets and a relation on records, so that it
  does not repeat the loop of `CM_DoSearch`.
* From it, `TriesAreInOrder`, `OpensAreRight` (`OpensRight`) and `FailureIsFinal`
  (`ExhaustedMeansAll`, that an open fails with every candidate tried).

`PassNetProofs` proves, for every network:

* `ListsAreRestored`: `Spec => []ListsRestored`. The lemma `InsertUndoesDelete` says that
  `InsertChannel` undoes `DeleteChannel` on every list and at every place of it; the
  inductive invariant has a part about the arrays (`ArrayInv`: how long they are, and
  where their `NULL` is) and a part about the lists (`ListInv`: they are those of the
  configuration, or the same with one pair taken out).

and, for every network that is `Paired` and `Connected`:

* `RoundsAreRight`: `MCSpec => []RoundsRight`, the types and `RoundsAgree`, for any number of
  processes and rounds. A round is an echo. `HasSent` and `HasGot` say of each place whether
  its value of this round has gone out and come in, both from the counters and lists of the
  code (`Turned` is where a place stands in the lists that `DeleteChannel` has turned). `EchoInv` then says:
  who has not joined the round has got nothing (`QuietInv`); who has joined has got a value
  at the place that it will answer (`FirstInv`); `InputProcess` counts the places it has
  read (`CountInv`), so that who answers or prints has got all (`AllInv`); and those that have
  not answered form a tree, each deeper than the one it will answer (`TreeInv`). When the
  host prints, the least deep of them would answer one that is done, which has got that
  answer: so nobody is left, and by `Connected` everybody has taken part.

`Paired` says that the two channels of a place go to and come from one place. `SQUARE.CFS` and
`ZIGZAG.CFS` connect every place so, at every size; TLC evaluates it for the square, with
`Connected`, as an assumption of `MCNetworks`. Without it `RoundsAgree` is not claimed: in a ring
(`RING.CFS`) a process answers along the channel that follows, and the argument is another.

`HostMuxProofs` proves, for every number of programs:

* `RepliesGoBack`: `Spec => []RepliesToSender`. Input and output lists are turned together,
  so that a place of one belongs to the program of the same place in the other.
* `Overtaking`: `InOrder /\ Spec => []OvertakenOnce`. Who has been served stands behind
  everyone who waits (`FairInv`, over the programs `Waiting`). It needs an alternation
  that prefers the front of its list, which is what `ProcAltList` is used for.

* `ExitComesLast`: `Spec => []ExitsLast`. `ExitInv` ties the counter of `main` to the set
  `Counted` of programs that have not left, less the one whose exit is counted and not
  answered yet; the lemmas on cardinalities make the counter zero when that set is empty.

`FairServerProofs` proves `FairService`, for words of any length and any number of runs:
`TypeOK`, `WordsInTurn`, and `OvertakenOnce` for the server that searches the rest of its array.
The strengthening `NextIsPassed` says that a worker that has been passed over is the one
being served, or is searched next, or stands first in the array; `Halves` that the
second worker prints when the first has. Its steps are lemmas, and `HostMuxProofs` uses
them of its two instances (`FairP`, `UpP`): `ClientsAreServed`, `MCSpec => []ClientsServed`, is about
the module that runs the multiplexer and the two servers.

`IserverProofs` proves `ShellAndLoop`, for every set of options and every depth of sources.
The invariant `IInv` says of each place in the program which mode `OPS_*` is in and whether
the shell is on the stack (`Places`), what `LinkValid` says there (`LinkKnown`), and that a
raw terminal is known to be raw (`TerminalKnown`, `RawKnown`). Three of the conclusions have hypotheses,
each of which §4 shows to be needed:

* `LinkValidTrue`, `TerminalRestored`, `SourcesOpen` and `ReadsOpenSource` hold if breaks leave the
  steps alone between a call and the assignment that records it, and between the file and the
  counter of a source (`CalmBreaks`). The code does nothing to keep breaks out of there, so this
  is a condition on when the user interrupts, not a property of the program;
* `CoreFits` holds if no command dumps more than the first (`SameSizes`);
* `ClosedAtEnd` holds if the terminal can be opened (`TtyOpens`).

`MCIserverProofs` proves of the two configurations of `MCIserver` that they satisfy what they
need of these, and from it `CallsAreInMode` (`Spec => []CallsInMode`) and `ShellsHold`
(`Spec => []ShellHolds`), the properties as the run `iserver` checks them. (The run adds the record files
of `MCFiles`, of which neither property says anything.)

It also proves, for every size of the two tables, number of files of the host and number of programs:

* `TableIsRight`: `Spec => []TableHolds`. Of the program outside the shell, `TableInv` says that each
  open file is in the table once and each slot in use has an open file, that no buffer of a slot
  has been freed, and that no program follows. That a file that is opened finds a slot
  (`SlotIsFree`) is the pigeonhole principle, and needs that there are as many slots as the host
  opens files, with the predefined ones (`TableConstants`); with fewer, `AllListed` fails as the table
  in §4 says. Of the programs in the shell, `TablesInv` says that the predefined slots hold no
  record, and that no other slot is in use between two programs.
* `TurnsAreTheHosts`: `Spec => HostTurns`, the action property. `TableInv` has for it that the host
  remembers of a file either nothing or what its slot does: `SpPutRec` without a write moves the slot
  ahead of the host, never the other way.

`LinksProofs` proves the four safety properties that `MCLinks` states, for the sizes of header and
packet, the lengths, replies and codes, the counts, timeouts and thresholds of the boards, the
width of the timer's word, and the transfers, fragments and streams of the network that any
configuration may give:

* `PacketsAreInOrder`: `OneFragment /\ Spec => []PacketsInOrder`. `OpsInv` adds to the order of what
  was returned (`OrderInv`) what is still on the way: a packet that was begun and not returned is what
  the call holds, then what is on the link, then what the target is sending, each the
  next bytes of one packet (`Follows`, with `Took` for what the call holds at each place of
  `LOPS_GetRequest`), and nothing is on the link between packets. A read that fails leaves a
  part of a packet behind, and from then on only its length is bounded (`sound` is false). `CodeInv`
  does the same for boot code. `OneFragment` says that no code is longer than a fragment: with a
  longer one the second fragment is the first again, which the table in §4 lists.
* `BoardsAreRight`: `DelaysFit /\ Spec => []BoardsRight`. `KeptInv` has what no single call shows: a
  device knows the timeout that was set last, on every board but the B008, which sets it in
  each call; its position is never ahead of the bytes that are counted, and these never above
  the threshold; no byte was lost; of a B011 that is open there is a VME descriptor (`VmeHeld`), how
  many more is not bounded but by `MaxVme`, of which nothing is assumed. `PulseInv` says of each driver what its lines and the
  transputer are after each of the writes of its reset and analyse. `TimerInv` says how far a
  deadline is ahead of the timer. `DelaysFit` says that the ticks of a delay, ten times over, fit
  in a word, six minutes in the program; otherwise `nticks` itself wraps.
* `WordsAreRight`: `Spec => []WordsRight`. `AddressTold` is the heart: the bytes that the union of
  `LOPS_Poke16` and `LOPS_Poke32` lays out, of an address that is sign extended, are those from which
  the target makes the address again. It rests on lemmas about quotients and
  remainders, for a byte of any even number of values. `PokeInv` says that each word holds what
  the last command so far that names it has put there; `PeekInv` that the answer on the way is
  the one that is waited for, until a call fails.
* `StreamsAreRight`: `Spec => []StreamsRight`, of four parts. For the TCP driver on a connection
  that holds, `InStep` is not inductive, since it is silent while a call runs: `OpenInv` says that
  exactly one reply is `Pending` while one is waited for, either as the last of the commands on the
  way, behind resets only, or among the answers, where all others are messages; and that
  between calls the link is `Quiet`. `TransferInv` keeps the sum of what is moved and to be moved
  at the length asked for, and the time waited at what the fragments tried so far may take, from
  which `TwiceIsEnough` bounds a read. On a connection that breaks at any moment, `BrokenInv` ties the
  sockets, less those that failing opens have left, to `LinkIsOpen` and to a running open. For both sockets, `ReadInv` says that what
  was taken, what the running read has and what is arriving are consecutive stretches of one
  stream. `WholeInv` says the same of what is sent; `PartialInv`, for sends that are cut short, that
  every byte in front of the one the buffer points at has been sent, so that no byte of
  the buffer goes out before the one in front of it (`GapsStay`). That nothing else goes out,
  and nothing twice, is not true of such a socket and not claimed: see TOPS.C:231 in §4.

The assumptions are those on the constants, and no others: `LinksConstants`, `LopsConstants`,
`LinkDriverConstants`, `TimerConstants`, `MemoryConstants`, `TcpLinkConstants` and
`SocketConstants` (the lengths asked for have a largest), `TableConstants`, `TopsAssumption`,
`LinkSelectAssumption` (a TCP driver is there, which every makefile defines; no driver is called
`none` or `tops`; a host has a name), `ConlibAssumption`, `NetAssumption`, `MuxAssumption`,
`FairConstants` and `IserverConstants`. TLC evaluates each in a run.

Only model-checked: the property of the loader (`BootedRight`, about one boot file); and those that are out of the prover's reach: liveness under fairness (the properties with
`~>` in §4), and what recursive definitions compute over their data, in `Records`
(`FileHolds`, `ReadsRecord`), `CommandLine` (`ProgramGetsItsWords`) and `Imakef` (`MakefileRight`,
`CyclesFound`).

## 6. What is not modelled

* Breaks in the middle of a socket write, and the several steps of the connect in
  `TOPS_Open`.
* The host commands that call the operating system once and keep no state (`SpTime`,
  `SpGetenv`, `SpSystem`, ... in `HOSTC.C`, `MSDOSC.C`, `INFO.C`); `VAXRMS.C`, which is
  `RECORD.C` over other services; the texts of errors.
* The shell's commands that only print or set a string; the debugger driver, which
  builds one command line and keeps nothing.
* The second server that may wait for the lock of a B011, and `TestRead` and `TestWrite`
  of the boards, which change nothing.
* Set-up of a bare transputer in the bootstraps (queues, error flags, parity, links),
  the ROM bootstraps and the ternary one; most of what is there is compiled code.
* Of imakef: the text of directives and commands, its options other than those that
  change the graph, the header kept across runs and the debug listing.
* C runtime start-up and function loading: straight-line templates.
* Other examples, libraries, tools, terminal descriptions and board files: single
  sequential programs, binaries, headers and data.
