# libstlink in TLA+

A specification of this repository: the C++ library under `src/libstlink`, and
the core of the C tools it descends from, under `src/.deprecated`. It says what
the code does when threads, callbacks, signals, failing commands, programmers
that are pulled out and answers that come late get in its way. TLC checks every
module on small instances; nearly all of the safety it checks is also proved with
TLAPS, for all values of the constants.

## The system

### The library

A caller lists programmers (`Discovery::enumerate`), looks at the chips behind
them (`Discovery::find`), or opens one (`IDevice::create`) and drives the chip
through the `IDevice` it gets, until it destroys it. Below, calls go straight
down, in the caller's thread: `Device` → `IProgrammer` (one class per
generation of the command set) → `CommandChannel` → `ITransport` (libusb or
WinUSB) → the programmer → the target. There are no callbacks but the log's
and no threads of the library's own; what runs concurrently is the callers'
threads, the USB bus, and the target itself.

| component | state | operations | hard because |
| --- | --- | --- | --- |
| sessions and the registry (`device.cpp`) | the set of open keys, behind a mutex; each device's programmer, key and sheet | `enumerate`, `find`, `create`, `~Device` | several threads; every step of `create` may fail; sheets grow stale; the key is given back before the transport is closed |
| connecting (`connect.cpp`) | none of its own: it drives the reset line, DHCSR, DEMCR, AIRCR and the access port | `connect_to_target` in three reset modes | ten or so commands in an order that matters, most of whose failures are ignored; sticky bits; boards without nRST |
| command channel (`command.cpp`) | the transport | `exchange`, `send` | retries, short replies, answers left unread |
| V1 programmer (`programmer_v1.cpp`) | the tag | every `IProgrammer` operation | a status wrapper after each operation, unread on error paths |
| V2, V3 programmers (`programmer_v2.cpp`, `programmer_v3.cpp`) | the access port | the same | operations made of several commands: stepping, writing memory and asking whether it worked, trace |
| opening a programmer (`programmer.cpp`, `protocol.cpp`) | none | `open_programmer`, `parse_version` | packed versions decide everything after |
| chip identity, database, descriptions | the table of chips, written by `init` | `read_chip_id`, `find`, `parse_chip_description` | tables of exceptions, numbers in several bases |
| transports (`libusb`, `winusb`) | handles | enumerate, open by location, transfer, close | the bus changes between calls |
| log, lifecycle, results, paths | the sink, a flag | `set_log_sink`, `log`, `init`, `cleanup` | a sink is called with the mutex held |

### The C tools

`stlink-lib` is one C library around a `stlink_t`, over USB, SCSI or a remote
server. On top are `st-flash`, which runs one command and ends, `st-util`, a
GDB server in one loop, `stlink-gui`, a main loop with threads, and `st-info`,
`st-trace` and `st-server`. They hold no lock anywhere.

| component | state | operations | hard because |
| --- | --- | --- | --- |
| flash controllers (`common_flash.c`, `calculate.c`) | none: the chip's control, status and lock registers | lock, unlock, select, start, wait, check | fifteen families, one or two registers, swapped banks; most exchanges are not asked whether they worked |
| flash loader, option bytes (`flash_loader.c`, `option_bytes.c`) | the DMA that was on before | write and verify; a writer per family | ways out that skip the putting back |
| `st-flash` (`flash.c`) | the result | write, erase, reset, options | a signal between any two calls; a result that is overwritten |
| `st-util` (`gdb-server.c`) | breakpoints, watchpoints, blocks to be flashed, whether caches are stale, over all connections | a packet each | what GDB believes, what the tables say and what is in the target must agree |
| semihosting (`semihosting.c`) | `errno` of the last call | every call a program makes of its host | any access to the target's memory may fail half way |
| `stlink-gui` (`gui.c`) | the programmer, two buffers, a file name, which buttons are lit | handlers, idle callbacks, four kinds of thread | greying out a button is the only lock |
| `st-server`, `st-trace`, `st-info`, helpers | | | parsers and I/O |

What makes each correct is in the properties below; `PROJECT.json` lists, per
source line, the hazards they answer to.

## The modules

| module | models | extends or composes |
| --- | --- | --- |
| `ProgrammerLease` | what the registry promises: a key has one holder, Busy is said only of a key somebody holds | abstract |
| `DeviceSessions` | `enumerate`, `find`, `create`, `~Device`, the registry and the bus, for any number of threads | implements `ProgrammerLease` |
| `DeviceSessionsProofs` | theorems about it | `DeviceSessions` |
| `TargetSession` | one session of `create` or `find` after another on one target, command by command | |
| `CommandExchange` | `CommandChannel::exchange` and `send`, and the V1 framing around them | |
| `ProgrammerProofs` | theorems about a session and the channel under it | `TargetSession`, `CommandExchange` |
| `OpenDevice` | every operation of an open device as commands of a V1 or a V2, with its trace, on a target that goes on by itself | |
| `OpenDeviceProofs` | theorems about it | `OpenDevice` |
| `ProgrammerVersion` | `parse_version`, capabilities, clock rates, as operators | |
| `Identification` | `init` with the chip files, then `open_programmer`, the clock, `read_chip_id` and the lookup, exchange by exchange | `ProgrammerVersion` |
| `IdentificationProofs` | theorems about it | `Identification` |
| `FlashController` | the flash controllers and the helpers that drive them, as operators | |
| `FlashTool` | `st-flash`: one command after another on one chip | `FlashController` |
| `FlashToolProofs` | theorems about it | `FlashTool` |
| `FlashSuccessProofs` | theorems about what its success means, and why it fails | `FlashToolProofs` |
| `Semihosting` | `do_semihosting`, as operators | |
| `GdbServer` | `st-util`: GDB, the server, the target | `Semihosting` |
| `GdbServerProofs` | theorems about it | `GdbServer` |
| `StlinkGui` | `stlink-gui`: the main loop, the threads, what they share | |
| `StlinkGuiProofs` | theorems about it | `StlinkGui` |
| `MC...` | the instances TLC checks | |

Each variable and action carries the name of what it stands for in the code,
and `PROJECT.json` maps each definition to its lines. Operators whose comment
begins with "Faulty" are not part of any specification: each is an action as a
plausible mistake would have it, put in place of the right one to see that a
property notices.

### DeviceSessions

A client is a thread with room for one device. `pc` is where it is in its
call, `sheet` the `BasicDeviceInfo` it last took from `enumerate`, `conn` the
programmer its transport reaches, `todo` where a `find` has still to look;
`registry` is the process-wide set of keys, `at` the bus. A step is what no
other thread can see the inside of: a critical section of the registry, one
opening or closing of a transport, one group of exchanges. `key_of` is
modelled as it is: the serial, or the location when there is no serial, and a
serial may fail to be read at any enumeration, so one programmer can go by two
keys. `open_transport` goes by location alone. That an interface is handed to
one handle at a time is the operating system's doing and external.

### TargetSession

`pc` is the next command. Each command (`Command`, `DrivePin`, `SawReset`,
`NamesACore`) may fail, and one that fails may have taken effect or not, since
it may be the answer that was lost; `faults` remembers which failed in this
session, so that a property can say exactly which failures excuse what. The
target is modelled as far as the commands rely on it: `core` is running,
halted, stopped at its reset vector, or held in reset by a wired line; `catch`
is DEMCR's vector catch, `sticky` the DHCSR bit that says "reset since last
read" and that reading clears. Through an access port without a CPU, writes
succeed without effect and reads answer anything. `Boards` covers programmers
with and without a reset pin, wired and unwired lines, and both places the CPU
can be; the first state of the target is any a first session can meet, and
each later session meets what the one before left. Two assumptions about
hardware are named in the module: no answer from an empty access port names an
ARM core, and a reset with the catch armed stops the core at its vector.

A device that `create` made is then used (`Use`): its caller may halt, run,
step and reset the core, drive the reset line, and write DHCSR and DEMCR,
through `write_debug_register` or `write`. What the caller switches on that way
is kept in `asked`, so that a property can tell what a session leaves behind
from what its caller asked for.

### CommandExchange

`stage` is where the call is (the names differ from those of `TargetSession`, so
that one module can prove things of both); `inbox` is what the reply endpoint has for us. An item is stale once another
command has gone out, so "the answer to this send" is a property of an item.
The transport is assumed to keep the promise of `transport.h`: of a transfer
that failed nothing turns up later, and a command whose transfer failed is not
answered. How the two transports try to keep it (clearing the endpoint) is not
modelled, since what that discards is up to the programmer; without the
promise a V2 would be no better off than a V1. Sizes matter only by their order: a wrapper is longer
than a two or four byte reply and shorter than `read_registers`' 84 bytes, so
a stale wrapper overflows the one and passes for the other. What the
programmer does with half a memory write is not in the code: it may send a
wrapper or not.

### OpenDevice

An operation, of every one that `IDevice` and `ITrace` send to the programmer,
is the sequence of commands its function sends (`Programs`), which
stops at the first that fails; a V2 memory write is the write and the question
whether it worked, a step is three writes of DHCSR, an access through another
access port is surrounded by its selection. A command that fails may have been
carried out. A V1 says of no command whether it was carried out, so for a V1
one that went well need not have been. Between commands the target executes,
takes interrupts, stops, traces and has its reset button pressed.

DHCSR has its control bits and its status bits: `haltBit` is C_HALT, by which
`is_running` goes on a V2, and `halted` is S_HALT, whether the core has stopped.
They differ when a core stops by itself, and until a halt has taken effect. Of
the debug registers a caller may write, the model has the bits of DHCSR; other
registers and other bits change nothing it has.

### Identification and ProgrammerVersion

A chip file is read line by line and may break off at any line; `newest`
remembers what the last whole file about a chip said. A chip is what each of
its identity registers reads as, taken from the manuals that
`chip_identity.cpp` quotes; the mask of the device identifier and the shift of
JTAG's part number are applied to numbers, as the code does. Exchanges fail one
by one. Versions, thresholds and
rates are computed as in `protocol.cpp`, with the packing of the version bits
and the wrapping of the multiplication to hertz (`Word`; TLC's integers end
below 2^32, so the instance wraps a little earlier, still above every rate a
programmer can have).

### FlashController and FlashTool

The long `if` chains of `common_flash.c` differ between families in registers
and bits. A family answers three questions instead: how many control registers,
how the page to erase is named, which bits a helper leaves alone. Within a
family a chip may have one bank or two, swap them, be one that the code's lists
of chip ids and page sizes find or not (`listed`), be above the size the code
compares with (`big`), or refuse to have its flash or its options changed
(`refuses`). The
controller itself is external: a locked register ignores what is written, an
erase takes time, programming what is not erased is an error, and a page in the
second bank is named with its bank bit.

The layout of the flash is the chip's (`Pages`, `FirstUnit`, `Extent`), and what
the code makes of it is the code's (`PageSize`, `SectorNumber`, `CodeView`): an F7
with two banks has other sectors than `stlink_calculate_pagesize` says, a G0 with
two banks is never told which, `calculate_L4_page` asks for the option of three
chip ids only. `Known` is the chips whose pages the code names, `MassCovers` those
whose flash its mass erase reaches.

`FlashTool` keeps a function as the sequence of calls it makes: `Call(f)` if
the result is thrown away, `Try(f, l)` if failure leads on to `l`. `todo` is
what is left of `main`; every call is one step, and a signal, the pulling of
the plug and the end of an erase come between any two. A call that loses its
exchanges does what the code then does: a write that does not arrive, or a read
that leaves the variable on the stack as it was, with any of `Garbage` in it.
What one command leaves on the chip the next one finds.

### GdbServer and Semihosting

One packet is one action (a `vFlashWrite` may hold several units, and begin
before a block and end in it); after `c` the loop is one action per turn (`Turn`),
and in between the core runs, GDB sends ^C or hangs up. Every action that lets
the core go says so (`LetsGo`), and `ranStale` keeps by which of them it went
while its caches did not show what GDB had written, whether or not the handler
flushed them. GDB is external with the habits it has by default: it inserts before it resumes, removes after it
stopped, erases what the memory map puts under an image, writes it in order and
commits. `flash_root`, `code_breaks`, `cache` and `saved_errno` live as long as
the process, so they go from one connection to the next. What GDB is used for
is fixed per behaviour (`uses`), since the tables do not touch each other
except as those sets say.

`do_semihosting` is the set of what it can come to, given which accesses to
memory fail (`DoSemihosting`), and `Means` says which answers a program can
rely on. A call that reads the terminal has a state of its own (`input`), in
which the server hears nothing.

### StlinkGui

A handler or an idle callback is one step of the main thread; a thread starts
some time after `g_thread_new`, works, and reports by an idle callback. What
each widget does is taken with the sensitivity it really has: `sensitive` is
set by `set_sensitivity`, `set_connected` and `set_disconnected` exactly as in
the code, which leave some widgets alone. Those are Connect, Disconnect, Flash,
dropped files and the page of the file; `behind` remembers that one of them was
used while a thread was there.

## What is checked

| run | instance | shows |
| --- | --- | --- |
| `sessions` | 2 threads, 2 programmers, 2 places, 1 plugging in | `RegistryIsExact`, `ClashHasAReason`, `NothingLeftBehind`, `CallsReturn`, and that `ProgrammerLease` is implemented |
| `target` | all boards, unbounded sessions, a device used in any way | what each reset mode guarantees, what a session and its caller can leave behind, that looking disturbs nothing |
| `exchange` | both framings, at most 3 items unread when a command starts | answers belong to their commands, four sends at most, nothing is left unread |
| `device` | V1 and V2, every operation in any order, 1 byte of trace | `StepIsOneInstruction`, `MaskedForAReason`, `TraceAccountedFor`, `WrongForAReason` |
| `identity` | 7 firmwares, 3 lists of rates, every kind of chip, any chip files | `NamesTheChip`, `DescribedByItsFile`, `ReportIsTheProgrammers`, `ToldAListedRate` |
| `flash` | every family, all its kinds of chip, every command, `MaxEvents = 2` | `SuccessMeansWritten`, `OnlyTheAskedPages`, `TidyAfterSuccess`, `FailsForAReason`, `DetachedClean` |
| `gdb` | 2 comparators, 2 watchpoints, 1 failing call, 2 connections | `BreakpointsAreGdbs`, `CallServedOnce`, `RunsFreshCode`, `FlashHoldsTheDownload`, `InterruptEndsTheWait` |
| `gui` | 2 threads, 2 connections, 2 files | `OneAtATime`, `FlashedIsTheFile`, `ButtonsComeBack` |
| `asfound` (violation) | as `target` | `find` leaves debug mode on for chips it passes over |
| `wrapper` (violation) | as `exchange` | a V1 that lost one reply takes what is left of it for the next |
| `straddle` (violation) | as `gdb`, loads only, nothing fails | a packet that begins before a block puts the wrong bytes into it |
| `closed` (violation) | as `gui` | a thread finds the programmer closed before it started, and leaves the buttons greyed out |

Many properties name what excuses them (`lost`, `faults`, `upset`, `behind`):
those sets are as small as TLC lets them be, and say what a failure of exactly
that call comes to. Everything not named is promised under every failure.

Bounds. In `sessions` two clients are enough for every interleaving the
properties speak of, which relate two clients at a time; two programmers and
two places allow a swap and a double listing, and one plugging in is enough for
a replug, since programmers may be attached from the start. `TargetSession` has
no bound. In `CommandExchange` only a V1 that stumbled accumulates unread
items; three let a stale wrapper, a stale reply and the wrapper after it be
there together. In `OpenDevice` one byte of trace makes room too small (none),
exact and, with none waiting, too large. In `Identification` there are firmwares on either side of every
threshold; any number of files is read. In `FlashTool`, `MaxEvents` counts
commands and calls that lose their exchanges together: either one command with
any one of its calls failing, or two commands, the first of which may end at
any call by a signal or by being unplugged; the second then connects without a
reset and without `--reset`, so that it finds what the first left. Ranges of
pages are chosen to cross banks and sizes of sector, to start and end inside a
page, and to run past the end. In `GdbServer` two comparators and two
watchpoints make both sharing a word and running out happen; two connections
show what outlives the first; `MaxFaults` is one failing call, anywhere. In
`StlinkGui` two threads are enough for two to meet, and two connections for one
to be closed and replaced.

Deadlock is not checked where the program ends: `st-flash` and `st-util` exit,
and so does the GUI.

Fairness. In `DeviceSessions` and `CommandExchange`, weak fairness of the steps
of a call in progress: every USB transfer carries a timeout (`kDefaultTimeout`)
and every wait in the code is a bounded sleep, so the next step, or its
failure, happens. Callers owe nothing: no fairness makes them create or destroy
a device. In `GdbServer`, weak fairness of the loop of `c` alone: it is a
`while (1)` in the only thread, each round of which sleeps 100 ms at most;
neither the core nor GDB owes anything. In `StlinkGui`, weak fairness of idle
callbacks, which GTK's main loop makes, and of each thread's steps; nobody has
to click.

## What is proved

`DeviceSessionsProofs`, for any sets of clients, programmers and locations and
any number of replugs, assuming only that the names are distinct
(`NamesAreDistinct`):

- `TypeCorrect`: `TypeOK` is inductive by itself.
- `RegistryCorrect`: `RegistryIsExact` is inductive given `TypeOK`. Its third
  part, that no two owners share a key, is what makes `Release` safe: erasing
  one's own key erases nobody else's.
- `ClashesHaveReasons`: `ConnectedWhere` says in which states of a call a transport
  may be open. A create that holds its key and meets a transport that neither
  looks nor closes meets another holder of a key; keys are held by one
  (`RegistryIsExact`), so theirs differ, and then so do their sheets.
- `NothingStays`: follows from the same invariants.
- `LeaseImplemented`: the initial states are the lease's, and every step grants,
  refuses, gives back, moves on or is not seen (`LeaseMove`). That a key has
  one owner (`RegistryIsExact`) is what makes the `CHOOSE` of `OwnerOf` no
  choice (`OwnersKnown`), and that a key in the registry has an owner is what
  makes a refusal one the lease allows.

`ProgrammerProofs`. `TargetSession` has no constants and TLC visits all of
its states; what the proofs add is why its properties hold. The properties are
about how a session ends, so each needs an invariant that says what is so on
the way there, and one lemma shows that the steps keep it:

- `TargetTypeCorrect`: `TypeOK` is inductive. A step other than the start of a
  session does one of eleven things to the target (`StepTouches`), so that what
  must hold of the target is proved of those, and what must hold of the order
  of the commands of the steps.
- `PinAlwaysLetGo` and `CatchAlwaysAccountedFor`: the line is low, or the catch
  on, between the command that does it and the one that undoes it only, or
  something failed, or the caller of the device asked for it (`PinInv`,
  `CatchInv`). Arming through the wrong access port
  arms nothing, which is why `CatchInv` asks for the port.
- `StopsAtVector`: through the port of the CPU, each of the last three commands
  leaves the core one step nearer its vector; through any other, identifying
  the chip refuses the board (`VectorInv`).
- `AlwaysHasReset`: from the read that clears `S_RESET_ST`, the bit tells of
  this session (`ResetInv`).
- `AlwaysFailsForAReason`: the port is the CPU's once probing is done, unless a
  command failed or the programmer has only one (`ReasonInv`).
- `AlwaysStoppedForAReason`: outside connecting under reset, only the caller of a
  device stops the core or arms the catch, and a device's end leaves debug mode
  (`StopInv`); a `create` that fails and a look passed over do not, and have
  stopped nothing.
- `LookingNeverDisturbs`: a look is never given another mode (`HotInv`), and
  none of the commands of that mode touches what it must not.

`ProgrammerProofs` (`Channel`), for any `MaxInbox`, so with no bound on what a V1 has
left unread:

- `ExchangeTypeCorrect`: `TypeOK` is inductive.
- `AnswersMatch` and `QueueDrained`: `AnswerIsForThisSend` says what a call
  returns and nothing of why. `Queue` says what is unread at each point of a
  call, as long as the channel can be trusted: nothing before the command is
  sent, the answer afterwards (on a V1, the reply and then its wrapper), the
  wrapper alone once the reply is taken. `Progress` adds where a command of
  each kind can be and that a call in progress has no result yet.
- `OkIsOk`: needs that, while a status is still to come, what it will be read
  over says zero or wait (`StatusInv`). That is the whole reason why ignoring
  the length of the reply is harmless.
- `SendsBounded`: needs that a command about to be sent again has been sent at
  most three times.

`OpenDeviceProofs`, for any number of trace bytes:

- `TypesHold`: `TypeOK` is inductive given what is left of an operation's
  commands, which are never more than nine.
- `StepIsAlwaysOneInstruction` and `AlwaysMaskedForAReason`: a step sends three times
  three commands, and what it may say depends on where the core was after each.
  `AtPlace` says, for each of the nine places of a step in which nothing went
  wrong, whether the core is halted and masked, and how many instructions it has
  run. `Marked` ties reset to its sticky bit, which is how the code hears of a
  reset behind its back. A mask that a caller writes is noted when it is asked for,
  not when it arrives (`Asking`).
- `TraceIsAccountedFor`: `Tracing` says which of the programmer and the record
  of it may be ahead of the other, and by which command.
- `WrongAnswersHaveAReason`: an action property, from the same invariant: a core
  that has stopped was told to, so that C_HALT says so, or stopped by itself
  (`Accounted`), and a core in reset since the last answer has its sticky bit set
  (`Marked`).

`IdentificationProofs`, for any database, firmware, chip and listing the
constants hold. Every exchange of opening and looking has an invariant that says
that what was found up to it is right: `Reported` of the version, `Looking` of
the identity the chip gave, and `Kept` of the database, in which an identifier
has the last whole file about it and nothing twice.

- `TypesHold`, `ReportsAreRight`, `ListedRatesAreTold`, `TheChipIsNamed`,
  `TheLastFileDescribes`: from these, `OnceRead` (no file is read once a call is
  under way) and the lemmas that a packed version unpacks to itself and that
  the rate picked from a list is in the list.
- `ReportIsTheProgrammers` once said that any firmware of major 1 below jtag 12
  is given the first command set. The proof failed on a V3 that reports such a
  version, which no instance of the run had: the code asks what generation it is
  first (`parse_version`). The property now says so.

`GdbServerProofs`, for any number of comparators, data watches, faults, sessions
and uses:

- `CodeIsFresh`: `Fresh` adds that the server knows the chip's caches when the
  core may run, and that what GDB writes behind them is remembered until they
  are flushed. That every handler but those of `Unsynced` (`k`, the end of a
  session, a signal) flushes first is what the property says of each that lets
  the core go.
- `CallsAreServedOnce`: `Serving` says that a call that was served is behind the
  core unless the jump over it was lost, and `Addressed` that every address in a
  slot is one a breakpoint was put at, so that the instruction looked at is never
  taken for a call because of a slot. The lemma `AnswersMean` runs
  `do_semihosting` on each call once.
- `BreakpointsAreInserted`: `Held`. The slots are filled from the first in order,
  each with a word of its own (`FilledTo`), so the first that fits a breakpoint
  is the one that holds it. Each watchpoint has a slot of its own, by a one to
  one map (`Slotted`) that removing by address may change: two watchpoints of one
  address are removed in either order, and the slots that are left hold the
  address but perhaps the other's kind.
- `InvHolds`: their conjunction, with the types, is inductive. That a first slot
  exists needs the least number principle, taken from
  `NatLessThanWellFounded` since induction is out of reach.

`StlinkGuiProofs`, for any files and number of connections:

- `TypesHold`, `OneThreadAtATime` and `TheFileIsFlashed`: `Calm` is what
  `set_sensitivity` is for. As long as no widget was used behind its back, at most
  one thread is at work or one callback waits (`OneThread`); what would start
  another is greyed out, and no dialog that leads to one is open (`GreyedOut`);
  and at each point between choosing a file and writing it, the buffer is the
  file that is named or the thread that loads it is at work (`OnItsWay`).

`FlashToolProofs`, for every chip in `Chips`, any junk a failed read leaves in a
register, and any number of commands, lost exchanges and signals. A command is a
sequence of calls that the family, the operands and the options decide; each
function of the code is such a sequence, and a lemma says of each, going through
the families one by one where they differ (`EraseBodyLinked`), what the other
proofs need to know of it.

- `CallsInOrder`: the calls left of a command are ones its command line makes
  (`Fit`), and, unless the whole flash is to be erased, in order (`Listed`): an
  erase is started right after its page is chosen, and that, where the controller
  wants PER first, right after PER; nothing touches the flash before the range is
  checked; and nothing does once a way out of a function is reached. A call that
  fails, or a signal, goes on at the first way out of its kind, so what is left is
  a tail that begins with one, and the lemmas about tails make every other proof a
  matter of one call at a time.
What is said of a page by page erase excuses the chips that are not `Known`, and of
a mass erase those that it does not cover (`MassCovers`).

- `AlwaysDetachedClean`: the leaving of the chip is the last call of what is left,
  and no other call has its name (`Attended`). What leaving does is enough by
  itself; what must be shown is that no way out of a function misses it.
- `AlwaysOnlyTheAskedPages`: what is being erased was asked for, and when the next
  call starts an erase, the register it starts ignores it or names a page that may
  go (`Careful`, `Ready`, `Chosen`), as long as no exchange that would have said so
  was lost (`Heard`). Every call does to the flash only what that permits
  (`Permitted`).
- `AlwaysTidyAfterSuccess`: six things are opened and closed again, namely the lock of
  the flash, the program lock of L0 and L1, the erasing of pages, the lock of the
  options, DMA, and the option bytes between their erasing and their programming
  (`Resources`). Every function closes what it opens, whatever it is called from
  (`Paired`, family by family up to `MainPaired`). A call that is answered leaves
  closed what is closed, closes what it closes, and opens nothing else
  (`DoesMove`); so while nothing is lost and nothing fails, each of the six is
  closed or a call ahead closes it (`Orderly`), and at the end no call is ahead.
  The option bytes need one thing more: nothing between their erasing and their
  programming may close the two locks they are programmed behind (`Between`).
- `AlwaysFailureIsTold`: once a call of a write or an erase has failed, `ret` or `err`
  says so, or the calls ahead up to the `result` that looks at `ret` are only those
  that cannot make it good again (`Judged`).
- `AlwaysSuccessMeansWritten`. For a write (`AlwaysWrittenAfterSuccess`): as long as no
  call failed, either a wait and then the verification are still ahead, or nothing is
  being erased and nothing before the verification starts an erase, or the flash
  holds what was asked for and no call ahead changes it (`Compared`). For an erase
  nothing is read back, so the proof runs the controller through the calls: a list of
  calls `Leads` from one set of controllers to another if there are sets in between
  that each call `Takes` into the next, none of which the end of an erase leaves
  (`Fixed`), and a call that finds an error and fails need not. The functions that
  erase lead, family by family (`EraseBodyLeads`), from a controller that may still be
  erasing pages to one that is at rest with its page blank; the loop over a range adds
  pages to what is blank (`SectionLeads`). As long as nothing was lost and nothing
  failed, what is left to do leads to all the pages asked for (`Heading`).
- `AlwaysFailsForAReason`: the same argument, with sets that also say that no call
  fails. While no erase is refused and no unwritten page is programmed twice, no error
  is shown (`Free`, `Programmable`): the functions that erase set neither the bit that
  programs nor the one of the other way to erase (`Sparing`), so nothing they start is
  refused; stlink_flashloader_start leaves every page programmable, on F0 and F1 once
  each is unlocked for it (`StartPasses`); the loop over a range erases or writes each
  of its pages once (`ErasePasses`, `WritePasses`); and at the verification every page
  asked for is written (`Loaded`). The options' writers do what their family has
  (`OptionsPass`). So from a controller in order each branch of main leads to its end
  (`MainPasses`), and while nothing is lost what is left to do still does, with no
  call failed (`Unfailing`).
- `SuccessMeansWritten` and `OnlyTheAskedPages` once said more. An erase whose wait
  is lost can end after the verification; a controller with two registers unlocks
  both only if the first is locked; and after a mass erase, whose bit the code
  means to reset but does so behind the lock (`common_flash.c:1522`), a page erase
  whose `set_PER` is lost can erase everything. Each takes more events than the
  run allows, and was found on the way to a proof.

Not proved, and checked by TLC only:

- `CallsReturn`, `CallEnds`, `InterruptEndsTheWait`, `ButtonsComeBack`: liveness
  is out of this prover's reach.
- `FlashHoldsTheDownload`: what is in flash is computed by folds over what GDB
  sent, and what a fold computes for every sequence takes induction over data.

`TypeOK` of `TargetSession` is proved but not in its run.

## What the violations show

- `asfound`: `find` enters debug mode on every programmer and leaves it only
  where the chip matched, though its comment says that it leaves the target as
  it found it.
- `wrapper`: the V1 programmer does not keep what its own comment asks for; a
  status wrapper left unread becomes the next reply.
- `straddle`: `flash_populate` finds where in the block a packet begins, and not
  where in the packet the block does; a packet over two blocks fills the second
  with what belongs to the first.
- `closed`: a thread that is about to start has its buttons greyed out, but the
  idle callback of another (here, one that could not read a dropped file) lights
  Disconnect again. Its handler closes the programmer, and the first thread's
  assertion then fails. It ends without calling anybody back.

Each is quoted with its lines in `PROJECT.json`.

## What is not shown

Known from reading and modelling, without a property of their own:

- A key is released before the transport is closed (`device.cpp:496`), and a
  device is opened by location under the serial of its sheet
  (`usb_transport.cpp:419`): after a swap it drives another programmer than it
  says. `DeviceSessions` models both.
- `software_reset` leaves the vector catch armed when AIRCR is refused; this is
  among the excuses of `CatchAccountedFor`. The default of `create` resets,
  where `device.h:268` says it does not.
- "reset the mass erase bit" (`common_flash.c:1524`) has no effect on a register
  that takes no writes while locked, since it is locked two lines before. The bit
  stays set for the next command, which is why `OnlyTheAskedPages` excuses a lost
  `set_PER`.
- The excuses `Known` and `MassCovers` are needed: without them TLC violates
  `SuccessMeansWritten` within one command that loses nothing. For G0 the erase of a
  page does not set the bank (`common_flash.c:1245`), where that for G4 does (1270)
  and other functions take the second bank of a G0 into account (1049);
  `set_flash_cr_mer` sets one bit for F2/F4 and F7 (1037-1044), that of the first
  bank, so that the second keeps what it held while `st-flash` reports a completed
  mass erase (`flash.c:231`).
- A WB0 that refuses a mass erase is reported as erased: its error ends the wait
  (`common_flash.c:315`), and nothing looks at it afterwards (1488).
- The writers of option registers return failure, `main` stores it (`flash.c:195`),
  and `err = 0; // success` comes after (345): `st-flash` ends with status 0.
- What a failing `st-flash` leaves locked, erased or masked: the properties
  about tidiness speak of commands that succeed.
- `gdb-server.c:1649` hands `cleanup` a programmer that is closed already.
- `stlink-gui` checks the address it asks for and writes to the start of flash
  (`gui.c:650`).

## Not modelled

- USB descriptors and strings, bytes of requests, chip file syntax and number
  bases, paths, error wording, command line syntax, how things are shown: I/O
  and formatting.
- The log's mutex: one lock around a pointer, with the sink called inside.
- Of `st-flash`: reading, SRAM and OTP, the boot address, the reset that
  OBL_LAUNCH causes, rows written in part, the wait for WB0's `CMDDONE`;
  signals in the middle of one call.
- Of `st-util`: acknowledgements and checksums of packets, register and memory
  access as such, monitor commands that only report, a length of `vFlashWrite`
  that is odd, a GDB with other habits, `vKill` and `?`.
- Of `stlink-gui`: files dropped while a dialog is open, the race on the error
  message, the boxes to jump to an address, and the branch for a read that
  fails, which is never taken since `q_len` is not set then.
- `st-server`, `st-trace`, `st-info`, MD5 and the helpers: a forwarder, a parser
  and I/O, with no state that outlives a call.
