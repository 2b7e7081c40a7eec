----------------------------- MODULE GdbServer -----------------------------
(***************************************************************************)
(* st-util: sessions with GDB, one after another, over one target.  The    *)
(* server answers one packet at a time, so a packet, what it does and its  *)
(* answer are one action; only the wait after a "c" is many, in which the  *)
(* core runs, GDB interrupts and calls the program makes are served.       *)
(*                                                                         *)
(* GDB keeps its default habits: before it lets the core go it inserts its *)
(* breakpoints, and after a stop it removes all of them before it asks for *)
(* anything else.  It loads a program by erasing every page the memory map *)
(* puts under it, writing it, and then committing.  It may go at any time. *)
(***************************************************************************)
EXTENDS Semihosting, SequencesExt, FiniteSetsExt

CONSTANTS
  Uses,        \* what GDB may be used for: sets of "break", "watch", "load", "code",
               \* "calls" and "files", for a program that makes every call
  Comparators, \* how many breakpoints the FPB has
  DataWatches, \* DATA_WATCH_NUM
  MaxFaults,   \* bound: calls to the programmer that fail
  MaxSessions  \* bound: connections accepted

ASSUME UsesAreSets == Uses \subseteq SUBSET {"break", "watch", "load", "code", "calls", "files"}
ASSUME BoundsAreNat == /\ {Comparators, DataWatches, MaxSessions} \subseteq Nat \ {0}
                       /\ MaxFaults \in Nat

VARIABLES
  chip,            \* what the target is: the FPB's revision, whether it caches
  uses,            \* what GDB is used for, fixed
  hotPlug,         \* st->connect_mode: whether connecting leaves it unreset
  \* st-util
  pc,              \* "accept", "receive", "running" (in the loop of "c"),
                   \* "input" (in a call that reads the terminal), "exited"
  persistent,      \* st->persistent
  semihosting,     \* st->semihosting
  code_break_num,  \* what FP_CTRL was read as
  code_break_rev,
  code_breaks,     \* what it thinks is in each comparator
  data_watches,
  flash_root,      \* the blocks to be programmed, newest first
  cache,           \* cache_desc.used and cache_modified
  reg,             \* the pc that "c" last read: its reg is not initialised
  saved_errno,
  \* the target
  core,            \* whether it is halted, and where
  fpb,             \* FP_COMPn
  dwt,             \* DWT_FUNn and DWT_COMPn
  flash,
  stale,           \* who wrote memory the caches do not show yet: "" for nobody;
                   \* a reset turns them off and does not empty them
  \* GDB
  phase,           \* "gone", "stopped", "inserting", "waiting", "removing", "loading"
  want,            \* the breakpoints and watchpoints it has inserted
  load,            \* the program it loads, and how far it is
  interrupt,       \* whether ^C is on its way
  \* history
  sessions,
  faults,          \* how many calls have failed
  lost,            \* those of them that are an excuse
  upset,           \* a write to a comparator failed since they were last cleared
  ever,            \* where breakpoints have ever been
  served,          \* how often the call the core is at has been performed
  wrong,           \* what went wrong with calls of the program
  due,             \* the error the program is owed by ERRNO, 0 for none
  ranStale,        \* how st-util let the core go while the caches did not show
                   \* what GDB wrote
  old,             \* pages left to be programmed by a load that was given up
  told             \* what the last commit was answered, until another load begins

server == <<persistent, semihosting>>
breaks == <<code_break_num, code_break_rev, code_breaks, fpb, upset, ever>>
watches == <<data_watches, dwt>>
memory == <<cache, stale, ranStale>>
loading == <<flash_root, flash, load, old, told>>
calls == <<reg, served, wrong, saved_errno, due>>
fixed == <<chip, uses, hotPlug>>
failures == <<faults, lost>>
vars == <<fixed, pc, server, breaks, watches, memory, loading, calls, core,
          phase, want, interrupt, sessions, failures>>

-----------------------------------------------------------------------------
(***************************************************************************)
(* The program: four instructions in a loop, by their addresses; one will  *)
(* do where it does not matter which.  One or two of the four call the     *)
(* debugger when calls are used.                                           *)
(***************************************************************************)
Code == IF uses \cap {"break", "calls", "files"} = {} THEN {4} ELSE {4, 6, 8, 10}
After(a) == IF a + 2 \in Code THEN a + 2 ELSE 4
Word(a) == a - (a % 4)
Traps == IF "calls" \in uses THEN {6, 8} ELSE IF "files" \in uses THEN {6} ELSE {}
Calls == IF "files" \in uses THEN SemihostingCalls
         ELSE {c \in SemihostingCalls : c.op \in {"read", "write0"} /\ c.fits}
Breaks == CASE {"break", "calls"} \subseteq uses -> {4} [] uses = {"break"} -> {4, 6, 8} [] OTHER -> {}
Watched == IF "watch" \in uses THEN [fun : {"write", "read"}, addr : {1, 2}] ELSE {}

\* What FP_COMPn makes the core stop at.
Known == IF chip.rev = 1 THEN {"low", "high"} ELSE {"remap"}
Stops(c) == {IF t = "high" THEN c.addr + 2 ELSE c.addr : t \in c.type \cap Known}
Armed == UNION {Stops(fpb[i]) : i \in 1..Comparators}
Watching == {dwt[i] : i \in 1..DataWatches} \ {[fun |-> "disabled", addr |-> 0]}
Blocked == Armed \cup Traps

\* Where a core let go at a may be found.
Passed(a, b) == {c \in Code : IF a <= b THEN a <= c /\ c < b ELSE a <= c \/ c < b}
Drifts(a) == {b \in Code : Passed(a, b) \cap Blocked = {}}

(***************************************************************************)
(* Calls to the programmer.  The result of most of them is not looked at:  *)
(* a call in l has failed, and did nothing.                                *)
(***************************************************************************)
Losses(S) == {{}} \cup (IF faults < MaxFaults THEN {{x} : x \in S} ELSE {})
Lose(l) == /\ faults' = faults + Cardinality(l)
           /\ lost' = lost \cup (l \cap {"cache", "jump", "regs", "insn", "result"})

-----------------------------------------------------------------------------
(***************************************************************************)
(* Breakpoints and watchpoints.                                            *)
(***************************************************************************)
NoBreak == [addr |-> 0, type |-> {}]
NoWatch == [fun |-> "disabled", addr |-> 0]
Slots == 1..(Comparators + 1)

\* A number of comparators that was never read is whatever val held.
InitCodeBreakpoints(l) ==
    /\ IF "count" \in l
       THEN code_break_num' \in {0, Comparators + 1} /\ code_break_rev' \in {1, 2}
       ELSE code_break_num' = Comparators /\ code_break_rev' = chip.rev
    /\ code_breaks' = [i \in Slots |-> IF i <= code_break_num'
                                       THEN [code_breaks[i] EXCEPT !.type = {}] ELSE code_breaks[i]]
    /\ \E i \in 1..Comparators :
          fpb' = [j \in 1..Comparators |->
                    IF j > code_break_num' \/ ("clear" \in l /\ j = i) THEN fpb[j] ELSE NoBreak]

InitDataWatchpoints(l) ==
    /\ data_watches' = [i \in 1..DataWatches |-> [data_watches[i] EXCEPT !.fun = "disabled"]]
    /\ \E i \in 1..DataWatches :
          dwt' = [j \in 1..DataWatches |-> IF "unwatch" \in l /\ j = i THEN dwt[j] ELSE NoWatch]

InitPoints(l) == /\ InitCodeBreakpoints(l)
                 /\ InitDataWatchpoints(l)
                 /\ ever' = ever
                 /\ upset' = (l \cap {"count", "clear", "unwatch"} # {})

\* Faulty: a slot that was never used matches any address.
HasBreakpointOrNone(addr) == \E i \in 1..code_break_num : code_breaks[i].addr \in {0, addr}

\* It is asked about the word of a call, and looks at slots long cleared.
HasBreakpoint(addr) == \E i \in 1..code_break_num : code_breaks[i].addr = addr

\* The first revision compares the word, in 29 bits of the address (0x1FFFFFFC).
CodeRegion == 536870912
FpbAddr(a) == IF code_break_rev = 1 THEN Word(a % CodeRegion) ELSE a
BreakType(a) == IF code_break_rev = 2 THEN "remap" ELSE IF a % 4 = 2 THEN "high" ELSE "low"

\* The slots update_code_breakpoint would take; it takes the first of them.
Fitting(a, set) == {i \in 1..code_break_num : \/ code_breaks[i].addr = FpbAddr(a)
                                              \/ set /\ code_breaks[i].type = {}}

\* Faulty: a slot holds what was set last.
UpdateOverTheOther(a, set, l) ==
    LET id == Min(Fitting(a, set))
        bp == [addr |-> FpbAddr(a), type |-> IF set THEN {BreakType(a)} ELSE {}]
    IN  /\ code_breaks' = [code_breaks EXCEPT ![id] = bp]
        /\ fpb' = IF "compare" \in l \/ id > Comparators THEN fpb
                  ELSE [fpb EXCEPT ![id] = IF set THEN bp ELSE NoBreak]
        /\ upset' = (upset \/ "compare" \in l)
        /\ ever' = ever \cup {a}
        /\ UNCHANGED <<code_break_num, code_break_rev>>

\* Setting or clearing a breakpoint for which there is a slot.
UpdateCodeBreakpoint(a, set, l) ==
    LET id == Min(Fitting(a, set))
        was == code_breaks[id].type
        bp == [addr |-> FpbAddr(a),
               type |-> IF set THEN was \cup {BreakType(a)} ELSE was \ {BreakType(a)}]
    IN  /\ code_breaks' = [code_breaks EXCEPT ![id] = bp]
        /\ fpb' = IF "compare" \in l \/ id > Comparators THEN fpb
                  ELSE [fpb EXCEPT ![id] = IF bp.type = {} THEN NoBreak ELSE bp]
        /\ upset' = (upset \/ "compare" \in l)
        /\ ever' = ever \cup {a}
        /\ UNCHANGED <<code_break_num, code_break_rev>>

SetWatch(i, w, off, l) ==
    /\ data_watches' = [data_watches EXCEPT ![i] = w]
    /\ dwt' = IF "watch" \in l THEN dwt ELSE [dwt EXCEPT ![i] = IF off THEN NoWatch ELSE w]
    /\ upset' = (upset \/ "watch" \in l)
    /\ UNCHANGED <<code_break_num, code_break_rev, code_breaks, fpb, ever>>

FreeWatches == {i \in 1..DataWatches : data_watches[i].fun = "disabled"}
WatchesAt(a) == {i \in 1..DataWatches : data_watches[i].addr = a} \ FreeWatches

-----------------------------------------------------------------------------
(***************************************************************************)
(* The caches.                                                             *)
(***************************************************************************)
\* init_cache: what was never read may look like a cache or like none.
InitCache(l) == IF "cache" \in l THEN \E u \in BOOLEAN : cache' = [cache EXCEPT !.used = u]
                                 ELSE cache' = [cache EXCEPT !.used = chip.caches]

\* cache_sync forgets what was changed before it has flushed it.
CacheSync(l) ==
    LET syncs == cache.used /\ cache.modified
    IN  /\ cache' = [cache EXCEPT !.modified = ~syncs /\ @]
        /\ stale' = IF ~syncs \/ stale = "" THEN stale ELSE IF "flush" \in l THEN "lost" ELSE ""

\* The core is let go, or takes a step, and there is only what it sees by then.
LetsGo(how, l) ==
    ranStale' = IF stale' = "gdb" /\ "run" \notin l THEN ranStale \cup {how} ELSE ranStale

\* What writing memory leaves behind a cache.
Hides(who) == stale' = IF chip.caches THEN who ELSE stale

-----------------------------------------------------------------------------
(***************************************************************************)
(* The flash: four units in two pages of a chip whose memory map shows a   *)
(* third page.  What a unit holds is what it held before, nothing, what    *)
(* belongs into some unit of one of two programs, or a mixture.            *)
(***************************************************************************)
Pages == 1..2
UnitsOf(p) == {2 * p - 1, 2 * p}
Units == UNION {UnitsOf(p) : p \in Pages}
PageOf(u) == (u + 1) \div 2
Images == {{1}, {1, 2, 3}, {3}, {1, 2, 3, 4, 5}}
NoLoad == [image |-> {}, erased |-> {}, written |-> {}, slid |-> {}, token |-> "first"]
Before == <<"before", 0>>
Erased == <<"erased", 0>>
Mixed == <<"mixed", 0>>

FlashAddBlock(pages) ==
    flash_root' = <<[pages |-> pages, data |-> [u \in UNION {UnitsOf(p) : p \in pages} |-> Erased]]>>
                    \o flash_root

\* What of the units a..b falls into the block i.
Into(i, a, b) == DOMAIN flash_root[i].data \cap (a .. b)

\* A block takes what falls into it from the start of the data, wherever the
\* block starts.
Copied(i, a, b) ==
    LET into == Into(i, a, b)
    IN  [flash_root[i] EXCEPT !.data =
           [u \in DOMAIN @ |-> IF u \in into THEN <<load.token, a + (u - Min(into))>> ELSE @[u]]]

\* Faulty: the first block the data falls in takes it.
FlashPopulateFirst(a, b) ==
    LET first == Min({i \in DOMAIN flash_root : Into(i, a, b) # {}})
    IN  flash_root' = [flash_root EXCEPT ![first] = Copied(first, a, b)]

\* Every block the data falls in takes it: of several, one is from a load given up.
FlashPopulate(a, b) == flash_root' = [i \in DOMAIN flash_root |-> Copied(i, a, b)]

\* The units that are so given what belongs to those before them.
Slid(a, b) == UNION {into \in {Into(i, a, b) : i \in DOMAIN flash_root} : a \notin into}

\* The operations of flash_go, in order: every page of every block is erased,
\* then every page of every block is programmed.
PagesInOrder(b) == SetToSortSeq(b.pages, <)
Erases(b) == [i \in 1..Cardinality(b.pages) |->
                [do |-> "erase", page |-> PagesInOrder(b)[i], data |-> b.data]]
Writes(b) == [i \in 1..Cardinality(b.pages) |->
                [do |-> "write", page |-> PagesInOrder(b)[i], data |-> b.data]]
FlashGo == FlattenSeq([i \in DOMAIN flash_root |-> Erases(flash_root[i])])
             \o FlattenSeq([i \in DOMAIN flash_root |-> Writes(flash_root[i])])

\* Only erased flash takes data as it is.
Programmed(is, d) == IF is = Erased \/ is = d THEN d ELSE IF d = Erased THEN is ELSE Mixed
Done(f, op) == [u \in Units |-> IF u \notin UnitsOf(op.page) THEN f[u]
                                ELSE IF op.do = "erase" THEN Erased
                                ELSE Programmed(f[u], op.data[u])]
Result(n) == FoldLeft(Done, flash, SubSeq(FlashGo, 1, n))

\* The chip may refuse to program what is not erased.
MayFail(n) == LET op == FlashGo[n + 1]
              IN  op.do = "write" /\ \E u \in UnitsOf(op.page) : Result(n)[u] # Erased

-----------------------------------------------------------------------------
(***************************************************************************)
(* Sessions.                                                               *)
(***************************************************************************)
Init ==
    /\ chip \in [rev : {1, 2}, caches : BOOLEAN]
    /\ uses \in Uses
    /\ ("code" \notin uses => ~chip.caches) /\ ("break" \notin uses => chip.rev = 1)
    /\ hotPlug \in BOOLEAN
    /\ pc = "accept" /\ persistent \in BOOLEAN /\ semihosting = FALSE
    /\ code_break_num = 0 /\ code_break_rev = 0 /\ code_breaks = [i \in Slots |-> NoBreak]
    /\ data_watches = [i \in 1..DataWatches |-> NoWatch]
    /\ flash_root = <<>> /\ cache = [used |-> FALSE, modified |-> FALSE] /\ reg = 0
    /\ core = [halted |-> FALSE, at |-> 4]
    /\ fpb = [i \in 1..Comparators |-> NoBreak] /\ dwt = [i \in 1..DataWatches |-> NoWatch]
    /\ flash = [u \in Units |-> Before] /\ stale = ""
    /\ phase = "gone" /\ want = {} /\ load = NoLoad /\ interrupt = FALSE
    /\ sessions = 0 /\ faults = 0 /\ lost = {} /\ upset = FALSE /\ ever = {}
    /\ served = 0 /\ wrong = {} /\ saved_errno = 0 /\ due = 0 /\ ranStale = {} /\ old = {} /\ told = ""

\* Where the core is, and that what it had asked for is behind it.
Moves(halted, at) == /\ core' = [halted |-> halted, at |-> at]
                     /\ served' = IF at = core.at THEN served ELSE 0
                     /\ UNCHANGED <<reg, wrong, saved_errno, due>>

\* stlink_target_connect, or opening the programmer again, and stlink_force_debug:
\* a reset lets the core go, and it runs until it is stopped.
Connect(l) == \E at \in (IF hotPlug THEN {core.at} ELSE Drifts(4)) :
                 Moves("halt" \notin l \/ (hotPlug /\ core.halted), at)

\* serve(), until it waits for the first packet.
Accept ==
    /\ pc = "accept" /\ sessions < MaxSessions
    /\ \E l \in Losses({"halt", "count", "clear", "unwatch", "cache"}) :
          /\ Connect(l) /\ InitPoints(l) /\ InitCache(l)
          /\ Lose(l)
    /\ pc' = "receive" /\ sessions' = sessions + 1
    /\ phase' = "stopped" /\ want' = {} /\ interrupt' = FALSE
    /\ UNCHANGED <<fixed, server, loading, stale, ranStale>>

\* GDB goes; what it loaded so far stays in flash_root.
NextToken == IF load.image = {} THEN load.token ELSE IF load.token = "first" THEN "second" ELSE "none"
GivesUp == /\ load' = [NoLoad EXCEPT !.token = NextToken]
           /\ old' = UNION {flash_root[i].pages : i \in DOMAIN flash_root}
HangUp ==
    /\ phase # "gone" /\ pc \in {"receive", "running", "input"}
    /\ phase' = "gone" /\ interrupt' = FALSE /\ GivesUp
    /\ UNCHANGED <<fixed, pc, server, breaks, watches, memory, flash_root, flash, told, calls, core,
                   want, sessions, failures>>

\* serve() returns and main lets the core go: for another session, or for good,
\* when leaving debug mode lets it go in any case.
Ends(l) ==
    /\ Moves(core.halted /\ persistent /\ "run" \in l, core.at)
    /\ LetsGo("end", IF persistent THEN l ELSE {})
    /\ Lose(l)
    /\ pc' = (IF persistent THEN "accept" ELSE "exited") /\ phase' = "gone"

Closed ==
    /\ pc \in {"receive", "running"} /\ phase = "gone"
    /\ UNCHANGED <<fixed, server, breaks, watches, cache, stale, loading, want, interrupt, sessions>>
    /\ \E l \in Losses({"run"}) : Ends(l)

\* cleanup(), on a signal while it waits for a packet, a connection or input.
Signal ==
    /\ pc \in {"accept", "receive", "input"}
    /\ UNCHANGED <<fixed, server, breaks, watches, cache, stale, loading, want, interrupt, sessions,
                   failures>>
    /\ Moves(FALSE, core.at) /\ LetsGo("signal", {})
    /\ pc' = "exited" /\ phase' = "gone"

Asks(p) == pc = "receive" /\ phase \in p
Answered == UNCHANGED <<fixed, pc, server, sessions, interrupt>>

-----------------------------------------------------------------------------
(***************************************************************************)
(* Z1, z1, Z2, Z3, z2, z3.                                                 *)
(***************************************************************************)
AsBreak(a) == [fun |-> "break", addr |-> a]
NowWants(w) == want' = w /\ phase' = IF w = {} THEN "stopped" ELSE phase
Refused == /\ phase' = (IF want = {} THEN "stopped" ELSE "removing")
           /\ UNCHANGED <<breaks, watches, want, failures>>

InsertBreak(a) ==
    /\ Asks({"stopped", "inserting"}) /\ AsBreak(a) \notin want
    /\ \/ /\ Fitting(a, TRUE) # {}
          /\ \E l \in Losses({"compare"}) : UpdateCodeBreakpoint(a, TRUE, l) /\ Lose(l)
          /\ want' = want \cup {AsBreak(a)} /\ phase' = "inserting"
          /\ UNCHANGED watches
       \/ /\ Fitting(a, TRUE) = {} /\ Refused
    /\ Answered /\ UNCHANGED <<memory, loading, calls, core>>

\* What GDB removes it has inserted, and a slot for it is always found: the
\* answers for when there is none are never given.
RemoveBreak(a) ==
    /\ Asks({"removing"}) /\ AsBreak(a) \in want
    /\ \E l \in Losses({"compare"}) : UpdateCodeBreakpoint(a, FALSE, l) /\ Lose(l)
    /\ NowWants(want \ {AsBreak(a)})
    /\ Answered /\ UNCHANGED <<watches, memory, loading, calls, core>>

InsertWatch(w) ==
    /\ Asks({"stopped", "inserting"}) /\ w \notin want
    /\ \/ /\ FreeWatches # {}
          /\ \E l \in Losses({"watch"}) : SetWatch(Min(FreeWatches), w, FALSE, l) /\ Lose(l)
          /\ want' = want \cup {w} /\ phase' = "inserting"
       \/ /\ FreeWatches = {} /\ Refused
    /\ Answered /\ UNCHANGED <<memory, loading, calls, core>>

\* The address decides which slot is cleared, whatever it watches for.
RemoveWatch(w) ==
    /\ Asks({"removing"}) /\ w \in want
    /\ LET i == Min(WatchesAt(w.addr))
       IN  \E l \in Losses({"watch"}) :
             SetWatch(i, [data_watches[i] EXCEPT !.fun = "disabled"], TRUE, l) /\ Lose(l)
    /\ NowWants(want \ {w})
    /\ Answered /\ UNCHANGED <<memory, loading, calls, core>>

-----------------------------------------------------------------------------
(***************************************************************************)
(* M, c, s and what the program does meanwhile.                            *)
(***************************************************************************)
\* A write remembers that the caches may be stale, whether it worked or not.
WriteMemory ==
    /\ Asks({"stopped"}) /\ "code" \in uses
    /\ cache' = [cache EXCEPT !.modified = TRUE]
    /\ \E l \in Losses({"store"}) : /\ IF l = {} THEN Hides("gdb") ELSE UNCHANGED stale
                                    /\ Lose(l)
    /\ Answered /\ UNCHANGED <<breaks, watches, ranStale, loading, calls, core, phase, want>>

Continue ==
    /\ Asks({"stopped", "inserting"})
    /\ \E l \in Losses({"flush", "run"}) :
          /\ CacheSync(l)
          /\ core' = [core EXCEPT !.halted = @ /\ "run" \in l] /\ LetsGo("c", l)
          /\ Lose(l)
    /\ pc' = "running" /\ phase' = "waiting"
    /\ UNCHANGED <<fixed, server, breaks, watches, loading, calls, want, interrupt, sessions>>

\* The core takes an instruction, if it is let: one it has to stop at stops it.
CoreRuns ==
    /\ ~core.halted /\ pc # "exited"
    /\ IF core.at \in Blocked THEN Moves(TRUE, core.at)
                              ELSE \E h \in {FALSE, Watching # {}} : Moves(h, After(core.at))
    /\ UNCHANGED <<fixed, pc, server, breaks, watches, memory, loading, phase, want, interrupt,
                   sessions, failures>>

Interrupt == /\ pc \in {"running", "input"} /\ phase = "waiting" /\ ~interrupt
             /\ interrupt' = TRUE
             /\ UNCHANGED <<fixed, pc, server, breaks, watches, memory, loading, calls, core, phase,
                            want, sessions, failures>>

\* S05.  An interrupt still on its way is taken for a bad acknowledgement.
StopReply == /\ pc' = "receive" /\ interrupt' = FALSE
             /\ phase' = (IF want = {} THEN "stopped" ELSE "removing")
StillWaits == UNCHANGED <<pc, interrupt, phase>>

\* Faulty: the interrupt is seen only while the core runs.
InterruptedRunning ==
    /\ interrupt /\ ~core.halted
    /\ \E l \in Losses({"halt"}) : /\ core' = [core EXCEPT !.halted = l = {}]
                                   /\ Lose(l)
    /\ StopReply
    /\ UNCHANGED <<memory, calls>>

Interrupted ==
    /\ interrupt
    /\ \E l \in Losses({"halt"}) : /\ core' = [core EXCEPT !.halted = @ \/ l = {}]
                                   /\ Lose(l)
    /\ StopReply
    /\ UNCHANGED <<memory, calls>>

\* A failed look at the core leaves it unknown, and another is taken.
LooksAgain ==
    /\ ~interrupt
    /\ \/ \E l \in Losses({"status"}) \ {{}} : Lose(l)
       \/ ~core.halted /\ UNCHANGED failures
    /\ StillWaits
    /\ UNCHANGED <<memory, calls, core>>

\* What the registers say, when read, or else what was left on the stack.
ReadRegs(l) == reg' \in IF "regs" \in l THEN {reg, 0} ELSE {core.at}
IsCall(l) == semihosting /\ reg' \in Traps /\ "insn" \notin l /\ ~HasBreakpoint(Word(reg'))

\* A stop that is for GDB to hear of.  GDB is not meant to hear of a call,
\* unless somebody put a breakpoint where it is.
Excused == \E a \in ever : Word(a) = Word(core.at)
TellsGdb ==
    /\ ~interrupt /\ core.halted
    /\ \E l \in Losses({"regs", "insn"}) :
          /\ IF semihosting THEN ReadRegs(l) ELSE l = {} /\ UNCHANGED reg
          /\ ~IsCall(l)
          /\ wrong' = wrong \cup IF semihosting /\ core.at \in Traps /\ ~Excused THEN {"shown"} ELSE {}
          /\ Lose(l)
    /\ StopReply
    /\ UNCHANGED <<memory, served, saved_errno, due, core>>

\* A call is performed, its result written, the core put behind it and let go.
\* A call may write memory of which no cache is told.
Performs(call, l) ==
    \E o \in DoSemihosting(call, saved_errno, l \cap Accesses(call)) :
       /\ wrong' = wrong \cup (IF reg' # core.at THEN {"stray"} ELSE {})
                         \cup (IF served > 0 THEN {"twice"} ELSE {})
                         \cup (IF Means(call, o, due, IF "result" \in l THEN Number ELSE o.ret)
                               THEN {} ELSE {"answer"})
       /\ IF "files" \in uses THEN saved_errno' = o.saved /\ due' = o.due
                               ELSE UNCHANGED <<saved_errno, due>>  \* ERRNO is never called
       /\ core' = [halted |-> "run" \in l, at |-> IF "jump" \in l THEN core.at ELSE After(reg')]
       /\ served' = IF "jump" \in l THEN 1 ELSE 0
       /\ IF call.op = "read" /\ o.moved > 0 /\ stale = "" /\ ~cache.modified
          THEN Hides("call") /\ UNCHANGED cache ELSE CacheSync(l)
       /\ LetsGo("call", l)
       /\ Lose(l)
MayLose(call) == {"jump", "flush", "run", "result"} \cup Accesses(call)

\* The call the registers tell of, if it does not have to wait.
ServesCall ==
    /\ ~interrupt /\ core.halted
    /\ \E call \in Calls : \E l \in Losses({"regs", "insn"} \cup MayLose(call)) :
          ReadRegs(l) /\ IsCall(l) /\ Performs(call, l)
    /\ StillWaits

\* READC, and READ from a terminal, wait for somebody to type: so does the server.
AwaitsInput ==
    /\ ~interrupt /\ core.halted /\ "files" \in uses
    /\ \E l \in Losses({"regs"}) : ReadRegs(l) /\ IsCall(l) /\ Lose(l)
    /\ pc' = "input"
    /\ UNCHANGED <<interrupt, phase, memory, served, wrong, saved_errno, due, core>>

TakesInput ==
    /\ pc = "input"
    /\ \E call \in FromTerminal : \E l \in Losses(MayLose(call) \ {"args"}) :
          reg' = reg /\ Performs(call, l)
    /\ pc' = "running"
    /\ UNCHANGED <<fixed, server, breaks, watches, loading, want, interrupt, phase, sessions>>

\* One turn of the loop of "c": the interrupt comes first.
Turn ==
    /\ pc = "running" /\ phase = "waiting"
    /\ Interrupted \/ LooksAgain \/ TellsGdb \/ ServesCall \/ AwaitsInput
    /\ UNCHANGED <<fixed, server, breaks, watches, loading, want, sessions>>

\* A step that cannot be made ends the session.
Step ==
    /\ Asks({"stopped", "inserting"})
    /\ \/ /\ CacheSync({}) /\ LetsGo("s", {})
          /\ Moves(TRUE, IF core.at \in Blocked THEN core.at ELSE After(core.at))
          /\ phase' = (IF want = {} THEN "stopped" ELSE "removing")
          /\ UNCHANGED <<pc, failures>>
       \/ /\ CacheSync({})
          /\ \E l \in Losses({"step"}) \ {{}} : Ends(l)
    /\ UNCHANGED <<fixed, server, breaks, watches, loading, want, interrupt, sessions>>

-----------------------------------------------------------------------------
(***************************************************************************)
(* Resets and what monitor can do.                                         *)
(***************************************************************************)
\* R, and monitor reset, which halts the core first.
Restart ==
    /\ Asks({"stopped"})
    /\ \E l \in Losses({"reset", "count", "clear", "unwatch"}) :
          /\ IF "reset" \in l THEN UNCHANGED <<core, calls>> ELSE Moves(TRUE, 4)
          /\ InitPoints(l)
          /\ Lose(l)
    /\ Answered /\ UNCHANGED <<memory, loading, phase, want>>

JtagReset ==
    /\ Asks({"stopped"})
    /\ \E l \in Losses({"halt"}), at \in Drifts(4) : Moves(l = {}, at) /\ Lose(l)
    /\ Answered /\ UNCHANGED <<breaks, watches, memory, loading, phase, want>>

MonitorHalt ==
    /\ Asks({"stopped"}) /\ ~core.halted
    /\ Moves(TRUE, core.at)
    /\ Answered /\ UNCHANGED <<breaks, watches, memory, loading, phase, want, failures>>

\* Faulty: the caches are not flushed.
MonitorResumeUnsynced ==
    /\ Asks({"stopped"}) /\ core.halted
    /\ Answered /\ UNCHANGED <<breaks, watches, cache, stale, loading, phase, want, failures>>
    /\ Moves(FALSE, core.at) /\ LetsGo("monitor", {})

MonitorResume ==
    /\ Asks({"stopped"}) /\ core.halted
    /\ CacheSync({}) /\ Moves(FALSE, core.at) /\ LetsGo("monitor", {})
    /\ Answered /\ UNCHANGED <<breaks, watches, loading, phase, want, failures>>

MonitorSemihosting ==
    /\ Asks({"stopped"}) /\ Traps # {}
    /\ semihosting' \in BOOLEAN
    /\ UNCHANGED <<fixed, pc, persistent, breaks, watches, memory, loading, calls, core, phase, want,
                   interrupt, sessions, failures>>

Extended ==
    /\ Asks({"stopped"}) /\ persistent' = TRUE
    /\ UNCHANGED <<fixed, pc, semihosting, breaks, watches, memory, loading, calls, core, phase, want,
                   interrupt, sessions, failures>>

\* k lets the core go and opens the programmer anew.  If that cannot be done,
\* cleanup() is given the closed one, and st-util ends.
Kill ==
    /\ Asks({"stopped"})
    /\ \/ /\ \E l \in Losses({"halt", "count", "clear", "unwatch", "cache"}) :
                /\ \E at \in (IF hotPlug THEN Drifts(core.at) ELSE Drifts(4)) : Moves("halt" \notin l, at)
                /\ InitPoints(l) /\ InitCache(l)
                /\ Lose(l)
          /\ UNCHANGED <<pc, phase>>
       \/ /\ \E l \in Losses({"open"}) \ {{}} : Lose(l)
          /\ Moves(FALSE, core.at) /\ pc' = "exited" /\ phase' = "gone"
          /\ UNCHANGED <<breaks, watches, cache>>
    /\ UNCHANGED <<fixed, server, loading, stale, want, interrupt, sessions>>
    /\ LetsGo("k", {})

-----------------------------------------------------------------------------
(***************************************************************************)
(* vFlashErase, vFlashWrite, vFlashDone.                                   *)
(***************************************************************************)
PagesOf(image) == {PageOf(u) : u \in image}
Loaded == <<breaks, watches, memory, want>>

\* GDB erases the pages its image falls in, from the first on, in one packet
\* or in several.  Pages the chip does not have are refused, and GDB gives up.
FlashErase ==
    /\ Asks({"stopped", "loading"}) /\ "load" \in uses
    /\ \E image \in Images, last \in 1..3 :
          LET left == PagesOf(image) \ load.erased
              pages == {p \in left : p <= last}
          IN  /\ load.image \in {{}, image} /\ load.token # "none" /\ load.written = {}
              /\ last \in left
              /\ \/ /\ pages \subseteq Pages
                    /\ FlashAddBlock(pages)
                    /\ load' = [load EXCEPT !.image = image, !.erased = @ \cup pages]
                    /\ phase' = "loading" /\ UNCHANGED old
                 \/ /\ ~(pages \subseteq Pages)
                    /\ phase' = "stopped" /\ GivesUp /\ UNCHANGED flash_root
    /\ told' = ""
    /\ Answered /\ UNCHANGED <<Loaded, flash, calls, core, failures>>

\* A packet takes as much of what is left as fits into it.
FlashWrite ==
    /\ Asks({"loading"}) /\ load.erased = PagesOf(load.image)
    /\ LET left == load.image \ load.written
       IN  \E b \in left :
             /\ FlashPopulate(Min(left), b)
             /\ load' = [load EXCEPT !.written = @ \cup (Min(left) .. b),
                                     !.slid = @ \cup Slid(Min(left), b)]
    /\ Answered /\ UNCHANGED <<Loaded, phase, flash, old, told, calls, core, failures>>

\* flash_go connects anew, and forgets the blocks however far it came.
FlashDone ==
    /\ Asks({"loading"}) /\ load.written = load.image /\ load.image # {}
    /\ \/ /\ flash' = Result(Len(FlashGo))
          /\ told' = "OK"
          /\ Moves(TRUE, 4) /\ UNCHANGED failures
       \/ \E n \in 0..(Len(FlashGo) - 1), l \in Losses({"flash"}) :
             /\ MayFail(n) \/ l # {}
             /\ flash' = Result(n) /\ told' = "E08"
             /\ \E at \in IF hotPlug THEN {core.at} ELSE Drifts(4) : Moves(TRUE, at)
             /\ Lose(l)
    /\ flash_root' = <<>> /\ old' = {}
    /\ load' = [NoLoad EXCEPT !.token = NextToken]
    /\ phase' = "stopped"
    /\ Answered /\ UNCHANGED Loaded

-----------------------------------------------------------------------------
Next ==
    \/ Accept \/ HangUp \/ Closed \/ Signal
    \/ \E a \in Breaks : InsertBreak(a) \/ RemoveBreak(a)
    \/ \E w \in Watched : InsertWatch(w) \/ RemoveWatch(w)
    \/ WriteMemory \/ Continue \/ CoreRuns \/ Interrupt \/ Turn \/ TakesInput \/ Step
    \/ Restart \/ JtagReset \/ MonitorHalt \/ MonitorResume \/ MonitorSemihosting \/ Extended \/ Kill
    \/ FlashErase \/ FlashWrite \/ FlashDone

Fairness == WF_vars(Turn)
Spec == Init /\ [][Next]_vars /\ Fairness

-----------------------------------------------------------------------------
(***************************************************************************)
(* Properties.                                                             *)
(***************************************************************************)
\* The core stops exactly where GDB has inserted breakpoints, and while it
\* runs for GDB, or GDB has inserted nothing, it is watched exactly for what
\* GDB watches: unless a write to the comparators failed since they were last
\* cleared.  Slots are shared by the two halves of a word, are reused with the
\* address of what was in them, and are found by address alone, so that one of
\* two watchpoints of an address is removed in place of the other
\* (update_code_breakpoint, delete_data_watchpoint).
Inserted(fun) == {w \in want : w.fun = fun}
BreakpointsAreGdbs ==
    phase # "gone" /\ ~upset =>
        /\ Armed = {w.addr : w \in Inserted("break")}
        /\ phase \in {"waiting", "stopped"} => Watching = want \ Inserted("break")

\* A call of the program is performed once, its answer says what was done, and
\* it is not shown to GDB, whatever GDB did before: it is performed twice only
\* if the core could not be put behind it, another is performed in its place
\* only if the registers could not be read, and r0 says something else only if
\* it could not be written (do_semihosting, the loop of "c").  GDB hears of one
\* only if a breakpoint was ever put into its word, or it could not be read.
CallServedOnce ==
    /\ "twice" \in wrong => "jump" \in lost
    /\ "stray" \in wrong => "regs" \in lost
    /\ "answer" \in wrong => "result" \in lost
    /\ "shown" \in wrong => {"regs", "insn"} \cap lost # {}

\* However the core is let go for GDB, it sees the code GDB wrote: continued,
\* stepped, resumed by monitor, or put behind a call, over resets and sessions,
\* unless what it has for caches could not be read.  Only k, the end of a
\* session and cleanup let it go without cache_sync (gdb-server.c:1636, 263, 65).
Unsynced == {"k", "end", "signal"}
RunsFreshCode == "cache" \in lost \/ ranStale \subseteq Unsynced

\* When a load is committed, the flash holds the image, the rest of its pages
\* is erased and no other page is touched: except for pages of a load that was
\* given up before, by a refusal or a lost connection, which flash_root kept.
\* The image is there even so, but for what a packet brought that began before
\* one of those pages (flash_populate, gdb-server.c:646-651).
Committed(u) ==
    IF u \in load.image THEN flash'[u] = <<load.token, u>> \/ u \in load.slid
    ELSE PageOf(u) \notin old =>
           flash'[u] = IF PageOf(u) \in load.erased THEN Erased ELSE flash[u]
FlashHoldsTheDownload == [][told = "" /\ told' = "OK" => \A u \in Units : Committed(u)]_vars

\* What the picture of flash_populate says (gdb-server.c:634-642): data may begin
\* before a block, and what falls into the block is what belongs there.
BlocksTakeTheirOwn ==
    \A i \in DOMAIN flash_root : \A u \in DOMAIN flash_root[i].data :
       flash_root[i].data[u] \in {Erased, <<"first", u>>, <<"second", u>>}

\* An interrupt ends the wait, even while the program calls without end: except
\* that no one hears it while a call waits for input.
InterruptEndsTheWait == (pc = "running" /\ interrupt) ~> (pc # "running" \/ phase = "gone")
=============================================================================
