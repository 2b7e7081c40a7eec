--------------------------- MODULE GdbServerProofs ---------------------------
(***************************************************************************)
(* Proofs about GdbServer: what keeps code fresh (Fresh), what keeps calls *)
(* apart (Serving), and what the slots of the two units hold while GDB     *)
(* inserts and removes (Held).                                             *)
(***************************************************************************)
EXTENDS GdbServer, WellFoundedInduction, TLAPS

Places == {4, 6, 8, 10}
Spots == {4, 6, 8}
Comparator == [addr : {0} \cup Spots, type : SUBSET {"low", "high", "remap"}]
Watch == [fun : {"disabled", "write", "read"}, addr : 0 .. 2]
Wanted == {AsBreak(a) : a \in Spots} \cup [fun : {"write", "read"}, addr : {1, 2}]

MemoryTyped ==
  /\ chip \in [rev : {1, 2}, caches : BOOLEAN]
  /\ cache \in [used : BOOLEAN, modified : BOOLEAN]
  /\ stale \in {"", "gdb", "call", "lost"}

CallsTyped ==
  /\ core \in [halted : BOOLEAN, at : Places]
  /\ served \in {0, 1} /\ saved_errno \in Int /\ due \in Int /\ reg \in Places \cup {0}

BreaksTyped ==
  /\ code_break_num \in 0 .. Comparators + 1 /\ code_break_rev \in {0, 1, 2}
  /\ code_breaks \in [Slots -> Comparator] /\ fpb \in [1 .. Comparators -> Comparator]
  /\ ever \subseteq Spots

WatchesTyped ==
  /\ data_watches \in [1 .. DataWatches -> Watch] /\ dwt \in [1 .. DataWatches -> Watch]

PointsTyped == BreaksTyped /\ WatchesTyped /\ want \subseteq Wanted

(* The caches are known, and what GDB wrote behind them is remembered.     *)
Fresh ==
  "cache" \notin lost =>
    /\ ranStale \subseteq Unsynced
    /\ pc \in {"receive", "running", "input"} => (cache.used <=> chip.caches)
    /\ stale = "gdb" => cache.modified /\ cache.used /\ chip.caches

(* A call that was served is behind the core, and what the program is owed *)
(* is kept.                                                                *)
Serving ==
  /\ served > 0 => "jump" \in lost
  /\ pc = "input" => core.halted /\ (reg = core.at \/ "regs" \in lost)
  /\ due # 0 => saved_errno = due

(* Every address in a slot is one a breakpoint was put at, or its word.    *)
Addressed ==
  \A i \in Slots :
    code_breaks[i].addr = 0 \/ \E a \in ever : code_breaks[i].addr \in {a, Word(a)}

(* Slot i holds the breakpoint at a.                                       *)
HoldsBreak(i, a) ==
  code_breaks[i].addr = FpbAddr(a) /\ BreakType(a) \in code_breaks[i].type

(* The first slots are filled in order, each with a word of its own, and   *)
(* the others are empty, whatever their addresses say.                     *)
FilledTo(m) ==
  /\ \A i, j \in 1 .. m : code_breaks[i].addr = code_breaks[j].addr => i = j
  /\ \A i \in 1 .. Comparators : i > m => code_breaks[i].type = {}
  /\ phase # "removing" => \A i \in 1 .. m : code_breaks[i].type # {}

(* The comparators hold what st-util thinks they do, which is what GDB     *)
(* wants.                                                                  *)
BreaksHeld ==
  /\ code_break_num = Comparators /\ code_break_rev = chip.rev
  /\ \A i \in 1 .. Comparators :
       fpb[i] = IF code_breaks[i].type = {} THEN NoBreak ELSE code_breaks[i]
  /\ \A a \in Spots : AsBreak(a) \in want <=> \E i \in 1 .. Comparators : HoldsBreak(i, a)
  /\ \A i \in 1 .. Comparators : \A t \in code_breaks[i].type :
       \E a \in Spots : code_breaks[i].addr = FpbAddr(a) /\ BreakType(a) = t
  /\ \E m \in 0 .. Comparators : FilledTo(m)

(* Every watchpoint has a slot to itself.  Once they are being removed, it *)
(* may be that of another with its address.                                *)
Watches == {w \in want : w.fun # "break"}
UsedWatches == (1 .. DataWatches) \ FreeWatches
Slotted(f) ==
  /\ \A v, w \in Watches : f[v] = f[w] => v = w
  /\ \A i \in UsedWatches : \E w \in Watches : f[w] = i
  /\ \A w \in Watches : /\ data_watches[f[w]].addr = w.addr
                        /\ phase # "removing" => data_watches[f[w]] = w

WatchesHeld ==
  /\ \A i \in 1 .. DataWatches :
       dwt[i] = IF data_watches[i].fun = "disabled" THEN NoWatch ELSE data_watches[i]
  /\ \E f \in [Watches -> UsedWatches] : Slotted(f)

Held ==
  /\ phase \in {"stopped", "loading"} => want = {}
  /\ phase # "gone" /\ ~upset => BreaksHeld /\ WatchesHeld

Inv == /\ MemoryTyped /\ CallsTyped /\ PointsTyped
       /\ Fresh /\ Serving /\ Addressed /\ CallServedOnce /\ Held

-----------------------------------------------------------------------------
(***************************************************************************)
(* What the model's operators do.                                          *)
(***************************************************************************)
(* The first of some numbers is one of them, and no later than any.        *)
LEMMA MinIsFirst ==
  ASSUME NEW S \in SUBSET Nat, S # {}
  PROVE  Min(S) \in S /\ \A y \in S : Min(S) <= y
<1> DEFINE R == {ss \in Nat \X Nat : ss[1] < ss[2]}
<1>1. IsWellFoundedOn(R, Nat)
  BY NatLessThanWellFounded, Zenon DEF OpToRel
<1>2. PICK x \in S : \A y \in S : ~(<<y, x>> \in R)
  <2> HIDE DEF R
  <2> QED BY <1>1, WFMin, Zenon
<1>3. \A y \in S : x <= y
  <2> SUFFICES ASSUME NEW y \in S PROVE x <= y
    OBVIOUS
  <2>1. ~(<<y, x>> \in R)
    BY <1>2, Zenon
  <2>2. x \in Nat /\ y \in Nat
    OBVIOUS
  <2> QED
    BY <2>1, <2>2
<1> QED
  BY <1>3, Zenon DEF Min

(* A call that fails is one of those it was let fail, and is remembered if *)
(* it is an excuse for something.                                          *)
LEMMA LossesAre ==
  ASSUME NEW S, NEW l \in Losses(S)
  PROVE  l \subseteq S
  BY DEF Losses

(* A failure that is an excuse stays one.                                  *)
LEMMA LostAre ==
  ASSUME NEW l, Lose(l)
  PROVE  /\ \A x \in lost : x \in lost'
         /\ \A x \in {"cache", "jump", "regs", "insn", "result"} : x \in l => x \in lost'
  BY DEF Lose

(* The program is at one of four places, and calls from two of them.       *)
LEMMA CodeIsPlaces == /\ Code \subseteq Places /\ 4 \in Code /\ \A a : After(a) \in Code
                      /\ \A a : Drifts(a) \subseteq Code
                      /\ Traps \subseteq {6, 8} /\ Breaks \subseteq Spots
<1>1. Code \subseteq Places /\ 4 \in Code
  BY DEF Code, Places
<1>2. \A a : After(a) \in Code
  BY <1>1 DEF After
<1>3. \A a : Drifts(a) \subseteq Code
  BY DEF Drifts
<1>4. Traps \subseteq {6, 8}
  BY DEF Traps
<1>5. Breaks \subseteq Spots
  BY DEF Breaks, Spots
<1> QED
  BY <1>1, <1>2, <1>3, <1>4, <1>5

-----------------------------------------------------------------------------
(***************************************************************************)
(* The caches.                                                             *)
(***************************************************************************)
(* Fresh, of the variables that matter to it.                              *)
LEMMA CacheSyncs ==
  ASSUME MemoryTyped, NEW l, CacheSync(l)
  PROVE  /\ cache' \in [used : BOOLEAN, modified : BOOLEAN]
         /\ stale' \in {"", "gdb", "call", "lost"}
         /\ cache'.used = cache.used
         /\ stale' = "gdb" => /\ stale = "gdb" /\ ~(cache.used /\ cache.modified)
                              /\ cache'.modified = cache.modified
<1>1. cache \in [used : BOOLEAN, modified : BOOLEAN] /\ stale \in {"", "gdb", "call", "lost"}
  BY Zenon DEF MemoryTyped
<1>2. cache = [used |-> cache.used, modified |-> cache.modified]
  BY <1>1
<1>4. CASE cache.used /\ cache.modified
  <2>1. cache' = [cache EXCEPT !.modified = FALSE]
    BY Zenon, <1>4 DEF CacheSync
  <2>2. stale' \in {"", "lost"}
    BY <1>1, <1>4 DEF CacheSync
  <2> QED
    BY <1>1, <1>2, <2>1, <2>2
<1>5. CASE ~(cache.used /\ cache.modified)
  <2>1. cache' = cache
    <3>1. cache' = [cache EXCEPT !.modified = cache.modified]
      BY Zenon, <1>1, <1>5 DEF CacheSync
    <3> QED
      BY <1>1, <3>1
  <2>2. stale' = stale
    BY Zenon, <1>5 DEF CacheSync
  <2> QED
    BY <1>1, <1>5, <2>1, <2>2
<1> QED
  BY <1>4, <1>5

(* What the core is let go for is remembered only if it does not see what  *)
(* GDB wrote.                                                              *)
LEMMA LetsGoIs ==
  ASSUME NEW how, NEW l, LetsGo(how, l)
  PROVE  /\ ranStale' \subseteq ranStale \cup {how}
         /\ stale' # "gdb" => ranStale' = ranStale
         /\ how \in Unsynced => ranStale' \subseteq ranStale \cup Unsynced
  BY DEF LetsGo

(* What never changes, and what is never forgotten.                        *)
LEMMA FixedStay ==
  ASSUME Next
  PROVE  UNCHANGED <<chip, uses, hotPlug>> /\ \A x \in lost : x \in lost'
<1> USE DEF fixed, failures
<1>1. (\E l : Lose(l)) \/ UNCHANGED failures => \A x \in lost : x \in lost'
  BY Zenon, LostAre
<1>2. CASE Accept \/ HangUp \/ Closed \/ Signal
  BY Zenon, <1>1, <1>2 DEF Accept, HangUp, Closed, Signal, Ends
<1>3. CASE \E a \in Breaks : InsertBreak(a) \/ RemoveBreak(a)
  BY Zenon, <1>1, <1>3 DEF InsertBreak, RemoveBreak, Refused, Answered
<1>4. CASE \E w \in Watched : InsertWatch(w) \/ RemoveWatch(w)
  BY Zenon, <1>1, <1>4 DEF InsertWatch, RemoveWatch, Refused, Answered
<1>5. CASE WriteMemory \/ Continue \/ CoreRuns \/ Interrupt \/ TakesInput \/ Step
  BY Zenon, <1>1, <1>5 DEF WriteMemory, Continue, CoreRuns, Interrupt, TakesInput, Performs, Step,
     Ends, Answered
<1>6. CASE Turn
  BY Zenon, <1>1, <1>6 DEF Turn, Interrupted, LooksAgain, TellsGdb, ServesCall, Performs,
     AwaitsInput
<1>7. CASE Restart \/ JtagReset \/ MonitorHalt \/ MonitorResume \/ MonitorSemihosting \/ Extended
  BY Zenon, <1>1, <1>7 DEF Restart, JtagReset, MonitorHalt, MonitorResume, MonitorSemihosting,
     Extended, Answered
<1>8. CASE Kill
  BY Zenon, <1>1, <1>8 DEF Kill
<1>9. CASE FlashErase \/ FlashWrite \/ FlashDone
  BY Zenon, <1>1, <1>9 DEF FlashErase, FlashWrite, FlashDone, Answered
<1> QED
  BY Zenon, <1>2, <1>3, <1>4, <1>5, <1>6, <1>7, <1>8, <1>9 DEF Next

AtWork == {"receive", "running", "input"}

(* Nothing is done with the caches.                                        *)
LEMMA FreshStays ==
  ASSUME MemoryTyped, Fresh, Next, UNCHANGED <<cache, stale>>, pc' \in AtWork => pc \in AtWork,
         ranStale' \subseteq ranStale \cup Unsynced
  PROVE  MemoryTyped' /\ Fresh'
<1>1. UNCHANGED <<chip, cache, stale>> /\ \A x \in lost : x \in lost'
  BY Zenon, FixedStay
<1>2. MemoryTyped'
  BY Zenon, <1>1 DEF MemoryTyped
<1>3. "cache" \in lost => "cache" \in lost'
  BY Zenon, <1>1
<1>4. ranStale \subseteq Unsynced => ranStale' \subseteq Unsynced
  OBVIOUS
<1>5. Fresh'
  BY Zenon, <1>1, <1>3, <1>4 DEF Fresh, AtWork
<1> QED
  BY <1>2, <1>5

(* The caches are flushed, or it is known that they need not be.           *)
LEMMA FreshSyncs ==
  ASSUME MemoryTyped, Fresh, Next, NEW l, CacheSync(l), pc \in AtWork,
         stale' # "gdb" => ranStale' = ranStale
  PROVE  MemoryTyped' /\ Fresh'
<1>1. chip' = chip /\ ("cache" \in lost => "cache" \in lost')
  BY Zenon, FixedStay
<1>2. MemoryTyped'
  BY <1>1, CacheSyncs DEF MemoryTyped
<1>3. ASSUME "cache" \notin lost'
      PROVE  /\ ranStale \subseteq Unsynced /\ (cache.used <=> chip.caches)
             /\ stale = "gdb" => cache.modified /\ cache.used /\ chip.caches
  BY Zenon, <1>1, <1>3 DEF Fresh, AtWork
<1>4. ASSUME "cache" \notin lost' PROVE stale' # "gdb"
  BY Zenon, <1>3, <1>4, CacheSyncs
<1>5. ASSUME "cache" \notin lost'
      PROVE  ranStale' \subseteq Unsynced /\ (cache'.used <=> chip'.caches)
  BY Zenon, <1>1, <1>3, <1>4, <1>5, CacheSyncs
<1> QED
  BY Zenon, <1>2, <1>4, <1>5 DEF Fresh

(* The caches are asked about.                                             *)
LEMMA FreshAsks ==
  ASSUME MemoryTyped, Fresh, Next, NEW l, InitCache(l), Lose(l), UNCHANGED stale,
         ranStale' \subseteq ranStale \cup Unsynced
  PROVE  MemoryTyped' /\ Fresh'
<1>1. chip' = chip /\ ("cache" \in lost => "cache" \in lost')
  BY Zenon, FixedStay
<1>2. cache \in [used : BOOLEAN, modified : BOOLEAN] /\ chip \in [rev : {1, 2}, caches : BOOLEAN]
  BY Zenon DEF MemoryTyped
<1>3. CASE "cache" \in l
  <2>1. PICK u \in BOOLEAN : cache' = [cache EXCEPT !.used = u]
    BY Zenon, <1>3 DEF InitCache
  <2>2. cache' \in [used : BOOLEAN, modified : BOOLEAN]
    BY <1>2, <2>1
  <2>3. "cache" \in lost'
    BY Zenon, <1>3, LostAre
  <2> QED
    BY Zenon, <1>1, <2>2, <2>3 DEF MemoryTyped, Fresh
<1>4. CASE "cache" \notin l
  <2>1. cache' = [cache EXCEPT !.used = chip.caches]
    BY Zenon, <1>4 DEF InitCache
  <2>2. /\ cache' \in [used : BOOLEAN, modified : BOOLEAN]
        /\ cache'.used = chip.caches /\ cache'.modified = cache.modified
    BY <1>2, <2>1
  <2>3. MemoryTyped'
    BY Zenon, <1>1, <2>2 DEF MemoryTyped
  <2>4. ASSUME "cache" \notin lost'
        PROVE  /\ ranStale' \subseteq Unsynced
               /\ (stale = "gdb" => cache.modified /\ cache.used /\ chip.caches)
    <3>1. /\ ranStale \subseteq Unsynced
          /\ (stale = "gdb" => cache.modified /\ cache.used /\ chip.caches)
      BY Zenon, <1>1, <2>4 DEF Fresh
    <3> QED
      BY <3>1
  <2>5. Fresh'
    BY Zenon, <1>1, <2>2, <2>4 DEF Fresh
  <2> QED
    BY <2>3, <2>5
<1> QED
  BY <1>3, <1>4

(* A call of the program writes behind the caches only if nobody else has, *)
(* or lets them be flushed.                                                *)
LEMMA FreshPerforms ==
  ASSUME MemoryTyped, Fresh, Next, NEW call, NEW l, Performs(call, l), pc \in AtWork
  PROVE  MemoryTyped' /\ Fresh'
<1>0. stale' # "gdb" => ranStale' = ranStale
  BY Zenon, LetsGoIs DEF Performs
<1>1. CASE CacheSync(l)
  BY Zenon, <1>0, <1>1, FreshSyncs
<1>2. CASE Hides("call") /\ UNCHANGED cache /\ stale = ""
  <2>1. stale' = stale \/ stale' = "call"
    BY Zenon, <1>2 DEF Hides
  <2>2. stale' # "gdb" /\ stale' \in {"", "gdb", "call", "lost"}
    BY <1>2, <2>1
  <2>3. chip' = chip /\ ("cache" \in lost => "cache" \in lost')
    BY Zenon, FixedStay
  <2>4. MemoryTyped'
    BY Zenon, <1>2, <2>2, <2>3 DEF MemoryTyped
  <2>5. Fresh'
    BY Zenon, <1>0, <1>2, <2>2, <2>3 DEF Fresh, AtWork
  <2> QED
    BY <2>4, <2>5
<1> QED
  BY Zenon, <1>1, <1>2 DEF Performs

(* Whatever is done for GDB, the code it wrote is flushed before the core  *)
(* goes.                                                                   *)
LEMMA FreshStep ==
  ASSUME MemoryTyped, Fresh, Next
  PROVE  MemoryTyped' /\ Fresh'
<1> USE DEF server
<1>0. \A how \in {"k", "end", "signal"} : \A l : LetsGo(how, l) =>
        ranStale' \subseteq ranStale \cup Unsynced
  BY LetsGoIs DEF Unsynced
<1>1. CASE Accept \/ Kill
  <2>1. UNCHANGED stale /\ ranStale' \subseteq ranStale \cup Unsynced
    BY Zenon, <1>0, <1>1 DEF Accept, Kill
  <2>2. (\E l : InitCache(l) /\ Lose(l)) \/ (UNCHANGED cache /\ pc' = "exited")
    BY Zenon, <1>1 DEF Accept, Kill
  <2>3. pc' = "exited" => pc' \notin AtWork
    BY DEF AtWork
  <2> QED
    BY Zenon, <2>1, <2>2, <2>3, FreshAsks, FreshStays
<1>2. CASE \/ HangUp \/ Closed \/ Signal \/ CoreRuns \/ Interrupt
           \/ \E a \in Breaks : InsertBreak(a) \/ RemoveBreak(a)
           \/ \E w \in Watched : InsertWatch(w) \/ RemoveWatch(w)
  <2>1. UNCHANGED <<cache, stale>> /\ ranStale' \subseteq ranStale \cup Unsynced
    <3>1. Closed \/ Signal => UNCHANGED <<cache, stale>>
                              /\ \E how \in {"end", "signal"} : \E l : LetsGo(how, l)
      BY Zenon DEF Closed, Signal, Ends
    <3>2. CASE Closed \/ Signal
      BY Zenon, <1>0, <3>1, <3>2
    <3>3. CASE UNCHANGED memory
      BY <3>3 DEF memory
    <3> QED
      BY Zenon, <1>2, <3>2, <3>3 DEF HangUp, CoreRuns, Interrupt, InsertBreak, RemoveBreak,
         InsertWatch, RemoveWatch
  <2>2. pc' \in AtWork => pc \in AtWork
    <3>1. pc' = pc \/ pc' \in {"accept", "exited"}
      BY Zenon, <1>2 DEF HangUp, Closed, Ends, Signal, CoreRuns, Interrupt, InsertBreak,
         RemoveBreak, InsertWatch, RemoveWatch, Answered
    <3> QED
      BY <3>1 DEF AtWork
  <2> QED
    BY Zenon, <2>1, <2>2, FreshStays
<1>3. CASE \/ Restart \/ JtagReset \/ MonitorHalt \/ MonitorSemihosting \/ Extended
           \/ FlashErase \/ FlashWrite \/ FlashDone
  <2>1. UNCHANGED memory /\ pc' = pc
    BY Zenon, <1>3 DEF Restart, JtagReset, MonitorHalt, MonitorSemihosting, Extended, FlashErase,
       FlashWrite, FlashDone, Answered, Loaded
  <2>2. UNCHANGED <<cache, stale>> /\ ranStale' \subseteq ranStale \cup Unsynced
    BY <2>1 DEF memory
  <2> QED
    BY Zenon, <2>1, <2>2, FreshStays
<1>4. CASE Continue \/ Step \/ MonitorResume \/ TakesInput
  <2>1. pc \in AtWork
    BY <1>4 DEF Continue, Step, MonitorResume, TakesInput, Asks, AtWork
  <2>2. CASE TakesInput
    <3>1. \E call, l : Performs(call, l)
      BY Zenon, <2>2 DEF TakesInput
    <3> QED
      BY Zenon, <2>1, <3>1, FreshPerforms
  <2>3. CASE Continue \/ Step \/ MonitorResume
    <3>1. \E l : CacheSync(l)
      BY Zenon, <2>3 DEF Continue, Step, MonitorResume
    <3>2. \E how, l : LetsGo(how, l)
      BY Zenon, <2>3 DEF Continue, Step, MonitorResume, Ends
    <3>3. stale' # "gdb" => ranStale' = ranStale
      BY Zenon, <3>2, LetsGoIs
    <3> QED
      BY Zenon, <2>1, <3>1, <3>3, FreshSyncs
  <2> QED
    BY <1>4, <2>2, <2>3
<1>5. CASE Turn
  <2>1. pc \in AtWork
    BY <1>5 DEF Turn, AtWork
  <2>2. (\E call, l : Performs(call, l)) \/ UNCHANGED memory
    BY Zenon, <1>5 DEF Turn, Interrupted, LooksAgain, TellsGdb, ServesCall, AwaitsInput
  <2>3. UNCHANGED memory => UNCHANGED <<cache, stale>> /\ ranStale' \subseteq ranStale \cup Unsynced
    BY DEF memory
  <2> QED
    BY Zenon, <2>1, <2>2, <2>3, FreshPerforms, FreshStays
<1>6. CASE WriteMemory
  <2>1. PICK l \in Losses({"store"}) : IF l = {} THEN Hides("gdb") ELSE UNCHANGED stale
    BY Zenon, <1>6 DEF WriteMemory
  <2>2. /\ cache' = [cache EXCEPT !.modified = TRUE] /\ ranStale' = ranStale
        /\ pc' = pc /\ pc = "receive"
    BY Zenon, <1>6 DEF WriteMemory, Answered, Asks
  <2>3. chip' = chip /\ ("cache" \in lost => "cache" \in lost')
    BY Zenon, FixedStay
  <2>4. stale' = stale \/ (chip.caches /\ stale' = "gdb")
    BY Zenon, <2>1 DEF Hides
  <2>5. cache \in [used : BOOLEAN, modified : BOOLEAN] /\ stale \in {"", "gdb", "call", "lost"}
    BY Zenon DEF MemoryTyped
  <2>6. /\ cache' \in [used : BOOLEAN, modified : BOOLEAN]
        /\ cache'.used = cache.used /\ cache'.modified
    BY <2>2, <2>5
  <2>7. stale' \in {"", "gdb", "call", "lost"}
    BY <2>4, <2>5
  <2>8. MemoryTyped'
    BY Zenon, <2>3, <2>6, <2>7 DEF MemoryTyped
  <2>9. pc \in {"receive", "running", "input"}
    BY <2>2
  <2>10. ASSUME "cache" \notin lost'
         PROVE  /\ ranStale \subseteq Unsynced /\ (cache.used <=> chip.caches)
                /\ stale = "gdb" => chip.caches
    BY Zenon, <2>3, <2>9, <2>10 DEF Fresh
  <2>11. Fresh'
    BY Zenon, <2>2, <2>3, <2>4, <2>6, <2>10 DEF Fresh
  <2> QED
    BY <2>8, <2>11
<1> QED
  BY Zenon, <1>1, <1>2, <1>3, <1>4, <1>5, <1>6 DEF Next

-----------------------------------------------------------------------------
(***************************************************************************)
(* Calls of the program.                                                   *)
(***************************************************************************)
Told(o) == o.saved \in Int /\ o.due \in Int /\ (o.due # 0 => o.saved = o.due)

(* What an answer holds, by what the host came to.                         *)
LEMMA UnaskedIs ==
  ASSUME NEW ret, NEW saved \in Int, NEW o \in Unasked(ret, saved)
  PROVE  Told(o) /\ o.ret = ret /\ ~o.done /\ o.moved = 0
<1>1. o = [ret |-> ret, done |-> FALSE, moved |-> 0, saved |-> saved, due |-> 0]
  BY Zenon DEF Unasked
<1>2. o.ret = ret /\ o.done = FALSE /\ o.moved = 0 /\ o.saved = saved /\ o.due = 0
  BY <1>1
<1> QED
  BY <1>2 DEF Told

LEMMA RefusedIs ==
  ASSUME NEW ret, NEW errors \in SUBSET Errors, NEW o \in RefusedWith(ret, errors)
  PROVE  Told(o) /\ o.ret = ret /\ ~o.done /\ o.moved = 0
<1>1. PICK e \in errors : o = [ret |-> ret, done |-> FALSE, moved |-> 0, saved |-> e, due |-> e]
  BY Zenon DEF RefusedWith
<1>2. /\ o.ret = ret /\ o.done = FALSE /\ o.moved = 0 /\ o.saved = e /\ o.due = e
      /\ e \in Int
  BY <1>1 DEF Errors, EINVAL
<1> QED
  BY <1>2 DEF Told

LEMMA GrantedIs ==
  ASSUME NEW ret, NEW moved, NEW o \in Granted(ret, moved)
  PROVE  Told(o) /\ o.ret = ret /\ o.done /\ o.moved = moved
<1>1. PICK e \in Errors : o = [ret |-> ret, done |-> TRUE, moved |-> moved, saved |-> e, due |-> 0]
  BY Zenon DEF Granted
<1>2. /\ o.ret = ret /\ o.done = TRUE /\ o.moved = moved /\ o.saved = e /\ o.due = 0
      /\ e \in Int
  BY <1>1 DEF Errors, EINVAL
<1> QED
  BY <1>2 DEF Told

(* do_semihosting: whatever fails, r0 tells the program what was done, and *)
(* saved_errno is the error it is owed.                                    *)
LEMMA AnswersMean ==
  ASSUME NEW call \in SemihostingCalls, NEW saved \in Int, NEW owed \in Int,
         owed # 0 => saved = owed, NEW l, NEW o \in DoSemihosting(call, saved, l)
  PROVE  Told(o) /\ Means(call, o, owed, o.ret)
<1> DEFINE ops == {"open", "write", "read", "remove", "close", "seek", "errno", "writec", "readc",
                   "write0", "flen"}
<1>1. call.op \in ops /\ (call.op = "open" => call.mode \in {0, 4, 8, 12, 13})
  BY DEF SemihostingCalls
<1>2. {EINVAL} \subseteq Errors /\ Errors \subseteq Errors
  BY DEF Errors
<1>3. CASE call.op = "open"
  <2>1. o \in Open(call, saved, l)
    BY <1>3 DEF DoSemihosting
  <2>2. \/ o \in Unasked(-1, saved) \/ o \in Granted(Handle, 0)
        \/ o \in RefusedWith(-1, Errors) \/ o \in RefusedWith(-1, {EINVAL})
        \/ /\ call.mode \in {0, 4, 8}
           /\ o = [ret |-> call.mode \div 4, done |-> TRUE, moved |-> 0, saved |-> saved, due |-> 0]
    BY <1>1, <1>3, <2>1 DEF Open
  <2>3. \/ Told(o) /\ o.ret = -1 /\ ~o.done
        \/ Told(o) /\ o.ret \in {0, 1, 2, Handle} /\ o.done
    <3>1. CASE o \in Unasked(-1, saved)
      BY <3>1, UnaskedIs
    <3>2. CASE o \in Granted(Handle, 0)
      BY <3>2, GrantedIs
    <3>3. CASE o \in RefusedWith(-1, Errors) \/ o \in RefusedWith(-1, {EINVAL})
      BY <1>2, <3>3, RefusedIs
    <3>4. CASE /\ call.mode \in {0, 4, 8}
               /\ o = [ret |-> call.mode \div 4, done |-> TRUE, moved |-> 0, saved |-> saved,
                       due |-> 0]
      BY <3>4 DEF Told
    <3> QED
      BY <2>2, <3>1, <3>2, <3>3, <3>4
  <2>4. Means(call, o, owed, o.ret) <=> IF o.done THEN o.ret \in {0, 1, 2, Handle} ELSE o.ret = -1
    BY <1>3 DEF Means
  <2> QED
    BY Zenon, <2>3, <2>4
<1>4. CASE call.op \in {"close", "seek", "remove"}
  <2>1. \/ o \in Unasked(-1, saved) \/ o \in Granted(0, 0) \/ o \in RefusedWith(-1, Errors)
    BY <1>4 DEF DoSemihosting, Close, Seek, Unlink
  <2>2. \/ Told(o) /\ o.ret = -1 /\ ~o.done
        \/ Told(o) /\ o.ret = 0 /\ o.done
    <3>1. CASE o \in Unasked(-1, saved)
      BY <3>1, UnaskedIs
    <3>2. CASE o \in Granted(0, 0)
      BY <3>2, GrantedIs
    <3>3. CASE o \in RefusedWith(-1, Errors)
      BY <1>2, <3>3, RefusedIs
    <3> QED
      BY <2>1, <3>1, <3>2, <3>3
  <2>3. Means(call, o, owed, o.ret) <=> IF o.done THEN o.ret = 0 ELSE o.ret = -1
    BY <1>4 DEF Means
  <2> QED
    BY Zenon, <2>2, <2>3
<1>5. CASE call.op = "write"
  <2>1. o \in Write(call, saved, l)
    BY <1>5 DEF DoSemihosting
  <2>2. \/ o \in Unasked(-1, saved) \/ o \in Unasked(Size, saved) \/ o \in RefusedWith(Size, Errors)
        \/ \E n \in 0 .. Size : o \in Granted(n - Size, n)
    BY Zenon, <2>1 DEF Write
  <2>3. \/ Told(o) /\ o.ret \in {-1, Size} /\ ~o.done
        \/ Told(o) /\ o.done /\ (o.moved = Size => o.ret = 0)
    <3>1. CASE o \in Unasked(-1, saved) \/ o \in Unasked(Size, saved)
      BY <3>1, UnaskedIs
    <3>2. CASE o \in RefusedWith(Size, Errors)
      BY <1>2, <3>2, RefusedIs
    <3>3. ASSUME NEW n \in 0 .. Size, o \in Granted(n - Size, n)
          PROVE  Told(o) /\ o.done /\ (o.moved = Size => o.ret = 0)
      <4>1. Told(o) /\ o.done /\ o.moved = n /\ o.ret = n - Size
        BY <3>3, GrantedIs
      <4>2. o.moved = Size => o.ret = 0
        BY <4>1 DEF Size
      <4> QED
        BY Zenon, <4>1, <4>2
    <3> QED
      BY Zenon, <2>2, <3>1, <3>2, <3>3
  <2>4. Means(call, o, owed, o.ret)
          <=> IF o.done THEN o.moved = Size => o.ret = 0 ELSE o.ret \in {-1, Size}
    BY <1>5 DEF Means
  <2> QED
    BY Zenon, <2>3, <2>4
<1>6. CASE call.op = "read"
  <2>1. o \in Read(call, saved, l)
    BY <1>6 DEF DoSemihosting
  <2>2. \/ o \in Unasked(-1, saved) \/ o \in Unasked(Size, saved) \/ o \in RefusedWith(Size, Errors)
        \/ o \in Granted(Size, 0) \/ \E n \in 0 .. Size : o \in Granted(Size - n, n)
    BY Zenon, <2>1 DEF Read
  <2>3. \/ Told(o) /\ o.ret \in {-1, Size} /\ ~o.done
        \/ Told(o) /\ o.done /\ o.ret = Size - o.moved
    <3>1. CASE o \in Unasked(-1, saved) \/ o \in Unasked(Size, saved)
      BY <3>1, UnaskedIs
    <3>2. CASE o \in RefusedWith(Size, Errors)
      BY <1>2, <3>2, RefusedIs
    <3>3. ASSUME NEW n \in 0 .. Size, o \in Granted(Size - n, n)
          PROVE  Told(o) /\ o.done /\ o.ret = Size - o.moved
      BY <3>3, GrantedIs
    <3>4. CASE o \in Granted(Size, 0)
      <4>1. Told(o) /\ o.done /\ o.moved = 0 /\ o.ret = Size
        BY <3>4, GrantedIs
      <4>2. o.ret = Size - o.moved
        BY <4>1 DEF Size
      <4> QED
        BY Zenon, <4>1, <4>2
    <3> QED
      BY Zenon, <2>2, <3>1, <3>2, <3>3, <3>4
  <2>4. Means(call, o, owed, o.ret)
          <=> IF o.done THEN o.ret = Size - o.moved ELSE o.ret \in {-1, Size}
    BY <1>6 DEF Means
  <2> QED
    BY Zenon, <2>3, <2>4
<1>7. CASE call.op = "errno"
  <2>1. o \in Unasked(saved, saved)
    BY <1>7 DEF DoSemihosting, Errno
  <2>2. Told(o) /\ o.ret = saved
    BY <2>1, UnaskedIs
  <2>3. Means(call, o, owed, o.ret) <=> (owed # 0 => o.ret = owed)
    BY <1>7 DEF Means
  <2> QED
    BY Zenon, <2>2, <2>3
<1>8. CASE call.op = "readc"
  <2>1. o \in Unasked(Typed, saved)
    BY <1>8 DEF DoSemihosting
  <2>2. Told(o) /\ o.ret = Typed
    BY <2>1, UnaskedIs
  <2>3. Means(call, o, owed, o.ret) <=> o.ret = Typed
    BY <1>8 DEF Means
  <2> QED
    BY Zenon, <2>2, <2>3
<1>9. CASE call.op \in {"writec", "write0", "flen"}
  <2>1. o \in Unasked(Number, saved)
    BY <1>9 DEF DoSemihosting, Silent
  <2>2. Told(o)
    BY <2>1, UnaskedIs
  <2>3. Means(call, o, owed, o.ret)
    BY <1>9 DEF Means
  <2> QED
    BY Zenon, <2>2, <2>3
<1> QED
  BY <1>1, <1>3, <1>4, <1>5, <1>6, <1>7, <1>8, <1>9

-----------------------------------------------------------------------------
(***************************************************************************)
(* What the slots of the two units may hold.                               *)
(***************************************************************************)
(* Two breakpoints share a word, and the word of a word is itself.         *)
LEMMA WordsAre == /\ \A a \in Places : Word(a) \in {4, 8} /\ Word(Word(a)) = Word(a)
                  /\ \A a \in Spots : a \in Places /\ FpbAddr(a) \in Spots \cap {a, Word(a)}
<1>1. Word(4) = 4 /\ Word(6) = 4 /\ Word(8) = 8 /\ Word(10) = 8
  BY DEF Word
<1>2. \A a \in Places : a = 4 \/ a = 6 \/ a = 8 \/ a = 10
  BY DEF Places
<1>3. \A a \in Places : Word(a) \in {4, 8} /\ Word(Word(a)) = Word(a)
  BY <1>1, <1>2
<1>4. \A a \in Spots : a \in Places /\ FpbAddr(a) \in Spots \cap {a, Word(a)}
  <2>1. \A a \in Spots : a \in Places /\ a % CodeRegion = a
    BY SMT DEF Spots, Places, CodeRegion
  <2>2. Word(4) \in Spots /\ Word(6) \in Spots /\ Word(8) \in Spots
    BY <1>1 DEF Spots
  <2> QED
    BY <2>1, <2>2 DEF FpbAddr, Spots
<1> QED
  BY <1>3, <1>4

(* init_code_breakpoints keeps the addresses.                              *)
LEMMA InitPointsKeeps ==
  ASSUME MemoryTyped, PointsTyped, Addressed, NEW l, InitPoints(l)
  PROVE  BreaksTyped' /\ WatchesTyped' /\ Addressed'
<1> USE BoundsAreNat
<1>1. InitCodeBreakpoints(l) /\ InitDataWatchpoints(l) /\ ever' = ever
  BY Zenon DEF InitPoints
<1>2. code_break_num' \in 0 .. Comparators + 1 /\ code_break_rev' \in {0, 1, 2}
  <2>1. CASE "count" \in l
    <3>1. code_break_num' \in {0, Comparators + 1} /\ code_break_rev' \in {1, 2}
      BY Zenon, <1>1, <2>1 DEF InitCodeBreakpoints
    <3> QED
      BY <3>1
  <2>2. CASE "count" \notin l
    <3>1. code_break_num' = Comparators /\ code_break_rev' = chip.rev
      BY Zenon, <1>1, <2>2 DEF InitCodeBreakpoints
    <3>2. chip \in [rev : {1, 2}, caches : BOOLEAN] /\ Comparators \in Nat
      BY DEF MemoryTyped
    <3>3. chip.rev \in {1, 2}
      BY <3>2
    <3> QED
      BY <3>1, <3>2, <3>3
  <2> QED
    BY <2>1, <2>2
<1>3. code_breaks' = [i \in Slots |-> IF i <= code_break_num'
                                      THEN [code_breaks[i] EXCEPT !.type = {}] ELSE code_breaks[i]]
  BY Zenon, <1>1 DEF InitCodeBreakpoints
<1>4. code_breaks' \in [Slots -> Comparator]
      /\ \A i \in Slots : code_breaks'[i].addr = code_breaks[i].addr
  <2>1. code_breaks \in [Slots -> Comparator]
    BY Zenon DEF PointsTyped, BreaksTyped
  <2>2. \A c \in Comparator : [c EXCEPT !.type = {}] \in Comparator
                              /\ [c EXCEPT !.type = {}].addr = c.addr
    BY DEF Comparator
  <2> QED
    BY <1>3, <2>1, <2>2
<1>5. fpb' \in [1 .. Comparators -> Comparator]
  <2>1. PICK i \in 1 .. Comparators :
          fpb' = [j \in 1 .. Comparators |->
                    IF j > code_break_num' \/ ("clear" \in l /\ j = i) THEN fpb[j] ELSE NoBreak]
    BY Zenon, <1>1 DEF InitCodeBreakpoints
  <2>2. fpb \in [1 .. Comparators -> Comparator] /\ NoBreak \in Comparator
    BY DEF PointsTyped, BreaksTyped, NoBreak, Comparator
  <2> QED
    BY <2>1, <2>2
<1>6. BreaksTyped'
  <2>1. ever' \subseteq Spots
    BY <1>1 DEF PointsTyped, BreaksTyped
  <2>2. Slots' = Slots
    BY DEF Slots
  <2> QED
    BY Zenon, <1>2, <1>4, <1>5, <2>1, <2>2 DEF BreaksTyped
<1>7. WatchesTyped'
  <2>1. data_watches \in [1 .. DataWatches -> Watch] /\ dwt \in [1 .. DataWatches -> Watch]
        /\ NoWatch \in Watch /\ \A w \in Watch : [w EXCEPT !.fun = "disabled"] \in Watch
    BY DEF PointsTyped, WatchesTyped, NoWatch, Watch
  <2>2. data_watches' \in [1 .. DataWatches -> Watch]
    BY <1>1, <2>1 DEF InitDataWatchpoints
  <2>3. PICK i \in 1 .. DataWatches :
          dwt' = [j \in 1 .. DataWatches |-> IF "unwatch" \in l /\ j = i THEN dwt[j] ELSE NoWatch]
    BY Zenon, <1>1 DEF InitDataWatchpoints
  <2>4. dwt' \in [1 .. DataWatches -> Watch]
    BY <2>1, <2>3
  <2> QED
    BY Zenon, <2>2, <2>4 DEF WatchesTyped
<1>8. Addressed'
  <2>1. Slots' = Slots /\ \A a : Word(a)' = Word(a)
    BY DEF Slots, Word
  <2> QED
    BY <1>1, <1>4, <2>1 DEF Addressed, Word
<1> QED
  BY <1>6, <1>7, <1>8

(* update_code_breakpoint puts the address of the breakpoint into the slot.*)
LEMMA UpdateKeeps ==
  ASSUME PointsTyped, Addressed, NEW a \in Spots, NEW set \in BOOLEAN, NEW l,
         UpdateCodeBreakpoint(a, set, l)
  PROVE  BreaksTyped' /\ Addressed'
<1> DEFINE id == Min(Fitting(a, set))
           was == code_breaks[id].type
           type == IF set THEN was \cup {BreakType(a)} ELSE was \ {BreakType(a)}
           bp == [addr |-> FpbAddr(a), type |-> type]
<1>1. /\ code_breaks' = [code_breaks EXCEPT ![id] = bp]
      /\ fpb' = IF "compare" \in l \/ id > Comparators THEN fpb
                ELSE [fpb EXCEPT ![id] = IF bp.type = {} THEN NoBreak ELSE bp]
      /\ ever' = ever \cup {a}
      /\ code_break_num' = code_break_num /\ code_break_rev' = code_break_rev
  BY Zenon DEF UpdateCodeBreakpoint
<1> HIDE DEF id
<1>2. /\ code_breaks \in [Slots -> Comparator] /\ fpb \in [1 .. Comparators -> Comparator]
      /\ ever \subseteq Spots /\ NoBreak \in Comparator
  BY DEF PointsTyped, BreaksTyped, NoBreak, Comparator
<1>3. ASSUME id \in Slots PROVE bp \in Comparator
  <2>1. was \subseteq {"low", "high", "remap"}
    BY <1>2, <1>3 DEF Comparator
  <2>2. BreakType(a) \in {"low", "high", "remap"}
    BY DEF BreakType
  <2>3. FpbAddr(a) \in Spots
    BY WordsAre
  <2> QED
    BY <2>1, <2>2, <2>3 DEF Comparator
<1>4. bp.addr = FpbAddr(a)
  OBVIOUS
<1> HIDE DEF bp
<1>5. code_breaks' \in [Slots -> Comparator]
  BY <1>1, <1>2, <1>3
<1>6. fpb' \in [1 .. Comparators -> Comparator]
  <2>1. \A i \in 1 .. Comparators : i \in Slots
    BY BoundsAreNat DEF Slots
  <2>2. \/ fpb' = fpb
        \/ fpb' = [fpb EXCEPT ![id] = NoBreak]
        \/ fpb' = [fpb EXCEPT ![id] = bp]
    BY Zenon, <1>1
  <2> QED
    BY <1>2, <1>3, <2>1, <2>2
<1>7. BreaksTyped'
  <2>1. ever' \subseteq Spots
    BY <1>1, <1>2
  <2>2. Slots' = Slots
    BY DEF Slots
  <2> QED
    BY Zenon, <1>1, <1>5, <1>6, <2>1, <2>2 DEF PointsTyped, BreaksTyped
<1>8. Addressed'
  <2>1. Slots' = Slots /\ ever \subseteq ever' /\ a \in ever'
    BY <1>1 DEF Slots
  <2>2. FpbAddr(a) \in {a, Word(a)}
    BY WordsAre
  <2>3. SUFFICES ASSUME NEW i \in Slots
                 PROVE  \/ code_breaks'[i].addr = 0
                        \/ \E b \in ever' : code_breaks'[i].addr \in {b, Word(b)}
    BY <2>1 DEF Addressed, Word
  <2>4. CASE i = id
    <3>1. code_breaks'[i].addr = FpbAddr(a)
      BY <1>1, <1>2, <1>4, <2>4
    <3> QED
      BY <2>1, <2>2, <3>1
  <2>5. CASE i # id
    <3>1. code_breaks'[i] = code_breaks[i]
      BY <1>1, <1>2, <2>5
    <3> QED
      BY <2>1, <3>1 DEF Addressed
  <2> QED
    BY <2>4, <2>5
<1> QED
  BY <1>7, <1>8

(* Watchpoints and breakpoints are apart.                                  *)
LEMMA SetWatchKeeps ==
  ASSUME PointsTyped, Addressed, NEW i, NEW w, i \in 1 .. DataWatches => w \in Watch,
         NEW off, NEW l, SetWatch(i, w, off, l)
  PROVE  BreaksTyped' /\ WatchesTyped' /\ Addressed'
<1>1. /\ data_watches' = [data_watches EXCEPT ![i] = w]
      /\ dwt' = dwt \/ dwt' = [dwt EXCEPT ![i] = NoWatch] \/ dwt' = [dwt EXCEPT ![i] = w]
      /\ UNCHANGED <<code_break_num, code_break_rev, code_breaks, fpb, ever>>
  BY Zenon DEF SetWatch
<1>2. /\ data_watches \in [1 .. DataWatches -> Watch] /\ dwt \in [1 .. DataWatches -> Watch]
      /\ NoWatch \in Watch
  BY DEF PointsTyped, WatchesTyped, NoWatch, Watch
<1>3. WatchesTyped'
  BY <1>1, <1>2 DEF WatchesTyped
<1>4. BreaksTyped' /\ Addressed'
  BY Zenon, <1>1 DEF PointsTyped, BreaksTyped, Addressed, Slots
<1> QED
  BY <1>3, <1>4

(* Whatever is done, a slot holds no address but those of breakpoints.     *)
LEMMA PointsStep ==
  ASSUME MemoryTyped, PointsTyped, Addressed, Next
  PROVE  PointsTyped' /\ Addressed'
<1>1. ASSUME UNCHANGED breaks PROVE BreaksTyped' /\ Addressed'
  BY Zenon, <1>1 DEF breaks, PointsTyped, BreaksTyped, Addressed, Slots
<1>2. ASSUME UNCHANGED watches PROVE WatchesTyped'
  BY Zenon, <1>2 DEF watches, PointsTyped, WatchesTyped
<1>3. want \subseteq Wanted
  BY Zenon DEF PointsTyped
<1>4. CASE Accept \/ Restart \/ Kill
  <2>1. (\E l : InitPoints(l)) \/ UNCHANGED <<breaks, watches>>
    BY Zenon, <1>4 DEF Accept, Restart, Kill
  <2>2. BreaksTyped' /\ WatchesTyped' /\ Addressed'
    BY Zenon, <1>1, <1>2, <2>1, InitPointsKeeps
  <2>3. want' = {} \/ want' = want
    BY Zenon, <1>4 DEF Accept, Restart, Kill
  <2>4. want' \subseteq Wanted
    BY <1>3, <2>3
  <2> QED
    BY Zenon, <2>2, <2>4 DEF PointsTyped
<1>5. CASE \E a \in Breaks : InsertBreak(a) \/ RemoveBreak(a)
  <2>1. PICK a \in Breaks : InsertBreak(a) \/ RemoveBreak(a)
    BY Zenon, <1>5
  <2>2. a \in Spots
    BY CodeIsPlaces
  <2>3. (\E set \in BOOLEAN : \E l : UpdateCodeBreakpoint(a, set, l)) \/ UNCHANGED breaks
    BY Zenon, <2>1 DEF InsertBreak, RemoveBreak, Refused
  <2>4. UNCHANGED watches
    BY Zenon, <2>1 DEF InsertBreak, RemoveBreak, Refused
  <2>5. \/ want' = want \/ want' = want \cup {AsBreak(a)} \/ want' = want \ {AsBreak(a)}
    BY Zenon, <2>1 DEF InsertBreak, RemoveBreak, NowWants, Refused
  <2>6. want' \subseteq Wanted
    BY <1>3, <2>2, <2>5 DEF Wanted
  <2>7. BreaksTyped' /\ Addressed'
    BY Zenon, <1>1, <2>2, <2>3, UpdateKeeps
  <2> QED
    BY Zenon, <1>2, <2>4, <2>6, <2>7 DEF PointsTyped
<1>6. CASE \E w \in Watched : InsertWatch(w) \/ RemoveWatch(w)
  <2>1. PICK w \in Watched : InsertWatch(w) \/ RemoveWatch(w)
    BY Zenon, <1>6
  <2>2. w \in [fun : {"write", "read"}, addr : {1, 2}]
    BY DEF Watched
  <2>3. w \in Watch /\ \A v \in Watch : [v EXCEPT !.fun = "disabled"] \in Watch
    BY <2>2 DEF Watch
  <2>4. \/ \E i, off, l : SetWatch(i, w, off, l)
        \/ \E i, off, l : SetWatch(i, [data_watches[i] EXCEPT !.fun = "disabled"], off, l)
        \/ UNCHANGED <<breaks, watches>>
    BY Zenon, <2>1 DEF InsertWatch, RemoveWatch, Refused
  <2>5. BreaksTyped' /\ WatchesTyped' /\ Addressed'
    <3>1. CASE UNCHANGED <<breaks, watches>>
      BY Zenon, <1>1, <1>2, <3>1
    <3>2. ASSUME NEW i, NEW off, NEW l, SetWatch(i, w, off, l)
          PROVE  BreaksTyped' /\ WatchesTyped' /\ Addressed'
      BY Zenon, <2>3, <3>2, SetWatchKeeps
    <3>3. ASSUME NEW i, NEW off, NEW l,
                 SetWatch(i, [data_watches[i] EXCEPT !.fun = "disabled"], off, l)
          PROVE  BreaksTyped' /\ WatchesTyped' /\ Addressed'
      <4>1. i \in 1 .. DataWatches => data_watches[i] \in Watch
        BY DEF PointsTyped, WatchesTyped
      <4>2. i \in 1 .. DataWatches => [data_watches[i] EXCEPT !.fun = "disabled"] \in Watch
        BY Zenon, <2>3, <4>1
      <4> DEFINE v == [data_watches[i] EXCEPT !.fun = "disabled"]
      <4>3. SetWatch(i, v, off, l) /\ (i \in 1 .. DataWatches => v \in Watch)
        BY Zenon, <3>3, <4>2
      <4> HIDE DEF v
      <4> QED
        BY Zenon, <4>3, SetWatchKeeps
    <3> QED
      BY Zenon, <2>4, <3>1, <3>2, <3>3
  <2>6. \/ want' = want \/ want' = want \cup {w} \/ want' = want \ {w}
    BY Zenon, <2>1 DEF InsertWatch, RemoveWatch, NowWants, Refused
  <2>7. want' \subseteq Wanted
    BY <1>3, <2>2, <2>6 DEF Wanted
  <2> QED
    BY Zenon, <2>5, <2>7 DEF PointsTyped
<1>7. ASSUME UNCHANGED <<breaks, watches, want>> PROVE PointsTyped' /\ Addressed'
  BY Zenon, <1>1, <1>2, <1>3, <1>7 DEF PointsTyped
<1>8. CASE HangUp \/ Closed \/ Signal \/ WriteMemory \/ Continue \/ CoreRuns \/ Interrupt \/ Turn
           \/ TakesInput \/ Step
  BY Zenon, <1>7, <1>8 DEF HangUp, Closed, Signal, WriteMemory, Continue, CoreRuns, Interrupt, Turn,
     TakesInput, Step
<1>9. CASE JtagReset \/ MonitorHalt \/ MonitorResume \/ MonitorSemihosting \/ Extended
           \/ FlashErase \/ FlashWrite \/ FlashDone
  BY Zenon, <1>7, <1>9 DEF JtagReset, MonitorHalt, MonitorResume, MonitorSemihosting, Extended,
     FlashErase, FlashWrite, FlashDone, Loaded
<1> QED
  BY Zenon, <1>4, <1>5, <1>6, <1>8, <1>9 DEF Next

-----------------------------------------------------------------------------
(***************************************************************************)
(* Calls of the program, in the loop of "c".                               *)
(***************************************************************************)
CallsRight == CallsTyped /\ Serving /\ CallServedOnce

(* Nothing is done with calls while the core is stopped for one.           *)
LEMMA CallsStay ==
  ASSUME CallsRight, Next, UNCHANGED calls, core' \in [halted : BOOLEAN, at : Places],
         pc' = "input" => pc = "input" /\ UNCHANGED core
  PROVE  CallsRight'
<1>1. UNCHANGED <<reg, served, wrong, saved_errno, due>> /\ \A x \in lost : x \in lost'
  BY Zenon, FixedStay DEF calls
<1>2. CallsTyped'
  BY Zenon, <1>1 DEF CallsRight, CallsTyped
<1>3. /\ served > 0 => "jump" \in lost
      /\ pc = "input" => core.halted /\ (reg = core.at \/ "regs" \in lost)
      /\ due # 0 => saved_errno = due
  BY Zenon DEF CallsRight, Serving
<1>4. Serving'
  BY Zenon, <1>1, <1>3 DEF Serving
<1>5. CallServedOnce'
  BY <1>1 DEF CallsRight, CallServedOnce
<1> QED
  BY <1>2, <1>4, <1>5 DEF CallsRight

(* The core is moved, and is at no call any more unless it stays.          *)
LEMMA CallsMove ==
  ASSUME CallsRight, Next, NEW h \in BOOLEAN, NEW at \in Places, Moves(h, at), pc' # "input"
  PROVE  CallsRight'
<1>1. /\ core' = [halted |-> h, at |-> at] /\ UNCHANGED <<reg, wrong, saved_errno, due>>
      /\ served' = served \/ served' = 0
      /\ \A x \in lost : x \in lost'
  BY Zenon, FixedStay DEF Moves
<1>2. CallsTyped'
  BY <1>1 DEF CallsRight, CallsTyped
<1>3. Serving'
  <2>1. (served > 0 => "jump" \in lost) /\ (due # 0 => saved_errno = due)
    BY Zenon DEF CallsRight, Serving
  <2>2. served' > 0 => "jump" \in lost'
    BY <1>1, <2>1
  <2> QED
    BY Zenon, <1>1, <2>1, <2>2 DEF Serving
<1>4. CallServedOnce'
  BY <1>1 DEF CallsRight, CallServedOnce
<1> QED
  BY <1>2, <1>3, <1>4 DEF CallsRight

(* A call is performed.                                                    *)
LEMMA CallsPerformed ==
  ASSUME CallsRight, Next, NEW call \in SemihostingCalls, NEW l, Performs(call, l), pc' # "input",
         reg' \in Places \cup {0}, reg' = core.at \/ "regs" \in lost'
  PROVE  CallsRight'
<1>1. PICK o \in DoSemihosting(call, saved_errno, l \cap Accesses(call)) :
         /\ wrong' = wrong \cup (IF reg' # core.at THEN {"stray"} ELSE {})
                           \cup (IF served > 0 THEN {"twice"} ELSE {})
                           \cup (IF Means(call, o, due, IF "result" \in l THEN Number ELSE o.ret)
                                 THEN {} ELSE {"answer"})
         /\ IF "files" \in uses THEN saved_errno' = o.saved /\ due' = o.due
                                 ELSE UNCHANGED <<saved_errno, due>>
         /\ core' = [halted |-> "run" \in l, at |-> IF "jump" \in l THEN core.at ELSE After(reg')]
         /\ served' = IF "jump" \in l THEN 1 ELSE 0
         /\ Lose(l)
  BY Zenon DEF Performs
<1>2. /\ \A x \in lost : x \in lost'
      /\ "jump" \in l => "jump" \in lost'
      /\ "result" \in l => "result" \in lost'
  BY Zenon, <1>1, LostAre
<1>3. /\ core \in [halted : BOOLEAN, at : Places] /\ saved_errno \in Int /\ due \in Int
      /\ due # 0 => saved_errno = due
      /\ served > 0 => "jump" \in lost
  BY Zenon DEF CallsRight, CallsTyped, Serving
<1>4. Told(o) /\ Means(call, o, due, o.ret)
  BY Zenon, <1>3, AnswersMean
<1>5. /\ saved_errno' \in Int /\ due' \in Int
      /\ due' # 0 => saved_errno' = due'
  BY <1>1, <1>3, <1>4 DEF Told
<1>6. CallsTyped'
  <2>1. After(reg') \in Places
    BY CodeIsPlaces
  <2>2. core' \in [halted : BOOLEAN, at : Places]
    BY <1>1, <1>3, <2>1
  <2>3. served' \in {0, 1}
    BY <1>1
  <2> QED
    BY Zenon, <1>5, <2>2, <2>3 DEF CallsTyped
<1>7. Serving'
  <2>1. served' > 0 => "jump" \in lost'
    BY <1>1, <1>2
  <2> QED
    BY Zenon, <1>5, <2>1 DEF Serving
<1>8. "answer" \in wrong' => "answer" \in wrong \/ "result" \in lost'
  <2>1. CASE "result" \in l
    BY Zenon, <1>2, <2>1
  <2>2. CASE "result" \notin l
    <3>1. Means(call, o, due, IF "result" \in l THEN Number ELSE o.ret)
      BY Zenon, <1>4, <2>2
    <3> HIDE DEF Means
    <3> QED
      BY <1>1, <3>1
  <2> QED
    BY <2>1, <2>2
<1>9. \E A \in SUBSET {"answer"} :
        wrong' = wrong \cup (IF reg' # core.at THEN {"stray"} ELSE {})
                       \cup (IF served > 0 THEN {"twice"} ELSE {}) \cup A
  BY <1>1
<1>10. /\ "stray" \in wrong' => "stray" \in wrong \/ "regs" \in lost'
       /\ "twice" \in wrong' => "twice" \in wrong \/ "jump" \in lost'
       /\ "shown" \in wrong' => "shown" \in wrong
  BY <1>2, <1>3, <1>9
<1>11. CallServedOnce'
  BY <1>2, <1>8, <1>10 DEF CallsRight, CallServedOnce
<1> QED
  BY <1>6, <1>7, <1>11 DEF CallsRight

(* What is looked at are the core's registers, or there is an excuse.      *)
LEMMA RegsRead ==
  ASSUME CallsTyped, NEW l, ReadRegs(l), Lose(l)
  PROVE  reg' \in Places \cup {0} /\ (reg' = core.at \/ "regs" \in lost')
<1>1. "regs" \in l => "regs" \in lost'
  BY Zenon, LostAre
<1>2. reg' \in IF "regs" \in l THEN {reg, 0} ELSE {core.at}
  BY Zenon DEF ReadRegs
<1>3. reg \in Places \cup {0} /\ core.at \in Places
  BY DEF CallsTyped
<1> QED
  BY <1>1, <1>2, <1>3

(* GDB is told of a stop, of a call only if a slot names its word.         *)
LEMMA CallsTold ==
  ASSUME CallsRight, PointsTyped, Addressed, Next, TellsGdb
  PROVE  CallsRight'
<1>1. PICK l \in Losses({"regs", "insn"}) :
          /\ IF semihosting THEN ReadRegs(l) ELSE l = {} /\ UNCHANGED reg
          /\ ~IsCall(l)
          /\ wrong' = wrong \cup IF semihosting /\ core.at \in Traps /\ ~Excused THEN {"shown"} ELSE {}
          /\ Lose(l)
  BY Zenon DEF TellsGdb
<1>2. /\ UNCHANGED <<served, saved_errno, due, core>> /\ pc' = "receive"
      /\ \A x \in lost : x \in lost'
  BY Zenon, FixedStay DEF TellsGdb, StopReply
<1>3. CallsTyped /\ core.at \in Places
  BY DEF CallsRight, CallsTyped
<1>4. reg' \in Places \cup {0}
  <2>1. CASE semihosting
    BY Zenon, <1>1, <1>3, <2>1, RegsRead
  <2>2. CASE ~semihosting
    <3>1. reg' = reg
      BY Zenon, <1>1, <2>2
    <3> QED
      BY <1>3, <3>1 DEF CallsTyped
  <2> QED
    BY <2>1, <2>2
<1>5. CallsTyped'
  BY Zenon, <1>2, <1>3, <1>4 DEF CallsTyped
<1>6. Serving'
  <2>1. (served > 0 => "jump" \in lost) /\ (due # 0 => saved_errno = due)
    BY Zenon DEF CallsRight, Serving
  <2>2. pc' # "input"
    BY <1>2
  <2> QED
    BY Zenon, <1>2, <2>1, <2>2 DEF Serving
<1>7. ASSUME semihosting, core.at \in Traps, ~Excused
      PROVE  {"regs", "insn"} \cap lost' # {}
  <2>1. CASE l = {}
    <3>1. reg' = core.at
      BY <1>1, <1>7, <2>1 DEF ReadRegs
    <3>2. HasBreakpoint(Word(core.at))
      <4>1. "insn" \notin l
        BY <2>1
      <4> QED
        BY Zenon, <1>1, <1>7, <3>1, <4>1 DEF IsCall
    <3>3. PICK i \in 1 .. code_break_num : code_breaks[i].addr = Word(core.at)
      BY Zenon, <3>2 DEF HasBreakpoint
    <3>4. i \in Slots
      <4>1. code_break_num \in 0 .. Comparators + 1 /\ Comparators \in Nat
        BY BoundsAreNat DEF PointsTyped, BreaksTyped
      <4> QED
        BY <4>1 DEF Slots
    <3>5. Word(core.at) # 0 /\ Word(Word(core.at)) = Word(core.at)
      <4>1. Word(core.at) \in {4, 8} /\ Word(Word(core.at)) = Word(core.at)
        BY Zenon, <1>3, WordsAre
      <4> QED
        BY <4>1
    <3>6. PICK a \in ever : Word(core.at) = a \/ Word(core.at) = Word(a)
      BY <3>3, <3>4, <3>5 DEF Addressed
    <3>7. Word(a) = Word(core.at)
      BY Zenon, <3>5, <3>6
    <3> QED
      BY Zenon, <1>7, <3>7 DEF Excused
  <2>2. CASE l # {}
    <3>1. l \subseteq {"regs", "insn"}
      BY Zenon, LossesAre
    <3>2. /\ "regs" \in l => "regs" \in lost'
          /\ "insn" \in l => "insn" \in lost'
      BY Zenon, <1>1, LostAre
    <3> QED
      BY <2>2, <3>1, <3>2
  <2> QED
    BY <2>1, <2>2
<1>8. CallServedOnce'
  <2>1. wrong' = wrong \/ (wrong' = wrong \cup {"shown"} /\ {"regs", "insn"} \cap lost' # {})
    BY <1>1, <1>7
  <2>2. CallServedOnce
    BY DEF CallsRight
  <2>3. CASE wrong' = wrong
    BY <1>2, <2>2, <2>3 DEF CallServedOnce
  <2>4. CASE wrong' = wrong \cup {"shown"} /\ {"regs", "insn"} \cap lost' # {}
    BY <1>2, <2>2, <2>4 DEF CallServedOnce
  <2> QED
    BY <2>1, <2>3, <2>4
<1> QED
  BY <1>5, <1>6, <1>8 DEF CallsRight

(* A call that waits for somebody to type is still the core's.             *)
LEMMA CallsAwait ==
  ASSUME CallsRight, Next, AwaitsInput
  PROVE  CallsRight'
<1>1. PICK l \in Losses({"regs"}) : ReadRegs(l) /\ Lose(l)
  BY Zenon DEF AwaitsInput
<1>2. /\ UNCHANGED <<served, wrong, saved_errno, due, core>> /\ core.halted
      /\ \A x \in lost : x \in lost'
  BY Zenon, FixedStay DEF AwaitsInput
<1>3. CallsTyped
  BY DEF CallsRight
<1>4. reg' \in Places \cup {0} /\ (reg' = core.at \/ "regs" \in lost')
  BY Zenon, <1>1, <1>3, RegsRead
<1>5. CallsTyped'
  BY Zenon, <1>2, <1>3, <1>4 DEF CallsTyped
<1>6. (served > 0 => "jump" \in lost) /\ (due # 0 => saved_errno = due)
  BY Zenon DEF CallsRight, Serving
<1>7. Serving'
  BY Zenon, <1>2, <1>4, <1>6 DEF Serving
<1>8. CallServedOnce'
  BY <1>2 DEF CallsRight, CallServedOnce
<1> QED
  BY <1>5, <1>7, <1>8 DEF CallsRight

(* One turn of the loop of "c".                                            *)
LEMMA CallsTurn ==
  ASSUME CallsRight, PointsTyped, Addressed, Next, Turn
  PROVE  CallsRight'
<1>1. CallsTyped /\ core \in [halted : BOOLEAN, at : Places]
  BY DEF CallsRight, CallsTyped
<1>2. CASE Interrupted \/ LooksAgain
  <2>1. UNCHANGED calls /\ pc' # "input"
    <3>1. UNCHANGED calls /\ pc = "running" /\ (pc' = pc \/ pc' = "receive")
      BY Zenon, <1>2 DEF Turn, Interrupted, LooksAgain, StillWaits, StopReply
    <3> QED
      BY <3>1
  <2>2. core' \in [halted : BOOLEAN, at : Places]
    <3>1. (\E l : core' = [core EXCEPT !.halted = core.halted \/ l = {}]) \/ core' = core
      BY Zenon, <1>2 DEF Interrupted, LooksAgain
    <3> QED
      BY <1>1, <3>1
  <2> QED
    BY Zenon, <2>1, <2>2, CallsStay
<1>3. CASE TellsGdb
  BY Zenon, <1>3, CallsTold
<1>4. CASE AwaitsInput
  BY Zenon, <1>4, CallsAwait
<1>5. CASE ServesCall
  <2>1. pc' # "input"
    <3>1. pc' = pc /\ pc = "running"
      BY Zenon, <1>5 DEF Turn, ServesCall, StillWaits
    <3> QED
      BY <3>1
  <2>2. PICK call \in Calls : \E l : ReadRegs(l) /\ Performs(call, l)
    BY Zenon, <1>5 DEF ServesCall
  <2>3. PICK l : ReadRegs(l) /\ Performs(call, l)
    BY Zenon, <2>2
  <2>4. call \in SemihostingCalls
    BY DEF Calls
  <2>5. Lose(l)
    BY Zenon, <2>3 DEF Performs
  <2>6. reg' \in Places \cup {0} /\ (reg' = core.at \/ "regs" \in lost')
    BY Zenon, <1>1, <2>3, <2>5, RegsRead
  <2> QED
    BY Zenon, <2>1, <2>3, <2>4, <2>6, CallsPerformed
<1> QED
  BY Zenon, <1>2, <1>3, <1>4, <1>5 DEF Turn

(* Whatever is done, calls are kept apart.                                 *)
LEMMA CallsStep ==
  ASSUME CallsRight, PointsTyped, Addressed, Next
  PROVE  CallsRight'
<1>1. CallsTyped /\ core \in [halted : BOOLEAN, at : Places] /\ core.at \in Places
      /\ 4 \in Places /\ \A a \in Code : a \in Places
  BY CodeIsPlaces DEF CallsRight, CallsTyped
<1>2. /\ \A a : After(a) \in Places
      /\ \A a : \A b \in Drifts(a) : b \in Places
  BY Zenon, <1>1, CodeIsPlaces
<1>3. TRUE \in BOOLEAN /\ FALSE \in BOOLEAN
  OBVIOUS
<1>4. CASE Turn
  BY Zenon, <1>4, CallsTurn
<1>5. CASE TakesInput
  <2>1. pc' # "input"
    BY <1>5 DEF TakesInput
  <2>2. PICK call \in FromTerminal : \E l : reg' = reg /\ Performs(call, l)
    BY Zenon, <1>5 DEF TakesInput
  <2>3. PICK l : reg' = reg /\ Performs(call, l)
    BY Zenon, <2>2
  <2>4. call \in SemihostingCalls
    BY DEF FromTerminal
  <2>5. reg = core.at \/ "regs" \in lost
    BY Zenon, <1>5 DEF TakesInput, CallsRight, Serving
  <2>6. reg' \in Places \cup {0} /\ (reg' = core.at \/ "regs" \in lost')
    BY Zenon, <1>1, <2>3, <2>5, FixedStay DEF CallsTyped
  <2> QED
    BY Zenon, <2>1, <2>3, <2>4, <2>6, CallsPerformed
<1>6. CASE \/ HangUp \/ WriteMemory \/ Interrupt \/ MonitorSemihosting \/ Extended
           \/ FlashErase \/ FlashWrite
           \/ \E a \in Breaks : InsertBreak(a) \/ RemoveBreak(a)
           \/ \E w \in Watched : InsertWatch(w) \/ RemoveWatch(w)
  <2>1. UNCHANGED <<calls, core, pc>>
    BY Zenon, <1>6 DEF HangUp, WriteMemory, Interrupt, MonitorSemihosting, Extended, FlashErase,
       FlashWrite, InsertBreak, RemoveBreak, InsertWatch, RemoveWatch, Answered
  <2> QED
    BY Zenon, <1>1, <2>1, CallsStay
<1>7. CASE Continue
  <2>1. PICK l : core' = [core EXCEPT !.halted = core.halted /\ "run" \in l]
    BY Zenon, <1>7 DEF Continue
  <2>2. core' \in [halted : BOOLEAN, at : Places]
    BY <1>1, <2>1
  <2>3. UNCHANGED calls /\ pc' = "running"
    BY Zenon, <1>7 DEF Continue
  <2>4. pc' # "input"
    BY <2>3
  <2> QED
    BY Zenon, <2>2, <2>3, <2>4, CallsStay
<1>8. ASSUME \E h \in BOOLEAN : \E at \in Places : Moves(h, at), pc' # "input"
      PROVE  CallsRight'
  BY Zenon, <1>8, CallsMove
<1>9. CASE Accept
  <2>1. PICK l : Connect(l)
    BY Zenon, <1>9 DEF Accept
  <2>2. PICK at \in (IF hotPlug THEN {core.at} ELSE Drifts(4)) :
              Moves("halt" \notin l \/ (hotPlug /\ core.halted), at)
    BY Zenon, <2>1 DEF Connect
  <2>3. at \in Places
    BY <1>1, <1>2
  <2>4. ("halt" \notin l \/ (hotPlug /\ core.halted)) \in BOOLEAN
    OBVIOUS
  <2>5. pc' # "input"
    BY <1>9 DEF Accept
  <2> QED
    BY Zenon, <1>8, <2>2, <2>3, <2>4, <2>5
<1>10. CASE CoreRuns
  <2>1. (\E h \in BOOLEAN : \E at \in Places : Moves(h, at)) /\ pc' = pc /\ ~core.halted
    <3>1. \/ Moves(TRUE, core.at)
          \/ \E h \in {FALSE, Watching # {}} : Moves(h, After(core.at))
      BY Zenon, <1>10 DEF CoreRuns
    <3>2. \A h \in {FALSE, Watching # {}} : h \in BOOLEAN
      OBVIOUS
    <3> QED
      BY Zenon, <1>1, <1>2, <1>3, <1>10, <3>1, <3>2 DEF CoreRuns
  <2>2. pc # "input"
    BY Zenon, <2>1 DEF CallsRight, Serving
  <2> QED
    BY Zenon, <1>8, <2>1, <2>2
<1>11. CASE Closed \/ Signal \/ Step
  <2>1. ASSUME NEW l, Ends(l)
        PROVE  (\E h \in BOOLEAN : Moves(h, core.at)) /\ pc' # "input"
    <3>1. (core.halted /\ persistent /\ "run" \in l) \in BOOLEAN
      OBVIOUS
    <3>2. pc' # "input"
      BY <2>1 DEF Ends
    <3> QED
      BY Zenon, <2>1, <3>1, <3>2 DEF Ends
  <2>2. CASE Closed
    BY Zenon, <1>1, <1>8, <2>1, <2>2 DEF Closed
  <2>3. CASE Signal
    <3>1. pc' # "input"
      BY <2>3 DEF Signal
    <3> QED
      BY Zenon, <1>1, <1>3, <1>8, <2>3, <3>1 DEF Signal
  <2>4. CASE Step
    <3>1. CASE \E l : Ends(l)
      BY Zenon, <1>1, <1>8, <2>1, <3>1
    <3>2. CASE Moves(TRUE, IF core.at \in Blocked THEN core.at ELSE After(core.at)) /\ pc' = pc
      <4>1. (IF core.at \in Blocked THEN core.at ELSE After(core.at)) \in Places
        BY Zenon, <1>1, <1>2
      <4>2. pc' # "input"
        BY <2>4, <3>2 DEF Step, Asks
      <4> QED
        BY Zenon, <1>3, <1>8, <3>2, <4>1, <4>2
    <3> QED
      BY Zenon, <2>4, <3>1, <3>2 DEF Step
  <2> QED
    BY <1>11, <2>2, <2>3, <2>4
<1>12. CASE Restart \/ JtagReset \/ MonitorHalt \/ MonitorResume \/ FlashDone
  <2>1. pc' = pc /\ pc = "receive"
    BY Zenon, <1>12 DEF Restart, JtagReset, MonitorHalt, MonitorResume, FlashDone, Answered, Asks
  <2>2. pc' # "input"
    BY <2>1
  <2>3. CASE UNCHANGED <<core, calls>>
    BY Zenon, <1>1, <2>2, <2>3, CallsStay
  <2>4. CASE Restart
    BY Zenon, <1>1, <1>3, <1>8, <2>2, <2>3, <2>4 DEF Restart
  <2>5. CASE JtagReset
    <3>1. PICK l \in Losses({"halt"}) : \E at \in Drifts(4) : Moves(l = {}, at)
      BY Zenon, <2>5 DEF JtagReset
    <3>2. (l = {}) \in BOOLEAN
      OBVIOUS
    <3> QED
      BY Zenon, <1>2, <1>8, <2>2, <3>1, <3>2
  <2>6. CASE MonitorHalt \/ MonitorResume
    BY Zenon, <1>1, <1>3, <1>8, <2>2, <2>6 DEF MonitorHalt, MonitorResume
  <2>7. CASE FlashDone
    <3>1. Moves(TRUE, 4) \/ \E at \in IF hotPlug THEN {core.at} ELSE Drifts(4) : Moves(TRUE, at)
      BY Zenon, <2>7 DEF FlashDone
    <3>2. \A at \in IF hotPlug THEN {core.at} ELSE Drifts(4) : at \in Places
      BY <1>1, <1>2
    <3> QED
      BY Zenon, <1>1, <1>3, <1>8, <2>2, <3>1, <3>2
  <2> QED
    BY <1>12, <2>4, <2>5, <2>6, <2>7
<1>13. CASE Kill
  <2>1. pc' # "input"
    BY <1>13 DEF Kill, Asks
  <2>2. \/ Moves(FALSE, core.at)
        \/ \E l : \E at \in (IF hotPlug THEN Drifts(core.at) ELSE Drifts(4)) :
             Moves("halt" \notin l, at)
    BY Zenon, <1>13 DEF Kill
  <2>3. \A at \in (IF hotPlug THEN Drifts(core.at) ELSE Drifts(4)) : at \in Places
    BY Zenon, <1>2
  <2>4. \A l : ("halt" \notin l) \in BOOLEAN
    OBVIOUS
  <2> QED
    BY Zenon, <1>1, <1>3, <1>8, <2>1, <2>2, <2>3, <2>4
<1> QED
  BY Zenon, <1>4, <1>5, <1>6, <1>7, <1>9, <1>10, <1>11, <1>12, <1>13 DEF Next

-----------------------------------------------------------------------------
(***************************************************************************)
(* Breakpoints.                                                            *)
(***************************************************************************)
(* A slot says where the core stops.                                       *)
LEMMA SpotsDiffer ==
  ASSUME code_break_rev \in {1, 2}
  PROVE  /\ \A a, b \in Spots : FpbAddr(a) = FpbAddr(b) /\ BreakType(a) = BreakType(b) => a = b
         /\ \A a \in Spots : (IF BreakType(a) = "high" THEN FpbAddr(a) + 2 ELSE FpbAddr(a)) = a
         /\ \A a \in Spots : BreakType(a) \in IF code_break_rev = 1 THEN {"low", "high"}
                                                                    ELSE {"remap"}
<1>1. Word(4) = 4 /\ Word(6) = 4 /\ Word(8) = 8
  BY DEF Word
<1>2. \A a \in Spots : a = 4 \/ a = 6 \/ a = 8
  BY DEF Spots
<1>3. CASE code_break_rev = 1
  <2>1. /\ FpbAddr(4) = 4 /\ FpbAddr(6) = 4 /\ FpbAddr(8) = 8
        /\ BreakType(4) = "low" /\ BreakType(6) = "high" /\ BreakType(8) = "low"
    <3>1. 4 % CodeRegion = 4 /\ 6 % CodeRegion = 6 /\ 8 % CodeRegion = 8
      BY SMT DEF CodeRegion
    <3> QED
      BY <1>1, <1>3, <3>1 DEF FpbAddr, BreakType
  <2> QED
    BY <1>2, <1>3, <2>1
<1>4. CASE code_break_rev = 2
  <2>1. \A a \in Spots : FpbAddr(a) = a /\ BreakType(a) = "remap"
    BY <1>4 DEF FpbAddr, BreakType
  <2> QED
    BY <1>4, <2>1
<1> QED
  BY <1>3, <1>4

(* None of the slots is touched, and GDB wants no other breakpoints.       *)
LEMMA BreaksStay ==
  ASSUME BreaksHeld, UNCHANGED <<chip, code_break_num, code_break_rev, code_breaks, fpb>>,
         \A a \in Spots : AsBreak(a) \in want' <=> AsBreak(a) \in want,
         \/ phase # "removing" \/ phase' = "removing" \/ want' = {}
  PROVE  BreaksHeld'
<1>1. UNCHANGED <<chip, code_break_num, code_break_rev, code_breaks, fpb>>
  OBVIOUS
<1>2. \A i \in 1 .. Comparators : \A a \in Spots : HoldsBreak(i, a) <=> HoldsBreak(i, a)'
  BY Zenon, <1>1 DEF HoldsBreak, FpbAddr, BreakType
<1>3. \E m \in 0 .. Comparators : FilledTo(m)'
  <2>1. CASE phase # "removing" \/ phase' = "removing"
    BY Zenon, <1>1, <2>1 DEF BreaksHeld, FilledTo
  <2>2. CASE want' = {}
    <3>1. \A i \in 1 .. Comparators : code_breaks[i].type = {}
      <4>1. SUFFICES ASSUME NEW i \in 1 .. Comparators, NEW t \in code_breaks[i].type PROVE FALSE
        OBVIOUS
      <4>2. PICK a \in Spots : code_breaks[i].addr = FpbAddr(a) /\ BreakType(a) = t
        BY Zenon DEF BreaksHeld
      <4>3. HoldsBreak(i, a)
        BY Zenon, <4>1, <4>2 DEF HoldsBreak
      <4>4. AsBreak(a) \in want'
        BY Zenon, <4>3 DEF BreaksHeld
      <4> QED
        BY <2>2, <4>4
    <3>2. FilledTo(0)'
      BY <1>1, <3>1 DEF FilledTo
    <3>3. 0 \in 0 .. Comparators
      BY BoundsAreNat
    <3> QED
      BY Zenon, <3>2, <3>3
  <2> QED
    BY <2>1, <2>2
<1>4. \A a \in Spots : AsBreak(a) \in want' <=> \E i \in 1 .. Comparators : HoldsBreak(i, a)'
  BY Zenon, <1>2 DEF BreaksHeld
<1>5. \A i \in 1 .. Comparators : \A t \in code_breaks'[i].type :
        \E a \in Spots : code_breaks'[i].addr = FpbAddr(a)' /\ BreakType(a)' = t
  <2>1. \A a : FpbAddr(a)' = FpbAddr(a) /\ BreakType(a)' = BreakType(a)
    BY Zenon, <1>1 DEF FpbAddr, BreakType
  <2> QED
    BY Zenon, <1>1, <2>1 DEF BreaksHeld
<1>6. /\ code_break_num' = Comparators /\ code_break_rev' = chip'.rev
      /\ \A i \in 1 .. Comparators :
           fpb'[i] = IF code_breaks'[i].type = {} THEN NoBreak ELSE code_breaks'[i]
  BY Zenon, <1>1 DEF BreaksHeld
<1> QED
  BY Zenon, <1>3, <1>4, <1>5, <1>6 DEF BreaksHeld, AsBreak

(* The first slots that are filled are found again, and a new one is the   *)
(* next.                                                                   *)
LEMMA InsertedAt ==
  ASSUME MemoryTyped, PointsTyped, BreaksHeld, NEW a \in Spots, Fitting(a, TRUE) # {},
         phase # "removing", NEW m \in 0 .. Comparators, FilledTo(m)
  PROVE  LET id == Min(Fitting(a, TRUE))
         IN  /\ id \in 1 .. Comparators
             /\ \/ id <= m /\ code_breaks[id].addr = FpbAddr(a)
                \/ /\ id = m + 1 /\ code_breaks[id].type = {}
                   /\ \A j \in 1 .. m : code_breaks[j].addr # FpbAddr(a)
<1> DEFINE id == Min(Fitting(a, TRUE))
<1>1. Comparators \in Nat /\ m \in Nat /\ code_break_num = Comparators
  BY BoundsAreNat DEF BreaksHeld
<1>2. Fitting(a, TRUE) = {i \in 1 .. Comparators : \/ code_breaks[i].addr = FpbAddr(a)
                                                   \/ code_breaks[i].type = {}}
  BY <1>1 DEF Fitting
<1> DEFINE fits == Fitting(a, TRUE)
<1>3. /\ \A i \in fits : i \in 1 .. Comparators /\ (\/ code_breaks[i].addr = FpbAddr(a)
                                                   \/ code_breaks[i].type = {})
      /\ \A i \in 1 .. Comparators :
           code_breaks[i].addr = FpbAddr(a) \/ code_breaks[i].type = {} => i \in fits
  BY Zenon, <1>2
<1> HIDE DEF fits
<1>4. id \in fits /\ \A y \in fits : id <= y
  <2>1. fits \in SUBSET Nat
    BY <1>1, <1>3
  <2>2. fits # {}
    BY DEF fits
  <2>3. Min(fits) \in fits /\ \A y \in fits : Min(fits) <= y
    BY Zenon, <2>1, <2>2, MinIsFirst
  <2> QED
    BY Zenon, <2>3 DEF fits
<1> HIDE DEF id
<1>5. id \in 1 .. Comparators /\ (code_breaks[id].addr = FpbAddr(a) \/ code_breaks[id].type = {})
  BY Zenon, <1>3, <1>4
<1>6. /\ \A i \in 1 .. m : code_breaks[i].type # {}
      /\ \A i \in 1 .. Comparators : i > m => code_breaks[i].type = {}
  BY Zenon DEF FilledTo
<1>7. CASE id <= m
  <2>1. id \in 1 .. m
    BY <1>1, <1>5, <1>7
  <2>2. code_breaks[id].addr = FpbAddr(a)
    BY Zenon, <1>5, <1>6, <2>1
  <2> QED
    BY <1>5, <1>7, <2>2 DEF id
<1>8. CASE id > m
  <2>1. m + 1 \in 1 .. Comparators /\ m + 1 > m
    BY <1>1, <1>5, <1>8
  <2>2. id <= m + 1
    BY Zenon, <1>3, <1>4, <1>6, <2>1
  <2>3. id = m + 1
    BY <1>1, <1>5, <1>8, <2>2
  <2>4. ASSUME NEW j \in 1 .. m, code_breaks[j].addr = FpbAddr(a) PROVE FALSE
    <3>1. j \in 1 .. Comparators
      BY <1>1
    <3>2. id <= j
      BY Zenon, <1>3, <1>4, <2>4, <3>1
    <3> QED
      BY <1>1, <1>5, <1>8, <3>2
  <2>5. code_breaks[id].type = {}
    BY Zenon, <1>5, <1>6, <1>8
  <2> QED
    BY <1>5, <2>3, <2>4, <2>5 DEF id
<1>9. id <= m \/ id > m
  BY <1>1, <1>5
<1> QED
  BY Zenon, <1>7, <1>8, <1>9

(* A breakpoint is added to its word, or to the next slot.                 *)
LEMMA BreaksInserted ==
  ASSUME MemoryTyped, PointsTyped, BreaksHeld, chip' = chip, NEW a \in Spots, Fitting(a, TRUE) # {},
         phase # "removing", NEW l, "compare" \notin l, UpdateCodeBreakpoint(a, TRUE, l),
         want' = want \cup {AsBreak(a)}
  PROVE  BreaksHeld'
<1> DEFINE id == Min(Fitting(a, TRUE))
           bp == [addr |-> FpbAddr(a), type |-> code_breaks[id].type \cup {BreakType(a)}]
<1>1. PICK m \in 0 .. Comparators : FilledTo(m)
  BY Zenon DEF BreaksHeld
<1>2. /\ id \in 1 .. Comparators
      /\ \/ id <= m /\ code_breaks[id].addr = FpbAddr(a)
         \/ /\ id = m + 1 /\ code_breaks[id].type = {}
            /\ \A j \in 1 .. m : code_breaks[j].addr # FpbAddr(a)
  BY Zenon, <1>1, InsertedAt
<1>3. /\ code_breaks' = [code_breaks EXCEPT ![id] = bp]
      /\ fpb' = IF id > Comparators THEN fpb
                ELSE [fpb EXCEPT ![id] = IF bp.type = {} THEN NoBreak ELSE bp]
      /\ code_break_num' = code_break_num /\ code_break_rev' = code_break_rev
  BY Zenon DEF UpdateCodeBreakpoint
<1> HIDE DEF id
<1>4. /\ code_breaks \in [Slots -> Comparator] /\ fpb \in [1 .. Comparators -> Comparator]
      /\ Comparators \in Nat /\ m \in Nat /\ 1 .. Comparators \subseteq Slots
      /\ code_break_rev \in {1, 2}
  <2>1. code_breaks \in [Slots -> Comparator] /\ fpb \in [1 .. Comparators -> Comparator]
    BY Zenon DEF PointsTyped, BreaksTyped
  <2>2. Comparators \in Nat /\ m \in Nat /\ 1 .. Comparators \subseteq Slots
    BY BoundsAreNat DEF Slots
  <2>3. code_break_rev = chip.rev /\ chip \in [rev : {1, 2}, caches : BOOLEAN]
    BY Zenon DEF BreaksHeld, MemoryTyped
  <2>4. code_break_rev \in {1, 2}
    BY <2>3
  <2> QED
    BY <2>1, <2>2, <2>4
<1>5. fpb' = [fpb EXCEPT ![id] = bp]
  <2>1. ~(id > Comparators) /\ bp.type # {}
    BY <1>2, <1>4
  <2> QED
    BY Zenon, <1>3, <2>1
<1>6. code_breaks'[id] = bp /\ \A i \in 1 .. Comparators : i # id => code_breaks'[i] = code_breaks[i]
  BY <1>2, <1>3, <1>4
<1>7. bp.addr = FpbAddr(a) /\ bp.type = code_breaks[id].type \cup {BreakType(a)} /\ bp.type # {}
  OBVIOUS
<1> HIDE DEF bp
<1>8. \A b : FpbAddr(b)' = FpbAddr(b) /\ BreakType(b)' = BreakType(b)
  BY Zenon, <1>3 DEF FpbAddr, BreakType
<1>9. \A i \in 1 .. Comparators :
        fpb'[i] = IF code_breaks'[i].type = {} THEN NoBreak ELSE code_breaks'[i]
  BY <1>2, <1>4, <1>5, <1>6, <1>7 DEF BreaksHeld
<1>10. \A i \in 1 .. Comparators : \A b \in Spots :
         HoldsBreak(i, b)' <=> HoldsBreak(i, b) \/ (i = id /\ b = a)
  <2> SUFFICES ASSUME NEW i \in 1 .. Comparators, NEW b \in Spots
               PROVE  HoldsBreak(i, b)' <=> HoldsBreak(i, b) \/ (i = id /\ b = a)
    OBVIOUS
  <2>1. HoldsBreak(i, b)'
          <=> code_breaks'[i].addr = FpbAddr(b) /\ BreakType(b) \in code_breaks'[i].type
    BY Zenon, <1>8 DEF HoldsBreak
  <2>2. FpbAddr(a) = FpbAddr(b) /\ BreakType(a) = BreakType(b) <=> a = b
    BY <1>4, SpotsDiffer
  <2> QED
    BY <1>2, <1>6, <1>7, <2>1, <2>2 DEF HoldsBreak
<1>11. \A b \in Spots : AsBreak(b) \in want' <=> \E i \in 1 .. Comparators : HoldsBreak(i, b)'
  <2> SUFFICES ASSUME NEW b \in Spots
               PROVE  AsBreak(b) \in want' <=> \E i \in 1 .. Comparators : HoldsBreak(i, b)'
    OBVIOUS
  <2>1. AsBreak(b) \in want' <=> AsBreak(b) \in want \/ b = a
    BY DEF AsBreak
  <2> QED
    BY Zenon, <1>2, <1>10, <2>1 DEF BreaksHeld
<1>12. \A i \in 1 .. Comparators : \A t \in code_breaks'[i].type :
         \E b \in Spots : code_breaks'[i].addr = FpbAddr(b) /\ BreakType(b) = t
  <2> SUFFICES ASSUME NEW i \in 1 .. Comparators, NEW t \in code_breaks'[i].type
               PROVE  \E b \in Spots : code_breaks'[i].addr = FpbAddr(b) /\ BreakType(b) = t
    OBVIOUS
  <2>1. CASE t \in code_breaks[i].type /\ code_breaks'[i].addr = code_breaks[i].addr
    BY Zenon, <2>1 DEF BreaksHeld
  <2>2. CASE i = id /\ t = BreakType(a)
    BY <1>6, <1>7, <2>2
  <2>3. CASE i # id
    BY Zenon, <1>6, <2>1, <2>3
  <2>4. CASE i = id /\ t # BreakType(a)
    <3>1. t \in code_breaks[i].type /\ code_breaks'[i].addr = code_breaks[i].addr
      BY <1>2, <1>6, <1>7, <2>4
    <3> QED
      BY <2>1, <3>1
  <2> QED
    BY <2>2, <2>3, <2>4
<1>13. \E n \in 0 .. Comparators : FilledTo(n)'
  <2>1. /\ \A i, j \in 1 .. m : code_breaks[i].addr = code_breaks[j].addr => i = j
        /\ \A i \in 1 .. Comparators : i > m => code_breaks[i].type = {}
        /\ \A i \in 1 .. m : code_breaks[i].type # {}
    BY Zenon, <1>1 DEF FilledTo
  <2>2. CASE id <= m /\ code_breaks[id].addr = FpbAddr(a)
    <3>1. \A i \in 1 .. Comparators : code_breaks'[i].addr = code_breaks[i].addr
      BY <1>6, <1>7, <2>2
    <3>2. \A i \in 1 .. Comparators :
            IF i = id THEN code_breaks'[i].type # {} ELSE code_breaks'[i].type = code_breaks[i].type
      BY <1>6, <1>7
    <3>3. FilledTo(m)'
      BY <1>4, <2>1, <2>2, <3>1, <3>2 DEF FilledTo
    <3> QED
      BY <3>3
  <2>3. CASE /\ id = m + 1 /\ code_breaks[id].type = {}
             /\ \A j \in 1 .. m : code_breaks[j].addr # FpbAddr(a)
    <3>1. code_breaks'[m + 1].addr = FpbAddr(a) /\ code_breaks'[m + 1].type # {}
      BY <1>6, <1>7, <2>3
    <3>2. \A i \in 1 .. Comparators : i # m + 1 => code_breaks'[i] = code_breaks[i]
      BY <1>6, <2>3
    <3>3. m + 1 \in 0 .. Comparators
      BY <1>2, <1>4, <2>3
    <3>4. \A i \in 1 .. m : i \in 1 .. Comparators /\ i # m + 1
      BY <1>4
    <3>5. \A i \in 1 .. m + 1 : i = m + 1 \/ i \in 1 .. m
      BY <1>4
    <3>6. FilledTo(m + 1)'
      <4>1. \A i, j \in 1 .. m + 1 : code_breaks'[i].addr = code_breaks'[j].addr => i = j
        BY <2>1, <2>3, <3>1, <3>2, <3>4, <3>5
      <4>2. \A i \in 1 .. Comparators : i > m + 1 => code_breaks'[i].type = {}
        BY <1>4, <2>1, <3>2
      <4>3. \A i \in 1 .. m + 1 : code_breaks'[i].type # {}
        BY <2>1, <3>1, <3>2, <3>4, <3>5
      <4> QED
        BY Zenon, <4>1, <4>2, <4>3 DEF FilledTo
    <3> QED
      BY <3>3, <3>6
  <2> QED
    BY <1>2, <2>2, <2>3
<1>14. code_break_num' = Comparators /\ code_break_rev' = chip'.rev
  BY Zenon, <1>3 DEF BreaksHeld
<1> QED
  BY Zenon, <1>8, <1>9, <1>11, <1>12, <1>13, <1>14 DEF BreaksHeld

(* What is removed is found by its word.                                   *)
LEMMA RemovedAt ==
  ASSUME PointsTyped, BreaksHeld, NEW a \in Spots, AsBreak(a) \in want,
         NEW m \in 0 .. Comparators, FilledTo(m)
  PROVE  LET id == Min(Fitting(a, FALSE))
         IN  /\ id \in 1 .. m /\ HoldsBreak(id, a)
             /\ \A j \in 1 .. Comparators : HoldsBreak(j, a) => j = id
<1> DEFINE id == Min(Fitting(a, FALSE))
<1>1. Comparators \in Nat /\ m \in Nat /\ code_break_num = Comparators
  BY BoundsAreNat DEF BreaksHeld
<1>2. Fitting(a, FALSE) = {i \in 1 .. Comparators : code_breaks[i].addr = FpbAddr(a)}
  BY <1>1 DEF Fitting
<1> DEFINE fits == Fitting(a, FALSE)
<1>3. /\ \A i \in fits : i \in 1 .. Comparators /\ code_breaks[i].addr = FpbAddr(a)
      /\ \A i \in 1 .. Comparators : code_breaks[i].addr = FpbAddr(a) => i \in fits
  BY Zenon, <1>2
<1> HIDE DEF fits
<1>4. PICK i \in 1 .. Comparators : HoldsBreak(i, a)
  BY Zenon DEF BreaksHeld
<1>5. /\ \A x, y \in 1 .. m : code_breaks[x].addr = code_breaks[y].addr => x = y
      /\ \A x \in 1 .. Comparators : x > m => code_breaks[x].type = {}
  BY Zenon DEF FilledTo
<1>6. \A j \in 1 .. Comparators : HoldsBreak(j, a) => j \in 1 .. m /\ j \in fits
  <2> SUFFICES ASSUME NEW j \in 1 .. Comparators, HoldsBreak(j, a) PROVE j \in 1 .. m /\ j \in fits
    OBVIOUS
  <2>1. code_breaks[j].addr = FpbAddr(a) /\ code_breaks[j].type # {}
    BY DEF HoldsBreak
  <2>2. ~(j > m) /\ j \in fits
    BY Zenon, <1>3, <1>5, <2>1
  <2>3. j \in 1 .. m
    BY <1>1, <2>2
  <2> QED
    BY Zenon, <2>2, <2>3
<1>7. i \in 1 .. m /\ i \in fits
  BY Zenon, <1>4, <1>6
<1>8. id \in fits /\ id <= i
  <2>1. fits \in SUBSET Nat /\ fits # {}
    BY <1>1, <1>3, <1>7
  <2>2. Min(fits) \in fits /\ \A y \in fits : Min(fits) <= y
    BY Zenon, <2>1, MinIsFirst
  <2> QED
    BY Zenon, <1>7, <2>2 DEF fits
<1> HIDE DEF id
<1>9. id \in 1 .. m
  <2>1. id \in 1 .. Comparators
    BY Zenon, <1>3, <1>8
  <2> QED
    BY <1>1, <1>7, <1>8, <2>1
<1>10. \A j \in fits : j \in 1 .. m => j = id
  BY Zenon, <1>3, <1>5, <1>8, <1>9
<1>11. i = id /\ \A j \in 1 .. Comparators : HoldsBreak(j, a) => j = id
  BY Zenon, <1>6, <1>7, <1>10
<1> QED
  BY Zenon, <1>4, <1>9, <1>11 DEF id

(* A breakpoint is taken out of its word, and leaves the other half alone. *)
LEMMA BreaksRemoved ==
  ASSUME MemoryTyped, PointsTyped, BreaksHeld, chip' = chip, NEW a \in Spots, AsBreak(a) \in want,
         phase = "removing", phase' = "removing" \/ want' = {},
         NEW l, "compare" \notin l, UpdateCodeBreakpoint(a, FALSE, l),
         want' = want \ {AsBreak(a)}
  PROVE  BreaksHeld'
<1> DEFINE id == Min(Fitting(a, FALSE))
           bp == [addr |-> FpbAddr(a), type |-> code_breaks[id].type \ {BreakType(a)}]
<1>1. PICK m \in 0 .. Comparators : FilledTo(m)
  BY Zenon DEF BreaksHeld
<1>2. /\ id \in 1 .. m /\ HoldsBreak(id, a)
      /\ \A j \in 1 .. Comparators : HoldsBreak(j, a) => j = id
  BY Zenon, <1>1, RemovedAt
<1>3. /\ code_breaks' = [code_breaks EXCEPT ![id] = bp]
      /\ fpb' = IF id > Comparators THEN fpb
                ELSE [fpb EXCEPT ![id] = IF bp.type = {} THEN NoBreak ELSE bp]
      /\ code_break_num' = code_break_num /\ code_break_rev' = code_break_rev
  BY Zenon DEF UpdateCodeBreakpoint
<1> HIDE DEF id
<1>4. /\ code_breaks \in [Slots -> Comparator] /\ fpb \in [1 .. Comparators -> Comparator]
      /\ Comparators \in Nat /\ m \in Nat /\ 1 .. Comparators \subseteq Slots
      /\ id \in 1 .. Comparators /\ code_break_rev \in {1, 2}
  <2>1. code_breaks \in [Slots -> Comparator] /\ fpb \in [1 .. Comparators -> Comparator]
    BY Zenon DEF PointsTyped, BreaksTyped
  <2>2. Comparators \in Nat /\ m \in Nat /\ 1 .. Comparators \subseteq Slots
    BY BoundsAreNat DEF Slots
  <2>3. code_break_rev = chip.rev /\ chip \in [rev : {1, 2}, caches : BOOLEAN]
    BY Zenon DEF BreaksHeld, MemoryTyped
  <2>4. code_break_rev \in {1, 2}
    BY <2>3
  <2>5. id \in 1 .. Comparators
    BY <1>2, <2>2
  <2> QED
    BY <2>1, <2>2, <2>4, <2>5
<1>5. fpb' = [fpb EXCEPT ![id] = IF bp.type = {} THEN NoBreak ELSE bp]
  <2>1. ~(id > Comparators)
    BY <1>4
  <2> QED
    BY Zenon, <1>3, <2>1
<1>6. code_breaks'[id] = bp /\ \A i \in 1 .. Comparators : i # id => code_breaks'[i] = code_breaks[i]
  BY <1>3, <1>4
<1>7. bp.addr = FpbAddr(a) /\ bp.type = code_breaks[id].type \ {BreakType(a)}
  OBVIOUS
<1> HIDE DEF bp
<1>8. \A b : FpbAddr(b)' = FpbAddr(b) /\ BreakType(b)' = BreakType(b)
  BY Zenon, <1>3 DEF FpbAddr, BreakType
<1>9. \A i \in 1 .. Comparators :
        fpb'[i] = IF code_breaks'[i].type = {} THEN NoBreak ELSE code_breaks'[i]
  BY <1>4, <1>5, <1>6 DEF BreaksHeld
<1>10. \A i \in 1 .. Comparators : /\ code_breaks'[i].addr = code_breaks[i].addr
                                   /\ code_breaks'[i].type \subseteq code_breaks[i].type
  BY <1>2, <1>6, <1>7 DEF HoldsBreak
<1>11. \A i \in 1 .. Comparators : \A b \in Spots :
         HoldsBreak(i, b)' <=> HoldsBreak(i, b) /\ b # a
  <2> SUFFICES ASSUME NEW i \in 1 .. Comparators, NEW b \in Spots
               PROVE  HoldsBreak(i, b)' <=> HoldsBreak(i, b) /\ b # a
    OBVIOUS
  <2>1. HoldsBreak(i, b)'
          <=> code_breaks'[i].addr = FpbAddr(b) /\ BreakType(b) \in code_breaks'[i].type
    BY Zenon, <1>8 DEF HoldsBreak
  <2>2. FpbAddr(a) = FpbAddr(b) /\ BreakType(a) = BreakType(b) <=> a = b
    BY <1>4, SpotsDiffer
  <2>3. CASE i = id
    BY <1>2, <1>6, <1>7, <2>1, <2>2, <2>3 DEF HoldsBreak
  <2>4. CASE i # id
    BY Zenon, <1>2, <1>6, <2>1, <2>4 DEF HoldsBreak
  <2> QED
    BY <2>3, <2>4
<1>12. \A b \in Spots : AsBreak(b) \in want' <=> \E i \in 1 .. Comparators : HoldsBreak(i, b)'
  <2> SUFFICES ASSUME NEW b \in Spots
               PROVE  AsBreak(b) \in want' <=> \E i \in 1 .. Comparators : HoldsBreak(i, b)'
    OBVIOUS
  <2>1. AsBreak(b) \in want' <=> AsBreak(b) \in want /\ b # a
    BY DEF AsBreak
  <2> QED
    BY Zenon, <1>11, <2>1 DEF BreaksHeld
<1>13. \A i \in 1 .. Comparators : \A t \in code_breaks'[i].type :
         \E b \in Spots : code_breaks'[i].addr = FpbAddr(b) /\ BreakType(b) = t
  BY <1>10 DEF BreaksHeld
<1>14. \E n \in 0 .. Comparators : FilledTo(n)'
  <2>1. CASE phase' = "removing"
    <3>1. /\ \A i, j \in 1 .. m : code_breaks[i].addr = code_breaks[j].addr => i = j
          /\ \A i \in 1 .. Comparators : i > m => code_breaks[i].type = {}
      BY Zenon, <1>1 DEF FilledTo
    <3>2. \A i \in 1 .. m : i \in 1 .. Comparators
      BY <1>4
    <3>3. FilledTo(m)'
      BY <1>10, <2>1, <3>1, <3>2 DEF FilledTo
    <3> QED
      BY <3>3
  <2>2. CASE want' = {}
    <3>1. \A i \in 1 .. Comparators : code_breaks'[i].type = {}
      <4>1. SUFFICES ASSUME NEW i \in 1 .. Comparators, NEW t \in code_breaks'[i].type PROVE FALSE
        OBVIOUS
      <4>2. PICK b \in Spots : code_breaks'[i].addr = FpbAddr(b) /\ BreakType(b) = t
        BY Zenon, <1>13
      <4>3. HoldsBreak(i, b)'
        BY Zenon, <1>8, <4>1, <4>2 DEF HoldsBreak
      <4>4. AsBreak(b) \in want'
        BY Zenon, <1>12, <4>3
      <4> QED
        BY <2>2, <4>4
    <3>2. FilledTo(0)'
      BY <3>1 DEF FilledTo
    <3>3. 0 \in 0 .. Comparators
      BY <1>4
    <3> QED
      BY Zenon, <3>2, <3>3
  <2> QED
    BY <2>1, <2>2
<1>15. code_break_num' = Comparators /\ code_break_rev' = chip'.rev
  BY Zenon, <1>3 DEF BreaksHeld
<1> QED
  BY Zenon, <1>8, <1>9, <1>12, <1>13, <1>14, <1>15 DEF BreaksHeld

-----------------------------------------------------------------------------
(***************************************************************************)
(* Watchpoints.                                                            *)
(***************************************************************************)
(* None of the slots is touched, and GDB wants no other watchpoints.       *)
LEMMA WatchesStay ==
  ASSUME WatchesHeld, UNCHANGED watches, Watches' = Watches,
         \/ phase # "removing" \/ phase' = "removing" \/ want' = {}
  PROVE  WatchesHeld'
<1>1. UNCHANGED <<data_watches, dwt>>
  BY Zenon DEF watches
<1>2. FreeWatches' = FreeWatches /\ UsedWatches' = UsedWatches
  BY Zenon, <1>1 DEF FreeWatches, UsedWatches
<1>3. PICK f \in [Watches -> UsedWatches] : Slotted(f)
  BY Zenon DEF WatchesHeld
<1>4. /\ \A v, w \in Watches : f[v] = f[w] => v = w
      /\ \A i \in UsedWatches : \E w \in Watches : f[w] = i
      /\ \A w \in Watches : /\ data_watches[f[w]].addr = w.addr
                            /\ phase # "removing" => data_watches[f[w]] = w
  BY Zenon, <1>3 DEF Slotted
<1>5. \A w \in Watches' : phase' # "removing" => phase # "removing"
  BY DEF Watches
<1>6. Slotted(f)'
  BY Zenon, <1>1, <1>2, <1>4, <1>5 DEF Slotted
<1>7. f \in [Watches' -> UsedWatches']
  BY Zenon, <1>2, <1>3
<1> QED
  BY Zenon, <1>1, <1>6, <1>7 DEF WatchesHeld

(* A watchpoint takes the first slot that is free.                         *)
LEMMA WatchesInserted ==
  ASSUME PointsTyped, WatchesHeld, NEW w \in [fun : {"write", "read"}, addr : {1, 2}],
         w \notin want, FreeWatches # {}, phase # "removing",
         NEW l, "watch" \notin l, SetWatch(Min(FreeWatches), w, FALSE, l), want' = want \cup {w}
  PROVE  WatchesHeld'
<1> DEFINE i == Min(FreeWatches)
<1>1. i \in FreeWatches
  <2>1. FreeWatches \in SUBSET Nat
    BY BoundsAreNat DEF FreeWatches
  <2> QED
    BY Zenon, <2>1, MinIsFirst
<1>2. data_watches' = [data_watches EXCEPT ![i] = w] /\ dwt' = [dwt EXCEPT ![i] = w]
  BY Zenon DEF SetWatch
<1> HIDE DEF i
<1>3. /\ data_watches \in [1 .. DataWatches -> Watch] /\ dwt \in [1 .. DataWatches -> Watch]
      /\ i \in 1 .. DataWatches
  BY <1>1 DEF PointsTyped, WatchesTyped, FreeWatches
<1>4. /\ data_watches'[i] = w /\ dwt'[i] = w /\ w.fun # "disabled" /\ w.fun # "break"
      /\ \A j \in 1 .. DataWatches : j # i => data_watches'[j] = data_watches[j] /\ dwt'[j] = dwt[j]
  BY <1>2, <1>3
<1>5. \A j \in 1 .. DataWatches :
        dwt'[j] = IF data_watches'[j].fun = "disabled" THEN NoWatch ELSE data_watches'[j]
  BY Zenon, <1>4 DEF WatchesHeld
<1>6. i \notin UsedWatches /\ UsedWatches' = UsedWatches \cup {i}
  <2>1. \A j \in 1 .. DataWatches :
          j \in FreeWatches' <=> j \in FreeWatches /\ j # i
    BY <1>4 DEF FreeWatches
  <2> QED
    BY <1>1, <1>3, <2>1 DEF UsedWatches
<1>7. w \notin Watches /\ Watches' = Watches \cup {w}
  BY <1>4 DEF Watches
<1>8. PICK f \in [Watches -> UsedWatches] : Slotted(f)
  BY Zenon DEF WatchesHeld
<1>9. /\ \A u, v \in Watches : f[u] = f[v] => u = v
      /\ \A j \in UsedWatches : \E v \in Watches : f[v] = j
      /\ \A v \in Watches : data_watches[f[v]].addr = v.addr /\ data_watches[f[v]] = v
  BY Zenon, <1>8 DEF Slotted
<1> PICK g : g = [v \in Watches \cup {w} |-> IF v = w THEN i ELSE f[v]]
  OBVIOUS
<1>10. g[w] = i /\ \A v \in Watches : g[v] = f[v] /\ f[v] \in UsedWatches
  BY <1>7, <1>8
<1>11. g \in [Watches' -> UsedWatches']
  BY <1>6, <1>7, <1>10
<1>12. \A u, v \in Watches' : g[u] = g[v] => u = v
  BY <1>6, <1>7, <1>9, <1>10
<1>13. \A j \in UsedWatches' : \E v \in Watches' : g[v] = j
  BY <1>6, <1>7, <1>9, <1>10
<1>14. \A v \in Watches' : data_watches'[g[v]].addr = v.addr /\ data_watches'[g[v]] = v
  <2>1. \A j \in UsedWatches : j \in 1 .. DataWatches /\ j # i
    BY <1>6 DEF UsedWatches
  <2>2. ASSUME NEW v \in Watches PROVE data_watches'[g[v]] = v
    BY Zenon, <1>4, <1>9, <1>10, <2>1
  <2>3. data_watches'[g[w]] = w
    BY Zenon, <1>4, <1>10
  <2> QED
    BY Zenon, <1>7, <2>2, <2>3
<1>15. Slotted(g)'
  BY Zenon, <1>12, <1>13, <1>14 DEF Slotted
<1> QED
  BY Zenon, <1>5, <1>11, <1>15 DEF WatchesHeld

(* If it is the slot of another of its address, that takes the one it had. *)
LEMMA WatchesRemoved ==
  ASSUME PointsTyped, WatchesHeld, NEW w \in [fun : {"write", "read"}, addr : {1, 2}],
         w \in want, phase' = "removing" \/ want' = {}, NEW l, "watch" \notin l,
         SetWatch(Min(WatchesAt(w.addr)),
                  [data_watches[Min(WatchesAt(w.addr))] EXCEPT !.fun = "disabled"], TRUE, l),
         want' = want \ {w}
  PROVE  WatchesHeld'
<1> DEFINE i == Min(WatchesAt(w.addr))
<1>1. PICK f \in [Watches -> UsedWatches] : Slotted(f)
  BY Zenon DEF WatchesHeld
<1>2. /\ \A u, v \in Watches : f[u] = f[v] => u = v
      /\ \A j \in UsedWatches : \E v \in Watches : f[v] = j
      /\ \A v \in Watches : f[v] \in UsedWatches /\ data_watches[f[v]].addr = v.addr
  BY Zenon, <1>1 DEF Slotted
<1>3. w \in Watches /\ Watches' = Watches \ {w}
  BY DEF Watches
<1>4. WatchesAt(w.addr) = {j \in UsedWatches : data_watches[j].addr = w.addr}
  BY DEF WatchesAt, UsedWatches
<1>5. i \in UsedWatches /\ data_watches[i].addr = w.addr
  <2>1. f[w] \in WatchesAt(w.addr)
    BY Zenon, <1>2, <1>3, <1>4
  <2>2. WatchesAt(w.addr) \in SUBSET Nat
    BY BoundsAreNat DEF WatchesAt
  <2>3. i \in WatchesAt(w.addr)
    BY Zenon, <2>1, <2>2, MinIsFirst
  <2> QED
    BY Zenon, <1>4, <2>3
<1>6. /\ data_watches' = [data_watches EXCEPT ![i] = [data_watches[i] EXCEPT !.fun = "disabled"]]
      /\ dwt' = [dwt EXCEPT ![i] = NoWatch]
  BY Zenon DEF SetWatch
<1> HIDE DEF i
<1>7. /\ data_watches \in [1 .. DataWatches -> Watch] /\ dwt \in [1 .. DataWatches -> Watch]
      /\ i \in 1 .. DataWatches
  BY <1>5 DEF PointsTyped, WatchesTyped, UsedWatches
<1>8. /\ data_watches'[i].fun = "disabled" /\ dwt'[i] = NoWatch
      /\ \A j \in 1 .. DataWatches : j # i => data_watches'[j] = data_watches[j] /\ dwt'[j] = dwt[j]
  BY <1>6, <1>7 DEF Watch
<1>9. \A j \in 1 .. DataWatches :
        dwt'[j] = IF data_watches'[j].fun = "disabled" THEN NoWatch ELSE data_watches'[j]
  BY Zenon, <1>8 DEF WatchesHeld
<1>10. UsedWatches' = UsedWatches \ {i}
  <2>1. \A j \in 1 .. DataWatches :
          j \in FreeWatches' <=> j \in FreeWatches \/ j = i
    BY <1>8 DEF FreeWatches
  <2> QED
    BY <2>1 DEF UsedWatches
<1>11. PICK v \in Watches : f[v] = i
  BY Zenon, <1>2, <1>5
<1>12. v.addr = w.addr
  BY Zenon, <1>2, <1>5, <1>11
<1> PICK g : g = [u \in Watches \ {w} |-> IF u = v THEN f[w] ELSE f[u]]
  OBVIOUS
<1>13. \A u \in Watches \ {w} : g[u] = IF u = v THEN f[w] ELSE f[u]
  OBVIOUS
<1>14. \A u \in Watches \ {w} : g[u] \in UsedWatches \ {i}
  BY <1>2, <1>3, <1>11, <1>13
<1>15. g \in [Watches' -> UsedWatches']
  BY <1>3, <1>10, <1>14
<1>16. \A u, x \in Watches' : g[u] = g[x] => u = x
  BY <1>2, <1>3, <1>11, <1>13
<1>17. \A j \in UsedWatches' : \E u \in Watches' : g[u] = j
  <2> SUFFICES ASSUME NEW j \in UsedWatches, j # i PROVE \E u \in Watches \ {w} : g[u] = j
    BY <1>3, <1>10
  <2>1. PICK u \in Watches : f[u] = j
    BY Zenon, <1>2
  <2>2. u # v
    BY <1>11, <2>1
  <2>3. CASE u = w
    BY <1>13, <2>1, <2>2, <2>3
  <2>4. CASE u # w
    BY <1>13, <2>1, <2>2, <2>4
  <2> QED
    BY <2>3, <2>4
<1>18. \A u \in Watches' : data_watches'[g[u]].addr = u.addr /\ phase' = "removing"
  <2> SUFFICES ASSUME NEW u \in Watches \ {w}
               PROVE  data_watches'[g[u]].addr = u.addr /\ phase' = "removing"
    BY <1>3
  <2>1. want' # {}
    BY DEF Watches
  <2>2. g[u] \in 1 .. DataWatches /\ g[u] # i
    BY <1>14 DEF UsedWatches
  <2>3. data_watches'[g[u]] = data_watches[g[u]]
    BY Zenon, <1>8, <2>2
  <2>4. data_watches[g[u]].addr = u.addr
    BY Zenon, <1>2, <1>3, <1>12, <1>13
  <2> QED
    BY <2>1, <2>3, <2>4
<1>19. Slotted(g)'
  BY Zenon, <1>16, <1>17, <1>18 DEF Slotted
<1> QED
  BY Zenon, <1>9, <1>15, <1>19 DEF WatchesHeld

-----------------------------------------------------------------------------
(***************************************************************************)
(* Both units, over every step.                                            *)
(***************************************************************************)
(* Both are cleared, and GDB has nothing in them.                          *)
LEMMA HeldAnew ==
  ASSUME MemoryTyped, PointsTyped, chip' = chip, NEW l, InitPoints(l), want' = {}, ~upset'
  PROVE  BreaksHeld' /\ WatchesHeld'
<1>1. Comparators \in Nat /\ 1 .. Comparators \subseteq Slots /\ 0 \in 0 .. Comparators
  BY BoundsAreNat DEF Slots
<1>2. InitCodeBreakpoints(l) /\ InitDataWatchpoints(l) /\ l \cap {"count", "clear", "unwatch"} = {}
  BY Zenon DEF InitPoints
<1>3. "count" \notin l /\ "clear" \notin l /\ "unwatch" \notin l
  BY <1>2
<1>4. code_break_num' = Comparators /\ code_break_rev' = chip'.rev
  BY Zenon, <1>2, <1>3 DEF InitCodeBreakpoints
<1>5. \A i \in 1 .. Comparators : code_breaks'[i].type = {}
  <2>1. code_breaks' = [i \in Slots |-> IF i <= Comparators
                                        THEN [code_breaks[i] EXCEPT !.type = {}] ELSE code_breaks[i]]
    BY Zenon, <1>2, <1>4 DEF InitCodeBreakpoints
  <2>2. code_breaks \in [Slots -> Comparator]
    BY Zenon DEF PointsTyped, BreaksTyped
  <2>3. \A c \in Comparator : [c EXCEPT !.type = {}].type = {}
    BY DEF Comparator
  <2> QED
    BY <1>1, <2>1, <2>2, <2>3
<1>6. \A i \in 1 .. Comparators : fpb'[i] = NoBreak
  <2>1. PICK i \in 1 .. Comparators :
          fpb' = [j \in 1 .. Comparators |->
                    IF j > code_break_num' \/ ("clear" \in l /\ j = i) THEN fpb[j] ELSE NoBreak]
    BY Zenon, <1>2 DEF InitCodeBreakpoints
  <2> QED
    BY <1>1, <1>3, <1>4, <2>1
<1>7. BreaksHeld'
  <2>1. FilledTo(0)'
    BY <1>1, <1>5 DEF FilledTo
  <2>2. \A a : \A i \in 1 .. Comparators : ~HoldsBreak(i, a)'
    BY <1>5 DEF HoldsBreak
  <2>3. \A a : AsBreak(a) \notin want'
    OBVIOUS
  <2>4. \A i \in 1 .. Comparators : \A t : t \notin code_breaks'[i].type
    BY <1>5
  <2> QED
    BY Zenon, <1>1, <1>4, <1>5, <1>6, <2>1, <2>2, <2>3, <2>4 DEF BreaksHeld, AsBreak
<1>8. \A i \in 1 .. DataWatches : data_watches'[i].fun = "disabled" /\ dwt'[i] = NoWatch
  <2>1. PICK i \in 1 .. DataWatches :
          dwt' = [j \in 1 .. DataWatches |-> IF "unwatch" \in l /\ j = i THEN dwt[j] ELSE NoWatch]
    BY Zenon, <1>2 DEF InitDataWatchpoints
  <2>2. data_watches' = [j \in 1 .. DataWatches |-> [data_watches[j] EXCEPT !.fun = "disabled"]]
    BY Zenon, <1>2 DEF InitDataWatchpoints
  <2>3. data_watches \in [1 .. DataWatches -> Watch]
    BY Zenon DEF PointsTyped, WatchesTyped
  <2>4. \A w \in Watch : [w EXCEPT !.fun = "disabled"].fun = "disabled"
    BY DEF Watch
  <2>5. \A j \in 1 .. DataWatches : data_watches'[j].fun = "disabled"
    BY <2>2, <2>3, <2>4
  <2>6. \A j \in 1 .. DataWatches : dwt'[j] = NoWatch
    BY <1>3, <2>1
  <2> QED
    BY <2>5, <2>6
<1>9. WatchesHeld'
  <2>1. Watches' = {} /\ UsedWatches' = {}
    BY <1>8 DEF Watches, UsedWatches, FreeWatches
  <2>2. PICK f : f = [w \in {} |-> 0]
    OBVIOUS
  <2>3. f \in [Watches' -> UsedWatches']
    BY <2>1, <2>2
  <2>4. Slotted(f)'
    BY Zenon, <2>1 DEF Slotted
  <2> QED
    BY Zenon, <1>8, <2>3, <2>4 DEF WatchesHeld
<1> QED
  BY <1>7, <1>9

(* Neither is touched.  GDB starts to remove, or is done, in between.      *)
LEMMA HeldStays ==
  ASSUME Held, Next, UNCHANGED <<breaks, watches, want>>,
         \/ phase' = phase
         \/ /\ phase \notin {"gone", "removing"}
            /\ phase' \in {"stopped", "loading"} => want = {}
  PROVE  Held'
<1>1. chip' = chip /\ want' = want /\ UNCHANGED breaks /\ UNCHANGED watches
  BY Zenon, FixedStay
<1>2. phase' \in {"stopped", "loading"} => want' = {}
  BY Zenon, <1>1 DEF Held
<1>3. ASSUME phase' # "gone", ~upset' PROVE BreaksHeld' /\ WatchesHeld'
  <2>1. ~upset /\ phase # "gone"
    BY <1>1, <1>3 DEF breaks
  <2>2. BreaksHeld /\ WatchesHeld
    BY Zenon, <2>1 DEF Held
  <2>3. phase # "removing" \/ phase' = "removing"
    BY SMT
  <2>4. Watches' = Watches /\ \A a \in Spots : AsBreak(a) \in want' <=> AsBreak(a) \in want
    BY Zenon, <1>1 DEF Watches
  <2>5. BreaksHeld'
    BY Zenon, <1>1, <2>2, <2>3, <2>4, BreaksStay DEF breaks
  <2>6. WatchesHeld'
    BY Zenon, <1>1, <2>2, <2>3, <2>4, WatchesStay
  <2> QED
    BY <2>5, <2>6
<1> QED
  BY Zenon, <1>2, <1>3 DEF Held

(* A breakpoint is inserted, refused or removed.                           *)
LEMMA HeldBreaks ==
  ASSUME MemoryTyped, PointsTyped, Held, Next, NEW a \in Spots, InsertBreak(a) \/ RemoveBreak(a)
  PROVE  Held'
<1>1. chip' = chip
  BY Zenon, FixedStay
<1>2. CASE Refused /\ phase \in {"stopped", "inserting"}
  <2>1. UNCHANGED <<breaks, watches, want>>
        /\ phase' = (IF want = {} THEN "stopped" ELSE "removing")
    BY Zenon, <1>2 DEF Refused
  <2>2. phase' \in {"stopped", "loading"} => want = {}
    BY <2>1
  <2>3. phase \notin {"gone", "removing"}
    BY <1>2
  <2> QED
    BY Zenon, <2>1, <2>2, <2>3, HeldStays
<1>3. CASE InsertBreak(a) /\ ~Refused
  <2>1. /\ Fitting(a, TRUE) # {} /\ phase \in {"stopped", "inserting"} /\ phase' = "inserting"
        /\ want' = want \cup {AsBreak(a)} /\ UNCHANGED watches
        /\ \E l : UpdateCodeBreakpoint(a, TRUE, l)
    BY Zenon, <1>3 DEF InsertBreak, Asks
  <2>2. PICK l : UpdateCodeBreakpoint(a, TRUE, l)
    BY Zenon, <2>1
  <2>3. upset' = (upset \/ "compare" \in l)
    BY Zenon, <2>2 DEF UpdateCodeBreakpoint
  <2>4. phase # "gone" /\ phase # "removing" /\ phase' # "removing"
        /\ phase' \notin {"stopped", "loading"}
    BY <2>1
  <2>5. Watches' = Watches
    BY <2>1 DEF Watches, AsBreak
  <2>6. ASSUME ~upset' PROVE BreaksHeld' /\ WatchesHeld'
    <3>1. ~upset /\ "compare" \notin l
      BY <2>3, <2>6
    <3>2. BreaksHeld /\ WatchesHeld
      BY Zenon, <2>4, <3>1 DEF Held
    <3>3. BreaksHeld'
      BY Zenon, <1>1, <2>1, <2>2, <2>4, <3>1, <3>2, BreaksInserted
    <3>4. WatchesHeld'
      BY Zenon, <2>1, <2>4, <2>5, <3>2, WatchesStay
    <3> QED
      BY <3>3, <3>4
  <2> QED
    BY Zenon, <2>4, <2>6 DEF Held
<1>4. CASE RemoveBreak(a)
  <2>1. /\ AsBreak(a) \in want /\ phase = "removing" /\ UNCHANGED watches
        /\ want' = want \ {AsBreak(a)}
        /\ phase' = IF want' = {} THEN "stopped" ELSE phase
        /\ \E l : UpdateCodeBreakpoint(a, FALSE, l)
    <3>1. phase = "removing"
      BY <1>4 DEF RemoveBreak, Asks
    <3> QED
      BY Zenon, <1>4, <3>1 DEF RemoveBreak, NowWants
  <2>2. PICK l : UpdateCodeBreakpoint(a, FALSE, l)
    BY Zenon, <2>1
  <2>3. upset' = (upset \/ "compare" \in l)
    BY Zenon, <2>2 DEF UpdateCodeBreakpoint
  <2>4. phase # "gone" /\ (phase' = "removing" \/ want' = {})
        /\ (phase' \in {"stopped", "loading"} => want' = {})
    BY <2>1
  <2>5. Watches' = Watches
    BY <2>1 DEF Watches, AsBreak
  <2>6. ASSUME ~upset' PROVE BreaksHeld' /\ WatchesHeld'
    <3>1. ~upset /\ "compare" \notin l
      BY <2>3, <2>6
    <3>2. BreaksHeld /\ WatchesHeld
      BY Zenon, <2>4, <3>1 DEF Held
    <3>3. BreaksHeld'
      BY Zenon, <1>1, <2>1, <2>2, <2>4, <3>1, <3>2, BreaksRemoved
    <3>4. WatchesHeld'
      BY Zenon, <2>1, <2>4, <2>5, <3>2, WatchesStay
    <3> QED
      BY <3>3, <3>4
  <2> QED
    BY Zenon, <2>4, <2>6 DEF Held
<1>5. InsertBreak(a) /\ Refused => phase \in {"stopped", "inserting"}
  BY Zenon DEF InsertBreak, Asks
<1> QED
  BY Zenon, <1>2, <1>3, <1>4, <1>5

(* A watchpoint is inserted, refused or removed.                           *)
LEMMA HeldWatches ==
  ASSUME MemoryTyped, PointsTyped, Held, Next, NEW w \in [fun : {"write", "read"}, addr : {1, 2}],
         InsertWatch(w) \/ RemoveWatch(w)
  PROVE  Held'
<1>1. chip' = chip /\ w.fun # "break"
  BY FixedStay
<1>2. \A a : AsBreak(a) # w
  BY <1>1 DEF AsBreak
<1>3. CASE Refused /\ phase \in {"stopped", "inserting"}
  <2>1. UNCHANGED <<breaks, watches, want>>
        /\ phase' = (IF want = {} THEN "stopped" ELSE "removing")
    BY Zenon, <1>3 DEF Refused
  <2>2. phase' \in {"stopped", "loading"} => want = {}
    BY <2>1
  <2>3. phase \notin {"gone", "removing"}
    BY <1>3
  <2> QED
    BY Zenon, <2>1, <2>2, <2>3, HeldStays
<1>4. ASSUME NEW i, NEW v, NEW off, NEW l, SetWatch(i, v, off, l), ~upset', ~upset => BreaksHeld,
             \A a : AsBreak(a) \in want' <=> AsBreak(a) \in want,
             \/ phase # "removing" \/ phase' = "removing" \/ want' = {}
      PROVE  ~upset /\ "watch" \notin l /\ BreaksHeld'
  <2>1. /\ upset' = (upset \/ "watch" \in l)
        /\ UNCHANGED <<code_break_num, code_break_rev, code_breaks, fpb, ever>>
    BY Zenon, <1>4 DEF SetWatch
  <2>2. ~upset /\ "watch" \notin l
    BY <1>4, <2>1
  <2>3. BreaksHeld'
    BY Zenon, <1>1, <1>4, <2>1, <2>2, BreaksStay
  <2> QED
    BY <2>2, <2>3
<1>5. CASE InsertWatch(w) /\ ~Refused
  <2>1. /\ FreeWatches # {} /\ phase \in {"stopped", "inserting"} /\ phase' = "inserting"
        /\ w \notin want /\ want' = want \cup {w}
        /\ \E l : SetWatch(Min(FreeWatches), w, FALSE, l)
    BY Zenon, <1>5 DEF InsertWatch, Asks
  <2>2. PICK l : SetWatch(Min(FreeWatches), w, FALSE, l)
    BY Zenon, <2>1
  <2>3. phase # "gone" /\ phase # "removing" /\ phase' \notin {"stopped", "loading"}
    BY <2>1
  <2>4. \A a : AsBreak(a) \in want' <=> AsBreak(a) \in want
    BY <1>2, <2>1
  <2>5. ASSUME ~upset' PROVE BreaksHeld' /\ WatchesHeld'
    <3>1. ~upset => BreaksHeld /\ WatchesHeld
      BY Zenon, <2>3 DEF Held
    <3>2. ~upset /\ "watch" \notin l /\ BreaksHeld'
      BY Zenon, <1>4, <2>2, <2>3, <2>4, <2>5, <3>1
    <3>3. WatchesHeld'
      BY Zenon, <2>1, <2>2, <2>3, <3>1, <3>2, WatchesInserted
    <3> QED
      BY <3>2, <3>3
  <2> QED
    BY Zenon, <2>3, <2>5 DEF Held
<1>6. CASE RemoveWatch(w)
  <2>1. /\ w \in want /\ phase = "removing" /\ want' = want \ {w}
        /\ phase' = IF want' = {} THEN "stopped" ELSE phase
        /\ \E l : SetWatch(Min(WatchesAt(w.addr)),
                     [data_watches[Min(WatchesAt(w.addr))] EXCEPT !.fun = "disabled"], TRUE, l)
    <3>1. phase = "removing"
      BY <1>6 DEF RemoveWatch, Asks
    <3> QED
      BY Zenon, <1>6, <3>1 DEF RemoveWatch, NowWants
  <2>2. PICK l : SetWatch(Min(WatchesAt(w.addr)),
                   [data_watches[Min(WatchesAt(w.addr))] EXCEPT !.fun = "disabled"], TRUE, l)
    BY Zenon, <2>1
  <2>3. phase # "gone" /\ (phase' = "removing" \/ want' = {})
        /\ (phase' \in {"stopped", "loading"} => want' = {})
    BY <2>1
  <2>4. \A a : AsBreak(a) \in want' <=> AsBreak(a) \in want
    BY <1>2, <2>1
  <2>5. ASSUME ~upset' PROVE BreaksHeld' /\ WatchesHeld'
    <3>1. ~upset => BreaksHeld /\ WatchesHeld
      BY Zenon, <2>3 DEF Held
    <3>2. ~upset /\ "watch" \notin l /\ BreaksHeld'
      BY Zenon, <1>4, <2>2, <2>3, <2>4, <2>5, <3>1
    <3>3. WatchesHeld'
      BY Zenon, <2>1, <2>2, <2>3, <3>1, <3>2, WatchesRemoved
    <3> QED
      BY <3>2, <3>3
  <2> QED
    BY Zenon, <2>3, <2>5 DEF Held
<1>7. InsertWatch(w) /\ Refused => phase \in {"stopped", "inserting"}
  BY Zenon DEF InsertWatch, Asks
<1> QED
  BY Zenon, <1>3, <1>5, <1>6, <1>7

(* Whatever is done, the two units hold what GDB inserted.                 *)
LEMMA HeldStep ==
  ASSUME MemoryTyped, PointsTyped, Held, Next
  PROVE  Held'
<1>1. chip' = chip /\ (phase \in {"stopped", "loading"} => want = {})
  BY Zenon, FixedStay DEF Held
<1>2. ASSUME phase' = "gone" PROVE Held'
  BY <1>2 DEF Held
<1>3. ASSUME NEW l, InitPoints(l), want' = {} PROVE Held'
  BY Zenon, <1>1, <1>3, HeldAnew DEF Held
<1>4. CASE Accept
  <2>1. \E l : InitPoints(l) /\ want' = {}
    BY Zenon, <1>4 DEF Accept
  <2> QED
    BY Zenon, <1>3, <2>1
<1>5. CASE HangUp \/ Closed \/ Signal
  BY Zenon, <1>2, <1>5 DEF HangUp, Closed, Ends, Signal
<1>6. CASE \E a \in Breaks : InsertBreak(a) \/ RemoveBreak(a)
  <2>1. \A a \in Breaks : a \in Spots
    BY CodeIsPlaces
  <2> QED
    BY Zenon, <1>6, <2>1, HeldBreaks
<1>7. CASE \E w \in Watched : InsertWatch(w) \/ RemoveWatch(w)
  <2>1. \A w \in Watched : w \in [fun : {"write", "read"}, addr : {1, 2}]
    BY DEF Watched
  <2> QED
    BY Zenon, <1>7, <2>1, HeldWatches
<1>8. CASE Restart \/ Kill
  <2>1. phase = "stopped" /\ want' = want
    BY <1>8 DEF Restart, Kill, Asks
  <2>2. want' = {}
    BY <1>1, <2>1
  <2>3. (\E l : InitPoints(l)) \/ phase' = "gone"
    BY Zenon, <1>8 DEF Restart, Kill
  <2> QED
    BY Zenon, <1>2, <1>3, <2>2, <2>3
<1>9. CASE \/ WriteMemory \/ CoreRuns \/ Interrupt \/ TakesInput \/ JtagReset \/ MonitorHalt
           \/ MonitorResume \/ MonitorSemihosting \/ Extended \/ FlashWrite
  <2>1. UNCHANGED <<breaks, watches, want>> /\ phase' = phase
    BY Zenon, <1>9 DEF WriteMemory, CoreRuns, Interrupt, TakesInput, JtagReset, MonitorHalt,
       MonitorResume, MonitorSemihosting, Extended, FlashWrite, Loaded
  <2> QED
    BY Zenon, <2>1, HeldStays
<1>10. CASE Continue \/ FlashErase \/ FlashDone
  <2>1. UNCHANGED <<breaks, watches, want>>
    BY Zenon, <1>10 DEF Continue, FlashErase, FlashDone, Loaded
  <2>2. /\ phase \in {"stopped", "inserting", "loading"}
        /\ \/ phase' = "waiting"
           \/ phase \in {"stopped", "loading"}
    BY <1>10 DEF Continue, FlashErase, FlashDone, Asks
  <2>3. phase \notin {"gone", "removing"} /\ (phase' \in {"stopped", "loading"} => want = {})
    BY <1>1, <2>2
  <2> QED
    BY Zenon, <2>1, <2>3, HeldStays
<1>11. CASE Turn \/ Step
  <2>1. /\ UNCHANGED <<breaks, watches, want>>
        /\ phase \in {"stopped", "inserting", "waiting"}
    <3>1. UNCHANGED <<breaks, watches, want>>
      BY Zenon, <1>11 DEF Turn, Step
    <3>2. phase \in {"stopped", "inserting", "waiting"}
      BY <1>11 DEF Turn, Step, Asks
    <3> QED
      BY <3>1, <3>2
  <2>2. \/ phase' = phase \/ phase' = "gone"
        \/ phase' = (IF want = {} THEN "stopped" ELSE "removing")
    BY Zenon, <1>11 DEF Turn, Interrupted, LooksAgain, TellsGdb, ServesCall, AwaitsInput, StopReply,
       StillWaits, Step, Ends
  <2>3. \/ phase' = phase \/ phase' = "gone"
        \/ /\ phase \notin {"gone", "removing"}
           /\ phase' \in {"stopped", "loading"} => want = {}
    BY <2>1, <2>2
  <2> QED
    BY Zenon, <1>2, <2>1, <2>3, HeldStays
<1> QED
  BY Zenon, <1>4, <1>5, <1>6, <1>7, <1>8, <1>9, <1>10, <1>11 DEF Next

-----------------------------------------------------------------------------
(***************************************************************************)
(* The properties.                                                         *)
(***************************************************************************)
(* Nothing is inserted, owed or stale before GDB comes.                    *)
LEMMA InvInit == Init => Inv
<1> SUFFICES ASSUME Init PROVE Inv
  OBVIOUS
<1>1. MemoryTyped /\ CallsTyped
  <2>1. /\ chip \in [rev : {1, 2}, caches : BOOLEAN]
        /\ cache = [used |-> FALSE, modified |-> FALSE] /\ stale = ""
        /\ core = [halted |-> FALSE, at |-> 4] /\ served = 0 /\ saved_errno = 0 /\ due = 0 /\ reg = 0
    BY Zenon DEF Init
  <2>2. MemoryTyped
    BY <2>1 DEF MemoryTyped
  <2>3. core \in [halted : BOOLEAN, at : Places] /\ served \in {0, 1} /\ reg \in Places \cup {0}
    BY <2>1 DEF Places
  <2>4. saved_errno \in Int /\ due \in Int
    <3>1. saved_errno = 0 /\ due = 0
      BY Zenon, <2>1
    <3> QED
      BY SMT, <3>1
  <2> QED
    BY Zenon, <2>2, <2>3, <2>4 DEF CallsTyped
<1>2. PointsTyped /\ Addressed
  <2>1. /\ code_break_num = 0 /\ code_break_rev = 0 /\ code_breaks = [i \in Slots |-> NoBreak]
        /\ data_watches = [i \in 1 .. DataWatches |-> NoWatch]
        /\ fpb = [i \in 1 .. Comparators |-> NoBreak]
        /\ dwt = [i \in 1 .. DataWatches |-> NoWatch] /\ want = {} /\ ever = {}
    BY Zenon DEF Init
  <2>2. NoBreak \in Comparator /\ NoWatch \in Watch /\ NoBreak.addr = 0
    BY DEF NoBreak, NoWatch, Comparator, Watch
  <2>3. BreaksTyped
    BY <2>1, <2>2, BoundsAreNat DEF BreaksTyped
  <2>4. WatchesTyped
    BY <2>1, <2>2 DEF WatchesTyped
  <2>5. Addressed
    BY <2>1, <2>2 DEF Addressed
  <2> QED
    BY <2>1, <2>3, <2>4, <2>5 DEF PointsTyped
<1>3. Fresh
  <2>1. ranStale = {} /\ pc = "accept" /\ stale = ""
    BY Zenon DEF Init
  <2>2. pc \notin {"receive", "running", "input"} /\ stale # "gdb" /\ ranStale \subseteq Unsynced
    BY <2>1
  <2> QED
    BY Zenon, <2>1, <2>2 DEF Fresh
<1>4. Serving /\ CallServedOnce
  <2>1. served = 0 /\ pc = "accept" /\ due = 0 /\ wrong = {}
    BY Zenon DEF Init
  <2>2. ~(served > 0) /\ pc # "input"
    BY <2>1
  <2>3. Serving
    BY Zenon, <2>1, <2>2 DEF Serving
  <2> QED
    BY <2>1, <2>3 DEF CallServedOnce
<1>5. Held
  BY DEF Init, Held
<1> QED
  BY <1>1, <1>2, <1>3, <1>4, <1>5 DEF Inv

(* Every step keeps the four parts of the invariant.                       *)
LEMMA InvStep == Inv /\ [Next]_vars => Inv'
<1> SUFFICES ASSUME Inv, [Next]_vars PROVE Inv'
  OBVIOUS
<1>1. MemoryTyped /\ PointsTyped /\ Fresh /\ Addressed /\ Held /\ CallsRight
  BY Zenon DEF Inv, CallsRight
<1>2. CASE Next
  BY Zenon, <1>1, <1>2, FreshStep, PointsStep, CallsStep, HeldStep DEF Inv, CallsRight
<1>3. CASE UNCHANGED vars
  <2>1. UNCHANGED <<breaks, watches, memory, calls, fixed, failures>>
    BY Zenon, <1>3 DEF vars
  <2>2. UNCHANGED <<pc, core, phase, want>>
    BY Zenon, <1>3 DEF vars
  <2>3. MemoryTyped' /\ Fresh'
    BY Zenon, <1>1, <2>1, <2>2 DEF memory, fixed, failures, MemoryTyped, Fresh
  <2>4. CallsTyped' /\ Serving' /\ CallServedOnce'
    BY Zenon, <1>1, <2>1, <2>2 DEF calls, failures, CallsRight, CallsTyped, Serving, CallServedOnce
  <2>5. PointsTyped' /\ Addressed'
    BY Zenon, <1>1, <2>1, <2>2 DEF breaks, watches, PointsTyped, BreaksTyped, WatchesTyped, Addressed,
       Slots
  <2>6. Watches' = Watches /\ \A a : AsBreak(a) \in want' <=> AsBreak(a) \in want
    BY Zenon, <2>2 DEF Watches, AsBreak
  <2>7. phase # "removing" \/ phase' = "removing"
    BY Zenon, <2>2
  <2>8. BreaksHeld => BreaksHeld'
    BY Zenon, <2>1, <2>6, <2>7, BreaksStay DEF fixed, breaks
  <2>9. WatchesHeld => WatchesHeld'
    BY Zenon, <2>1, <2>6, <2>7, WatchesStay
  <2>10. Held'
    BY Zenon, <1>1, <2>1, <2>2, <2>8, <2>9 DEF Held, breaks
  <2> QED
    BY Zenon, <2>3, <2>4, <2>5, <2>10 DEF Inv
<1> QED
  BY <1>2, <1>3

(* The invariant holds of every session, for any number of comparators,    *)
(* watchpoints, failures and sessions.                                     *)
THEOREM InvHolds == Spec => []Inv
  BY InvInit, InvStep, PTL DEF Spec

(* The core stops at, and is watched for, what GDB inserted: so the slots  *)
(* say.                                                                    *)
LEMMA HeldMeans == Inv => BreakpointsAreGdbs
<1> SUFFICES ASSUME Inv, phase # "gone", ~upset
             PROVE  /\ Armed = {w.addr : w \in Inserted("break")}
                    /\ phase \in {"waiting", "stopped"} => Watching = want \ Inserted("break")
  BY Zenon DEF BreakpointsAreGdbs
<1>1. MemoryTyped /\ PointsTyped /\ BreaksHeld /\ WatchesHeld
  BY Zenon DEF Inv, Held
<1>2. /\ code_break_rev = chip.rev /\ code_break_rev \in {1, 2}
      /\ \A i \in 1 .. Comparators :
           fpb[i] = IF code_breaks[i].type = {} THEN NoBreak ELSE code_breaks[i]
      /\ \A a \in Spots : AsBreak(a) \in want <=> \E i \in 1 .. Comparators : HoldsBreak(i, a)
      /\ \A i \in 1 .. Comparators : \A t \in code_breaks[i].type :
           \E a \in Spots : code_breaks[i].addr = FpbAddr(a) /\ BreakType(a) = t
  <2>1. chip.rev \in {1, 2}
    BY <1>1 DEF MemoryTyped
  <2>2. code_break_rev = chip.rev
    BY Zenon, <1>1 DEF BreaksHeld
  <2> QED
    BY Zenon, <1>1, <2>1, <2>2 DEF BreaksHeld
<1>3. /\ \A a \in Spots : (IF BreakType(a) = "high" THEN FpbAddr(a) + 2 ELSE FpbAddr(a)) = a
      /\ \A a \in Spots : BreakType(a) \in Known
  BY <1>2, SpotsDiffer DEF Known
<1>4. \A w \in want : w.fun = "break" => \E a \in Spots : w = AsBreak(a)
  BY <1>1 DEF PointsTyped, Wanted
<1>5. \A a : AsBreak(a).fun = "break" /\ AsBreak(a).addr = a
  BY DEF AsBreak
<1>6. \A a : a \in {w.addr : w \in Inserted("break")} <=> a \in Spots /\ AsBreak(a) \in want
  BY <1>4, <1>5 DEF Inserted
<1>7. ASSUME NEW a \in Spots, AsBreak(a) \in want PROVE a \in Armed
  <2>1. PICK i \in 1 .. Comparators : HoldsBreak(i, a)
    BY Zenon, <1>2, <1>7
  <2>2. code_breaks[i].addr = FpbAddr(a) /\ BreakType(a) \in code_breaks[i].type
    BY Zenon, <2>1 DEF HoldsBreak
  <2>3. fpb[i] = code_breaks[i]
    BY <1>2, <2>2
  <2>4. BreakType(a) \in fpb[i].type \cap Known
    BY <1>3, <2>2, <2>3
  <2>5. a = IF BreakType(a) = "high" THEN fpb[i].addr + 2 ELSE fpb[i].addr
    BY Zenon, <1>3, <2>2, <2>3
  <2>6. a \in Stops(fpb[i])
    BY <2>4, <2>5 DEF Stops
  <2> QED
    BY <2>6 DEF Armed
<1>8. ASSUME NEW a \in Armed PROVE a \in Spots /\ AsBreak(a) \in want
  <2>1. PICK i \in 1 .. Comparators : a \in Stops(fpb[i])
    BY DEF Armed
  <2>2. PICK t \in fpb[i].type \cap Known :
          a = IF t = "high" THEN fpb[i].addr + 2 ELSE fpb[i].addr
    BY Zenon, <2>1 DEF Stops
  <2>3. fpb[i] = code_breaks[i]
    BY <1>2, <2>2 DEF NoBreak
  <2>4. PICK b \in Spots : code_breaks[i].addr = FpbAddr(b) /\ BreakType(b) = t
    BY <1>2, <2>2, <2>3
  <2>5. a = b
    BY Zenon, <1>3, <2>2, <2>3, <2>4
  <2>6. HoldsBreak(i, b)
    BY <2>2, <2>3, <2>4 DEF HoldsBreak
  <2> QED
    BY Zenon, <1>2, <2>5, <2>6
<1>9. Armed = {w.addr : w \in Inserted("break")}
  BY <1>6, <1>7, <1>8
<1>10. ASSUME phase \in {"waiting", "stopped"} PROVE Watching = want \ Inserted("break")
  <2>1. PICK f \in [Watches -> UsedWatches] : Slotted(f)
    BY Zenon, <1>1 DEF WatchesHeld
  <2>2. phase # "removing"
    BY <1>10
  <2>3. /\ \A i \in UsedWatches : \E w \in Watches : f[w] = i
        /\ \A w \in Watches : f[w] \in UsedWatches /\ data_watches[f[w]] = w
    BY Zenon, <2>1, <2>2 DEF Slotted
  <2>4. \A i \in 1 .. DataWatches :
          dwt[i] = IF i \in UsedWatches THEN data_watches[i] ELSE NoWatch
    BY <1>1 DEF WatchesHeld, UsedWatches, FreeWatches
  <2>5. \A i \in UsedWatches : i \in 1 .. DataWatches /\ data_watches[i].fun # "disabled"
    BY DEF UsedWatches, FreeWatches
  <2>6. Watching = Watches
    <3>1. \A i \in UsedWatches : data_watches[i] # NoWatch
      BY <2>5 DEF NoWatch
    <3>2. Watching = {dwt[i] : i \in 1 .. DataWatches} \ {NoWatch}
      BY DEF Watching, NoWatch
    <3>3. ASSUME NEW w \in Watches PROVE w \in Watching
      <4>1. f[w] \in 1 .. DataWatches /\ dwt[f[w]] = w /\ w # NoWatch
        BY Zenon, <2>3, <2>4, <2>5, <3>1
      <4> QED
        BY <3>2, <4>1
    <3>4. ASSUME NEW w \in Watching PROVE w \in Watches
      <4>1. PICK i \in 1 .. DataWatches : w = dwt[i]
        BY <3>2
      <4>2. w # NoWatch
        BY <3>2
      <4>3. i \in UsedWatches /\ w = data_watches[i]
        BY Zenon, <2>4, <4>1, <4>2
      <4> QED
        BY Zenon, <2>3, <4>3
    <3> QED
      BY <3>3, <3>4
  <2> QED
    BY <2>6 DEF Watches, Inserted
<1> QED
  BY <1>9, <1>10

(* However many comparators there are, and however GDB inserts and removes,*)
(* the core stops where GDB has a breakpoint and nowhere else, and is      *)
(* watched for what GDB watches (gdb-server.c:412-592).                    *)
THEOREM BreakpointsAreInserted == Spec => []BreakpointsAreGdbs
  BY InvHolds, HeldMeans, PTL

(* Whichever accesses fail, a call is performed once, answered for what was*)
(* done, and kept from GDB (gdb-server.c:1230-1305).                       *)
THEOREM CallsAreServedOnce == Spec => []CallServedOnce
<1>1. Inv => CallServedOnce
  BY Zenon DEF Inv
<1> QED
  BY <1>1, InvHolds, PTL

(* Whatever comes between, the core sees the code GDB wrote whenever it is *)
(* let go for GDB, so that every handler that does so flushes the caches   *)
(* first; k, the end of a session and cleanup do not (gdb-server.c:819-865 *)
(* and the places that call stlink_run and stlink_step).                   *)
THEOREM CodeIsFresh == Spec => []RunsFreshCode
<1>1. Inv => RunsFreshCode
  BY Zenon DEF Inv, Fresh, RunsFreshCode
<1> QED
  BY <1>1, InvHolds, PTL
=============================================================================
