----------------------------- MODULE FlashTool -----------------------------
(***************************************************************************)
(* st-flash: command after command against one chip, whose flash           *)
(* controller (FlashController), memory and option bytes are what the      *)
(* command before left behind.                                             *)
(*                                                                         *)
(* A function of the library is the sequence of the calls it makes.  A     *)
(* call whose result is thrown away is Call(f); one whose failure makes    *)
(* the callers return is Try(f, l), where l is the next call on the way    *)
(* out that is made all the same: "finalize" in stlink_fwrite_flash,       *)
(* "relock" in the option writers, "result" where main looks at the        *)
(* result, "leave" at main's on_error.  The calls a function makes replace *)
(* it in todo, and every call is one step: signals, unplugging and the end *)
(* of an erase come between any two.                                       *)
(***************************************************************************)
EXTENDS FlashController, SequencesExt

CONSTANTS
  Types,      \* the families of chip that are plugged in
  Connects,   \* how st-flash may be told to connect
  Garbage,    \* what a variable no read filled may hold, as register bits
  MaxEvents   \* bound: commands, and calls whose exchanges fail, together

ASSUME TypesAreFamilies == Types \subseteq Families
ASSUME ConnectsAreKinds == Connects \subseteq {"normal", "under_reset", "hot-plug"}
ASSUME GarbageIsBits == Garbage \subseteq SUBSET Bits
ASSUME BoundIsNat == MaxEvents \in Nat \ {0}

VARIABLES
  chip,       \* the chip, fixed
  target,     \* its controller, memory and core
  cmd,        \* the command line
  todo,       \* the calls still to be made
  ret,        \* what the function under way is about to return: 0 or -1
  err,        \* main's err
  backup,     \* fl->rcc_dma_bkp
  runs,       \* commands so far
  faults,     \* calls that lost exchanges so far
  lost,       \* history: which calls of this command lost exchanges
  failed,     \* history: a call of this command failed and was told so
  killed,     \* history: "signal" or "unplugged", or "" if neither
  tidy,       \* history: the controller was in order when it began
  licence     \* history: the pages it may change

call == <<todo, ret, err, backup>>
history == <<failed, killed, tidy, licence>>
vars == <<chip, target, cmd, call, runs, faults, lost, history>>

-----------------------------------------------------------------------------
(***************************************************************************)
(* Command lines.                                                          *)
(***************************************************************************)
\* Whole sectors of different sizes, or pages in both banks; half of a page;
\* a start inside a page; a range that goes past the end of the flash.
Across(c) == CASE c.type = "F2_F4" /\ c.dual -> <<56, 9>>
               [] Twice(c) -> <<6, 10>>
               [] IsUneven(c) /\ ~c.dual /\ ~Twice(c) -> <<3, 5>>
               [] OTHER -> <<2, 4>>
Ranges(c) == {Across(c), <<0, 1>>, <<1, 2>>, <<FlashSize(c) - 1, 2>>}

Line(do, mass, odd, range) ==
    [do |-> do, mass |-> mass, odd |-> odd, addr |-> range[1], len |-> range[2]]

Lines(c) ==
    {Line("write", FALSE, FALSE, r) : r \in Ranges(c)}
      \cup {Line("write", TRUE, FALSE, Across(c)), Line("write", TRUE, TRUE, <<1, 2>>)}
      \cup {Line("erase", FALSE, FALSE, r) : r \in Ranges(c)}
      \cup {Line("erase", TRUE, FALSE, <<0, 0>>)}
      \cup {Line(do, FALSE, FALSE, <<0, 0>>) :
              do \in {"reset", "option_file", "option_bytes", "optcr", "optcr1"}}

\* The flash as stlink_calculate_pagesize sees it: an F7 in one bank.
CodeView(c) == [c EXCEPT !.dual = c.dual /\ c.type # "F7"]

\* stlink_check_address_range_validity, stlink_check_address_alignment
InFlash(at, end) == at < FlashSize(chip) /\ end <= FlashSize(chip)
Aligned(u) == \E p \in Pages(CodeView(chip)) : FirstUnit(CodeView(chip), p) = u

\* stlink_write_flash looks at the alignment only when the length is even.
Padded(k) == k.odd /\ chip.type # "C5"

\* What an option command is implemented for: stlink_write_option_bytes,
\* stlink_write_option_control_register32, ..register1_32, ..boot_add32.
\* The four bytes of a value are fewer than F0 and F1 take.
Implements(do) ==
    CASE do = "option_file" -> HasOptionLock(chip)
      [] do = "option_bytes" -> HasOptionLock(chip) /\ chip.type \notin {"F0_F1_F3", "F1_XL"}
      [] do = "optcr" -> chip.type \in {"C0", "F0_F1_F3", "F1_XL", "F7", "WB_WL"}
      [] do = "optcr1" -> chip.type = "F7"
      [] OTHER -> TRUE

Covered(k, p) == /\ FirstUnit(chip, p) < k.addr + k.len
                 /\ k.addr < FirstUnit(chip, p) + Extent(chip, p)
Asked(k) == IF k.do \notin {"write", "erase"} THEN {}
            ELSE {p \in Pages(chip) : k.mass \/ Covered(k, p)}

-----------------------------------------------------------------------------
(***************************************************************************)
(* The functions, as the calls they make.                                  *)
(***************************************************************************)
Call(f) == [op |-> f, at |-> 0, end |-> 0, to |-> ""]
CallOn(f, at) == [Call(f) EXCEPT !.at = at]
Try(f, l) == [Call(f) EXCEPT !.to = l]
TryOn(f, at, l) == [Try(f, l) EXCEPT !.at = at]
Over(f, at, end, l) == [TryOn(f, at, l) EXCEPT !.end = end]

BothBanks(f) == IF TwoRegisters(chip) THEN <<CallOn(f, 1), CallOn(f, 2)>> ELSE <<CallOn(f, 1)>>

(***************************************************************************)
(* stlink_erase_flash_page of the page at u, for a caller that goes to l   *)
(* when it fails.  The result of unlock_flash_if is thrown away.           *)
(***************************************************************************)
EraseBody(u, l) ==
    LET b == IF TwoRegisters(chip) /\ UpperHalf(chip, u) THEN 2 ELSE 1
    IN  CASE chip.type \in {"F2_F4", "F7", "L4"} ->
               <<Call("unlock"), CallOn("select", u), CallOn("start", 1), Call("wait"), Call("lock")>>
          [] chip.type = "L0_L1" ->
               <<Try("unlock_PECR", l), CallOn("erase_word", u), Call("wait"), Call("lock_PECR")>>
          [] chip.type \in {"G0", "G4", "L5_U5", "WB_WL", "C5", "C0"} ->
               <<Call("unlock"), CallOn("set_PER", 1), CallOn("select", u), CallOn("start", 1),
                 Call("wait"), CallOn("clear_PER", 1), Call("lock")>>
          [] chip.type = "H5" ->
               <<Call("unlock"), Call("clear_errors"), CallOn("select", u), CallOn("start", 1),
                 Call("wait"), CallOn("clear_PER", 1), Call("lock")>>
          [] chip.type = "WB0" -> <<CallOn("command_erase", u), Call("wait")>>
          [] chip.type \in {"F0_F1_F3", "F1_XL"} ->
               <<Call("unlock"), CallOn("clear_PG", b), CallOn("set_PER", b), CallOn("select", u),
                 CallOn("start", b), Call("wait"), CallOn("clear_PER", b), Call("lock")>>
          [] chip.type = "H7" ->
               <<Call("unlock"), CallOn("select", u), CallOn("start", b), Call("wait"), Call("lock")>>

EraseFlashPage(u, l) ==
    <<Call("wait"), Call("clear_errors")>> \o EraseBody(u, l) \o <<Try("check_errors", l)>>

(***************************************************************************)
(* stlink_erase_flash_mass: page by page; by a command, whose refusal ends *)
(* the wait and is not looked at; or by the mass erase bits, which are     *)
(* reset only after the lock.                                              *)
(***************************************************************************)
EraseFlashMass(l) ==
    CASE chip.type \in {"L0_L1", "WB_WL"} \/ (chip.type = "WB0" /\ ~chip.listed) ->
           <<Over("erase_section", 0, FlashSize(chip), l)>>
      [] chip.type = "WB0" /\ chip.listed -> <<Call("command_mass_erase"), Call("wait")>>
      [] OTHER ->
           <<Call("wait"), Call("clear_errors"), Call("unlock")>>
             \o (IF TwoRegisters(chip)
                 THEN <<CallOn("set_MER", 1), CallOn("start", 1),
                        CallOn("set_MER", 2), CallOn("start", 2)>>
                 ELSE <<CallOn("set_MER", 1), CallOn("start", 1)>>)
             \o <<Call("wait"), Call("lock")>> \o BothBanks("clear_MER")
             \o <<Try("check_errors", l)>>

(***************************************************************************)
(* stlink_flashloader_start                                                *)
(***************************************************************************)
FlashloaderStart(l) ==
    <<Call("DMA_off"), Call("wait"), Call("clear_errors")>>
      \o CASE chip.type \in {"F2_F4", "F7", "L4"} ->
                <<Try("init_loader", l), Call("unlock"), Try("read_register", l), CallOn("set_PG", 1)>>
           [] chip.type = "H5" -> <<Try("init_loader", l), Call("unlock"), CallOn("set_PG", 1)>>
           [] chip.type \in {"WB_WL", "G0", "G4", "L5_U5", "C5", "C0"} ->
                <<Call("unlock"), CallOn("set_PG", 1)>>
           [] chip.type = "L0_L1" -> <<Try("unlock_PECR", l), Call("init_loader")>>
           [] chip.type = "WB0" -> <<Try("init_loader", l)>>
           [] chip.type \in {"F0_F1_F3", "F1_XL"} ->
                <<Try("init_loader", l), Call("unlock")>> \o BothBanks("set_PG")
           [] chip.type = "H7" -> <<Call("unlock")>> \o BothBanks("set_PG")

(* Faulty: DMA stays off. *)
StopForgettingDma ==
    (IF chip.type = "L0_L1" THEN <<Call("lock_PECR")>>
     ELSE BothBanks("clear_PG") \o <<Call("lock")>>) \o <<Call("unmask")>>

(***************************************************************************)
(* stlink_flashloader_stop                                                 *)
(***************************************************************************)
FlashloaderStop ==
    (CASE chip.type = "L0_L1" -> <<Call("lock_PECR")>>
       [] chip.type = "WB0" -> <<>>
       [] OTHER -> BothBanks("clear_PG") \o <<Call("lock")>>)
      \o <<Call("unmask"), Call("DMA_back")>>

(* Faulty: what was written is not read back. *)
WriteUnverified(k, l) ==
    <<Over("check_range", k.addr, k.addr + k.len, l)>>
      \o (IF k.mass THEN <<>> ELSE <<Over("erase_section", k.addr, k.addr + k.len, l)>>)
      \o FlashloaderStart(l) \o <<Over("write", k.addr, k.addr + k.len, l)>> \o FlashloaderStop

(***************************************************************************)
(* stlink_write_flash: nothing stops the loader when writing failed.       *)
(***************************************************************************)
WriteFlash(k, l) ==
    LET end == k.addr + k.len
    IN  <<Over("check_range", k.addr, end, l)>>
          \o (IF k.mass THEN <<>> ELSE <<Over("erase_section", k.addr, end, l)>>)
          \o FlashloaderStart(l)
          \o <<Over("write", k.addr, end, l), Try("check_errors", l)>>
          \o FlashloaderStop
          \o <<Over("verify", k.addr, end, l)>>

(***************************************************************************)
(* The writers of option bytes and option registers, for a caller that     *)
(* goes to "relock" when one fails.  Most hand the controller a value and  *)
(* tell it to begin; F0 and F1 erase the option bytes and program them     *)
(* with the flash loader.  The reload of the options that some ask for at  *)
(* the end closes locks that the caller closes next.                       *)
(***************************************************************************)
Checked == <<Call("wait"), Try("check_errors", "relock")>>
BeginAndCheck == <<Call("clear_errors"), Call("begin_options")>> \o Checked
WordsThenBegin ==
    <<Call("clear_errors"), Call("wait"), Call("check_errors"), Call("begin_options")>> \o Checked

OptionBytesF0 ==
    <<Call("clear_errors"), Try("erase_options", "relock")>> \o Checked
      \o <<Try("init_loader", "relock"), Try("program_options", "relock"),
           Try("check_errors", "relock")>>
OptionRegisterF0 ==
    <<Call("clear_errors"), Try("read_register", "relock"), Try("read_register", "relock")>>
      \o OptionBytesF0 \o <<Try("check_errors", "relock")>>
OptionRegisterC0 ==
    <<Call("clear_errors"), Call("wait"), Try("begin_options", "relock")>> \o Checked
OptionBytesF4 == BeginAndCheck
OptionBytesF7 == BeginAndCheck
OptionRegisterF7 == BeginAndCheck
OptionRegister1F7 == BeginAndCheck
OptionBytesGx == BeginAndCheck
OptionBytesH7 == <<Call("wait"), Try("change_options", "relock")>>
OptionBytesL0 == BeginAndCheck
OptionBytesL4 == BeginAndCheck
OptionBytesWb == WordsThenBegin
OptionBytesL5 == WordsThenBegin
OptionRegisterWb == BeginAndCheck

\* The switches of stlink_write_option_bytes and of the register writers.
ProgramOptions(do) ==
    IF ~Implements(do) THEN <<Try("unsupported", "relock")>>
    ELSE CASE chip.type = "C0" -> OptionRegisterC0
           [] chip.type \in {"F0_F1_F3", "F1_XL"} ->
                IF do = "optcr" THEN OptionRegisterF0 ELSE OptionBytesF0
           [] chip.type = "F2_F4" -> OptionBytesF4
           [] chip.type = "F7" -> CASE do = "optcr" -> OptionRegisterF7
                                    [] do = "optcr1" -> OptionRegister1F7
                                    [] OTHER -> OptionBytesF7
           [] chip.type = "L0_L1" -> OptionBytesL0
           [] chip.type = "L4" -> OptionBytesL4
           [] chip.type \in {"G0", "G4"} -> OptionBytesGx
           [] chip.type = "H7" -> OptionBytesH7
           [] chip.type = "WB_WL" -> IF do = "optcr" THEN OptionRegisterWb ELSE OptionBytesWb
           [] chip.type = "L5_U5" -> OptionBytesL5

(***************************************************************************)
(* stlink_write_option_bytes and the three writers of option registers:    *)
(* the ways out before the writer leave the locks as they are.             *)
(***************************************************************************)
WriteOptions(do, l) ==
    <<Call("wait"), Try("unlock", l), Try("unlock_options", l)>>
      \o ProgramOptions(do) \o <<Call("relock"), Call("lock")>>

(***************************************************************************)
(* The branches of main.                                                   *)
(***************************************************************************)
Command(k) ==
    CASE k.do = "write" ->
           (IF k.mass THEN EraseFlashMass("result") \o <<Try("result", "leave")>> ELSE <<>>)
             \o WriteFlash(k, "finalize") \o <<Call("finalize"), Try("result", "leave")>>
      [] k.do = "erase" ->
           (IF k.mass THEN EraseFlashMass("result")
            ELSE <<Over("erase_section", k.addr, k.addr + k.len, "result")>>)
             \o <<Try("result", "leave"), Try("reset", "leave")>>
      [] k.do = "reset" -> <<Try("reset", "leave"), Call("run")>>
      [] k.do = "option_file" ->
           WriteOptions(k.do, "finalize") \o <<Call("finalize"), Try("result", "leave")>>
      [] k.do = "option_bytes" -> WriteOptions(k.do, "result") \o <<Try("result", "leave")>>
      [] k.do \in {"optcr", "optcr1"} -> WriteOptions(k.do, "result") \o <<Call("result")>>

\* main, with the reset that --reset asks for.
Main(k, again) ==
    <<Try("force_debug", "leave"), Try("status", "leave")>> \o Command(k)
      \o (IF again THEN <<Call("reset")>> ELSE <<>>)
      \o <<Call("run"), Call("succeed"), Call("leave")>>
-----------------------------------------------------------------------------
(***************************************************************************)
(* Making a call.                                                          *)
(***************************************************************************)
Init ==
    /\ chip \in {c \in Chips : c.type \in Types}
    /\ target = Fresh(chip)
    /\ cmd = Line("none", FALSE, FALSE, <<0, 0>>)
    /\ todo = <<>> /\ ret = 0 /\ err = 0 /\ backup = FALSE
    /\ runs = 0 /\ faults = 0 /\ lost = {}
    /\ failed = FALSE /\ killed = "" /\ tidy = TRUE /\ licence = {}

Step == todo[1]
At(op) == todo # <<>> /\ Step.op = op

\* What is left to do when a step fails whose callers go to l.
From(l) == SubSeq(todo, SelectInSeq(todo, LAMBDA s : s.op = l), Len(todo))

\* The exchanges of a call that may fail, for lack of answers or of arrivals.
Unheard == {Unread(g) : g \in Garbage}
Either == {Good, Unwritten} \cup Unheard
Reads == {Good} \cup Unheard
Writes == {Good, Unwritten}

Link(l) ==
    /\ l # Good => runs + faults < MaxEvents
    /\ faults' = IF l = Good THEN faults ELSE faults + 1
    /\ lost' = lost \cup (IF l = Good THEN {} ELSE {Step.op})
                    \cup (IF l.read THEN {} ELSE {"junk"})

\* The call returns; a failure counts only where its result is looked at.
Returns(ok) ==
    LET good == ok \/ Step.to = ""
    IN  /\ todo' = IF good THEN Tail(todo) ELSE From(Step.to)
        /\ ret' = IF good THEN ret ELSE -1
        /\ failed' = (failed \/ ~good)
        /\ UNCHANGED <<chip, cmd, err, runs, killed, tidy, licence>>

Calls(op, links, F(_), Ok(_)) ==
    /\ At(op)
    /\ \E l \in links : Link(l) /\ target' = F(l) /\ Returns(Ok(l))
    /\ UNCHANGED backup

\* The call is replaced by others, or refused, without an exchange.
Becomes(ok, calls) ==
    /\ todo' = IF ok THEN calls \o Tail(todo) ELSE From(Step.to)
    /\ ret' = IF ok THEN ret ELSE -1
    /\ failed' = (failed \/ ~ok)
    /\ UNCHANGED <<chip, target, cmd, err, backup, runs, faults, lost, killed, tidy, licence>>

Always(l) == TRUE
Answered(l) == l = Good

-----------------------------------------------------------------------------
(***************************************************************************)
(* The helpers, at work on the target.                                     *)
(***************************************************************************)
Wait == /\ Calls("wait", Reads, LAMBDA l : target, Always)
        /\ IsFlashBusy(chip, target) => faults' > faults
ClearErrors == Calls("clear_errors", Writes, LAMBDA l : ClearFlashError(chip, target, l), Always)
CheckErrors ==
    Calls("check_errors", Reads, LAMBDA l : target, LAMBDA l : CheckFlashError(chip, target, l))

Unlock == Calls("unlock", Either, LAMBDA l : UnlockFlashIf(chip, target, l),
                LAMBDA l : IsUnlocked(chip, target, l))
Lock == Calls("lock", Either, LAMBDA l : LockFlash(chip, target, l), Always)
UnlockOptions ==
    Calls("unlock_options", Either, LAMBDA l : UnlockFlashOptionIf(chip, target, l),
          LAMBDA l : IsOptionUnlocked(chip, target, l))
Relock == Calls("relock", Writes, LAMBDA l : LockFlashOption(chip, target, l), Always)

SelectPageToErase ==
    LET u == Step.at
        b == IF TwoRegisters(chip) /\ UpperHalf(chip, u) THEN 2 ELSE 1
        F(l) == CASE chip.type = "L4" -> WriteFlashCrBkerPnb(chip, target, u, l)
                  [] chip.type \in {"F2_F4", "F7"} ->
                       WriteFlashCrSnb(chip, target, 1, SectorNumber(chip, u), l)
                  [] chip.type = "H7" ->
                       WriteFlashCrSnb(chip, target, b, SectorH7(chip, u, b), l)
                  [] chip.type = "H5" -> SelectSectorH5(chip, target, u, l)
                  [] chip.type \in {"F0_F1_F3", "F1_XL"} -> WriteFlashAr(chip, target, u, b, l)
                  [] OTHER -> SelectPage(chip, target, u, l)
    IN  Calls("select", Either, F, Always)
Start == Calls("start", Either, LAMBDA l : SetFlashCrStrt(chip, target, Step.at, l), Always)

SetPg == Calls("set_PG", Either, LAMBDA l : SetFlashCrPg(chip, target, Step.at, l), Always)
ClearPg == Calls("clear_PG", Either, LAMBDA l : ClearFlashCrPg(chip, target, Step.at, l), Always)
SetPer == Calls("set_PER", Either, LAMBDA l : SetFlashCrPer(chip, target, Step.at, l), Always)
ClearPer == Calls("clear_PER", Either, LAMBDA l : ClearFlashCrPer(chip, target, Step.at, l), Always)
SetMer == Calls("set_MER", Either, LAMBDA l : SetFlashCrMer(chip, target, TRUE, Step.at, l), Always)
ClearMer ==
    Calls("clear_MER", Either, LAMBDA l : SetFlashCrMer(chip, target, FALSE, Step.at, l), Always)

UnlockPecr == Calls("unlock_PECR", Either, LAMBDA l : PecrUnlock(chip, target, l),
                    LAMBDA l : PecrUnlocked(chip, target, l))
EraseWord == Calls("erase_word", Writes, LAMBDA l : PecrErase(chip, target, Step.at, l), Always)
LockPecr == Calls("lock_PECR", Writes, LAMBDA l : PecrLock(chip, target, l), Always)

CommandPageErase ==
    Calls("command_erase", Writes,
          LAMBDA l : CommandErase(chip, target, {PageAt(chip, Step.at)}, l), Always)
CommandMassErase ==
    Calls("command_mass_erase", Writes,
          LAMBDA l : CommandErase(chip, target, Pages(chip), l), Always)

(***************************************************************************)
(* set_dma_state keeps what it found in the loader's record.               *)
(***************************************************************************)
StopDma ==
    /\ At("DMA_off")
    /\ \E l \in Either : /\ Link(l)
                         /\ target' = DmaOff(chip, target, l)
                         /\ backup' = IF HasDma(chip) THEN DmaBackup(chip, target, l) ELSE backup
    /\ Returns(TRUE)
RestoreDma == Calls("DMA_back", Either, LAMBDA l : DmaBack(chip, target, backup, l), Always)

-----------------------------------------------------------------------------
(***************************************************************************)
(* Erasing and writing a range.                                            *)
(***************************************************************************)

\* stlink_erase_flash_section up to its loop; a write passes align_size.
EraseSection == /\ At("erase_section")
                /\ Becomes(InFlash(Step.at, Step.end) /\ Aligned(Step.at),
                           <<[Step EXCEPT !.op = "erase_next"]>>)
EraseNext ==
    LET next == Step.at + PageSize(chip, Step.at)
        rest == IF next < Step.end THEN <<[Step EXCEPT !.at = next]>> ELSE <<>>
    IN  /\ At("erase_next")
        /\ Becomes(next <= Step.end \/ cmd.do = "write", EraseFlashPage(Step.at, Step.to) \o rest)

CheckRange == /\ At("check_range")
              /\ Becomes(InFlash(Step.at, Step.end) /\ (Padded(cmd) \/ Aligned(Step.at)), <<>>)

\* stlink_flash_loader_init: the core is halted, then interrupts masked.
InitLoader == Calls("init_loader", Writes,
                    LAMBDA l : IF l.write THEN [target EXCEPT !.halted = TRUE, !.masked = TRUE]
                               ELSE target, Answered)
ReadRegister == Calls("read_register", Reads, LAMBDA l : target, Answered)
Unmask == Calls("unmask", Either,
                LAMBDA l : IF l = Good THEN [target EXCEPT !.masked = FALSE] ELSE target, Always)

\* stlink_flashloader_write, a page at a time; F0 and F1 unlock for each.
WritePage ==
    LET next == FirstUnit(chip, PageAt(chip, Step.at)) + Extent(chip, PageAt(chip, Step.at))
        load == <<[Step EXCEPT !.op = "load"]>>
        page == IF chip.type \in {"F0_F1_F3", "F1_XL"}
                THEN <<Call("unlock")>> \o load \o <<Call("lock")>> ELSE load
        rest == IF next < Step.end THEN <<[Step EXCEPT !.at = next]>> ELSE <<>>
    IN  At("write") /\ Becomes(TRUE, page \o rest)

\* The words that go out with nobody looking at the results.
Unchecked == \/ chip.type \in {"WB_WL", "G0", "G4", "L5_U5", "C0", "H7"}
             \/ chip.type = "L0_L1" /\ cmd.len = 1

\* The loader's run over a page, or its words; L0 and L1 fall back to words
\* when the loader fails at the first half page.
Load ==
    \E soft \in BOOLEAN :
       /\ At("load")
       /\ soft => chip.type = "L0_L1" /\ Step.at = cmd.addr
       /\ Calls("load", Either,
                LAMBDA l : IF l.write \/ soft THEN Program(chip, target, PageAt(chip, Step.at))
                           ELSE target,
                LAMBDA l : Unchecked \/ soft \/ l = Good)

\* stlink_verify_write_flash; after a read that failed the buffer is compared
\* as the read before it left it.
Verify ==
    LET same == \A p \in Pages(chip) : Covered(cmd, p) => target.mem[p] = "new"
    IN  /\ At("verify")
        /\ \E l \in Reads, ok \in BOOLEAN : /\ l = Good => ok = same
                                            /\ Link(l)
                                            /\ Returns(ok)
        /\ UNCHANGED <<target, backup>>
-----------------------------------------------------------------------------
(***************************************************************************)
(* Option bytes.                                                           *)
(***************************************************************************)
Unsupported == At("unsupported") /\ Becomes(FALSE, <<>>)

OptionsOpen(t) == "LOCK" \notin t.cr[1] /\ ~t.optlock

\* The control register takes the option bits and loses all others.
EraseOptions ==
    Calls("erase_options", Writes,
          LAMBDA l : IF l.write /\ OptionsOpen(target)
                     THEN [target EXCEPT !.opt = "blank", !.cr[1] = {}] ELSE target, Answered)
ProgramOption ==
    Calls("program_options", Writes,
          LAMBDA l : IF l.write /\ OptionsOpen(target)
                     THEN [target EXCEPT !.opt = IF @ = "blank" THEN "new" ELSE "mixed"]
                     ELSE target, Answered)
BeginOptions ==
    Calls("begin_options", Writes,
          LAMBDA l : IF l.write /\ OptionsOpen(target) THEN [target EXCEPT !.opt = "new"]
                     ELSE target, Answered)

\* The loop of H7: a word that is there already is passed over (and one that
\* is thought to be, after a read that failed); the others are written, and
\* an error of the change ends it.  (junk with the lock bit stands for junk
\* with the error.)
ChangeOptions ==
    \E same \in BOOLEAN :
       LET Begun(l) == /\ l.write /\ OptionsOpen(target)
                       /\ IF l.read THEN target.opt # "new" ELSE ~same
       IN  Calls("change_options", Either,
                 LAMBDA l : IF Begun(l) /\ ~chip.refuses THEN [target EXCEPT !.opt = "new"]
                            ELSE target,
                 LAMBDA l : IF l.read THEN Begun(l) => ~chip.refuses
                            ELSE same \/ "LOCK" \notin l.junk)

-----------------------------------------------------------------------------
(***************************************************************************)
(* The core, and the command from beginning to end.                        *)
(***************************************************************************)
Halt(t) == [t EXCEPT !.halted = TRUE, !.debug = TRUE]
Run(t) == [t EXCEPT !.halted = FALSE]

\* stlink_reset: the pin, or the request to the core when the pin does
\* nothing, which also arms the catches of faults.  The core stops at its
\* vector when the catch of resets is still armed.
Reset(t, soft) ==
    LET armed == IF soft THEN {"fault"} ELSE t.catches
    IN  [ResetChip(chip, t) EXCEPT !.catches = armed, !.halted = "reset" \in armed /\ t.debug]

\* stlink_target_connect under reset ends in a soft reset into the vector.
ResetIntoVector(t) ==
    [ResetChip(chip, t) EXCEPT !.catches = {"reset", "fault"}, !.halted = TRUE, !.dma = FALSE]

ForceDebug ==
    Calls("force_debug", Writes, LAMBDA l : IF l.write THEN Halt(target) ELSE target, Answered)
Status == Calls("status", Reads, LAMBDA l : target, Answered)
RunCore == Calls("run", Writes, LAMBDA l : IF l.write THEN Run(target) ELSE target, Always)
Finalize == Calls("finalize", Writes, LAMBDA l : IF l.write THEN Run(target) ELSE target, Always)
ResetTarget ==
    \E soft \in BOOLEAN :
       Calls("reset", Either, LAMBDA l : IF l.write THEN Reset(target, soft) ELSE target, Answered)

\* main looks at what the function returned, or goes on as if it had not.
Result ==
    /\ At("result")
    /\ err' = ret /\ ret' = 0
    /\ todo' = IF ret = -1 /\ Step.to = "leave" THEN From("leave") ELSE Tail(todo)
    /\ UNCHANGED <<chip, target, cmd, backup, runs, faults, lost, history>>

Succeed == /\ At("succeed")
           /\ err' = 0 /\ todo' = Tail(todo)
           /\ UNCHANGED <<chip, target, cmd, ret, backup, runs, faults, lost, history>>

(* Faulty: the catches are left as they were armed. *)
LetGoArmed(t) == [t EXCEPT !.debug = FALSE, !.halted = FALSE, !.masked = FALSE]

\* stlink_exit_debug_mode of a chip that was identified.
LetGo(t) == [t EXCEPT !.debug = FALSE, !.halted = FALSE, !.masked = FALSE, !.catches = {}]
Leave ==
    Calls("leave", Either,
          LAMBDA l : IF l = Good /\ Step.at = 0 THEN LetGo(target) ELSE target, Always)

(***************************************************************************)
(* A command line, up to the main part: the connection, whose result       *)
(* stlink_open_usb throws away, and the identification of the chip.  A     *)
(* chip that was not identified is only left again.                        *)
(***************************************************************************)
Connected(how, soft) ==
    CASE how = "normal" -> [Reset(target, soft) EXCEPT !.debug = TRUE]
      [] how = "under_reset" -> [ResetIntoVector(target) EXCEPT !.debug = TRUE]
      [] how = "hot-plug" -> [target EXCEPT !.debug = TRUE]

InOrder(t) == /\ \A b \in Registers(chip) : t.cr[b] = CrAtReset(chip)[b] /\ t.job[b] = {}
              /\ t.sr = {} /\ t.optlock /\ t.opt # "blank"

Begin ==
    /\ todo = <<>> /\ runs + faults < MaxEvents
    /\ \E k \in Lines(chip), how \in Connects, soft, again, known \in BOOLEAN :
         /\ runs > 0 => how = "hot-plug" /\ ~again  \* bound: another command finds things as they are
         /\ soft => how = "normal"
         /\ again => k.do = "write"
         /\ known \/ runs + faults + 1 < MaxEvents
         /\ cmd' = k
         /\ target' = Connected(how, soft)
         /\ todo' = IF known THEN Main(k, again) ELSE <<CallOn("leave", 1)>>
         /\ faults' = IF known THEN faults ELSE faults + 1
         /\ lost' = IF known THEN {} ELSE {"identify"}
         /\ tidy' = InOrder(target')
         /\ licence' = Asked(k) \cup target.job[1] \cup target.job[2]
    /\ err' = -1 /\ ret' = 0 /\ backup' = FALSE
    /\ runs' = runs + 1 /\ failed' = FALSE /\ killed' = ""
    /\ UNCHANGED chip

\* The handler of SIGINT, SIGTERM and SIGSEGV, installed once the chip is known.
Interrupt ==
    /\ todo # <<>> /\ killed = "" /\ "identify" \notin lost
    /\ todo' = <<Call("run"), Call("leave")>>
    /\ err' = 1 /\ killed' = "signal"
    /\ UNCHANGED <<chip, target, cmd, ret, backup, runs, faults, lost, failed, tidy, licence>>

\* The programmer is pulled out, or the process killed outright.
Unplugged ==
    /\ todo # <<>>
    /\ todo' = <<>> /\ killed' = "unplugged"
    /\ UNCHANGED <<chip, target, cmd, ret, err, backup, runs, faults, lost, failed, tidy, licence>>

\* The controller finishes what it was told to erase.
EraseEnds ==
    /\ \E b \in Bank : target.job[b] # {} /\ target' = Finish(target, b)
    /\ UNCHANGED <<chip, cmd, call, runs, faults, lost, history>>

Next ==
    \/ Begin \/ Interrupt \/ Unplugged \/ EraseEnds
    \/ ForceDebug \/ Status \/ RunCore \/ Finalize \/ ResetTarget \/ Result \/ Succeed \/ Leave
    \/ Wait \/ ClearErrors \/ CheckErrors \/ Unlock \/ Lock \/ UnlockOptions \/ Relock
    \/ SelectPageToErase \/ Start \/ SetPg \/ ClearPg \/ SetPer \/ ClearPer \/ SetMer \/ ClearMer
    \/ UnlockPecr \/ EraseWord \/ LockPecr \/ CommandPageErase \/ CommandMassErase
    \/ StopDma \/ RestoreDma \/ EraseSection \/ EraseNext \/ CheckRange
    \/ InitLoader \/ ReadRegister \/ Unmask \/ WritePage \/ Load \/ Verify
    \/ Unsupported \/ EraseOptions \/ ProgramOption \/ BeginOptions \/ ChangeOptions

Spec == Init /\ [][Next]_vars

-----------------------------------------------------------------------------
(***************************************************************************)
(* Properties.                                                             *)
(***************************************************************************)

Finished == todo = <<>> /\ runs > 0 /\ killed = ""

\* The chips whose pages the code names as the controller does.  Not so: in
\* the upper bank of a G0, which is selected without a bank
\* (common_flash.c:1245-1251); on an F7 of two banks, whose sectors are
\* counted as those of one (1144-1151); on an L4 of two banks that is neither
\* of 1 MiB nor one of the three chips looked for (calculate.c:69-85).
Known(c) == /\ c.dual => c.type \notin {"F7", "G0"}
            /\ c.dual /\ c.type = "L4" => c.listed

\* What a mass erase covers: not the second bank of F2/F4 and F7
\* (common_flash.c:1037-1044), and nothing of a WB0 that refuses it.
MassCovers(c) == ~(IsUneven(c) /\ c.dual) /\ ~(c.type = "WB0" /\ c.refuses)

\* st-flash ends with status 0 only if what it was asked to write is in the
\* flash, or what it was asked to erase is blank: whatever exchanges were
\* lost when writing, because of the verification, but those of a wait for an
\* erase, which may end after it; for an erase, which nothing verifies, if
\* none was, if two registers agree on being locked, since the first
\* answers for both, and on the chips whose pages the code names and whose
\* banks its mass erase reaches.
SuccessMeansWritten ==
    Finished /\ err = 0 =>
      /\ cmd.do = "write" /\ {"verify", "wait"} \cap lost = {} =>
           \A p \in Pages(chip) : Covered(cmd, p) => target.mem[p] = "new"
      /\ cmd.do = "erase" /\ lost = {} /\ (TwoRegisters(chip) => tidy)
             /\ Known(chip) /\ (cmd.mass => MassCovers(chip)) =>
           \A p \in Asked(cmd) : target.mem[p] = "blank"

\* A page changes only if the command covers it (or the one before had begun
\* to erase it), unless an exchange that selects the page, or the erasing of
\* pages where a mass erase left its bit set, was lost, or a read that failed
\* put junk into a register; on the chips whose pages the code names.
OnlyTheAskedPages ==
    [][\A p \in Pages(chip) : target'.mem[p] # target.mem[p] =>
          p \in licence' \/ {"junk", "select", "set_PER"} \cap lost' # {} \/ ~Known(chip)]_vars

\* After a command that succeeded, with every exchange answered, on a
\* controller that was in order: the registers are locked, nothing is being
\* erased, the option bytes are not left blank, DMA is back on and
\* interrupts are unmasked.
TidyAfterSuccess ==
    Finished /\ err = 0 /\ ~failed /\ lost = {} /\ tidy =>
      /\ \A b \in Registers(chip) : CrAtReset(chip)[b] \subseteq target.cr[b] /\ target.job[b] = {}
      /\ target.optlock /\ target.opt # "blank"
      /\ HasDma(chip) /\ backup => target.dma
      /\ ~target.masked

\* A call fails for a reason: with every exchange answered and a controller
\* in order, only what no chip or this chip cannot do, or refuses to do, is
\* refused, on the chips whose pages the code names and whose banks its mass
\* erase reaches.
Reasonable(k) ==
    /\ k.do \in {"write", "erase"} =>
         /\ InFlash(k.addr, k.addr + k.len)
         /\ (k.do = "write" /\ k.mass /\ Padded(k)) \/ Aligned(k.addr)
         /\ k.do = "erase" => Aligned(k.addr + k.len) \/ k.addr + k.len = FlashSize(chip)
         /\ Known(chip) /\ (k.mass => MassCovers(chip)) /\ ~(chip.type = "WB0" /\ chip.refuses)
    /\ Implements(k.do) /\ (k.do \in {"option_file", "option_bytes"} => ~chip.refuses)
FailsForAReason == failed /\ lost = {} /\ tidy => ~Reasonable(cmd)

\* Once st-flash is done with a chip it knew, by its end or by a signal, the
\* chip runs on its own: no debugging, no halt, no mask, no catch armed,
\* unless the exchanges that say so were lost.
DetachedClean ==
    todo = <<>> /\ runs > 0 /\ killed # "unplugged" /\ lost \cap {"leave", "identify"} = {} =>
      ~target.debug /\ ~target.halted /\ ~target.masked /\ target.catches = {}
=============================================================================
