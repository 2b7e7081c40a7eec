------------------------- MODULE FlashController -------------------------
(***************************************************************************)
(* The flash controllers the C library drives, one operator per helper of  *)
(* common_flash.c, calculate.c and flash_loader.c.  A controller is a      *)
(* record; a control register is the set of its bits that are set; a       *)
(* helper maps the controller before it to the controller after it.        *)
(*                                                                         *)
(* The helpers differ between chips in the register and the bit they       *)
(* touch, which is what the long if-chains of the source say.  Here a      *)
(* family answers three questions instead: has it two control registers,   *)
(* how does it name the page to erase, and which bits does a helper leave  *)
(* alone.                                                                  *)
(*                                                                         *)
(* Most helpers ignore the results of their exchanges.  An exchange that   *)
(* fails is therefore part of the helper: a write that never arrives, or a *)
(* read that leaves the variable it should have filled as it was, so that  *)
(* the helper goes on with whatever was on the stack.                      *)
(***************************************************************************)
EXTENDS Naturals, FiniteSets

Families == {"C0", "F0_F1_F3", "F1_XL", "F2_F4", "F7", "G0", "G4", "H5", "H7",
             "L0_L1", "L4", "L5_U5", "WB_WL", "WB0", "C5"}

Bank == {1, 2}

Bits == {"LOCK", "PRGLOCK", "PG", "PER", "MER"}

(***************************************************************************)
(* A chip: its family; whether its flash is in two banks; whether the      *)
(* SWAP_BANK option is set; whether the test by which the code picks the   *)
(* treatment of a part of the family finds it (the chip ids of F74x to     *)
(* F77x, of L47x to L4Rx, of the WB0 with mass erase; the page size of the *)
(* L5/U5 with two banks); whether its flash is bigger than 128 KiB (G4) or *)
(* 1 MiB (L4); whether it refuses to have its flash (WB0, protected) or    *)
(* its options (H7) changed.                                               *)
(***************************************************************************)
Chips == {c \in [type : Families, dual : BOOLEAN, swap : BOOLEAN,
                 listed : BOOLEAN, big : BOOLEAN, refuses : BOOLEAN] :
            /\ c.type \in {"F1_XL", "H5"} => c.dual
            /\ c.dual => c.type \in {"F1_XL", "F2_F4", "F7", "G0", "G4", "H5", "H7", "L4",
                                     "L5_U5", "C5"}
            /\ c.swap => c.dual /\ c.type \in {"H5", "C5"}
            /\ ~c.listed => c.type \in {"F7", "L4", "L5_U5", "WB0"}
            /\ c.type = "F7" /\ c.dual => c.listed
            /\ c.type = "L5_U5" => c.listed = c.dual
            /\ c.big => c.type = "G4" \/ (c.type = "L4" /\ ~c.dual)
            /\ c.type = "G4" /\ c.dual => c.big
            /\ c.refuses => c.type = "H7" \/ (c.type = "WB0" /\ c.listed)}

(***************************************************************************)
(* The exchanges of one helper: all answered, all reads unanswered (what   *)
(* the stack held is junk), or all writes lost.                            *)
(***************************************************************************)
Good == [read |-> TRUE, write |-> TRUE, junk |-> {}]
Unread(junk) == [read |-> FALSE, write |-> TRUE, junk |-> junk]
Unwritten == [read |-> TRUE, write |-> FALSE, junk |-> {}]

-----------------------------------------------------------------------------
(***************************************************************************)
(* Pages.  Addresses count in 16 KiB for the chips with uneven sectors,    *)
(* otherwise in half pages.                                                *)
(***************************************************************************)

\* calculate_F4_sectornum
SectorF4(u) ==
    LET bank2 == u >= 64
        v == IF bank2 THEN u - 64 ELSE u
        offset == IF bank2 THEN 12 ELSE 0
    IN  offset + (IF v < 4 THEN v ELSE IF v < 8 THEN 4 ELSE v \div 8 + 4)

\* calculate_F7_sectornum
SectorF7(u) == IF u < 8 THEN u \div 2 ELSE IF u < 16 THEN 4 ELSE u \div 16 + 4

\* Of the chips with uneven sectors, those whose sectors are twice as big.
Twice(c) == c.type = "F7" /\ c.listed

\* stlink_calculate_pagesize
PageSize(c, u) ==
    LET Uneven(sector) == IF sector < 4 THEN 1 ELSE IF sector < 5 THEN 4 ELSE 8
    IN  IF Twice(c) THEN 2 * Uneven(SectorF7(u))
        ELSE IF c.type \in {"F2_F4", "F7"} THEN Uneven(SectorF4(u) % 12)
        ELSE 2

\* The pages the silicon has, the first unit of each, its length, and the
\* units in all.  With two banks the sectors of an F7 are those of an F4.
IsUneven(c) == c.type \in {"F2_F4", "F7"}
Pages(c) == IF ~IsUneven(c) THEN 0 .. 3 ELSE IF c.dual THEN 0 .. 23 ELSE 0 .. 11
FirstUnit(c, p) ==
    LET Uneven(q) == IF q < 5 THEN q ELSE 8 * (q - 4)
    IN  CASE ~IsUneven(c) -> 2 * p
          [] IsUneven(c) /\ c.dual -> IF p < 12 THEN Uneven(p) ELSE 64 + Uneven(p - 12)
          [] IsUneven(c) /\ ~c.dual -> IF Twice(c) THEN 2 * Uneven(p) ELSE Uneven(p)
Extent(c, p) ==
    LET Uneven(q) == IF q < 4 THEN 1 ELSE IF q < 5 THEN 4 ELSE 8
    IN  IF ~IsUneven(c) THEN 2
        ELSE IF Twice(c) /\ ~c.dual THEN 2 * Uneven(p) ELSE Uneven(p % 12)
FlashSize(c) == IF ~IsUneven(c) THEN 8 ELSE IF c.dual \/ Twice(c) THEN 128 ELSE 64

PageAt(c, u) == CHOOSE p \in Pages(c) :
                  /\ FirstUnit(c, p) <= u
                  /\ p + 1 \in Pages(c) => u < FirstUnit(c, p + 1)

Half(c) == FlashSize(c) \div 2
UpperHalf(c, u) == u >= Half(c)
PageBank(c, p) == IF FirstUnit(c, p) < Half(c) THEN 1 ELSE 2

-----------------------------------------------------------------------------
(***************************************************************************)
(* The controller, as the code relies on it.  A locked control register    *)
(* ignores what is written to it; an erase started with programming or     *)
(* mass erase still selected is refused with an error.                     *)
(***************************************************************************)
TwoRegisters(c) == c.type = "F1_XL" \/ (c.type = "H7" /\ c.dual)
Registers(c) == IF TwoRegisters(c) THEN Bank ELSE {1}

CrAtReset(c) == [b \in Bank |->
                   CASE c.type = "WB0" -> {}
                     [] c.type = "L0_L1" -> {"LOCK", "PRGLOCK"}
                     [] OTHER -> {"LOCK"}]

\* A chip that has run its program for a while.
Fresh(c) == [cr |-> CrAtReset(c), sr |-> {}, sel |-> [b \in Bank |-> [bk |-> 0, n |-> 0]],
             job |-> [b \in Bank |-> {}], mem |-> [p \in Pages(c) |-> "old"],
             opt |-> "old", optlock |-> TRUE, dma |-> TRUE, masked |-> FALSE,
             halted |-> FALSE, debug |-> FALSE, catches |-> {}]

\* A reset: registers back to their values, an erase under way cut short.
ResetChip(c, t) ==
    LET cut == t.job[1] \cup t.job[2]
    IN  [t EXCEPT !.cr = CrAtReset(c), !.sr = {}, !.job = [b \in Bank |-> {}],
                  !.mem = [p \in Pages(c) |-> IF p \in cut THEN "mixed" ELSE t.mem[p]],
                  !.optlock = TRUE, !.dma = TRUE, !.masked = FALSE, !.halted = FALSE]

\* The bank's erase comes to its end.
Finish(t, b) ==
    [t EXCEPT !.job[b] = {},
              !.mem = [p \in DOMAIN t.mem |-> IF p \in t.job[b] THEN "blank" ELSE t.mem[p]]]

\* read_flash_cr picks a register; the bank counts where there are two.
Reg(c, b) == IF TwoRegisters(c) THEN b ELSE 1
ReadCr(c, t, b, l) == IF l.read THEN t.cr[Reg(c, b)] ELSE l.junk

\* stlink_write_debug32 to the control register of b.
WriteCr(c, t, b, bits, l) ==
    IF ~l.write \/ "LOCK" \in t.cr[Reg(c, b)] THEN t
    ELSE [t EXCEPT !.cr[Reg(c, b)] = bits]

\* The page a selector names: the physical bank for the chips that swap
\* banks.  An L4 of 1 MiB has its bank bit right above the page number.
Banked(c) == c.dual \/ (c.type = "L4" /\ c.big)
Named(c, b, s) ==
    LET bk == IF c.swap THEN 1 - s.bk ELSE s.bk
        p == CASE IsUneven(c) /\ c.dual -> IF s.n >= 16 THEN s.n - 4 ELSE s.n
               [] c.type = "H7" /\ c.dual -> 2 * (b - 1) + s.n
               [] ~IsUneven(c) /\ ~TwoRegisters(c) /\ Banked(c) -> 2 * bk + (s.n % 2)
               [] OTHER -> s.n
    IN  Pages(c) \cap {p}

\* What the bits erase that set_flash_cr_mer sets: for F2/F4 and F7 those of
\* bank 1, where the other families have bits for both banks.
MassErases(c, b) ==
    {p \in Pages(c) : TwoRegisters(c) \/ (IsUneven(c) /\ c.dual) => PageBank(c, p) = b}

\* What the register of b erases when it is told to start.
Erases(c, t, b) ==
    CASE "PER" \in t.cr[b] -> Named(c, b, t.sel[b])
      [] "MER" \in t.cr[b] -> MassErases(c, b)
      [] OTHER -> {}

BeginErase(c, t, b) ==
    IF "LOCK" \in t.cr[b] \/ t.job[b] # {} THEN t
    ELSE IF "PG" \in t.cr[b] \/ {"PER", "MER"} \subseteq t.cr[b]
         THEN [t EXCEPT !.sr = @ \cup {b}]
         ELSE [t EXCEPT !.job[b] = Erases(c, t, b)]

\* A unit of data arrives in page p.
Programmable(c, t, p) ==
    LET b == Reg(c, PageBank(c, p))
    IN  CASE c.type = "WB0" -> ~c.refuses
          [] c.type = "L0_L1" -> {"LOCK", "PRGLOCK"} \cap t.cr[b] = {}
          [] OTHER -> "LOCK" \notin t.cr[b] /\ "PG" \in t.cr[b]
Program(c, t, p) ==
    LET b == Reg(c, PageBank(c, p))
    IN  IF ~Programmable(c, t, p) THEN [t EXCEPT !.sr = @ \cup {b}]
        ELSE IF t.mem[p] = "blank" THEN [t EXCEPT !.mem[p] = "new"]
        ELSE [t EXCEPT !.mem[p] = "mixed", !.sr = @ \cup {b}]

-----------------------------------------------------------------------------
(***************************************************************************)
(* Status.                                                                 *)
(***************************************************************************)

\* clear_flash_error: there is no case for F1_XL.
ClearFlashError(c, t, l) ==
    IF c.type = "F1_XL" \/ ~l.write THEN t ELSE [t EXCEPT !.sr = {}]

\* is_flash_busy: the status registers looked at.
IsFlashBusy(c, t) == \E b \in Registers(c) : t.job[b] # {}

\* check_flash_error: an error flag in a status register it looks at.
\* (junk with the lock bit stands for junk with an error flag.)
CheckFlashError(c, t, l) ==
    IF l.read THEN t.sr \cap Registers(c) = {} ELSE "LOCK" \notin l.junk

-----------------------------------------------------------------------------
(***************************************************************************)
(* Locks.  Each answer of is_..._locked is read once before the keys are   *)
(* written and once after.                                                 *)
(***************************************************************************)

\* is_flash_locked: the first register speaks for both.
IsFlashLocked(c, t, l) == c.type # "WB0" /\ "LOCK" \in ReadCr(c, t, 1, l)

\* unlock_flash: the keys, for both registers where there are two.
UnlockFlash(c, t, l) ==
    IF l.write THEN [t EXCEPT !.cr = [b \in Bank |->
                       IF b \in Registers(c) THEN t.cr[b] \ {"LOCK"} ELSE t.cr[b]]]
    ELSE t

\* unlock_flash_if
UnlockFlashIf(c, t, l) == IF IsFlashLocked(c, t, l) THEN UnlockFlash(c, t, l) ELSE t
IsUnlocked(c, t, l) ==
    IsFlashLocked(c, t, l) => ~IsFlashLocked(c, UnlockFlash(c, t, l), l)

\* lock_flash: WB0 has no lock; n is 0 when the first register cannot be read.
LockFlash(c, t, l) ==
    LET one == WriteCr(c, t, 1,
                       ((IF l.read THEN t.cr[1] ELSE {})
                          \ (IF c.type = "H7" THEN {"PER"} ELSE {})) \cup {"LOCK"}, l)
    IN  CASE c.type = "WB0" -> t
          [] TwoRegisters(c) -> WriteCr(c, one, 2, ReadCr(c, one, 2, l) \cup {"LOCK"}, l)
          [] OTHER -> one

\* The option lock, for the families the three functions know.
HasOptionLock(c) == c.type \notin {"H5", "C5", "WB0"}

\* is_flash_option_locked: a family it does not know counts as locked.
IsFlashOptionLocked(c, t, l) == HasOptionLock(c) /\ l.read => t.optlock

\* unlock_flash_option
UnlockFlashOption(c, t, l) ==
    IF HasOptionLock(c) /\ l.write THEN [t EXCEPT !.optlock = FALSE] ELSE t

\* unlock_flash_option_if
UnlockFlashOptionIf(c, t, l) ==
    IF IsFlashOptionLocked(c, t, l) THEN UnlockFlashOption(c, t, l) ELSE t
IsOptionUnlocked(c, t, l) ==
    IsFlashOptionLocked(c, t, l) =>
       HasOptionLock(c) /\ ~IsFlashOptionLocked(c, UnlockFlashOption(c, t, l), l)

\* lock_flash_option
LockFlashOption(c, t, l) ==
    IF HasOptionLock(c) /\ l.write THEN [t EXCEPT !.optlock = TRUE] ELSE t

-----------------------------------------------------------------------------
(***************************************************************************)
(* Bits of the control register.                                           *)
(***************************************************************************)

\* clear_flash_cr_pg: for F1_XL the bank's register is read, the first written.
ClearFlashCrPg(c, t, b, l) ==
    WriteCr(c, t, IF c.type = "F1_XL" THEN 1 ELSE b, ReadCr(c, t, b, l) \ {"PG"}, l)

\* set_flash_cr_pg: the families at the end of its chain write PG alone.
SetFlashCrPg(c, t, b, l) ==
    WriteCr(c, t, b,
            (IF c.type \in {"F0_F1_F3", "F1_XL"} THEN {} ELSE ReadCr(c, t, b, l)) \cup {"PG"}, l)

\* set_flash_cr_per, clear_flash_cr_per
SetFlashCrPer(c, t, b, l) == WriteCr(c, t, b, ReadCr(c, t, b, l) \cup {"PER"}, l)
ClearFlashCrPer(c, t, b, l) == WriteCr(c, t, b, ReadCr(c, t, b, l) \ {"PER"}, l)

\* set_flash_cr_mer: PG goes first, in a write of its own.
SetFlashCrMer(c, t, on, b, l) ==
    LET val == ReadCr(c, t, b, l)
        bare == val \ {"PG"}
        one == IF "PG" \in val THEN WriteCr(c, t, b, bare, l) ELSE t
    IN  WriteCr(c, one, b, IF on THEN bare \cup {"MER"} ELSE bare \ {"MER"}, l)

\* set_flash_cr_strt: what was read goes back with the start bit.
StartSelected(c, t, b, l) ==
    IF ~l.write THEN t
    ELSE BeginErase(c, WriteCr(c, t, b, ReadCr(c, t, b, l), l), Reg(c, b))
SetFlashCrStrt(c, t, b, l) == StartSelected(c, t, b, l)

-----------------------------------------------------------------------------
(***************************************************************************)
(* Naming the page to erase.                                               *)
(***************************************************************************)
Select(c, t, b, bits, bk, n, l) ==
    IF ~l.write \/ "LOCK" \in t.cr[Reg(c, b)] THEN t
    ELSE [t EXCEPT !.cr[Reg(c, b)] = bits, !.sel[Reg(c, b)] = [bk |-> bk, n |-> n]]

(* Faulty: the bank bit is forgotten. *)
PageL4OneBank(c, u, l) == [bk |-> 0, n |-> u \div 2]

\* calculate_L4_page: for the chips it lists the option, read without a look
\* at the result, says whether the upper half is bank 2; on a chip of 1 MiB
\* the number of a page there runs over into the bank bit.
\* (junk with the mass erase bit stands for junk with the option.)
PageL4(c, u, l) ==
    LET option == IF l.read THEN c.dual ELSE "MER" \in l.junk
    IN  CASE c.listed /\ option /\ UpperHalf(c, u) -> [bk |-> 1, n |-> (u - Half(c)) \div 2]
          [] c.big /\ ~(c.listed /\ option /\ UpperHalf(c, u)) ->
               [bk |-> IF UpperHalf(c, u) THEN 1 ELSE 0, n |-> (u \div 2) % 2]
          [] OTHER -> [bk |-> 0, n |-> u \div 2]

\* write_flash_cr_bker_pnb
WriteFlashCrBkerPnb(c, t, u, l) ==
    LET page == PageL4(c, u, l)
    IN  Select(c, t, 1, (ReadCr(c, t, 1, l) \ {"PG", "MER"}) \cup {"PER"}, page.bk, page.n, l)

\* write_flash_cr_snb, with the sector numbers of F2/F4, F7 and H7
WriteFlashCrSnb(c, t, b, n, l) ==
    Select(c, t, b, ReadCr(c, t, b, l) \cup {"PER"}, 0, n, l)
SectorNumber(c, u) ==
    CASE Twice(c) -> SectorF7(u)
      [] ~Twice(c) -> IF SectorF4(u) >= 12 THEN SectorF4(u) + 4 ELSE SectorF4(u)

(* Faulty: sectors counted from the start of the flash. *)
SectorH7InFlash(c, u, b) == u \div 2

\* calculate_H7_sectornum
SectorH7(c, u, b) == (IF b = 1 THEN u ELSE u - Half(c)) \div 2

\* The page and bank fields of G0, G4, L5/U5, WB/WL, C0 and C5.
SelectPage(c, t, u, l) ==
    LET page == u \div 2
        val == ReadCr(c, t, 1, l)
        inHalf == (IF UpperHalf(c, u) THEN u - Half(c) ELSE u) \div 2
        upper == IF UpperHalf(c, u) THEN 1 ELSE 0
        To(bits, bk, n) == Select(c, t, 1, bits, bk, n, l)
    IN  CASE c.type = "G0" -> To(val \cup {"PER"}, 0, page)
          [] c.type = "G4" -> To((val \ {"MER", "PG"}) \cup {"PER"},
                                 IF c.big THEN upper ELSE 0, page)
          [] c.type = "L5_U5" -> IF c.listed THEN To(val \cup {"PER"}, upper, inHalf)
                                 ELSE To(val \cup {"PER"}, 0, page)
          [] c.type \in {"WB_WL", "C0"} -> To(val, 0, page)
          [] c.type = "C5" ->   \* an option not read counts as clear
               IF l.read /\ ~c.dual THEN To((val \ {"PG", "MER"}) \cup {"PER"}, 0, page)
               ELSE To((val \ {"PG", "MER"}) \cup {"PER"},
                       IF (upper = 1) # (c.swap /\ l.read) THEN 1 ELSE 0, inHalf)

\* The sector and bank fields of H5; stlink_h5_bank_swapped reads the option.
SelectSectorH5(c, t, u, l) ==
    LET upper == UpperHalf(c, u)
        n == (IF upper THEN u - Half(c) ELSE u) \div 2
    IN  Select(c, t, 1, (ReadCr(c, t, 1, l) \ {"MER", "PG"}) \cup {"PER"},
               IF upper # (c.swap /\ l.read) THEN 1 ELSE 0, n, l)

\* write_flash_ar: the address register takes the address itself.
WriteFlashAr(c, t, u, b, l) ==
    Select(c, t, b, t.cr[Reg(c, b)], 0, u \div 2, l)

-----------------------------------------------------------------------------
(***************************************************************************)
(* The two families whose pages are erased by a command of their own.      *)
(***************************************************************************)

\* stlink_erase_flash_page, L0/L1: keys until both locks open, erase and
\* program bits, a word written to the page.
PecrUnlock(c, t, l) ==
    IF l.write THEN [t EXCEPT !.cr[1] = @ \ {"LOCK", "PRGLOCK"}] ELSE t
PecrUnlocked(c, t, l) ==
    LET locks == {"LOCK", "PRGLOCK"}
    IN  IF l.read THEN l.write \/ locks \cap t.cr[1] = {} ELSE locks \cap l.junk = {}
PecrErase(c, t, u, l) ==
    IF l.write /\ {"LOCK", "PRGLOCK"} \cap t.cr[1] = {}
    THEN [t EXCEPT !.job[1] = {PageAt(c, u)}] ELSE t
PecrLock(c, t, l) == IF l.write THEN [t EXCEPT !.cr[1] = @ \cup {"LOCK", "PRGLOCK"}] ELSE t

\* stlink_erase_flash_page and stlink_erase_flash_mass, WB0: flags cleared,
\* the page's address, the command, which a protected flash refuses.
CommandErase(c, t, pages, l) ==
    IF ~l.write THEN t
    ELSE IF c.refuses THEN [t EXCEPT !.sr = {1}]
    ELSE [t EXCEPT !.sr = {}, !.job[1] = pages]

-----------------------------------------------------------------------------
(***************************************************************************)
(* DMA.                                                                    *)
(***************************************************************************)

\* set_dma_state: H5 has no case; the clocks are only written after a read.
HasDma(c) == c.type # "H5"
DmaOff(c, t, l) == IF HasDma(c) /\ l.read /\ l.write THEN [t EXCEPT !.dma = FALSE] ELSE t
DmaBackup(c, t, l) == IF l.read THEN t.dma ELSE "MER" \in l.junk
DmaBack(c, t, backup, l) ==
    IF HasDma(c) /\ l.read /\ l.write THEN [t EXCEPT !.dma = @ \/ backup] ELSE t
=============================================================================
