--------------------------- MODULE Identification ---------------------------
(***************************************************************************)
(* From nothing to a named chip: init reads the chip descriptions, then    *)
(* open_programmer finds out what the programmer is, and read_the_chip     *)
(* sets its clock, finds out which chip it reaches and looks it up.        *)
(*                                                                         *)
(* The chips are external: what each answers at the few addresses asked is *)
(* what the manuals quoted in chip_identity.cpp:24-63 say, which is also   *)
(* why there are so many cases.  So is the firmware, with the versions and *)
(* the clock rates it reports.  Any exchange may fail.  Connecting, which  *)
(* comes between setting the clock and asking for the identity, is         *)
(* TargetSession's.                                                        *)
(***************************************************************************)
EXTENDS ProgrammerVersion, Sequences

CONSTANTS
  Firmwares,  \* bound: the programmers there may be, see Firmware
  Listings,   \* bound: the clock rates a V3 may list, in kHz, zeros for padding
  Hertz       \* bound: the rates asked for, 0 standing for the default

ASSUME FirmwaresAreVersions == Firmwares \subseteq Firmware
ASSUME ListingsAreKilohertz == \A l \in Listings : \A i \in DOMAIN l : Fits(l[i])
ASSUME HertzAreNat == Hertz \subseteq Nat

VARIABLES
  started,  \* g_started of stlink.cpp
  text,     \* the file being parsed: what it says so far
  chips,    \* ChipDatabase::chips_
  newest,   \* history: per identifier, the last file that was whole
  firm,     \* the programmer last opened
  listing,  \* the rates it lists
  chip,     \* the chip it reaches
  pc,       \* the next exchange
  report,   \* the VersionReport
  inDfu,    \* whether the programmer is in firmware update mode
  told,     \* the clock the programmer was told
  cpu,      \* the part CPUID named
  raw,      \* what the identity register held
  info,     \* the ChipInfo
  result    \* how the last call ended

library == <<started, text, chips, newest>>
world == <<firm, listing, chip>>
session == <<report, inDfu, told, cpu, raw, info>>
vars == <<library, world, pc, session, result>>

-----------------------------------------------------------------------------
(* Chip descriptions.                                                      *)

(* Two chips that share an identifier register's contents, and are told     *)
(* apart by their core; ids as the manuals have them.                       *)
IdF2 == 1041  \* 0x411
IdF4 == 1043  \* 0x413
Ids == {IdF2, IdF4}

Names == {"a_name", "another"}

(* Where a description says the flash size is: nowhere, or in the lower or  *)
(* the upper halfword, which bit 1 of the address tells.                    *)
SizeReg == {"none", "lower", "upper"}

Nothing == [name |-> "", id |-> 0, family |-> "Unknown", sizeReg |-> "none"]

(* The lines that matter here; a comment, a flag, or another number changes *)
(* nothing, as "other".                                                     *)
Line ==
  [field : {"name"}, value : Names]
    \cup [field : {"chip_id"}, value : Ids]
    \cup [field : {"flash.size_reg"}, value : SizeReg]
    \cup [field : {"family", "other"}, value : {"F2_F4"}]

(* A field given twice keeps its second value. *)
With(d, l) ==
  CASE l.field = "name" -> [d EXCEPT !.name = l.value]
    [] l.field = "chip_id" -> [d EXCEPT !.id = l.value]
    [] l.field = "family" -> [d EXCEPT !.family = l.value]
    [] l.field = "flash.size_reg" -> [d EXCEPT !.sizeReg = l.value]
    [] OTHER -> d

Whole(d) == d.name # "" /\ d.id # 0 /\ d.family # "Unknown"

(* ChipDatabase::find: the first with that identifier. *)
Find(id) ==
  LET found == {i \in DOMAIN chips : chips[i].id = id}
  IN IF found = {} THEN Nothing
     ELSE chips[CHOOSE i \in found : \A j \in found : i <= j]

(* ChipDatabase::add: a later one replaces the one with its identifier. *)
Added(d) ==
  IF \E i \in DOMAIN chips : chips[i].id = d.id
  THEN [i \in DOMAIN chips |-> IF chips[i].id = d.id THEN d ELSE chips[i]]
  ELSE Append(chips, d)

(* init: once, with a directory or without finding any. *)
InitLibrary ==
  /\ pc = "idle" /\ ~started
  /\ started' = TRUE
  /\ pc' \in {"idle", "directory"}
  /\ UNCHANGED <<text, chips, newest, world, session, result>>

OpenFile ==
  /\ pc = "directory"
  /\ pc' = "file"
  /\ text' = Nothing
  /\ UNCHANGED <<started, chips, newest, world, session, result>>

(* parse_chip_description, line by line. *)
ReadLine(l) ==
  /\ pc = "file"
  /\ text' = With(text, l)
  /\ UNCHANGED <<started, chips, newest, world, pc, session, result>>

(* No value, not a number, no such family, flag or field: the file is left. *)
RefuseLine ==
  /\ pc = "file"
  /\ pc' = "directory"
  /\ text' = Nothing
  /\ UNCHANGED <<started, chips, newest, world, session, result>>

EndOfFile ==
  /\ pc = "file"
  /\ pc' = "directory"
  /\ chips' = IF Whole(text) THEN Added(text) ELSE chips
  /\ newest' = IF Whole(text) THEN [newest EXCEPT ![text.id] = text] ELSE newest
  /\ text' = Nothing
  /\ UNCHANGED <<started, world, session, result>>

(* The directory has no more files, or can be read no further. *)
EndOfDirectory ==
  /\ pc = "directory"
  /\ pc' = "idle"
  /\ UNCHANGED <<library, world, session, result>>

-----------------------------------------------------------------------------
(* The chips: their core, the debug port, what their registers hold.       *)

(* What an identity register holds, in 32 bits: the identifier in the low   *)
(* twelve with a revision from bit 16 on, or in JTAG_ID a part number from  *)
(* bit 12 on, between its version and the manufacturer.                     *)
IdCode(dev) == 65536 * 4096 + dev
JtagId(part) == 65536 * 4096 + 4096 * part + 65

(* kDeviceIdMask, and the shift by kJtagPartNumberShift. *)
DeviceId(word) == word % 4096
NotShifted(jtag) == jtag  \* faulty
PartNumber(jtag) == jtag \div 4096

(* Address: IDCODE on an H7, on the small cores, on an L5 and on an H5,     *)
(* JTAG_ID of a WB0, and everywhere else.                                   *)
Address == {"H7", "M0", "L5", "H5", "JTAG_ID", "default"}

At(register, word) == [a \in Address |-> IF a = register THEN word ELSE 0]

Chips ==
  {[core |-> "M7", port |-> "M7M33", holds |-> At("H7", IdCode(1104)), id |-> 1104],
   [core |-> "M7", port |-> "other", holds |-> At("default", IdCode(1097)), id |-> 1097],
   [core |-> "M4", port |-> "other", holds |-> At("default", IdCode(IdF4)), id |-> IdF4],
   [core |-> "M4", port |-> "other", holds |-> At("default", IdCode(IdF2)), id |-> IdF4],
   [core |-> "M3", port |-> "other", holds |-> At("default", IdCode(IdF2)), id |-> IdF2],
   [core |-> "M33", port |-> "M7M33", holds |-> At("L5", IdCode(1138)), id |-> 1138],
   [core |-> "M33", port |-> "M7M33", holds |-> At("H5", IdCode(1156)), id |-> 1156],
   [core |-> "M0+", port |-> "other", holds |-> At("M0", IdCode(1126)), id |-> 1126],
   [core |-> "M0+", port |-> "other", holds |-> At("JTAG_ID", JtagId(32)), id |-> 32],
   [core |-> "M3", port |-> "other", holds |-> At("none", 0), id |-> 0],
   [core |-> "not_ARM", port |-> "other", holds |-> At("default", IdCode(1040)), id |-> 0]}

(* The flash sizes a chip may keep in the two halfwords, in kilobytes. *)
Kilobytes == [lower |-> 64, upper |-> 512]

NoReport == [version |-> [major |-> 0, jtag |-> 0, swim |-> 0], api |-> "V2",
             capabilities |-> {}, traceRate |-> 0]
NoInfo == [id |-> 0, name |-> "", flash |-> 0]
NotTold == [unit |-> "nothing", rate |-> 0]

Init ==
  /\ started = FALSE /\ text = Nothing /\ chips = <<>>
  /\ newest = [i \in Ids |-> Nothing]
  /\ firm \in {f \in Firmwares : f.generation = "Unknown"} /\ listing = <<>>
  /\ chip \in {c \in Chips : c.core = "not_ARM"}
  /\ pc = "idle"
  /\ report = NoReport /\ inDfu = FALSE /\ told = NotTold
  /\ cpu = "" /\ raw = 0 /\ info = NoInfo
  /\ result = "none"

-----------------------------------------------------------------------------
(* Exchanges.                                                              *)

Goes(here, next) ==
  /\ pc = here
  /\ pc' = next
  /\ UNCHANGED <<library, world, result>>

Fails(here, how) ==
  /\ pc = here
  /\ pc' = "idle"
  /\ result' = how
  /\ UNCHANGED <<library, world, session>>

-----------------------------------------------------------------------------
(* open_programmer.                                                        *)

(* Whatever is attached.  A product id nobody knows is refused before the  *)
(* transport is opened.                                                    *)
Open ==
  /\ pc = "idle" /\ started
  /\ firm' \in Firmwares /\ chip' \in Chips /\ inDfu' \in BOOLEAN
  /\ listing' \in (IF firm'.generation = "V3" THEN Listings ELSE {<<>>})
  /\ IF firm'.generation = "Unknown"
     THEN pc' = "idle" /\ result' = "not_found"
     ELSE pc' = "version" /\ result' = "none"
  /\ report' = NoReport /\ told' = NotTold /\ cpu' = "" /\ raw' = 0 /\ info' = NoInfo
  /\ UNCHANGED library

(* A reply shorter than the layout is refused as one that failed. *)
AskVersion ==
  \/ /\ Goes("version", "mode")
     /\ report' = ParseVersion(firm.generation, Reply(firm))
     /\ UNCHANGED <<inDfu, told, cpu, raw, info>>
  \/ Fails("version", "protocol_error")

(* Being unable to ask is not fatal, and then it is not told to leave. *)
AskMode ==
  /\ Goes("mode", "clock") \/ (inDfu /\ Goes("mode", "exit_dfu"))
  /\ UNCHANGED session

ExitDfu ==
  \/ /\ Goes("exit_dfu", "clock")
     /\ inDfu' = FALSE
     /\ UNCHANGED <<report, told, cpu, raw, info>>
  \/ Fails("exit_dfu", "IO_error")

-----------------------------------------------------------------------------
(* read_the_chip.                                                          *)

(* A programmer in update mode stalls on this and on all that follows. *)
SetClock(hz) ==
  LET tells == ClockFor(report, listing, hz)
  IN /\ Goes("clock", "core_id")
     /\ ~inDfu
     /\ tells.unit \notin {"not_supported", "not_offered"}
     /\ told' = tells
     /\ UNCHANGED <<report, inDfu, cpu, raw, info>>

(* Which is an error only for a caller with a rate in mind. *)
ClockNotSet(hz) ==
  \/ /\ hz = 0
     /\ Goes("clock", "core_id")
     /\ UNCHANGED session
  \/ hz # 0 /\ Fails("clock", "invalid_argument")

(* The core id and CPUID, of which only the second can be refused. *)
AskCoreId ==
  \/ ~inDfu /\ Goes("core_id", "cpu_id") /\ UNCHANGED session
  \/ Fails("core_id", "target_unknown")

WhereIdentity(part) ==
  IF chip.port = "M7M33" /\ part = "M7" THEN "H7"
  ELSE IF part \in {"M0", "M0+"} THEN "M0"
  ELSE IF part = "M33" THEN "L5"
  ELSE "default"

ReadCpuId ==
  \/ /\ chip.core # "not_ARM"
     /\ Goes("cpu_id", "identity")
     /\ cpu' = chip.core
     /\ UNCHANGED <<report, inDfu, told, raw, info>>
  \/ chip.core = "not_ARM" /\ Fails("cpu_id", "target_unknown")
  \/ Fails("cpu_id", "target_unknown")

(* Zero on the parts that have a second place to look. *)
ReadIdentity ==
  \/ /\ raw' = chip.holds[WhereIdentity(cpu)]
     /\ Goes("identity", IF raw' = 0 /\ cpu \in {"M0", "M0+", "M33"} THEN "second" ELSE "look_up")
     /\ UNCHANGED <<report, inDfu, told, cpu, info>>
  \/ Fails("identity", "target_unknown")

ReadSecond ==
  \/ /\ Goes("second", "look_up")
     /\ raw' = IF cpu = "M33" THEN chip.holds["H5"] ELSE PartNumber(chip.holds["JTAG_ID"])
     /\ UNCHANGED <<report, inDfu, told, cpu, info>>
  \/ Fails("second", "target_unknown")

(* An F4 of revision A reports an F2's identifier; the core tells. *)
ChipId == IF DeviceId(raw) = IdF2 /\ cpu = "M4" THEN IdF4 ELSE DeviceId(raw)

(* A chip nobody described is not an error, and has no name. *)
LookUp ==
  /\ raw # 0
  /\ info' = [id |-> ChipId, name |-> Find(ChipId).name, flash |-> 0]
  /\ IF Find(ChipId).sizeReg = "none"
     THEN /\ pc = "look_up" /\ pc' = "idle" /\ result' = "ok"
          /\ UNCHANGED <<library, world>>
     ELSE Goes("look_up", "flash_size")
  /\ UNCHANGED <<report, inDfu, told, cpu, raw>>

NoIdentity == raw = 0 /\ Fails("look_up", "target_unknown")

(* Faulty: the lower halfword whatever the address. *)
SizeLow(d) == IF d.sizeReg = "none" THEN 0 ELSE Kilobytes["lower"] * 1024

FlashSizeFrom(d) == IF d.sizeReg = "none" THEN 0 ELSE Kilobytes[d.sizeReg] * 1024

ReadFlashSize ==
  \/ /\ pc = "flash_size" /\ pc' = "idle" /\ result' = "ok"
     /\ info' = [info EXCEPT !.flash = FlashSizeFrom(Find(info.id))]
     /\ UNCHANGED <<library, world, report, inDfu, told, cpu, raw>>
  \/ Fails("flash_size", "target_refused")

-----------------------------------------------------------------------------
Next ==
  \/ InitLibrary \/ OpenFile \/ RefuseLine \/ EndOfFile \/ EndOfDirectory
  \/ \E l \in Line : ReadLine(l)
  \/ Open \/ AskVersion \/ AskMode \/ ExitDfu
  \/ \E hz \in Hertz : SetClock(hz) \/ ClockNotSet(hz)
  \/ AskCoreId \/ ReadCpuId \/ ReadIdentity \/ ReadSecond
  \/ LookUp \/ NoIdentity \/ ReadFlashSize

Spec == Init /\ [][Next]_vars

-----------------------------------------------------------------------------
(* Properties.                                                             *)

Described == result = "ok"

(* chip_identity.cpp:124-248: through all the places an identity is kept   *)
(* in, the bits it is kept in there, and the erratum, what comes out is    *)
(* the chip's identifier.                                                  *)
NamesTheChip == Described => info.id = chip.id

(* chip_database.h:43-47, "Later wins": a chip is described by the last    *)
(* file about it that parsed to its end, whatever earlier or later files   *)
(* broke off in, and its flash size read where that file says it is.       *)
DescribedByItsFile ==
  Described =>
    LET d == IF info.id \in Ids THEN newest[info.id] ELSE Nothing
    IN /\ info.name = d.name
       /\ info.flash = IF d.sizeReg = "none" THEN 0 ELSE Kilobytes[d.sizeReg] * 1024

(* protocol.cpp:83-151: the report has the firmware's own version, the     *)
(* command set and the trace it really has; device.cpp:480 relies on the   *)
(* rate, programmer_v2.cpp:741 on the capability, so they must agree.      *)
ReportIsTheProgrammers ==
  pc \notin {"idle", "directory", "file", "version"} =>
    /\ report.version = firm.version
    /\ report.api = "V1" <=>
         firm.generation # "V3" /\ firm.version.major = 1 /\ firm.version.jtag < 12
    /\ report.traceRate > 0 <=> "Trace" \in report.capabilities

(* programmer_v3.cpp:107-152: what a V3 is told is a rate it listed.       *)
ToldAListedRate ==
  told.unit = "kHz" => \E i \in DOMAIN listing : listing[i] = told.rate /\ told.rate # 0

=============================================================================
