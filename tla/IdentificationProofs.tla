------------------------ MODULE IdentificationProofs ------------------------
(***************************************************************************)
(* Proofs about Identification.  What has been found out so far, at every  *)
(* exchange, is right: Reported of the version, Looking of the chip's      *)
(* identity, Kept of the database, and OnceRead that no description is     *)
(* read once a chip has been looked up.                                    *)
(***************************************************************************)
EXTENDS Identification, SequenceTheorems, TLAPS

Steps == {"idle", "directory", "file", "version", "mode", "exit_dfu", "clock", "core_id",
          "cpu_id", "identity", "second", "look_up", "flash_size"}
Results == {"none", "ok", "not_found", "protocol_error", "IO_error", "invalid_argument",
            "target_unknown", "target_refused"}
Cores == {"M0", "M0+", "M3", "M4", "M7", "M33", "not_ARM"}

Description ==
  [name : Names \cup {""}, id : Ids \cup {0}, family : {"Unknown", "F2_F4"}, sizeReg : SizeReg]

VersionReport ==
  [version : Version, api : {"V1", "V2", "V3"},
   capabilities : SUBSET {"Trace", "LastRwStatus2"}, traceRate : Nat]

LibraryTyped ==
  /\ started \in BOOLEAN /\ text \in Description
  /\ chips \in Seq(Description) /\ newest \in [Ids -> Description]

WorldTyped == firm \in Firmwares /\ listing \in Listings \cup {<<>>} /\ chip \in Chips

SessionTyped ==
  /\ report \in VersionReport /\ inDfu \in BOOLEAN
  /\ told \in [unit : {"nothing", "divisor", "kHz"}, rate : Nat]
  /\ cpu \in Cores \cup {""} /\ raw \in Nat
  /\ info \in [id : Nat, name : Names \cup {""}, flash : Nat]

TypeOK == LibraryTyped /\ WorldTyped /\ SessionTyped /\ pc \in Steps /\ result \in Results

(* A call that is under way has no result yet, and the descriptions are     *)
(* read before the first of them.                                          *)
OnceRead ==
  /\ pc # "idle" => result = "none"
  /\ pc # "idle" => started
  /\ result # "none" => started

(* The report that was made of the firmware's reply.                       *)
Reported ==
  pc \notin {"idle", "directory", "file", "version"} =>
    report = ParseVersion(firm.generation, Reply(firm))

(* What was found of the chip's identity, at each of its exchanges.        *)
Looking ==
  /\ pc \in {"identity", "second", "look_up"} => cpu = chip.core /\ chip.core # "not_ARM"
  /\ pc = "second" => /\ chip.holds[WhereIdentity(cpu)] = 0
                      /\ cpu \in {"M0", "M0+", "M33"}
  /\ pc = "look_up" => raw = 0 \/ ChipId = chip.id
  /\ pc = "flash_size" => info.id = chip.id

(* The database has, for each identifier, the last whole file about it.     *)
Kept ==
  /\ \A i \in DOMAIN chips : chips[i].id \in Ids /\ chips[i] = newest[chips[i].id]
  /\ \A i, j \in DOMAIN chips : chips[i].id = chips[j].id => i = j
  /\ \A id \in Ids : newest[id] = Nothing \/ \E i \in DOMAIN chips : chips[i].id = id

(* The chip's description so far is its file's.                            *)
Named == pc = "flash_size" => info.name = Find(info.id).name

Inv ==
  /\ TypeOK /\ OnceRead /\ Reported /\ Looking /\ Kept /\ Named
  /\ NamesTheChip /\ DescribedByItsFile /\ ToldAListedRate

-----------------------------------------------------------------------------
(***************************************************************************)
(* Versions and clock rates.                                               *)
(***************************************************************************)
(* version_reply_size: the packed reply holds all of a version.            *)
LEMMA UnpackedIsPacked ==
  ASSUME NEW v \in Version
  PROVE  Unpacked(Packed(v)) = v
<1> DEFINE a == v.major
           j == v.jtag
           w == v.swim
<1>1. a \in 0 .. 15 /\ j \in 0 .. 63 /\ w \in 0 .. 63
  BY DEF Version
<1>2. v = [major |-> a, jtag |-> j, swim |-> w]
  BY DEF Version
<1> HIDE DEF a, j, w
<1>3. (16 * a + j \div 4) \div 16 = a /\ ((16 * a + j \div 4) % 16) * 4 = (j \div 4) * 4
  BY <1>1
<1>4. (64 * (j % 4) + w) \div 64 = j % 4 /\ (64 * (j % 4) + w) % 64 = w
  BY <1>1
<1>5. (j \div 4) * 4 + (j % 4) = j
  BY <1>1
<1>6. Packed(v) = <<16 * a + j \div 4, 64 * (j % 4) + w>>
  BY DEF Packed, a, j, w
<1>7. Unpacked(Packed(v)) = [major |-> a, jtag |-> j, swim |-> w]
  BY <1>3, <1>4, <1>5, <1>6 DEF Unpacked
<1> QED
  BY <1>2, <1>7

(* The report of a firmware's reply has its version.                       *)
LEMMA ReportIs ==
  ASSUME NEW firmware \in Firmware
  PROVE  LET v == firmware.version
             r == ParseVersion(firmware.generation, Reply(firmware))
         IN  IF firmware.generation = "V3"
             THEN r = [version |-> v, api |-> "V3",
                       capabilities |-> {"Trace", "LastRwStatus2"}, traceRate |-> MaxTraceV3]
             ELSE r = ReportOld(v)
<1>1. firmware.version \in Version
  BY DEF Firmware
<1>2. Unpacked(Packed(firmware.version)) = firmware.version
  BY <1>1, UnpackedIsPacked
<1>3. firmware.version = [major |-> firmware.version.major, jtag |-> firmware.version.jtag,
                          swim |-> firmware.version.swim]
  BY <1>1 DEF Version
<1>4. CASE firmware.generation = "V3"
  BY <1>3, <1>4 DEF ParseVersion, Reply, ReportV3, Plain
<1>5. CASE firmware.generation # "V3"
  BY Zenon, <1>2, <1>5 DEF ParseVersion, Reply
<1> QED
  BY <1>4, <1>5

LEMMA ReportTyped ==
  ASSUME NEW firmware \in Firmware
  PROVE  ParseVersion(firmware.generation, Reply(firmware)) \in VersionReport
<1>1. firmware.version \in Version
  BY DEF Firmware
<1>2. OldCapabilities(firmware.version) \in SUBSET {"Trace", "LastRwStatus2"}
  BY DEF OldCapabilities
<1> DEFINE v == firmware.version
           r == ParseVersion(firmware.generation, Reply(firmware))
<1>3. CASE firmware.generation = "V3"
  <2>1. r = [version |-> v, api |-> "V3",
             capabilities |-> {"Trace", "LastRwStatus2"}, traceRate |-> MaxTraceV3]
    BY Zenon, <1>3, ReportIs
  <2> HIDE DEF r, v
  <2>2. v \in Version
    BY <1>1 DEF v
  <2>3. r \in VersionReport
    BY SMT, <2>1, <2>2 DEF VersionReport, MaxTraceV3
  <2> QED
    BY <2>3 DEF r
<1>4. CASE firmware.generation # "V3"
  <2>1. r = ReportOld(v)
    BY Zenon, <1>4, ReportIs
  <2> HIDE DEF r, v
  <2>2. v \in Version /\ OldCapabilities(v) \in SUBSET {"Trace", "LastRwStatus2"}
    BY <1>1, <1>2 DEF v
  <2>3. r \in VersionReport
    BY SMT, <2>1, <2>2 DEF VersionReport, ReportOld, MaxTraceV2
  <2> QED
    BY <2>3 DEF r
<1> QED
  BY <1>3, <1>4

(* What the report says of trace and of the command set agrees.            *)
LEMMA ReportAgrees ==
  ASSUME NEW firmware \in Firmware
  PROVE  LET v == firmware.version
             r == ParseVersion(firmware.generation, Reply(firmware))
         IN  /\ r.version = v
             /\ r.api = "V1" <=> firmware.generation # "V3" /\ v.major = 1 /\ v.jtag < 12
             /\ r.traceRate > 0 <=> "Trace" \in r.capabilities
<1> DEFINE v == firmware.version
           r == ParseVersion(firmware.generation, Reply(firmware))
<1>1. CASE firmware.generation = "V3"
  <2>1. r = [version |-> v, api |-> "V3",
             capabilities |-> {"Trace", "LastRwStatus2"}, traceRate |-> MaxTraceV3]
    BY Zenon, <1>1, ReportIs
  <2> QED
    BY SMT, <1>1, <2>1 DEF MaxTraceV3
<1>2. CASE firmware.generation # "V3"
  <2>1. r = ReportOld(v)
    BY Zenon, <1>2, ReportIs
  <2>2. v.major \in 0 .. 15 /\ v.jtag \in 0 .. 63
    BY DEF Firmware, Version
  <2> HIDE DEF r, v
  <2>3. "Trace" \in OldCapabilities(v) <=> v.major # 1 /\ v.jtag >= V2TraceFrom
    BY <2>2 DEF OldCapabilities, V2TraceFrom
  <2>4. r.version = v /\ r.capabilities = OldCapabilities(v)
    BY <2>1 DEF ReportOld
  <2>5. r.api = "V1" <=> v.major = 1 /\ v.jtag < 12
    BY <2>1, <2>2 DEF ReportOld, V1SpeaksApiV2From
  <2>6. r.traceRate > 0 <=> v.major # 1 /\ v.jtag >= V2TraceFrom
    BY SMT, <2>1, <2>2 DEF ReportOld, MaxTraceV2
  <2> QED
    BY <1>2, <2>3, <2>4, <2>5, <2>6 DEF r, v
<1> QED
  BY <1>1, <1>2

(* programmer_v3.cpp:107-152: of the rates a V3 lists none wraps in hertz,  *)
(* so that the one found, in kilohertz again, is the one listed.           *)
LEMMA TellsAListedRate ==
  ASSUME NEW rates \in Listings \cup {<<>>}, NEW hz \in Hertz,
         SetClockV3(rates, hz).unit = "kHz"
  PROVE  \E i \in DOMAIN rates : rates[i] = SetClockV3(rates, hz).rate /\ rates[i] # 0
<1> DEFINE wanted == IF hz = 0 THEN 1000000 ELSE hz
<1>1. /\ wanted \in ClockRatesV3(rates)
      /\ SetClockV3(rates, hz) = [unit |-> "kHz", rate |-> wanted \div 1000]
  BY SMT DEF SetClockV3
<1> HIDE DEF wanted
<1>2. PICK i \in DOMAIN rates : rates[i] # 0 /\ wanted = (1000 * rates[i]) % Word
  BY SMT, <1>1 DEF ClockRatesV3
<1>3. rates[i] \in Nat /\ 1000 * rates[i] < Word
  <2>1. rates \in Listings
    BY <1>2
  <2> QED
    BY <1>2, <2>1, ListingsAreKilohertz DEF Fits
<1>4. wanted = 1000 * rates[i]
  <2>1. \A x \in Nat : x < Word => x % Word = x
    BY WordIsNat
  <2> QED
    BY <1>2, <1>3, <2>1
<1>5. wanted \div 1000 = rates[i]
  BY <1>3, <1>4
<1> QED
  BY <1>1, <1>2, <1>5

(* What a programmer is told has its unit and its rate.                    *)
LEMMA ClockTyped ==
  ASSUME NEW rates, NEW r, NEW hz \in Hertz,
         ClockFor(r, rates, hz).unit \notin {"not_supported", "not_offered"}
  PROVE  /\ ClockFor(r, rates, hz) \in [unit : {"divisor", "kHz"}, rate : Nat]
         /\ ClockFor(r, rates, hz).unit = "kHz" => ClockFor(r, rates, hz) = SetClockV3(rates, hz)
<1>1. hz \in Nat
  BY HertzAreNat
<1>2. CASE r.api = "V3"
  <2>1. ClockFor(r, rates, hz) = SetClockV3(rates, hz)
    BY <1>2 DEF ClockFor
  <2>2. SetClockV3(rates, hz) \in [unit : {"not_offered", "kHz"}, rate : Nat]
    BY SMT, <1>1 DEF SetClockV3
  <2> QED
    BY <2>1, <2>2
<1>3. CASE r.api = "V2"
  <2>1. ClockFor(r, rates, hz) = SetClockV2(r.version, hz)
    BY <1>3 DEF ClockFor
  <2>2. SetClockV2(r.version, hz) \in
          [unit : {"not_supported", "not_offered", "divisor"}, rate : Nat]
    BY SMT, <1>1 DEF SetClockV2
  <2> QED
    BY <2>1, <2>2
<1>4. CASE r.api \notin {"V2", "V3"}
  BY <1>4 DEF ClockFor
<1> QED
  BY <1>2, <1>3, <1>4

-----------------------------------------------------------------------------
(***************************************************************************)
(* Types.                                                                  *)
(***************************************************************************)
LEMMA LinesTyped ==
  ASSUME NEW d \in Description, NEW l \in Line
  PROVE  With(d, l) \in Description
<1>1. \/ l.field = "name" /\ l.value \in Names
      \/ l.field = "chip_id" /\ l.value \in Ids
      \/ l.field = "flash.size_reg" /\ l.value \in SizeReg
      \/ l.field = "family" /\ l.value = "F2_F4"
      \/ l.field = "other"
  BY DEF Line
<1>2. CASE l.field = "name"
  BY <1>1, <1>2 DEF With, Description
<1>3. CASE l.field = "chip_id"
  BY <1>1, <1>3 DEF With, Description
<1>4. CASE l.field = "flash.size_reg"
  BY <1>1, <1>4 DEF With, Description
<1>5. CASE l.field = "family"
  BY <1>1, <1>5 DEF With, Description
<1>6. CASE l.field = "other"
  BY <1>6 DEF With
<1> QED
  BY <1>1, <1>2, <1>3, <1>4, <1>5, <1>6

LEMMA NothingTyped == Nothing \in Description /\ ~Whole(Nothing)
  BY DEF Nothing, Description, Whole, SizeReg

LEMMA AddedTyped ==
  ASSUME NEW d \in Description, chips \in Seq(Description)
  PROVE  Added(d) \in Seq(Description)
<1>1. CASE \E i \in DOMAIN chips : chips[i].id = d.id
  <2>1. Added(d) = [i \in DOMAIN chips |-> IF chips[i].id = d.id THEN d ELSE chips[i]]
    BY Zenon, <1>1 DEF Added
  <2>2. Len(chips) \in Nat /\ DOMAIN chips = 1 .. Len(chips)
        /\ \A i \in DOMAIN chips : chips[i] \in Description
    BY LenProperties, ElementOfSeq
  <2>3. Added(d) \in [1 .. Len(chips) -> Description]
    BY <2>1, <2>2
  <2> QED
    BY <2>2, <2>3, IsASeq
<1>2. CASE ~\E i \in DOMAIN chips : chips[i].id = d.id
  BY <1>2 DEF Added
<1> QED
  BY <1>1, <1>2

(* What a chip answers, and where.                                         *)
LEMMA ChipsTyped ==
  ASSUME NEW c \in Chips
  PROVE  /\ c.core \in Cores
         /\ \A a \in Address : c.holds[a] \in Nat
<1>1. \A register : \A dev \in Nat : \A a \in Address :
        At(register, dev)[a] \in Nat
  BY DEF At
<1>2. \A dev \in Nat : IdCode(dev) \in Nat /\ JtagId(dev) \in Nat
  BY DEF IdCode, JtagId
<1> QED
  BY <1>1, <1>2 DEF Chips, Cores, IdF2, IdF4, Address


(* The first of the descriptions with an identifier is the only one, and   *)
(* the last that was whole.                                                *)
LEMMA FindIs ==
  ASSUME LibraryTyped, Kept, NEW id
  PROVE  Find(id) = IF id \in Ids THEN newest[id] ELSE Nothing
<1> DEFINE found == {i \in DOMAIN chips : chips[i].id = id}
<1>1. CASE found = {}
  <2>1. Find(id) = Nothing
    BY Zenon, <1>1 DEF Find
  <2>2. id \in Ids => newest[id] = Nothing
    BY <1>1 DEF Kept
  <2> QED
    BY <2>1, <2>2
<1>2. CASE found # {}
  <2>1. PICK k \in DOMAIN chips : chips[k].id = id
    BY <1>2
  <2>2. found = {k}
    BY <2>1 DEF Kept
  <2>3. k \in Nat
    BY LenProperties DEF LibraryTyped
  <2>4. (CHOOSE i \in found : \A j \in found : i <= j) = k
    <3> HIDE DEF found
    <3>1. k \in found /\ \A j \in found : k <= j
      BY <2>2, <2>3
    <3>2. \A i : i \in found /\ (\A j \in found : i <= j) => i = k
      BY <2>2
    <3> QED
      BY <2>2, <3>1, <3>2
  <2>5. Find(id) = chips[CHOOSE i \in found : \A j \in found : i <= j]
    BY Zenon, <1>2 DEF Find
  <2>6. id \in Ids /\ chips[k] = newest[id]
    BY <2>1 DEF Kept
  <2> HIDE DEF found
  <2> QED
    BY <2>4, <2>5, <2>6
<1> QED
  BY <1>1, <1>2

LEMMA FindTyped ==
  ASSUME LibraryTyped, Kept, NEW id
  PROVE  Find(id) \in Description
<1>1. CASE id \in Ids
  <2>1. newest[id] \in Description
    BY <1>1 DEF LibraryTyped
  <2> QED
    BY <1>1, <2>1, FindIs
<1>2. CASE id \notin Ids
  BY Zenon, <1>2, FindIs, NothingTyped
<1> QED
  BY <1>1, <1>2

LEMMA FlashSizeTyped ==
  ASSUME NEW d \in Description
  PROVE  FlashSizeFrom(d) \in Nat
<1>1. d.sizeReg \in {"none", "lower", "upper"}
  BY DEF Description, SizeReg
<1>2. Kilobytes["lower"] = 64 /\ Kilobytes["upper"] = 512
  BY DEF Kilobytes
<1> QED
  BY <1>1, <1>2 DEF FlashSizeFrom

LEMMA TypeInit == Init => TypeOK
<1> SUFFICES ASSUME Init PROVE TypeOK
  OBVIOUS
<1>1. LibraryTyped
  <2>1. newest \in [Ids -> Description] /\ text \in Description
    BY NothingTyped DEF Init
  <2>2. chips \in Seq(Description)
    <3>1. chips = <<>>
      BY Zenon DEF Init
    <3> QED
      BY <3>1
  <2>3. started \in BOOLEAN
    BY Zenon DEF Init
  <2> QED
    BY Zenon, <2>1, <2>2, <2>3 DEF LibraryTyped
<1>2. WorldTyped
  BY DEF Init, WorldTyped
<1>3. SessionTyped
  <2>1. NoReport \in VersionReport
    BY DEF NoReport, VersionReport, Version
  <2>2. NotTold \in [unit : {"nothing", "divisor", "kHz"}, rate : Nat]
    BY DEF NotTold
  <2>3. 0 \in Nat
    OBVIOUS
  <2>4. NoInfo \in [id : Nat, name : Names \cup {""}, flash : Nat]
    BY DEF NoInfo
  <2> QED
    BY <2>1, <2>2, <2>3, <2>4 DEF Init, SessionTyped
<1>4. pc \in Steps /\ result \in Results
  BY DEF Init, Steps, Results
<1> QED
  BY <1>1, <1>2, <1>3, <1>4 DEF TypeOK

(* Reading the descriptions keeps the types.                               *)
LEMMA LibraryTypes ==
  ASSUME TypeOK,
         \/ InitLibrary \/ OpenFile \/ RefuseLine \/ EndOfFile \/ EndOfDirectory
         \/ \E l \in Line : ReadLine(l)
  PROVE  TypeOK'
<1> USE DEF library, world, session
<1>1. LibraryTyped /\ WorldTyped /\ SessionTyped /\ pc \in Steps /\ result \in Results
  BY DEF TypeOK
<1>2. WorldTyped' /\ SessionTyped' /\ result' = result
  <2>1. UNCHANGED <<world, session, result>>
    BY Zenon DEF InitLibrary, OpenFile, RefuseLine, EndOfFile, EndOfDirectory, ReadLine
  <2> QED
    BY Zenon, <1>1, <2>1 DEF WorldTyped, SessionTyped
<1>3. pc' \in Steps
  <2>1. pc' \in {"idle", "directory", "file"}
    BY DEF InitLibrary, OpenFile, RefuseLine, EndOfFile, EndOfDirectory, ReadLine
  <2> QED
    BY <2>1 DEF Steps
<1>4. CASE InitLibrary \/ EndOfDirectory
  <2>1. UNCHANGED <<text, chips, newest>> /\ (started' = TRUE \/ started' = started)
    BY Zenon, <1>4 DEF InitLibrary, EndOfDirectory
  <2>2. LibraryTyped'
    BY Zenon, <1>1, <2>1 DEF LibraryTyped
  <2> QED
    BY Zenon, <1>1, <1>2, <1>3, <2>2 DEF TypeOK
<1>5. CASE OpenFile \/ RefuseLine
  <2>1. UNCHANGED <<started, chips, newest>> /\ text' = Nothing
    BY Zenon, <1>5 DEF OpenFile, RefuseLine
  <2>2. LibraryTyped'
    BY Zenon, <1>1, <2>1, NothingTyped DEF LibraryTyped
  <2> QED
    BY Zenon, <1>1, <1>2, <1>3, <2>2 DEF TypeOK
<1>6. ASSUME NEW l \in Line, ReadLine(l) PROVE TypeOK'
  <2>1. UNCHANGED <<started, chips, newest>> /\ text' = With(text, l)
    BY Zenon, <1>6 DEF ReadLine
  <2>2. text' \in Description
    BY <1>1, <2>1, LinesTyped DEF LibraryTyped
  <2>3. LibraryTyped'
    BY Zenon, <1>1, <2>1, <2>2 DEF LibraryTyped
  <2> QED
    BY Zenon, <1>1, <1>2, <1>3, <2>3 DEF TypeOK
<1>7. CASE EndOfFile
  <2>1. UNCHANGED started /\ text' = Nothing
    BY Zenon, <1>7 DEF EndOfFile
  <2>2. chips' \in Seq(Description)
    BY <1>1, <1>7, AddedTyped DEF EndOfFile, LibraryTyped
  <2>3. newest' \in [Ids -> Description]
    BY <1>1, <1>7 DEF EndOfFile, LibraryTyped
  <2>4. LibraryTyped'
    BY Zenon, <1>1, <2>1, <2>2, <2>3, NothingTyped DEF LibraryTyped
  <2> QED
    BY Zenon, <1>1, <1>2, <1>3, <2>4 DEF TypeOK
<1> QED
  BY <1>4, <1>5, <1>6, <1>7

(* So does finding out what the programmer is,                             *)
LEMMA ProgrammerTypes ==
  ASSUME TypeOK,
         \/ Open \/ AskVersion \/ AskMode \/ ExitDfu
         \/ \E hz \in Hertz : SetClock(hz) \/ ClockNotSet(hz)
  PROVE  TypeOK'
<1> USE DEF library, world, session
<1>1. LibraryTyped /\ WorldTyped /\ SessionTyped /\ pc \in Steps /\ result \in Results
  BY DEF TypeOK
<1>2. LibraryTyped'
  <2>1. UNCHANGED library
    BY Zenon DEF Open, AskVersion, AskMode, ExitDfu, SetClock, ClockNotSet, Goes, Fails
  <2> QED
    BY Zenon, <1>1, <2>1 DEF LibraryTyped
<1>3. pc' \in Steps /\ result' \in Results
  <2>1. /\ pc' \in {"idle", "version", "mode", "exit_dfu", "clock", "core_id"}
        /\ \/ result' = result
           \/ result' \in {"none", "not_found", "protocol_error", "IO_error", "invalid_argument"}
    BY DEF Open, AskVersion, AskMode, ExitDfu, SetClock, ClockNotSet, Goes, Fails
  <2> QED
    BY <1>1, <2>1 DEF Steps, Results
<1>4. CASE Open
  <2>1. WorldTyped'
    BY <1>4 DEF Open, WorldTyped
  <2>2. SessionTyped'
    <3>1. NoReport \in VersionReport
      BY DEF NoReport, VersionReport, Version
    <3>2. NotTold \in [unit : {"nothing", "divisor", "kHz"}, rate : Nat]
      BY DEF NotTold
    <3>3. 0 \in Nat
      OBVIOUS
    <3>4. NoInfo \in [id : Nat, name : Names \cup {""}, flash : Nat]
      BY DEF NoInfo
    <3>5. inDfu' \in BOOLEAN
      BY Zenon, <1>4 DEF Open
    <3>6. report' = NoReport /\ told' = NotTold /\ cpu' = "" /\ raw' = 0 /\ info' = NoInfo
      BY Zenon, <1>4 DEF Open
    <3> QED
      BY <3>1, <3>2, <3>3, <3>4, <3>5, <3>6 DEF SessionTyped
  <2> QED
    BY Zenon, <1>2, <1>3, <2>1, <2>2 DEF TypeOK
<1>5. ASSUME UNCHANGED world, SessionTyped' PROVE TypeOK'
  <2>1. WorldTyped'
    BY Zenon, <1>1, <1>5 DEF WorldTyped
  <2> QED
    BY Zenon, <1>2, <1>3, <1>5, <2>1 DEF TypeOK
<1>6. CASE AskVersion
  <2>1. UNCHANGED <<world, inDfu, told, cpu, raw, info>>
    BY Zenon, <1>6 DEF AskVersion, Goes, Fails
  <2>2. report' = ParseVersion(firm.generation, Reply(firm)) \/ report' = report
    BY Zenon, <1>6 DEF AskVersion, Goes, Fails
  <2>3. firm \in Firmware
    BY <1>1, FirmwaresAreVersions DEF WorldTyped
  <2>4. report' \in VersionReport
    BY Zenon, <1>1, <2>2, <2>3, ReportTyped DEF SessionTyped
  <2> QED
    BY Zenon, <1>1, <1>5, <2>1, <2>4 DEF SessionTyped
<1>7. CASE AskMode \/ ExitDfu \/ \E hz \in Hertz : ClockNotSet(hz)
  <2>1. UNCHANGED <<world, report, told, cpu, raw, info>> /\ (inDfu' = FALSE \/ inDfu' = inDfu)
    BY Zenon, <1>7 DEF AskMode, ExitDfu, ClockNotSet, Goes, Fails
  <2> QED
    BY Zenon, <1>1, <1>5, <2>1 DEF SessionTyped
<1>8. ASSUME NEW hz \in Hertz, SetClock(hz) PROVE TypeOK'
  <2>1. /\ UNCHANGED <<world, report, inDfu, cpu, raw, info>>
        /\ told' = ClockFor(report, listing, hz)
        /\ ClockFor(report, listing, hz).unit \notin {"not_supported", "not_offered"}
    BY Zenon, <1>8 DEF SetClock, Goes
  <2>2. told' \in [unit : {"divisor", "kHz"}, rate : Nat]
    BY Zenon, <2>1, ClockTyped
  <2>3. told' \in [unit : {"nothing", "divisor", "kHz"}, rate : Nat]
    BY <2>2
  <2> QED
    BY Zenon, <1>1, <1>5, <2>1, <2>3 DEF SessionTyped
<1> QED
  BY <1>4, <1>6, <1>7, <1>8

(* and which chip it reaches.                                              *)
LEMMA ChipTypes ==
  ASSUME TypeOK, Kept,
         \/ AskCoreId \/ ReadCpuId \/ ReadIdentity \/ ReadSecond
         \/ LookUp \/ NoIdentity \/ ReadFlashSize
  PROVE  TypeOK'
<1> USE DEF library, world, session
<1>1. LibraryTyped /\ WorldTyped /\ SessionTyped /\ pc \in Steps /\ result \in Results
  BY DEF TypeOK
<1>2. UNCHANGED <<library, world>>
  BY Zenon DEF AskCoreId, ReadCpuId, ReadIdentity, ReadSecond, LookUp, NoIdentity, ReadFlashSize,
     Goes, Fails
<1>3. LibraryTyped' /\ WorldTyped'
  BY Zenon, <1>1, <1>2 DEF LibraryTyped, WorldTyped
<1>4. pc' \in Steps /\ result' \in Results
  <2>1. /\ pc' \in {"idle", "cpu_id", "identity", "second", "look_up", "flash_size"}
        /\ result' = result \/ result' \in {"ok", "target_unknown", "target_refused"}
    BY DEF AskCoreId, ReadCpuId, ReadIdentity, ReadSecond, LookUp, NoIdentity, ReadFlashSize,
       Goes, Fails
  <2> QED
    BY <1>1, <2>1 DEF Steps, Results
<1>5. chip \in Chips
  BY <1>1 DEF WorldTyped
<1>6. ASSUME SessionTyped' PROVE TypeOK'
  BY Zenon, <1>3, <1>4, <1>6 DEF TypeOK
<1>7. CASE AskCoreId \/ NoIdentity
  BY Zenon, <1>1, <1>6, <1>7 DEF AskCoreId, NoIdentity, Goes, Fails, SessionTyped
<1>8. CASE ReadCpuId
  <2>1. UNCHANGED <<report, inDfu, told, raw, info>> /\ (cpu' = cpu \/ cpu' = chip.core)
    BY Zenon, <1>8 DEF ReadCpuId, Goes, Fails
  <2>2. cpu' \in Cores \cup {""}
    BY <1>1, <1>5, <2>1, ChipsTyped DEF SessionTyped
  <2> QED
    BY Zenon, <1>1, <1>6, <2>1, <2>2 DEF SessionTyped
<1>9. CASE ReadIdentity \/ ReadSecond
  <2>1. UNCHANGED <<report, inDfu, told, cpu, info>>
    BY Zenon, <1>9 DEF ReadIdentity, ReadSecond, Goes, Fails
  <2>2. raw' = raw \/ \E a \in Address : raw' \in {chip.holds[a], PartNumber(chip.holds[a])}
    <3>1. WhereIdentity(cpu) \in Address /\ {"H5", "JTAG_ID"} \subseteq Address
      BY DEF WhereIdentity, Address
    <3> QED
      BY <1>9, <3>1 DEF ReadIdentity, ReadSecond, Goes, Fails
  <2>3. raw' \in Nat
    <3>1. raw \in Nat /\ \A a \in Address : chip.holds[a] \in Nat
      BY Zenon, <1>1, <1>5, ChipsTyped DEF SessionTyped
    <3>2. \A a \in Address : PartNumber(chip.holds[a]) \in Nat
      BY <3>1 DEF PartNumber
    <3> QED
      BY Zenon, <2>2, <3>1, <3>2
  <2> QED
    BY Zenon, <1>1, <1>6, <2>1, <2>3 DEF SessionTyped
<1>10. \A id : Find(id) \in Description
  BY <1>1, FindTyped
<1>11. CASE LookUp
  <2>1. /\ UNCHANGED <<report, inDfu, told, cpu, raw>>
        /\ info' = [id |-> ChipId, name |-> Find(ChipId).name, flash |-> 0]
    BY Zenon, <1>11 DEF LookUp
  <2>2. ChipId \in Nat
    <3>1. raw \in Nat
      BY Zenon, <1>1 DEF SessionTyped
    <3>2. \A word \in Nat : DeviceId(word) \in Nat
      BY DEF DeviceId
    <3> QED
      BY <3>1, <3>2 DEF ChipId, IdF4
  <2>3. Find(ChipId).name \in Names \cup {""}
    BY <1>10 DEF Description
  <2>4. info' \in [id : Nat, name : Names \cup {""}, flash : Nat]
    BY <2>1, <2>2, <2>3
  <2> QED
    BY Zenon, <1>1, <1>6, <2>1, <2>4 DEF SessionTyped
<1>12. CASE ReadFlashSize
  <2>1. /\ UNCHANGED <<report, inDfu, told, cpu, raw>>
        /\ info' = info \/ info' = [info EXCEPT !.flash = FlashSizeFrom(Find(info.id))]
    BY Zenon, <1>12 DEF ReadFlashSize, Fails
  <2>2. FlashSizeFrom(Find(info.id)) \in Nat
    BY <1>10, FlashSizeTyped
  <2>3. info' \in [id : Nat, name : Names \cup {""}, flash : Nat]
    BY <1>1, <2>1, <2>2 DEF SessionTyped
  <2> QED
    BY Zenon, <1>1, <1>6, <2>1, <2>3 DEF SessionTyped
<1> QED
  BY <1>7, <1>8, <1>9, <1>11, <1>12

-----------------------------------------------------------------------------
(***************************************************************************)
(* What was found out so far.                                              *)
(***************************************************************************)
LibraryStep == \/ InitLibrary \/ OpenFile \/ RefuseLine \/ EndOfFile \/ EndOfDirectory
               \/ \E l \in Line : ReadLine(l)
ProgrammerStep == \/ Open \/ AskVersion \/ AskMode \/ ExitDfu
                  \/ \E hz \in Hertz : SetClock(hz) \/ ClockNotSet(hz)
ChipStep == AskCoreId \/ ReadCpuId \/ ReadIdentity \/ ReadSecond \/ NoIdentity
EndingStep == LookUp \/ ReadFlashSize

LEMMA StepsAre == Next => LibraryStep \/ ProgrammerStep \/ ChipStep \/ EndingStep
  BY Zenon DEF Next, LibraryStep, ProgrammerStep, ChipStep, EndingStep

(* Nothing is done before init, and a call has no result before its end.   *)
LEMMA OnceReadStep ==
  ASSUME TypeOK, OnceRead, Next
  PROVE  /\ OnceRead'
         /\ ~EndingStep => result' # "ok"
<1> USE DEF library, world, session
<1>1. CASE InitLibrary
  <2>1. started' /\ ~started /\ result' = result
    BY Zenon, <1>1 DEF InitLibrary
  <2>2. result' = "none"
    BY Zenon, <2>1 DEF OnceRead
  <2> QED
    BY Zenon, <2>1, <2>2 DEF OnceRead
<1>2. CASE Open
  <2>1. started' /\ (result' = "none" \/ (pc' = "idle" /\ result' = "not_found"))
    BY Zenon, <1>2 DEF Open
  <2>2. result' # "ok" /\ (pc' # "idle" => result' = "none")
    BY <2>1
  <2> QED
    BY Zenon, <2>1, <2>2 DEF OnceRead
<1>3. CASE ~InitLibrary /\ ~Open
  <2>1. pc # "idle" /\ started' = started
    <3>1. CASE LibraryStep
      <4>1. started' = started
        BY Zenon, <1>3, <3>1 DEF LibraryStep, OpenFile, RefuseLine, EndOfFile, EndOfDirectory,
           ReadLine
      <4>2. pc # "idle"
        BY <1>3, <3>1 DEF LibraryStep, OpenFile, RefuseLine, EndOfFile, EndOfDirectory, ReadLine
      <4> QED
        BY <4>1, <4>2
    <3>2. CASE ProgrammerStep
      <4>1. started' = started
        BY Zenon, <1>3, <3>2 DEF ProgrammerStep, AskVersion, AskMode, ExitDfu, SetClock,
           ClockNotSet, Goes, Fails
      <4>2. pc # "idle"
        BY <1>3, <3>2 DEF ProgrammerStep, AskVersion, AskMode, ExitDfu, SetClock,
           ClockNotSet, Goes, Fails
      <4> QED
        BY <4>1, <4>2
    <3>3. CASE ChipStep \/ EndingStep
      <4>1. started' = started
        BY Zenon, <3>3 DEF ChipStep, EndingStep, AskCoreId, ReadCpuId, ReadIdentity, ReadSecond,
           NoIdentity, LookUp, ReadFlashSize, Goes, Fails
      <4>2. pc # "idle"
        BY <3>3 DEF ChipStep, EndingStep, AskCoreId, ReadCpuId, ReadIdentity, ReadSecond,
           NoIdentity, LookUp, ReadFlashSize, Goes, Fails
      <4> QED
        BY <4>1, <4>2
    <3> QED
      BY <3>1, <3>2, <3>3, StepsAre
  <2>2. started' /\ result = "none"
    BY Zenon, <2>1 DEF OnceRead
  <2>3. pc' # "idle" => result' = "none"
    BY <1>3, <2>2 DEF Next, OpenFile, RefuseLine, EndOfFile, EndOfDirectory, ReadLine,
       AskVersion, AskMode, ExitDfu, SetClock, ClockNotSet, AskCoreId, ReadCpuId, ReadIdentity,
       ReadSecond, LookUp, NoIdentity, ReadFlashSize, Goes, Fails
  <2>4. ~EndingStep => result' # "ok"
    BY <1>3, <2>2 DEF Next, OpenFile, RefuseLine, EndOfFile, EndOfDirectory, ReadLine,
       AskVersion, AskMode, ExitDfu, SetClock, ClockNotSet, AskCoreId, ReadCpuId, ReadIdentity,
       ReadSecond, NoIdentity, EndingStep, Goes, Fails
  <2> QED
    BY Zenon, <2>2, <2>3, <2>4 DEF OnceRead
<1> QED
  BY <1>1, <1>2, <1>3

(* The report is of the programmer that was opened.                        *)
LEMMA ReportedStep ==
  ASSUME Reported, Next
  PROVE  Reported'
<1> USE DEF library, world, session
<1>1. CASE pc' \in {"idle", "directory", "file", "version"}
  BY <1>1 DEF Reported
<1>2. CASE AskVersion
  BY <1>2 DEF AskVersion, Goes, Fails, Reported
<1>3. CASE pc' \notin {"idle", "directory", "file", "version"} /\ ~AskVersion
  <2>1. /\ pc \notin {"idle", "directory", "file", "version"}
        /\ UNCHANGED <<report, firm>>
    BY <1>3 DEF Next, InitLibrary, OpenFile, RefuseLine, EndOfFile, EndOfDirectory, ReadLine,
       Open, AskMode, ExitDfu, SetClock, ClockNotSet, AskCoreId, ReadCpuId, ReadIdentity,
       ReadSecond, LookUp, NoIdentity, ReadFlashSize, Goes, Fails
  <2> QED
    BY Zenon, <2>1 DEF Reported
<1> QED
  BY <1>1, <1>2, <1>3

(* A V3 is told what it lists.                                             *)
LEMMA ToldStep ==
  ASSUME TypeOK, ToldAListedRate, Next
  PROVE  ToldAListedRate'
<1> USE DEF library, world, session
<1>1. CASE Open
  <2>1. told'.unit # "kHz"
    BY <1>1 DEF Open, NotTold
  <2> QED
    BY <2>1 DEF ToldAListedRate
<1>2. ASSUME NEW hz \in Hertz, SetClock(hz) PROVE ToldAListedRate'
  <2>1. /\ listing' = listing /\ told' = ClockFor(report, listing, hz)
        /\ told'.unit \notin {"not_supported", "not_offered"}
    BY Zenon, <1>2 DEF SetClock, Goes
  <2>2. told'.unit = "kHz" => told' = SetClockV3(listing, hz)
    BY Zenon, <2>1, ClockTyped
  <2>3. listing \in Listings \cup {<<>>}
    BY DEF TypeOK, WorldTyped
  <2> QED
    BY <2>1, <2>2, <2>3, TellsAListedRate DEF ToldAListedRate
<1>3. CASE ~Open /\ ~\E hz \in Hertz : SetClock(hz)
  <2>1. UNCHANGED <<told, listing>>
    BY Zenon, <1>3 DEF Next, InitLibrary, OpenFile, RefuseLine, EndOfFile, EndOfDirectory,
       ReadLine, AskVersion, AskMode, ExitDfu, ClockNotSet, AskCoreId, ReadCpuId, ReadIdentity,
       ReadSecond, LookUp, NoIdentity, ReadFlashSize, Goes, Fails
  <2> QED
    BY Zenon, <2>1 DEF ToldAListedRate
<1> QED
  BY <1>1, <1>2, <1>3

-----------------------------------------------------------------------------
(***************************************************************************)
(* The database.                                                           *)
(***************************************************************************)
LEMMA KeptStep ==
  ASSUME LibraryTyped, Kept, Next
  PROVE  Kept'
<1> USE DEF library, world, session
<1>1. CASE EndOfFile /\ Whole(text)
  <2>1. chips' = Added(text) /\ newest' = [newest EXCEPT ![text.id] = text]
    BY Zenon, <1>1 DEF EndOfFile
  <2>2. text.id \in Ids /\ newest \in [Ids -> Description]
    BY <1>1 DEF LibraryTyped, Description, Whole
  <2>3. newest'[text.id] = text /\ \A id \in Ids \ {text.id} : newest'[id] = newest[id]
    BY <2>1, <2>2
  <2>4. Len(chips) \in Nat /\ DOMAIN chips = 1 .. Len(chips)
    BY LenProperties DEF LibraryTyped
  <2>5. CASE \E i \in DOMAIN chips : chips[i].id = text.id
    <3>1. chips' = [i \in DOMAIN chips |-> IF chips[i].id = text.id THEN text ELSE chips[i]]
      BY Zenon, <2>1, <2>5 DEF Added
    <3>2. /\ DOMAIN chips' = DOMAIN chips
          /\ \A i \in DOMAIN chips :
               /\ chips'[i].id = chips[i].id
               /\ chips[i].id = text.id => chips'[i] = text
               /\ chips[i].id # text.id => chips'[i] = chips[i]
      BY <3>1
    <3> QED
      BY <2>2, <2>3, <2>5, <3>2 DEF Kept
  <2>6. CASE ~\E i \in DOMAIN chips : chips[i].id = text.id
    <3>1. chips' = Append(chips, text)
      BY Zenon, <2>1, <2>6 DEF Added
    <3>2. /\ DOMAIN chips' = DOMAIN chips \cup {Len(chips) + 1}
          /\ Len(chips) + 1 \notin DOMAIN chips
          /\ chips'[Len(chips) + 1] = text
          /\ \A i \in DOMAIN chips : chips'[i] = chips[i]
      BY <2>4, <3>1 DEF LibraryTyped
    <3> QED
      BY <2>2, <2>3, <2>6, <3>2 DEF Kept
  <2> QED
    BY <2>5, <2>6
<1>2. CASE ~(EndOfFile /\ Whole(text))
  <2>1. UNCHANGED <<chips, newest>>
    BY Zenon, <1>2 DEF Next, InitLibrary, OpenFile, RefuseLine, EndOfFile, EndOfDirectory,
       ReadLine, Open, AskVersion, AskMode, ExitDfu, SetClock, ClockNotSet, AskCoreId, ReadCpuId,
       ReadIdentity, ReadSecond, LookUp, NoIdentity, ReadFlashSize, Goes, Fails
  <2> QED
    BY Zenon, <2>1 DEF Kept
<1> QED
  BY <1>1, <1>2

-----------------------------------------------------------------------------
(***************************************************************************)
(* The identity.                                                           *)
(***************************************************************************)
(* chip_identity.cpp: the register a core is asked at first is empty or    *)
(* says which chip it is, and so is the second where there is one.         *)
LEMMA RegistersName ==
  ASSUME chip \in Chips, chip.core # "not_ARM"
  PROVE  LET Says(r) == (IF DeviceId(r) = IdF2 /\ chip.core = "M4" THEN IdF4 ELSE DeviceId(r))
                           = chip.id
             first == chip.holds[WhereIdentity(chip.core)]
             second == IF chip.core = "M33" THEN chip.holds["H5"]
                       ELSE PartNumber(chip.holds["JTAG_ID"])
         IN  /\ first = 0 \/ Says(first)
             /\ first = 0 /\ chip.core \in {"M0", "M0+", "M33"} => second = 0 \/ Says(second)
<1>1. \A register : \A word : \A a \in Address :
        At(register, word)[a] = IF a = register THEN word ELSE 0
  BY DEF At
<1>2. \A dev \in 0 .. 4095 : DeviceId(IdCode(dev)) = dev
  BY DEF DeviceId, IdCode
<1>3. PartNumber(0) = 0 /\ DeviceId(PartNumber(JtagId(32))) = 32
  BY DEF DeviceId, PartNumber, JtagId
<1>4. {"H7", "M0", "L5", "H5", "JTAG_ID", "default"} = Address
  BY DEF Address
<1> QED
  BY <1>1, <1>2, <1>3, <1>4 DEF Chips, WhereIdentity, IdF2, IdF4

LEMMA LookingStep ==
  ASSUME TypeOK, Looking, Named, Kept, Next
  PROVE  Looking' /\ Named'
<1> USE DEF library, world, session
<1>1. chip \in Chips
  BY DEF TypeOK, WorldTyped
<1>2. CASE LibraryStep \/ ProgrammerStep
  <2>1. pc' \in {"idle", "directory", "file", "version", "mode", "exit_dfu", "clock", "core_id"}
    BY <1>2 DEF LibraryStep, ProgrammerStep, InitLibrary, OpenFile, RefuseLine, EndOfFile,
       EndOfDirectory, ReadLine, Open, AskVersion, AskMode, ExitDfu, SetClock, ClockNotSet,
       Goes, Fails
  <2> QED
    BY <2>1 DEF Looking, Named
<1>3. CASE AskCoreId \/ NoIdentity
  <2>1. pc' \in {"idle", "cpu_id"}
    BY <1>3 DEF AskCoreId, NoIdentity, Goes, Fails
  <2> QED
    BY <2>1 DEF Looking, Named
<1>4. CASE pc' = "idle"
  BY <1>4 DEF Looking, Named
<1>5. CASE ReadCpuId /\ pc' # "idle"
  BY <1>5 DEF ReadCpuId, Goes, Fails, Looking, Named
<1>6. CASE ReadIdentity /\ pc' # "idle"
  <2>1. /\ raw' = chip.holds[WhereIdentity(cpu)] /\ cpu' = cpu /\ chip' = chip
        /\ pc' = IF raw' = 0 /\ cpu \in {"M0", "M0+", "M33"} THEN "second" ELSE "look_up"
        /\ cpu = chip.core /\ chip.core # "not_ARM"
    BY <1>6 DEF ReadIdentity, Goes, Fails, Looking
  <2>2. raw' = 0 \/ ChipId' = chip.id
    BY <1>1, <2>1, RegistersName DEF ChipId
  <2>3. WhereIdentity(cpu)' = WhereIdentity(cpu)
    BY <2>1 DEF WhereIdentity
  <2> QED
    BY <2>1, <2>2, <2>3 DEF Looking, Named
<1>7. CASE ReadSecond /\ pc' # "idle"
  <2>1. /\ raw' = IF cpu = "M33" THEN chip.holds["H5"] ELSE PartNumber(chip.holds["JTAG_ID"])
        /\ cpu' = cpu /\ chip' = chip /\ pc' = "look_up"
        /\ cpu = chip.core /\ chip.core # "not_ARM"
        /\ chip.holds[WhereIdentity(cpu)] = 0 /\ cpu \in {"M0", "M0+", "M33"}
    BY <1>7 DEF ReadSecond, Goes, Fails, Looking
  <2>2. raw' = 0 \/ ChipId' = chip.id
    BY <1>1, <2>1, RegistersName DEF ChipId
  <2> QED
    BY <2>1, <2>2 DEF Looking, Named
<1>8. CASE LookUp /\ pc' # "idle"
  <2>1. /\ pc' = "flash_size" /\ pc = "look_up" /\ raw # 0 /\ UNCHANGED <<chips, chip>>
        /\ info' = [id |-> ChipId, name |-> Find(ChipId).name, flash |-> 0]
    BY <1>8 DEF LookUp, Goes
  <2>2. info'.id = ChipId /\ info'.name = Find(ChipId).name /\ ChipId = chip.id
    BY <2>1 DEF Looking
  <2>3. \A id : Find(id)' = Find(id)
    BY <2>1 DEF Find
  <2> QED
    BY <2>1, <2>2, <2>3 DEF Looking, Named
<1>9. ReadFlashSize => pc' = "idle"
  BY DEF ReadFlashSize, Fails
<1> QED
  BY <1>2, <1>3, <1>4, <1>5, <1>6, <1>7, <1>8, <1>9, StepsAre DEF ChipStep, EndingStep

(* What is answered at the end is the chip's.                              *)
LEMMA EndingIsRight ==
  ASSUME TypeOK, Looking, Named, Kept, EndingStep, result # "ok"
  PROVE  NamesTheChip' /\ DescribedByItsFile'
<1> USE DEF library, world, session
<1> DEFINE d(id) == IF id \in Ids THEN newest[id] ELSE Nothing
<1>1. UNCHANGED <<newest, chip>>
  BY Zenon DEF EndingStep, LookUp, ReadFlashSize, Goes, Fails
<1>2. \A id : Find(id) = d(id)
  BY FindIs DEF TypeOK
<1>3. CASE LookUp /\ result' = "ok"
  <2>1. /\ pc = "look_up" /\ raw # 0 /\ Find(ChipId).sizeReg = "none"
        /\ info' = [id |-> ChipId, name |-> Find(ChipId).name, flash |-> 0]
    BY <1>3 DEF LookUp, Goes
  <2>2. ChipId = chip.id
    BY <2>1 DEF Looking
  <2>3. NamesTheChip'
    BY <1>1, <2>1, <2>2 DEF NamesTheChip, Described
  <2>4. info'.name = d(ChipId).name /\ d(ChipId).sizeReg = "none" /\ info'.flash = 0
        /\ info'.id = ChipId
    BY <1>2, <2>1
  <2>5. DescribedByItsFile'
    BY <1>1, <2>4 DEF DescribedByItsFile
  <2> QED
    BY <2>3, <2>5
<1>4. CASE ReadFlashSize /\ result' = "ok"
  <2>1. /\ pc = "flash_size"
        /\ info' = [info EXCEPT !.flash = FlashSizeFrom(Find(info.id))]
    BY <1>4 DEF ReadFlashSize, Fails
  <2>2. info \in [id : Nat, name : Names \cup {""}, flash : Nat]
    BY DEF TypeOK, SessionTyped
  <2>3. info'.id = info.id /\ info'.name = info.name /\ info'.flash = FlashSizeFrom(Find(info.id))
    BY <2>1, <2>2
  <2>4. NamesTheChip'
    BY <1>1, <2>1, <2>3 DEF Looking, NamesTheChip, Described
  <2>5. info'.name = d(info.id).name /\ info'.flash = FlashSizeFrom(d(info.id))
    BY <1>2, <2>1, <2>3 DEF Named
  <2>6. DescribedByItsFile'
    BY <1>1, <2>3, <2>5 DEF DescribedByItsFile, FlashSizeFrom
  <2> QED
    BY <2>4, <2>6
<1>5. CASE result' # "ok"
  BY <1>5 DEF NamesTheChip, DescribedByItsFile, Described
<1> QED
  BY <1>3, <1>4, <1>5 DEF EndingStep

-----------------------------------------------------------------------------
(***************************************************************************)
(* The theorems.                                                           *)
(***************************************************************************)
LEMMA InvInit == Init => Inv
<1> SUFFICES ASSUME Init PROVE Inv
  OBVIOUS
<1>1. OnceRead /\ Reported /\ Looking /\ Named /\ NamesTheChip /\ DescribedByItsFile
  BY DEF Init, OnceRead, Reported, Looking, Named, NamesTheChip, DescribedByItsFile, Described
<1>2. Kept
  <2>1. chips = <<>> /\ newest = [i \in Ids |-> Nothing]
    BY Zenon DEF Init
  <2>2. DOMAIN chips = {} /\ \A i \in Ids : newest[i] = Nothing
    BY <2>1
  <2> QED
    BY <2>2 DEF Kept
<1>3. ToldAListedRate
  BY DEF Init, ToldAListedRate, NotTold
<1> QED
  BY Zenon, <1>1, <1>2, <1>3, TypeInit DEF Inv

LEMMA InvStep == Inv /\ [Next]_vars => Inv'
<1> SUFFICES ASSUME Inv, [Next]_vars PROVE Inv'
  OBVIOUS
<1>1. /\ TypeOK /\ OnceRead /\ Reported /\ Looking /\ Kept /\ Named
      /\ NamesTheChip /\ DescribedByItsFile /\ ToldAListedRate
  BY Zenon DEF Inv
<1>2. CASE UNCHANGED vars
  <2>1. UNCHANGED <<started, text, chips, newest, firm, listing, chip, pc, report, inDfu, told,
                    cpu, raw, info, result>>
    BY Zenon, <1>2 DEF vars, library, world, session
  <2>2. TypeOK' /\ OnceRead'
    BY Zenon, <1>1, <2>1 DEF TypeOK, LibraryTyped, WorldTyped, SessionTyped, OnceRead
  <2>3. Reported' /\ Looking' /\ Kept'
    BY Zenon, <1>1, <2>1 DEF Reported, Looking, Kept, ChipId, WhereIdentity
  <2>4. Named' /\ NamesTheChip' /\ DescribedByItsFile' /\ ToldAListedRate'
    <3>1. \A id : Find(id)' = Find(id)
      BY <2>1 DEF Find
    <3>2. Named'
      BY <1>1, <2>1, <3>1 DEF Named
    <3>3. NamesTheChip' /\ DescribedByItsFile'
      BY <1>1, <2>1 DEF NamesTheChip, DescribedByItsFile, Described
    <3> QED
      BY Zenon, <1>1, <2>1, <3>2, <3>3 DEF ToldAListedRate
  <2> QED
    BY Zenon, <2>2, <2>3, <2>4 DEF Inv
<1>3. CASE Next
  <2>1. TypeOK'
    BY Zenon, <1>1, <1>3, StepsAre, LibraryTypes, ProgrammerTypes, ChipTypes
       DEF LibraryStep, ProgrammerStep, ChipStep, EndingStep
  <2>2. OnceRead' /\ Reported' /\ ToldAListedRate' /\ Looking' /\ Named'
    BY Zenon, <1>1, <1>3, OnceReadStep, ReportedStep, ToldStep, LookingStep
  <2>3. Kept'
    BY Zenon, <1>1, <1>3, KeptStep DEF TypeOK
  <2>4. NamesTheChip' /\ DescribedByItsFile'
    <3>1. CASE EndingStep
      <4>1. result # "ok"
        BY <1>1, <3>1 DEF EndingStep, LookUp, ReadFlashSize, Goes, Fails, OnceRead
      <4> QED
        BY Zenon, <1>1, <3>1, <4>1, EndingIsRight
    <3>2. CASE ~EndingStep
      <4>1. result' # "ok"
        BY Zenon, <1>1, <1>3, <3>2, OnceReadStep
      <4> QED
        BY Zenon, <4>1 DEF NamesTheChip, DescribedByItsFile, Described
    <3> QED
      BY <3>1, <3>2
  <2> QED
    BY Zenon, <2>1, <2>2, <2>3, <2>4 DEF Inv
<1> QED
  BY <1>2, <1>3

(* The registry, the programmer, the chip and what was found of them keep  *)
(* their types, and with them what parse_chip_description, the exchanges   *)
(* of open_programmer and those of read_the_chip pass on.                  *)
THEOREM TypesHold == Spec => []TypeOK
<1>1. Inv => TypeOK
  BY DEF Inv
<1> QED
  BY InvInit, InvStep, <1>1, PTL DEF Spec

(* Whatever firmware there may be, its report has its own version, the     *)
(* command set it has and the trace (protocol.cpp:83-151).                 *)
THEOREM ReportsAreRight == Spec => []ReportIsTheProgrammers
<1>1. Inv => ReportIsTheProgrammers
  <2> SUFFICES ASSUME Inv PROVE ReportIsTheProgrammers
    OBVIOUS
  <2>1. firm \in Firmware /\ Reported
    BY FirmwaresAreVersions DEF Inv, TypeOK, WorldTyped
  <2> QED
    BY <2>1, ReportAgrees DEF Reported, ReportIsTheProgrammers
<1> QED
  BY InvInit, InvStep, <1>1, PTL DEF Spec

(* Whatever rates a V3 lists that do not wrap in hertz, what it is told is *)
(* one of them (programmer_v3.cpp:107-152).                                *)
THEOREM ListedRatesAreTold == Spec => []ToldAListedRate
<1>1. Inv => ToldAListedRate
  BY DEF Inv
<1> QED
  BY InvInit, InvStep, <1>1, PTL DEF Spec

(* Whichever exchanges fail, a chip that is described is given its own     *)
(* identifier (chip_identity.cpp:124-248).                                 *)
THEOREM TheChipIsNamed == Spec => []NamesTheChip
<1>1. Inv => NamesTheChip
  BY DEF Inv
<1> QED
  BY InvInit, InvStep, <1>1, PTL DEF Spec

(* However many files there are, and wherever they break off, a chip is    *)
(* described by the last whole one about it (chip_database.h:43-47).       *)
THEOREM TheLastFileDescribes == Spec => []DescribedByItsFile
<1>1. Inv => DescribedByItsFile
  BY DEF Inv
<1> QED
  BY InvInit, InvStep, <1>1, PTL DEF Spec
=============================================================================
