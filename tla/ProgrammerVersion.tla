------------------------- MODULE ProgrammerVersion -------------------------
(***************************************************************************)
(* What a programmer's version says: protocol.cpp, with the clock rates of *)
(* programmer_v2.cpp and programmer_v3.cpp, which depend on it.            *)
(***************************************************************************)
EXTENDS Naturals, Sequences

CONSTANT Word  \* 2^32: where a rate in hertz wraps

ASSUME WordIsNat == Word \in Nat \ {0}

(* A revision is at most what its bits hold: 4, 6 and 6 before the V3. *)
Version == [major : 0 .. 15, jtag : 0 .. 63, swim : 0 .. 63]

Firmware == [generation : {"Unknown", "V1", "V2", "V2_1", "V3"}, version : Version]

(* version_reply_size: the reply's fields, packed into two bytes before V3. *)
Packed(v) == <<16 * v.major + v.jtag \div 4, 64 * (v.jtag % 4) + v.swim>>

Plain(v) == <<v.major, v.swim, v.jtag>>

Reply(firmware) ==
  IF firmware.generation = "V3" THEN Plain(firmware.version) ELSE Packed(firmware.version)

(* Faulty: the low bits of jtag are left where they are. *)
UnpackedShort(reply) ==
  [major |-> reply[1] \div 16, jtag |-> (reply[1] % 16) * 4, swim |-> reply[2] % 64]

Unpacked(reply) ==
  [major |-> reply[1] \div 16,
   jtag |-> (reply[1] % 16) * 4 + reply[2] \div 64,
   swim |-> reply[2] % 64]

(* A V1 speaks the V2 commands from J12; a V2 has trace from J13, and the   *)
(* status command that reports an address from J15.                         *)
V1SpeaksApiV2From == 12
V2TraceFrom == 13
V2LastRwStatus2From == 15

MaxTraceV2 == 2000000
MaxTraceV3 == 24000000

OldCapabilities(v) ==
  IF v.major = 1 THEN {}
  ELSE {c \in {"Trace", "LastRwStatus2"} :
          v.jtag >= IF c = "Trace" THEN V2TraceFrom ELSE V2LastRwStatus2From}

ReportOld(v) ==
  [version |-> v,
   api |-> IF v.major = 1 /\ v.jtag < V1SpeaksApiV2From THEN "V1" ELSE "V2",
   capabilities |-> OldCapabilities(v),
   traceRate |-> IF v.major # 1 /\ v.jtag >= V2TraceFrom THEN MaxTraceV2 ELSE 0]

ReportV3(reply) ==
  [version |-> [major |-> reply[1], swim |-> reply[2], jtag |-> reply[3]],
   api |-> "V3",
   capabilities |-> {"Trace", "LastRwStatus2"},
   traceRate |-> MaxTraceV3]

ParseVersion(generation, reply) ==
  IF generation = "V3" THEN ReportV3(reply) ELSE ReportOld(Unpacked(reply))

-----------------------------------------------------------------------------
(* Clock rates: what the programmer is told when hz is asked for.          *)

ClockSettableFrom == 22

(* Fixed in the firmware, in hertz; it is told the divisor. *)
ClockRatesV2 ==
  {4000000, 1800000, 1200000, 950000, 480000, 240000, 125000, 100000, 50000, 25000,
   15000, 5000}

SetClockV2(version, hz) ==
  LET wanted == IF hz = 0 THEN 1800000 ELSE hz
  IN IF version.major # 2 \/ version.jtag < ClockSettableFrom
     THEN [unit |-> "not_supported", rate |-> 0]
     ELSE IF wanted \notin ClockRatesV2 THEN [unit |-> "not_offered", rate |-> 0]
     ELSE [unit |-> "divisor", rate |-> wanted]

(* kMaxRates: what one listing holds. *)
MaxRates == 10

Fits(khz) == khz \in Nat /\ 1000 * khz < Word

(* Listed in kilohertz, a zero being padding, and offered in hertz. *)
ClockRatesV3(listing) ==
  {1000 * listing[i] % Word : i \in {i \in DOMAIN listing : i <= MaxRates /\ listing[i] # 0}}

(* Faulty: told in the unit it is asked in. *)
SetClockInHertz(listing, hz) ==
  LET wanted == IF hz = 0 THEN 1000000 ELSE hz
  IN IF wanted \notin ClockRatesV3(listing) THEN [unit |-> "not_offered", rate |-> 0]
     ELSE [unit |-> "kHz", rate |-> wanted]

SetClockV3(listing, hz) ==
  LET wanted == IF hz = 0 THEN 1000000 ELSE hz
  IN IF wanted \notin ClockRatesV3(listing) THEN [unit |-> "not_offered", rate |-> 0]
     ELSE [unit |-> "kHz", rate |-> wanted \div 1000]

ClockFor(report, listing, hz) ==
  IF report.api = "V3" THEN SetClockV3(listing, hz)
  ELSE IF report.api = "V2" THEN SetClockV2(report.version, hz)
  ELSE [unit |-> "not_supported", rate |-> 0]

=============================================================================
