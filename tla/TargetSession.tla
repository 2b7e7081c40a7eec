--------------------------- MODULE TargetSession ---------------------------
(***************************************************************************)
(* What a session does to the target at the other end of the cable:        *)
(* read_the_chip of device.cpp with connect_to_target of connect.cpp,      *)
(* command by command, then either the life of the device create() made    *)
(* or the look find() was taking, and ~Device.  The programmer and the     *)
(* board are external, modelled from what these commands rely on: the      *)
(* reset line, the core, the reset vector catch of DEMCR, the sticky       *)
(* S_RESET_ST bit that reading DHCSR clears, and the access port the CPU   *)
(* is on.  One session follows another on the same board, so what one      *)
(* leaves behind the next one finds.                                       *)
(*                                                                         *)
(* Every command may fail, and one that failed may have taken effect all   *)
(* the same: it may be the answer that was lost.  A command through an     *)
(* access port with no CPU behind it succeeds and does nothing, and a read *)
(* there answers anything (connect.cpp:44-47), except that no such answer  *)
(* names an ARM core (chip_identity.cpp:107-112).                          *)
(***************************************************************************)

VARIABLES
  board,     \* [pins, wired, cpuAt], fixed: see Boards
  nrst,      \* whether the programmer drives the reset line low
  core,      \* what the core is doing
  catch,     \* DEMCR: stop the core as it comes out of reset
  sticky,    \* DHCSR.S_RESET_ST: reset since it was last read
  dbg,       \* whether the programmer is in debug mode
  port,      \* the access port the programmer object uses
  mode,      \* DeviceOptions::reset
  look,      \* whether this is one of find()'s looks
  pc,        \* the next command of the session, or how it ended
  found,     \* history: what was on when the session began: see Switches
  wasReset,  \* history: the core has been reset in this session
  faults,    \* history: the commands that failed in this session
  asked      \* history: what the caller has switched on through the device

target == <<nrst, core, catch, sticky, dbg, wasReset>>
session == <<board, mode, look, found>>
vars == <<target, session, port, pc, faults, asked>>

(* pins: a V2 or later, which can drive nRST and select an access port.  *)
(* wired: nRST reaches the core.  cpuAt: the access port the CPU is on.  *)
Boards == [pins : BOOLEAN, wired : BOOLEAN, cpuAt : {0, 1}]

ResetMode == {"HotPlug", "UnderReset", "Normal"}

Core == {"running", "halted", "vector", "held"}

(* No session: none yet, destroyed, passed over by find(), or failed. *)
Rest == {"idle", "away", "passed_over", "failed"}

(* reset_the_target and connect_under_reset. *)
Pulse == {"clear", "pin_low", "pin_high", "reset", "look_for_reset", "ask_for_reset"}
Vector == {"hold", "halt", "let_go", "catching", "look_at_reset", "arm",
           "reset_to_vector", "disarm"}

Commands == {"set_clock", "enter_debug", "probe", "select_1", "probe_1",
             "select_0", "identify", "compare", "exit"} \cup Pulse \cup Vector

Living == {"live", "used"}

Faults == {"clock", "enter", "read", "select", "clear", "low", "high",
           "reset", "halt", "arm", "aircr", "disarm", "exit", "use"}

Reaches == port = board.cpuAt

Stopped == core \in {"halted", "vector"}

(* What a session may find, and leave behind. *)
Switches == {"nrst", "catch", "dbg", "stopped"}
On == {s \in Switches :
         \/ s = "nrst" /\ nrst
         \/ s = "catch" /\ catch
         \/ s = "dbg" /\ dbg
         \/ s = "stopped" /\ Stopped}

Init ==
  /\ board \in Boards
  /\ nrst = FALSE
  /\ core \in {"running", "halted"}
  /\ catch = FALSE
  /\ sticky \in BOOLEAN
  /\ dbg \in BOOLEAN
  /\ port = 0
  /\ mode = "Normal"
  /\ look = FALSE
  /\ pc = "idle"
  /\ found = On
  /\ wasReset = FALSE
  /\ faults = {}
  /\ asked = {}

-----------------------------------------------------------------------------
(* What the commands do to the target, when they reach it.                 *)

(* Any reset of the core; one held by the line stays held. *)
ResetCore ==
  /\ core' = IF core = "held" THEN "held" ELSE IF catch THEN "vector" ELSE "running"
  /\ sticky' = TRUE
  /\ wasReset' = TRUE
  /\ UNCHANGED <<nrst, catch, dbg>>

PulledLow ==
  /\ nrst' = TRUE
  /\ IF board.wired
     THEN core' = "held" /\ sticky' = TRUE /\ wasReset' = TRUE
     ELSE UNCHANGED <<core, sticky, wasReset>>
  /\ UNCHANGED <<catch, dbg>>

PulledHigh ==
  /\ nrst' = FALSE
  /\ core' = IF core # "held" THEN core ELSE IF catch THEN "vector" ELSE "running"
  /\ UNCHANGED <<catch, sticky, dbg, wasReset>>

(* A write to DHCSR; halting stops neither a core held nor one stopped. *)
Halts ==
  /\ core' = IF Reaches /\ core = "running" THEN "halted" ELSE core
  /\ UNCHANGED <<nrst, catch, sticky, dbg, wasReset>>

Runs ==
  /\ core' = IF Reaches /\ core # "held" THEN "running" ELSE core
  /\ UNCHANGED <<nrst, catch, sticky, dbg, wasReset>>

StickyRead ==
  /\ sticky' = (sticky /\ ~Reaches)
  /\ UNCHANGED <<nrst, core, catch, dbg, wasReset>>

AskedToReset == IF Reaches THEN ResetCore ELSE UNCHANGED target

(* The programmer's own reset command does not go through our access port. *)
DebugUnitReset == ResetCore \/ (board.cpuAt = 1 /\ UNCHANGED target)

CatchSet(armed) ==
  /\ catch' = IF Reaches THEN armed ELSE catch
  /\ UNCHANGED <<nrst, core, sticky, dbg, wasReset>>

DebugEntered ==
  /\ dbg' = TRUE
  /\ UNCHANGED <<nrst, core, catch, sticky, wasReset>>

DebugLeft ==
  /\ dbg' = FALSE
  /\ core' = IF core = "held" THEN "held" ELSE "running"
  /\ UNCHANGED <<nrst, catch, sticky, wasReset>>

-----------------------------------------------------------------------------
(* The ways a command can go.                                              *)

Goes(here, next) ==
  /\ pc = here
  /\ pc' = next
  /\ UNCHANGED <<session, port>>

Succeeds(here, next, Effect) ==
  /\ Goes(here, next)
  /\ Effect
  /\ UNCHANGED faults

Blamed(what) == faults' = faults \cup {what}

(* The error is reported, and the effect may be there all the same. *)
Fails(here, what, next, Effect) ==
  /\ Goes(here, next)
  /\ Effect \/ UNCHANGED target
  /\ Blamed(what)

Command(here, what, next, otherwise, Effect) ==
  \/ Succeeds(here, next, Effect)
  \/ Fails(here, what, otherwise, Effect)

(* reset_pin: NotSupported on a V1, before anything is sent. *)
DrivePin(here, what, next, otherwise, Effect) ==
  \/ board.pins /\ Command(here, what, next, otherwise, Effect)
  \/ ~board.pins /\ Goes(here, otherwise) /\ UNCHANGED <<target, faults>>

(* read_cpu_id, alone or first in read_chip_id. *)
NamesACore(here, next, otherwise) ==
  \/ Reaches /\ Succeeds(here, next, UNCHANGED target)
  \/ Reaches /\ Fails(here, "read", otherwise, UNCHANGED target)
  \/ ~Reaches /\ Goes(here, otherwise) /\ UNCHANGED <<target, faults>>

(* saw_reset: a read that failed saw nothing. *)
SawReset(here, yes, no) ==
  \/ (sticky \/ ~Reaches) /\ Succeeds(here, yes, StickyRead)
  \/ (~sticky \/ ~Reaches) /\ Succeeds(here, no, StickyRead)
  \/ Fails(here, "read", no, StickyRead)

-----------------------------------------------------------------------------
(* read_the_chip, up to connecting.                                        *)

(* The object is new, and uses access port 0 whatever the last one used. *)
Begin(m, looking) ==
  /\ pc \in Rest
  /\ pc' = "set_clock"
  /\ mode' = m
  /\ look' = looking
  /\ port' = 0
  /\ found' = On
  /\ wasReset' = FALSE
  /\ faults' = {}
  /\ asked' = {}
  /\ UNCHANGED <<board, nrst, core, catch, sticky, dbg>>

Create == \E m \in ResetMode : Begin(m, FALSE)

(* Faulty: find() looks with the options a device is created with. *)
FindWithDefaults == Begin("Normal", TRUE)

(* find() looks without resetting, whatever the default is. *)
Find == Begin("HotPlug", TRUE)

(* A rate that could not be set is an error only for a caller who named one. *)
SetClock ==
  /\ \/ Succeeds("set_clock", "enter_debug", UNCHANGED target)
     \/ ~look /\ Fails("set_clock", "clock", "failed", UNCHANGED target)

EnterDebug ==
  Command("enter_debug", "enter", "probe", "failed", DebugEntered)

-----------------------------------------------------------------------------
(* probe_access_port, and what the reset mode goes on with.                *)

Sequence ==
  IF mode = "HotPlug" THEN "identify" ELSE IF mode = "UnderReset" THEN "hold" ELSE "clear"

(* Faulty: hot plugging goes straight on, without probing. *)
ProbeUnlessHotPlug ==
  \/ mode # "HotPlug" /\ NamesACore("probe", Sequence, "select_1")
  \/ mode = "HotPlug" /\ Succeeds("probe", Sequence, UNCHANGED target)

Probe == NamesACore("probe", Sequence, "select_1")

Selects(here, ap, next) ==
  \/ /\ board.pins
     /\ pc = here
     /\ pc' = next
     /\ port' = ap
     /\ UNCHANGED <<target, session, faults>>
  \/ board.pins /\ Fails(here, "select", Sequence, UNCHANGED target)

(* NotSupported on a V1, which is not an error here. *)
SelectOne ==
  \/ Selects("select_1", 1, "probe_1")
  \/ ~board.pins /\ Goes("select_1", Sequence) /\ UNCHANGED <<target, faults>>

ProbeOne == NamesACore("probe_1", Sequence, "select_0")

(* Faulty: the port is left at 1, where there was nothing either. *)
SelectNothing == Succeeds("select_0", Sequence, UNCHANGED target)

SelectZero == Selects("select_0", 0, Sequence)

-----------------------------------------------------------------------------
(* ResetMode::Normal: reset_the_target.                                    *)

(* Faulty: what the bit says of earlier resets is not cleared. *)
NothingCleared == Succeeds("clear", "pin_low", UNCHANGED target)

ClearSticky == Command("clear", "clear", "pin_low", "pin_low", StickyRead)

PinLow == DrivePin("pin_low", "low", "pin_high", "reset", PulledLow)

(* Faulty: the pulse has no end. *)
PinStaysLow == Succeeds("pin_high", "reset", UNCHANGED target)

PinHigh == Command("pin_high", "high", "reset", "reset", PulledHigh)

Reset == Command("reset", "reset", "look_for_reset", "look_for_reset", DebugUnitReset)

LookForReset == SawReset("look_for_reset", "identify", "ask_for_reset")

(* Faulty: the fall back is the one of the other mode, vector catch and all. *)
AskForVector == Succeeds("ask_for_reset", "arm", UNCHANGED target)

AskForReset == Command("ask_for_reset", "aircr", "identify", "failed", AskedToReset)

-----------------------------------------------------------------------------
(* ResetMode::UnderReset: connect_under_reset.                             *)

Hold == DrivePin("hold", "low", "halt", "failed", PulledLow)

HaltHeld == Command("halt", "halt", "let_go", "let_go", Halts)

LetGo == Command("let_go", "high", "catching", "failed", PulledHigh)

(* Halting again and again until the window closes, come what may. *)
HaltAgain == Command("catching", "halt", "catching", "catching", Halts)

WindowCloses == Succeeds("catching", "look_at_reset", UNCHANGED target)

LookAtReset == SawReset("look_at_reset", "arm", "arm")

(* Faulty: a refusal to arm is ignored. *)
ArmHopefully ==
  Command("arm", "arm", "reset_to_vector", "reset_to_vector", CatchSet(TRUE))

Arm == Command("arm", "arm", "reset_to_vector", "failed", CatchSet(TRUE))

ResetToVector ==
  Command("reset_to_vector", "aircr", "disarm", "failed", AskedToReset)

(* Faulty: the catch is left for the caller to clear. *)
NotDisarmed == Succeeds("disarm", "identify", UNCHANGED target)

Disarm == Command("disarm", "disarm", "identify", "identify", CatchSet(FALSE))

-----------------------------------------------------------------------------
(* The chip's identity and flash size, and what becomes of the session.    *)

Identify ==
  NamesACore("identify", IF look THEN "compare" ELSE "live", "failed")

(* find(): a chip the filter does not want is dropped where it stands. *)
Compare ==
  \/ Succeeds("compare", "exit", UNCHANGED target)
  \/ Succeeds("compare", "passed_over", UNCHANGED target)

(* Switched on counts from the moment it may have been, and off once it was. *)
Asks(switch, on, Effect) ==
  \E here \in Living :
    \/ /\ Succeeds(here, "used", Effect)
       /\ asked' = IF on THEN asked \cup {switch} ELSE asked \ {switch}
    \/ /\ Fails(here, "use", "used", Effect)
       /\ asked' = IF on THEN asked \cup {switch} ELSE asked

(* The caller has the reset line, where the programmer has. *)
UseLine ==
  board.pins /\ (Asks("nrst", TRUE, PulledLow) \/ Asks("nrst", FALSE, PulledHigh))

(* write and write_debug_register reach DEMCR like any other address. *)
UseCatch ==
  Asks("catch", TRUE, CatchSet(TRUE)) \/ Asks("catch", FALSE, CatchSet(FALSE))

(* And the caller halts, steps, runs and resets the core, by the calls for *)
(* it or through DHCSR and AIRCR, or reads DHCSR, as often as it likes.    *)
UseCore ==
  \E here \in Living :
    /\ Command(here, "use", "used", "used", Halts \/ Runs \/ StickyRead \/ DebugUnitReset)
    /\ UNCHANGED asked

Use == UseLine \/ UseCatch \/ UseCore

(* ~Device: debug is left, whatever it answers. *)
Destroy ==
  \E here \in Living : Command(here, "exit", "away", "away", DebugLeft)

(* And so ends a look at a chip the filter wants. *)
EndLook == Command("exit", "exit", "away", "away", DebugLeft)

-----------------------------------------------------------------------------
Proceeds ==
  \/ SetClock \/ EnterDebug
  \/ Probe \/ SelectOne \/ ProbeOne \/ SelectZero
  \/ ClearSticky \/ PinLow \/ PinHigh \/ Reset \/ LookForReset \/ AskForReset
  \/ Hold \/ HaltHeld \/ LetGo \/ HaltAgain \/ WindowCloses \/ LookAtReset
  \/ Arm \/ ResetToVector \/ Disarm
  \/ Identify \/ Compare \/ EndLook

Next ==
  \/ Create \/ Find \/ Use
  \/ (Proceeds \/ Destroy) /\ UNCHANGED asked

Spec == Init /\ [][Next]_vars

-----------------------------------------------------------------------------
(* Properties.                                                             *)

(* Every variable is what it can be; the core is held exactly while a      *)
(* wired line is low, and each command belongs to its mode.                *)
TypeOK ==
  /\ board \in Boards
  /\ nrst \in BOOLEAN /\ catch \in BOOLEAN /\ sticky \in BOOLEAN
  /\ dbg \in BOOLEAN /\ wasReset \in BOOLEAN /\ look \in BOOLEAN
  /\ core \in Core
  /\ port \in {0, 1}
  /\ mode \in ResetMode
  /\ pc \in Rest \cup Commands \cup Living
  /\ found \subseteq Switches
  /\ faults \subseteq Faults
  /\ asked \subseteq Switches
  /\ core = "held" <=> nrst /\ board.wired
  /\ pc \in Pulse => mode = "Normal"
  /\ pc \in Vector => mode = "UnderReset"

(* connect.cpp:214-218, "this is what actually guarantees the promise": a  *)
(* device created under reset is stopped before its first instruction,     *)
(* whatever was lost on the way there and whatever an earlier session left *)
(* behind, with the line let go and the catch disarmed unless the write    *)
(* that disarms it failed.                                                 *)
UnderResetStopsAtVector ==
  pc = "live" /\ mode = "UnderReset" =>
    /\ core = "vector"
    /\ ~nrst
    /\ catch => "disarm" \in faults

(* connect.cpp:128-134: a device created in the normal mode has been reset *)
(* in this session, by the pin, the debug unit or AIRCR, unless the read   *)
(* that clears S_RESET_ST failed and an earlier reset was taken for it.    *)
NormalHasReset ==
  pc = "live" /\ mode = "Normal" /\ "clear" \notin faults => wasReset

(* device.cpp:685-692: find() only looks, and hot plugging touches nothing *)
(* until debug is left: no reset, no halt, not even the sticky bit that    *)
(* tells another debugger of an earlier reset.                             *)
LookingDisturbsNothing ==
  [][/\ look => mode = "HotPlug"
     /\ mode = "HotPlug" /\ pc \in Commands \ {"exit"}
          => UNCHANGED <<nrst, core, catch, sticky>>]_vars

(* A session leaves the target in reset only if it found it there, if its  *)
(* caller last asked for that (device.cpp:559), or if a command of         *)
(* connecting that drives the pin failed: connect.cpp ignores what         *)
(* releasing it answers (line 145), and never releases one it believes not *)
(* driven.                                                                 *)
PinLetGo ==
  pc \in Rest \cup Living /\ nrst =>
    \/ "nrst" \in found \cup asked
    \/ {"low", "high"} \cap faults # {}

(* connect.cpp:118-120: a catch that stays armed halts the board at its    *)
(* next reset "long after we had gone".  A session leaves it armed only if *)
(* it found it so, if its caller last wrote it so (device.cpp:543, 589),   *)
(* or if one of the three writes of software_reset failed.                 *)
CatchAccountedFor ==
  pc \in Rest \cup Living /\ catch =>
    \/ "catch" \in found \cup asked
    \/ {"arm", "aircr", "disarm"} \cap faults # {}

(* connect.cpp:41-51: a board is refused for a failed command or for what  *)
(* its programmer cannot do, never because its CPU is on access port 1, in *)
(* any of the modes.                                                       *)
FailsForAReason ==
  pc = "failed" =>
    \/ faults # {}
    \/ ~board.pins /\ (mode = "UnderReset" \/ board.cpuAt = 1)

(* conventions.md:69-70 promises a chip that runs of a device's end only:  *)
(* a look at a chip nobody wants and a create() that fails end without     *)
(* leaving debug mode.  Even so, whichever way a session ends, a target    *)
(* that ran when it began is not left stopped, unless connecting under     *)
(* reset failed, the command that leaves debug mode did, or a vector catch *)
(* somebody else had armed caught it.                                      *)
StoppedForAReason ==
  pc \in Rest /\ Stopped =>
    \/ {"stopped", "catch"} \cap found # {}
    \/ pc = "failed" /\ mode = "UnderReset"
    \/ pc = "away" /\ "exit" \in faults

(* device.cpp:717, "Leave the target as we found it; this was only a       *)
(* look": a look in which nothing failed does not leave debug mode on.     *)
LeftAsFound ==
  look /\ pc \in Rest /\ faults = {} /\ "dbg" \notin found => ~dbg

=============================================================================
