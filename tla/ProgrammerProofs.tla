---------------------------- MODULE ProgrammerProofs ----------------------------
(***************************************************************************)
(* Proofs about what a programmer is used for: a session with the target   *)
(* (TargetSession), and the exchanges that its commands are made of        *)
(* (CommandExchange), for any number of items a command may find unread    *)
(* when it starts.                                                         *)
(*                                                                         *)
(* A step, other than the start of a session, touches the target in one of *)
(* eleven ways and leaves what identifies the session alone (StepTouches); *)
(* what must hold of the target is therefore proved of the eleven ways,    *)
(* and what must hold of the sequence of the commands of the steps         *)
(* themselves.  Then why the line may be low and its catch armed, where it *)
(* is stopped, that it was reset, why it is refused, how it is left.  Each *)
(* of these is about how a session ends, so each rests on an invariant     *)
(* that says what is so on the way there, command by command; one lemma    *)
(* for each shows that the steps keep it.                                  *)
(***************************************************************************)
EXTENDS TargetSession, CommandExchange, SequenceTheorems, TLAPS

(* What any command may do to the target. *)
Touched ==
  \/ PulledLow \/ PulledHigh \/ ResetCore \/ Halts \/ Runs \/ StickyRead
  \/ CatchSet(TRUE) \/ CatchSet(FALSE) \/ DebugEntered \/ DebugLeft
  \/ UNCHANGED target

(* The four parts of TypeOK, by what it takes to keep them. *)
SwitchesTyped ==
  /\ nrst \in BOOLEAN /\ catch \in BOOLEAN /\ sticky \in BOOLEAN
  /\ dbg \in BOOLEAN /\ wasReset \in BOOLEAN

CoreTyped == core \in Core /\ (core = "held" <=> nrst /\ board.wired)

SessionTyped ==
  /\ board \in Boards /\ look \in BOOLEAN /\ port \in {0, 1}
  /\ mode \in ResetMode /\ found \subseteq Switches

PlaceTyped ==
  /\ pc \in Rest \cup Commands \cup Living
  /\ pc \in Pulse => mode = "Normal"
  /\ pc \in Vector => mode = "UnderReset"

LEMMA TypeParts ==
  /\ TypeOK <=> /\ SwitchesTyped /\ CoreTyped /\ SessionTyped /\ PlaceTyped
                /\ faults \subseteq Faults /\ asked \subseteq Switches
  /\ TypeOK' <=> /\ SwitchesTyped' /\ CoreTyped' /\ SessionTyped' /\ PlaceTyped'
                 /\ (faults \subseteq Faults)' /\ (asked \subseteq Switches)'
  BY DEF TypeOK, SwitchesTyped, CoreTyped, SessionTyped, PlaceTyped

LEMMA TypeInit == Init => TypeOK
  BY DEF Init, TypeOK, On, Switches, Boards, Core, ResetMode, Rest, Pulse, Vector

(* Where the reset mode goes on is a command of that mode. *)
LEMMA SequenceType ==
  ASSUME mode \in ResetMode
  PROVE  /\ Sequence \in {"identify", "hold", "clear"}
         /\ Sequence = "hold" <=> mode = "UnderReset"
         /\ Sequence = "clear" <=> mode = "Normal"
  BY DEF Sequence, ResetMode

(* What the caller of a device does with the line, the catch and the core. *)
LEMMA LineStep ==
  ASSUME UseLine
  PROVE  /\ pc \in Living /\ pc' = "used" /\ UNCHANGED <<session, port>>
         /\ faults' \in {faults, faults \cup {"use"}}
         /\ \/ (PulledLow \/ UNCHANGED target) /\ asked' = asked \cup {"nrst"}
            \/ PulledHigh /\ asked' = asked \ {"nrst"}
            \/ (PulledHigh \/ UNCHANGED target) /\ asked' = asked
  BY DEF UseLine, Asks, Succeeds, Fails, Goes, Blamed

LEMMA SwitchStep ==
  ASSUME UseCatch
  PROVE  /\ pc \in Living /\ pc' = "used" /\ UNCHANGED <<session, port>>
         /\ faults' \in {faults, faults \cup {"use"}}
         /\ \/ (CatchSet(TRUE) \/ UNCHANGED target) /\ asked' = asked \cup {"catch"}
            \/ CatchSet(FALSE) /\ asked' = asked \ {"catch"}
            \/ (CatchSet(FALSE) \/ UNCHANGED target) /\ asked' = asked
  BY DEF UseCatch, Asks, Succeeds, Fails, Goes, Blamed

LEMMA CoreStep ==
  ASSUME UseCore
  PROVE  /\ pc \in Living /\ pc' = "used" /\ UNCHANGED <<session, port, asked>>
         /\ faults' \in {faults, faults \cup {"use"}}
         /\ Halts \/ Runs \/ StickyRead \/ ResetCore \/ UNCHANGED target
  BY DEF UseCore, Command, Succeeds, Fails, Goes, Blamed, DebugUnitReset

LEMMA UseStep ==
  ASSUME Use
  PROVE  /\ pc \in Living /\ pc' = "used" /\ UNCHANGED <<session, port>>
         /\ faults' \in {faults, faults \cup {"use"}}
         /\ Touched
<1>1. CASE UseLine
  BY <1>1, LineStep DEF Touched
<1>2. CASE UseCatch
  BY <1>2, SwitchStep DEF Touched
<1>3. CASE UseCore
  BY <1>3, CoreStep DEF Touched
<1> QED
  BY <1>1, <1>2, <1>3 DEF Use

(* Every step touches the target in one of these ways, in one session, or   *)
(* begins another.                                                         *)
LEMMA StepTouches == Next => (Touched /\ UNCHANGED session) \/ Create \/ Find
<1> SUFFICES ASSUME Next PROVE (Touched /\ UNCHANGED session) \/ Create \/ Find
  OBVIOUS
<1> USE DEF Touched, Goes, Succeeds, Fails, Command, DrivePin, NamesACore, SawReset,
            DebugUnitReset, AskedToReset
<1>1. CASE SetClock \/ EnterDebug \/ Destroy \/ EndLook
  BY <1>1 DEF SetClock, EnterDebug, Destroy, EndLook
<1>2. CASE Probe \/ SelectOne \/ ProbeOne \/ SelectZero \/ Identify \/ Compare
  BY <1>2 DEF Probe, SelectOne, ProbeOne, SelectZero, Selects, Identify, Compare
<1>3. CASE ClearSticky \/ PinLow \/ PinHigh \/ Reset \/ LookForReset \/ AskForReset
  BY <1>3 DEF ClearSticky, PinLow, PinHigh, Reset, LookForReset, AskForReset
<1>4. CASE Hold \/ HaltHeld \/ LetGo \/ HaltAgain \/ WindowCloses \/ LookAtReset
  BY <1>4 DEF Hold, HaltHeld, LetGo, HaltAgain, WindowCloses, LookAtReset
<1>5. CASE Arm \/ ResetToVector \/ Disarm
  BY <1>5 DEF Arm, ResetToVector, Disarm
<1>6. CASE Use
  BY <1>6, UseStep
<1> QED
  BY <1>1, <1>2, <1>3, <1>4, <1>5, <1>6 DEF Next, Proceeds

LEMMA TouchedSwitches == SwitchesTyped /\ Touched => SwitchesTyped'
<1> SUFFICES ASSUME SwitchesTyped, Touched PROVE SwitchesTyped'
  OBVIOUS
<1> USE DEF SwitchesTyped, target
<1>1. CASE PulledLow \/ PulledHigh
  BY Zenon, <1>1 DEF PulledLow, PulledHigh
<1>2. CASE ResetCore \/ Halts \/ Runs
  BY Zenon, <1>2 DEF ResetCore, Halts, Runs
<1>3. CASE StickyRead
  BY Zenon, <1>3 DEF StickyRead
<1>4. CASE CatchSet(TRUE) \/ CatchSet(FALSE)
  BY Zenon, <1>4 DEF CatchSet
<1>5. CASE DebugEntered \/ DebugLeft \/ UNCHANGED target
  BY Zenon, <1>5 DEF DebugEntered, DebugLeft
<1> QED
  BY <1>1, <1>2, <1>3, <1>4, <1>5 DEF Touched

(* Only the reset line holds the core, and it always does, if it is wired. *)
LEMMA TouchedCore == CoreTyped /\ Touched /\ UNCHANGED board => CoreTyped'
<1> SUFFICES ASSUME CoreTyped, Touched, UNCHANGED board PROVE CoreTyped'
  OBVIOUS
<1> USE DEF CoreTyped, Core
<1>1. CASE PulledLow
  BY <1>1 DEF PulledLow
<1>2. CASE PulledHigh
  BY <1>2 DEF PulledHigh
<1>3. CASE ResetCore
  BY <1>3 DEF ResetCore
<1>4. CASE Halts \/ Runs
  BY <1>4 DEF Halts, Runs
<1>5. CASE StickyRead
  BY <1>5 DEF StickyRead
<1>6. CASE CatchSet(TRUE) \/ CatchSet(FALSE)
  <2>1. UNCHANGED <<nrst, core>>
    BY Zenon, <1>6 DEF CatchSet
  <2> QED
    BY <2>1
<1>7. CASE DebugEntered \/ DebugLeft
  BY <1>7 DEF DebugEntered, DebugLeft
<1>8. CASE UNCHANGED target
  BY <1>8 DEF target
<1> QED
  BY <1>1, <1>2, <1>3, <1>4, <1>5, <1>6, <1>7, <1>8 DEF Touched

(* Only selecting changes the port, to 0 or 1. *)
LEMMA StepPort == port \in {0, 1} /\ Next => port' \in {0, 1}
<1> SUFFICES ASSUME port \in {0, 1}, Next PROVE port' \in {0, 1}
  OBVIOUS
<1> USE DEF Goes, Succeeds, Fails, Command, DrivePin, NamesACore, SawReset
<1>1. CASE SetClock \/ EnterDebug \/ Destroy \/ EndLook
  BY <1>1 DEF SetClock, EnterDebug, Destroy, EndLook
<1>2. CASE Probe \/ SelectOne \/ ProbeOne \/ SelectZero \/ Identify \/ Compare
  BY <1>2 DEF Probe, SelectOne, ProbeOne, SelectZero, Selects, Identify, Compare
<1>3. CASE ClearSticky \/ PinLow \/ PinHigh \/ Reset \/ LookForReset \/ AskForReset
  BY <1>3 DEF ClearSticky, PinLow, PinHigh, Reset, LookForReset, AskForReset
<1>4. CASE Hold \/ HaltHeld \/ LetGo \/ HaltAgain \/ WindowCloses \/ LookAtReset
  BY <1>4 DEF Hold, HaltHeld, LetGo, HaltAgain, WindowCloses, LookAtReset
<1>5. CASE Arm \/ ResetToVector \/ Disarm
  BY <1>5 DEF Arm, ResetToVector, Disarm
<1>6. CASE Create \/ Find
  BY <1>6 DEF Create, Find, Begin
<1>7. CASE Use
  BY <1>7, UseStep
<1> QED
  BY <1>1, <1>2, <1>3, <1>4, <1>5, <1>6, <1>7 DEF Next, Proceeds

LEMMA StepPlace ==
  ASSUME mode \in ResetMode, PlaceTyped, Next
  PROVE  PlaceTyped'
<1> USE DEF PlaceTyped, Goes, Succeeds, Fails, Command, DrivePin, NamesACore, SawReset,
            session, Rest, Commands, Living, Pulse, Vector
<1>1. CASE SetClock \/ EnterDebug \/ Destroy \/ EndLook
  BY <1>1 DEF SetClock, EnterDebug, Destroy, EndLook
<1>2. CASE Probe \/ SelectOne \/ ProbeOne \/ SelectZero \/ Identify \/ Compare
  BY <1>2, SequenceType
     DEF Probe, SelectOne, ProbeOne, SelectZero, Selects, Identify, Compare
<1>3. CASE ClearSticky \/ PinLow \/ PinHigh \/ Reset \/ LookForReset \/ AskForReset
  BY <1>3 DEF ClearSticky, PinLow, PinHigh, Reset, LookForReset, AskForReset
<1>4. CASE Hold \/ HaltHeld \/ LetGo \/ HaltAgain \/ WindowCloses \/ LookAtReset
  BY <1>4 DEF Hold, HaltHeld, LetGo, HaltAgain, WindowCloses, LookAtReset
<1>5. CASE Arm \/ ResetToVector \/ Disarm
  BY <1>5 DEF Arm, ResetToVector, Disarm
<1>6. CASE Create \/ Find
  BY <1>6 DEF Create, Find, Begin
<1>7. CASE Use
  BY <1>7, UseStep
<1> QED
  BY <1>1, <1>2, <1>3, <1>4, <1>5, <1>6, <1>7 DEF Next, Proceeds

LEMMA StepFaults == faults \subseteq Faults /\ Next => faults' \subseteq Faults
<1> SUFFICES ASSUME faults \subseteq Faults, Next PROVE faults' \subseteq Faults
  OBVIOUS
<1> USE DEF Goes, Succeeds, Fails, Command, DrivePin, NamesACore, SawReset, Blamed, Faults
<1>1. CASE SetClock \/ EnterDebug \/ Destroy \/ EndLook
  BY <1>1 DEF SetClock, EnterDebug, Destroy, EndLook
<1>2. CASE Probe \/ SelectOne \/ ProbeOne \/ SelectZero \/ Identify \/ Compare
  BY <1>2 DEF Probe, SelectOne, ProbeOne, SelectZero, Selects, Identify, Compare
<1>3. CASE ClearSticky \/ PinLow \/ PinHigh \/ Reset \/ LookForReset \/ AskForReset
  BY <1>3 DEF ClearSticky, PinLow, PinHigh, Reset, LookForReset, AskForReset
<1>4. CASE Hold \/ HaltHeld \/ LetGo \/ HaltAgain \/ WindowCloses \/ LookAtReset
  BY <1>4 DEF Hold, HaltHeld, LetGo, HaltAgain, WindowCloses, LookAtReset
<1>5. CASE Arm \/ ResetToVector \/ Disarm
  BY <1>5 DEF Arm, ResetToVector, Disarm
<1>6. CASE Create \/ Find
  BY <1>6 DEF Create, Find, Begin
<1>7. CASE Use
  BY <1>7, UseStep
<1> QED
  BY <1>1, <1>2, <1>3, <1>4, <1>5, <1>6, <1>7 DEF Next, Proceeds

LEMMA StepAsked == asked \subseteq Switches /\ Next => asked' \subseteq Switches
<1>1. ASSUME asked \subseteq Switches, UseLine PROVE asked' \subseteq Switches
  BY <1>1, LineStep DEF Switches
<1>2. ASSUME asked \subseteq Switches, UseCatch PROVE asked' \subseteq Switches
  BY <1>2, SwitchStep DEF Switches
<1> QED
  BY <1>1, <1>2, CoreStep DEF Next, Use, Create, Find, Begin

LEMMA TypeStep == TypeOK /\ [Next]_vars => TypeOK'
<1> SUFFICES ASSUME TypeOK, [Next]_vars PROVE TypeOK'
  OBVIOUS
<1> USE TypeParts
<1>1. CASE Next
  <2>1. /\ PlaceTyped' /\ (faults \subseteq Faults)' /\ (asked \subseteq Switches)'
        /\ (port \in {0, 1})'
    BY <1>1, StepPlace, StepFaults, StepAsked, StepPort DEF SessionTyped
  <2>2. CASE Touched /\ UNCHANGED session
    <3>1. SwitchesTyped' /\ CoreTyped'
      BY <2>2, TouchedSwitches, TouchedCore DEF session
    <3>2. SessionTyped'
      BY <2>1, <2>2 DEF SessionTyped, session
    <3> QED
      BY <2>1, <3>1, <3>2
  <2>3. CASE Create \/ Find
    <3>1. SwitchesTyped'
      BY Zenon, <2>3 DEF Create, Find, Begin, SwitchesTyped
    <3>2. CoreTyped'
      <4>1. UNCHANGED <<board, nrst, core>>
        BY Zenon, <2>3 DEF Create, Find, Begin
      <4> QED
        BY <4>1 DEF CoreTyped
    <3>3. SessionTyped'
      <4>1. look' \in BOOLEAN
        BY Zenon, <2>3 DEF Create, Find, Begin
      <4>2. mode' \in ResetMode /\ UNCHANGED board
        BY <2>3 DEF Create, Find, Begin, ResetMode
      <4>3. found' \subseteq Switches
        BY <2>3 DEF Create, Find, Begin, On
      <4> QED
        BY <2>1, <4>1, <4>2, <4>3 DEF SessionTyped
    <3> QED
      BY <2>1, <3>1, <3>2, <3>3
  <2> QED
    BY <1>1, <2>2, <2>3, StepTouches
<1>2. CASE UNCHANGED vars
  BY Zenon, <1>2 DEF vars, target, session, TypeOK
<1> QED
  BY <1>1, <1>2

(* The type invariant: the core is held exactly while a wired line is low,  *)
(* and each command of connect.cpp runs in its own mode only.               *)
THEOREM TargetTypeCorrect == Spec => []TypeOK
  BY TypeInit, TypeStep, PTL DEF Spec

-----------------------------------------------------------------------------
(***************************************************************************)
(* What is so on the way to each end of a session.                         *)
(***************************************************************************)
(* Why the line may be low, wherever the session is.                       *)
PinInv ==
  nrst => \/ "nrst" \in found \cup asked
          \/ {"low", "high"} \cap faults # {}
          \/ pc \in {"pin_high", "halt", "let_go"}

(* Why the catch may be on, wherever the session is.                       *)
CatchInv ==
  /\ catch => \/ "catch" \in found \cup asked
              \/ {"arm", "aircr", "disarm"} \cap faults # {}
              \/ pc \in {"reset_to_vector", "disarm"} /\ Reaches
  /\ pc \in Living => Reaches

(* What StoppedForAReason rests on: the three things that can stop a core  *)
(* come from connecting under reset, from the caller of a device, or from  *)
(* before the session.                                                     *)
StopInv ==
  /\ {"stopped", "catch"} \cap found = {} /\ mode # "UnderReset" =>
       /\ Stopped => pc \in Living \/ (pc = "away" /\ "exit" \in faults)
       /\ catch => pc \in Living \cup {"away"}
  /\ pc = "away" /\ Stopped => "exit" \in faults
  /\ look => mode = "HotPlug"
  /\ pc \in {"compare", "passed_over"} => look
  /\ pc = "idle" => mode = "Normal"

(* What UnderResetStopsAtVector rests on, command by command: the line is  *)
(* let go before the catch is armed, and the catch on before the reset.    *)
VectorInv ==
  /\ pc \in {"catching", "look_at_reset", "arm", "reset_to_vector", "disarm"} => ~nrst
  /\ pc = "reset_to_vector" /\ Reaches => catch
  /\ pc = "disarm" /\ Reaches => core = "vector"
  /\ pc = "identify" /\ mode = "UnderReset" =>
       ~nrst /\ (Reaches => core = "vector" /\ (catch => "disarm" \in faults))
  /\ UnderResetStopsAtVector

(* What NormalHasReset rests on: from the read that clears the sticky bit, *)
(* the bit tells of this session.                                          *)
ResetInv ==
  /\ "clear" \notin faults =>
       /\ pc \in {"pin_low", "pin_high", "reset", "look_for_reset"} /\ Reaches /\ sticky
            => wasReset
       /\ pc = "identify" /\ mode = "Normal" /\ Reaches => wasReset
  /\ NormalHasReset

(* A reason to be refused that is there before the chip is identified.     *)
Excused == faults # {} \/ (~board.pins /\ board.cpuAt = 1)

(* What FailsForAReason rests on: the port is the CPU's once probing is    *)
(* done, unless there was a reason for it not to be.                       *)
ReasonInv ==
  /\ pc \in {"set_clock", "enter_debug", "probe", "select_1"} => port = 0
  /\ pc = "select_1" => faults # {} \/ board.cpuAt = 1
  /\ pc = "probe_1" => faults # {} \/ Reaches
  /\ pc = "select_0" => faults # {}
  /\ pc \in Pulse \cup Vector \cup {"identify"} => Reaches \/ Excused
  /\ FailsForAReason

(* What LookingDisturbsNothing rests on.                                   *)
HotInv == look => mode = "HotPlug"

-----------------------------------------------------------------------------
(* No command but the three that follow a successful pull may run, or end, *)
(* with the line low for no recorded reason.                               *)
LEMMA PinStep == PinInv /\ Next => PinInv'
<1> SUFFICES ASSUME PinInv, Next PROVE PinInv'
  OBVIOUS
<1> USE DEF PinInv, Goes, Succeeds, Fails, Blamed, Command, DrivePin, NamesACore,
            SawReset, session, target, Living
<1>1. CASE UNCHANGED asked /\ (SetClock \/ EnterDebug \/ Destroy \/ EndLook)
  BY <1>1 DEF SetClock, EnterDebug, Destroy, EndLook, DebugEntered, DebugLeft
<1>2. CASE UNCHANGED asked /\ (Probe \/ SelectOne \/ ProbeOne \/ SelectZero \/ Identify \/ Compare)
  BY <1>2 DEF Probe, SelectOne, ProbeOne, SelectZero, Selects, Sequence, Identify,
     Compare
<1>3. CASE UNCHANGED asked /\ (ClearSticky \/ Reset \/ LookForReset \/ AskForReset)
  BY <1>3 DEF ClearSticky, Reset, LookForReset, AskForReset, StickyRead,
     DebugUnitReset, AskedToReset, ResetCore
<1>4. CASE UNCHANGED asked /\ (PinLow \/ PinHigh)
  BY <1>4 DEF PinLow, PinHigh, PulledLow, PulledHigh
<1>5. CASE UNCHANGED asked /\ (Hold \/ HaltHeld \/ LetGo)
  BY <1>5 DEF Hold, HaltHeld, LetGo, PulledLow, PulledHigh, Halts
<1>6. CASE UNCHANGED asked /\ (HaltAgain \/ WindowCloses \/ LookAtReset)
  BY <1>6 DEF HaltAgain, WindowCloses, LookAtReset, Halts, StickyRead
<1>7. CASE UNCHANGED asked /\ (Arm \/ ResetToVector \/ Disarm)
  BY <1>7 DEF Arm, ResetToVector, Disarm, CatchSet, AskedToReset, ResetCore
<1>8. CASE Use
  <2>1. CASE UseLine
    <3>1. PulledLow => nrst' = TRUE
      BY Zenon DEF PulledLow
    <3>2. PulledHigh => nrst' = FALSE
      BY Zenon DEF PulledHigh
    <3> QED
      BY <2>1, <3>1, <3>2, LineStep
  <2>2. CASE UseCatch
    <3>1. CatchSet(TRUE) \/ CatchSet(FALSE) => UNCHANGED nrst
      BY Zenon DEF CatchSet
    <3> QED
      BY <2>2, <3>1, SwitchStep
  <2>3. CASE UseCore
    <3>1. Halts \/ Runs \/ StickyRead \/ ResetCore => UNCHANGED nrst
      BY Zenon DEF Halts, Runs, StickyRead, ResetCore
    <3> QED
      BY <2>3, <3>1, CoreStep
  <2> QED
    BY <1>8, <2>1, <2>2, <2>3 DEF Use
<1>9. CASE Create \/ Find
  BY <1>9 DEF Create, Find, Begin, On, Switches
<1> QED
  BY <1>1, <1>2, <1>3, <1>4, <1>5, <1>6, <1>7, <1>8, <1>9 DEF Next, Proceeds

(* The catch is on between Arm and Disarm, through the port of the CPU, or *)
(* one of the three writes failed.                                         *)
LEMMA CatchStep == TypeOK /\ CatchInv /\ Next => CatchInv'
<1> SUFFICES ASSUME TypeOK, CatchInv, Next PROVE CatchInv'
  OBVIOUS
<1> USE DEF CatchInv, Reaches, Goes, Succeeds, Fails, Blamed, Command, DrivePin,
            NamesACore, SawReset, session, target, Living
<1>1. CASE UNCHANGED asked /\ (SetClock \/ EnterDebug \/ Destroy \/ EndLook)
  BY <1>1 DEF SetClock, EnterDebug, Destroy, EndLook, DebugEntered, DebugLeft
<1>2. CASE UNCHANGED asked /\ (Probe \/ SelectOne \/ ProbeOne \/ SelectZero \/ Identify \/ Compare)
  BY <1>2 DEF Probe, SelectOne, ProbeOne, SelectZero, Selects, Sequence, Identify,
     Compare
<1>3. CASE UNCHANGED asked /\ (ClearSticky \/ Reset \/ LookForReset \/ AskForReset)
  BY <1>3 DEF ClearSticky, Reset, LookForReset, AskForReset, StickyRead,
     DebugUnitReset, AskedToReset, ResetCore
<1>4. CASE UNCHANGED asked /\ (PinLow \/ PinHigh)
  BY <1>4 DEF PinLow, PinHigh, PulledLow, PulledHigh
<1>5. CASE UNCHANGED asked /\ (Hold \/ HaltHeld \/ LetGo)
  BY <1>5 DEF Hold, HaltHeld, LetGo, PulledLow, PulledHigh, Halts
<1>6. CASE UNCHANGED asked /\ (HaltAgain \/ WindowCloses \/ LookAtReset)
  BY <1>6 DEF HaltAgain, WindowCloses, LookAtReset, Halts, StickyRead
<1>7. CASE UNCHANGED asked /\ (Arm \/ ResetToVector \/ Disarm)
  <2>1. CASE Arm
    BY <1>7, <2>1 DEF Arm, CatchSet
  <2>2. CASE ResetToVector
    <3>1. AskedToReset => UNCHANGED catch
      BY Zenon DEF AskedToReset, ResetCore
    <3> QED
      BY <1>7, <2>2, <3>1 DEF ResetToVector
  <2>3. CASE Disarm
    <3>1. Reaches /\ CatchSet(FALSE) => catch' = FALSE
      BY Zenon DEF CatchSet
    <3>2. ~Reaches /\ CatchSet(FALSE) => UNCHANGED catch
      BY Zenon DEF CatchSet
    <3>3. /\ pc' = "identify" /\ UNCHANGED <<port, board, found>>
          /\ faults \subseteq faults'
          /\ CatchSet(FALSE) \/ "disarm" \in faults'
      BY <2>3 DEF Disarm
    <3>4. CASE "disarm" \in faults'
      BY <3>3, <3>4
    <3>5. CASE CatchSet(FALSE)
      <4>1. CASE Reaches
        BY <3>1, <3>3, <3>5, <4>1
      <4>2. CASE ~Reaches
        <5>1. catch' = catch /\ asked' = asked
          BY <1>7, <3>2, <3>5, <4>2
        <5>2. ~(pc \in {"reset_to_vector", "disarm"} /\ Reaches)
          BY Zenon, <4>2
        <5> QED
          BY <3>3, <5>1, <5>2
      <4> QED
        BY <4>1, <4>2
    <3> QED
      BY <3>3, <3>4, <3>5
  <2> QED
    BY <1>7, <2>1, <2>2, <2>3
<1>8. CASE Use
  <2>1. CASE UseLine
    <3>1. PulledLow \/ PulledHigh => UNCHANGED catch
      BY Zenon DEF PulledLow, PulledHigh
    <3> QED
      BY <2>1, <3>1, LineStep
  <2>2. CASE UseCatch
    <3>1. Reaches /\ CatchSet(FALSE) => catch' = FALSE
      BY Zenon DEF CatchSet
    <3> QED
      <4>1. UNCHANGED <<port, board, found>> /\ faults \subseteq faults' /\ Reaches
        BY <2>2, SwitchStep
      <4>2. catch' => (catch /\ asked' = asked) \/ "catch" \in asked'
        BY <2>2, <3>1, <4>1, SwitchStep
      <4>3. pc \in Living /\ pc' = "used"
        BY <2>2, SwitchStep
      <4> QED
        BY <4>1, <4>2, <4>3
  <2>3. CASE UseCore
    <3>1. Halts \/ Runs \/ StickyRead \/ ResetCore => UNCHANGED catch
      BY Zenon DEF Halts, Runs, StickyRead, ResetCore
    <3> QED
      BY <2>3, <3>1, CoreStep
  <2> QED
    BY <1>8, <2>1, <2>2, <2>3 DEF Use
<1>9. CASE Create \/ Find
  BY <1>9 DEF Create, Find, Begin, On, Switches
<1> QED
  BY <1>1, <1>2, <1>3, <1>4, <1>5, <1>6, <1>7, <1>8, <1>9 DEF Next, Proceeds

(* Through the port of the CPU, each of the last three commands leaves the *)
(* core one step nearer its vector; through any other, Identify refuses.   *)
LEMMA VectorStep == TypeOK /\ VectorInv /\ Next => VectorInv'
<1> SUFFICES ASSUME TypeOK, VectorInv, Next PROVE VectorInv'
  OBVIOUS
<1> USE DEF VectorInv, UnderResetStopsAtVector, TypeOK, Core, Reaches, Pulse, Vector,
            ResetMode, Goes, Succeeds, Fails, Blamed, Command, DrivePin, NamesACore,
            SawReset, session, target, Living
<1>1. CASE SetClock \/ EnterDebug \/ Destroy \/ EndLook
  BY <1>1 DEF SetClock, EnterDebug, Destroy, EndLook, DebugEntered, DebugLeft
<1>2. CASE Probe \/ SelectOne \/ ProbeOne \/ SelectZero \/ Identify \/ Compare
  <2>1. CASE Probe
    BY <2>1 DEF Probe, Sequence
  <2>2. CASE SelectOne
    BY <2>2 DEF SelectOne, Selects, Sequence
  <2>3. CASE ProbeOne
    BY <2>3 DEF ProbeOne, Sequence
  <2>4. CASE SelectZero
    BY <2>4 DEF SelectZero, Selects, Sequence
  <2>5. CASE Identify
    <3>1. /\ pc = "identify" /\ pc' \in {"compare", "live", "failed"}
         /\ UNCHANGED <<target, session, port>>
      BY <2>5 DEF Identify
    <3>2. pc' = "live" => Reaches /\ UNCHANGED faults
      BY <2>5 DEF Identify
    <3> QED
      BY <3>1, <3>2
  <2>6. CASE Compare
    BY <2>6 DEF Compare
  <2> QED
    BY <1>2, <2>1, <2>2, <2>3, <2>4, <2>5, <2>6
<1>3. CASE ClearSticky \/ Reset \/ LookForReset \/ AskForReset
  <2>1. CASE ClearSticky
    BY <2>1 DEF ClearSticky, StickyRead
  <2>2. CASE Reset
    BY <2>2 DEF Reset, DebugUnitReset, ResetCore
  <2>3. CASE LookForReset
    BY <2>3 DEF LookForReset, StickyRead
  <2>4. CASE AskForReset
    BY <2>4 DEF AskForReset, AskedToReset, ResetCore
  <2> QED
    BY <1>3, <2>1, <2>2, <2>3, <2>4
<1>4. CASE PinLow \/ PinHigh
  BY <1>4 DEF PinLow, PinHigh, PulledLow, PulledHigh
<1>5. CASE Hold \/ HaltHeld \/ LetGo
  BY <1>5 DEF Hold, HaltHeld, LetGo, PulledLow, PulledHigh, Halts
<1>6. CASE HaltAgain \/ WindowCloses \/ LookAtReset
  <2>1. CASE HaltAgain
    <3>1. pc = "catching" /\ pc' = "catching"
      BY <2>1 DEF HaltAgain
    <3>2. UNCHANGED nrst
      BY Zenon, <2>1 DEF HaltAgain, Halts
    <3> QED
      BY <3>1, <3>2
  <2>2. CASE WindowCloses
    BY <2>2 DEF WindowCloses
  <2>3. CASE LookAtReset
    <3>1. pc = "look_at_reset" /\ pc' = "arm"
      BY <2>3 DEF LookAtReset
    <3>2. UNCHANGED nrst
      BY Zenon, <2>3 DEF LookAtReset, StickyRead
    <3> QED
      BY <3>1, <3>2
  <2> QED
    BY <1>6, <2>1, <2>2, <2>3
<1>7. CASE Arm \/ ResetToVector \/ Disarm
  <2>1. CASE Arm
    <3>1. pc = "arm" /\ UNCHANGED <<port, board>>
      BY <2>1 DEF Arm
    <3>2. UNCHANGED nrst
      BY Zenon, <2>1 DEF Arm, CatchSet
    <3>3. pc' = "failed" \/ (pc' = "reset_to_vector" /\ CatchSet(TRUE))
      BY Zenon, <2>1 DEF Arm
    <3>4. CatchSet(TRUE) /\ Reaches => catch'
      BY Zenon DEF CatchSet
    <3> QED
      BY <3>1, <3>2, <3>3, <3>4
  <2>2. CASE ResetToVector
    BY <2>2 DEF ResetToVector, AskedToReset, ResetCore
  <2>3. CASE Disarm
    <3>1. pc = "disarm" /\ pc' = "identify" /\ UNCHANGED <<port, board, mode>>
      BY <2>3 DEF Disarm
    <3>2. UNCHANGED <<nrst, core>>
      BY Zenon, <2>3 DEF Disarm, CatchSet
    <3>3. CatchSet(FALSE) \/ "disarm" \in faults'
      BY <2>3 DEF Disarm
    <3>4. CatchSet(FALSE) /\ Reaches => ~catch'
      BY Zenon DEF CatchSet
    <3> QED
      BY <3>1, <3>2, <3>3, <3>4
  <2> QED
    BY <1>7, <2>1, <2>2, <2>3
<1>8. CASE Use
  BY <1>8, UseStep
<1>9. CASE Create \/ Find
  BY <1>9 DEF Create, Find, Begin, On, Switches
<1> QED
  BY <1>1, <1>2, <1>3, <1>4, <1>5, <1>6, <1>7, <1>8, <1>9 DEF Next, Proceeds

(* Once the bit is cleared, it is set only by a reset of this session.     *)
LEMMA ResetStep == TypeOK /\ ResetInv /\ Next => ResetInv'
<1> SUFFICES ASSUME TypeOK, ResetInv, Next PROVE ResetInv'
  OBVIOUS
<1> USE DEF ResetInv, NormalHasReset, TypeOK, Core, Reaches, Pulse, Vector, Goes,
            Succeeds, Fails, Blamed, Command, DrivePin, NamesACore, SawReset, session,
            target, Living
<1>1. CASE SetClock \/ EnterDebug \/ Destroy \/ EndLook
  BY <1>1 DEF SetClock, EnterDebug, Destroy, EndLook, DebugEntered, DebugLeft
<1>2. CASE Probe \/ SelectOne \/ ProbeOne \/ SelectZero \/ Identify \/ Compare
  BY <1>2 DEF Probe, SelectOne, ProbeOne, SelectZero, Selects, Sequence, Identify,
     Compare
<1>3. CASE ClearSticky \/ Reset \/ LookForReset \/ AskForReset
  <2>1. CASE ClearSticky
    BY <2>1 DEF ClearSticky, StickyRead
  <2>2. CASE Reset
    <3>1. /\ pc = "reset" /\ pc' = "look_for_reset"
         /\ faults \subseteq faults' /\ UNCHANGED <<port, board>>
      BY <2>2 DEF Reset
    <3>2. ResetCore \/ UNCHANGED target
      BY <2>2 DEF Reset, DebugUnitReset
    <3>3. ResetCore => wasReset' = TRUE
      BY DEF ResetCore
    <3>4. sticky' /\ ~wasReset' => sticky /\ ~wasReset
      BY Zenon, <3>2, <3>3
    <3> QED
      BY <3>1, <3>2, <3>3, <3>4
  <2>3. CASE LookForReset
    BY <2>3 DEF LookForReset, StickyRead
  <2>4. CASE AskForReset
    BY <2>4 DEF AskForReset, AskedToReset, ResetCore
  <2> QED
    BY <1>3, <2>1, <2>2, <2>3, <2>4
<1>4. CASE PinLow \/ PinHigh
  <2>1. CASE PinLow
    <3>1. /\ pc = "pin_low" /\ pc' \in {"pin_high", "reset"}
         /\ faults \subseteq faults' /\ UNCHANGED <<port, board>>
      BY <2>1 DEF PinLow
    <3>2. PulledLow \/ UNCHANGED target
      BY <2>1 DEF PinLow
    <3>3. PulledLow => wasReset' = TRUE \/ UNCHANGED <<sticky, wasReset>>
      BY Zenon DEF PulledLow
    <3>4. sticky' /\ ~wasReset' => sticky /\ ~wasReset
      BY Zenon, <3>2, <3>3
    <3> QED
      BY <3>1, <3>2, <3>3, <3>4
  <2>2. CASE PinHigh
    <3>1. /\ pc = "pin_high" /\ pc' = "reset"
         /\ faults \subseteq faults' /\ UNCHANGED <<port, board>>
      BY <2>2 DEF PinHigh
    <3>2. UNCHANGED <<sticky, wasReset>>
      BY Zenon, <2>2 DEF PinHigh, PulledHigh
    <3> QED
      BY <3>1, <3>2
  <2> QED
    BY <1>4, <2>1, <2>2
<1>5. CASE Hold \/ HaltHeld \/ LetGo
  BY <1>5 DEF Hold, HaltHeld, LetGo, PulledLow, PulledHigh, Halts
<1>6. CASE HaltAgain \/ WindowCloses \/ LookAtReset
  BY <1>6 DEF HaltAgain, WindowCloses, LookAtReset, Halts, StickyRead
<1>7. CASE Arm \/ ResetToVector \/ Disarm
  BY <1>7 DEF Arm, ResetToVector, Disarm, CatchSet, AskedToReset, ResetCore
<1>8. CASE Use
  BY <1>8, UseStep
<1>9. CASE Create \/ Find
  BY <1>9 DEF Create, Find, Begin, On, Switches
<1> QED
  BY <1>1, <1>2, <1>3, <1>4, <1>5, <1>6, <1>7, <1>8, <1>9 DEF Next, Proceeds

(* With no fault and the pins, the port is the CPU's when probing is done. *)
LEMMA ReasonStep == TypeOK /\ ReasonInv /\ Next => ReasonInv'
<1> SUFFICES ASSUME TypeOK, ReasonInv, Next PROVE ReasonInv'
  OBVIOUS
<1> USE DEF ReasonInv, FailsForAReason, Excused, TypeOK, Boards, Reaches, Pulse, Vector,
            ResetMode, Goes, Succeeds, Fails, Blamed, Command, DrivePin, NamesACore,
            SawReset, session, target, Living
<1>1. CASE SetClock \/ EnterDebug \/ Destroy \/ EndLook
  BY <1>1 DEF SetClock, EnterDebug, Destroy, EndLook, DebugEntered, DebugLeft
<1>2. CASE Probe \/ SelectOne \/ ProbeOne \/ SelectZero \/ Identify \/ Compare
  BY <1>2 DEF Probe, SelectOne, ProbeOne, SelectZero, Selects, Sequence, Identify,
     Compare
<1>3. CASE ClearSticky \/ Reset \/ LookForReset \/ AskForReset
  BY <1>3 DEF ClearSticky, Reset, LookForReset, AskForReset, StickyRead,
     DebugUnitReset, AskedToReset, ResetCore
<1>4. CASE PinLow \/ PinHigh
  BY <1>4 DEF PinLow, PinHigh, PulledLow, PulledHigh
<1>5. CASE Hold \/ HaltHeld \/ LetGo
  BY <1>5 DEF Hold, HaltHeld, LetGo, PulledLow, PulledHigh, Halts
<1>6. CASE HaltAgain \/ WindowCloses \/ LookAtReset
  BY <1>6 DEF HaltAgain, WindowCloses, LookAtReset, Halts, StickyRead
<1>7. CASE Arm \/ ResetToVector \/ Disarm
  BY <1>7 DEF Arm, ResetToVector, Disarm, CatchSet, AskedToReset, ResetCore
<1>8. CASE Use
  BY <1>8, UseStep
<1>9. CASE Create \/ Find
  BY <1>9 DEF Create, Find, Begin, On, Switches
<1> QED
  BY <1>1, <1>2, <1>3, <1>4, <1>5, <1>6, <1>7, <1>8, <1>9 DEF Next, Proceeds

(* Outside connecting under reset, only the caller of a device stops the   *)
(* core or arms its catch, and leaving debug mode makes up for it.         *)
LEMMA StopStep == TypeOK /\ StopInv /\ Next => StopInv'
<1> SUFFICES ASSUME TypeOK, StopInv, Next PROVE StopInv'
  OBVIOUS
<1> USE DEF StopInv, Stopped, TypeOK, Core, Pulse, Vector, Rest, Goes, Succeeds, Fails,
            Blamed, Command, DrivePin, NamesACore, SawReset, session, target, Living
<1>1. CASE SetClock \/ EnterDebug \/ Destroy \/ EndLook
  <2>1. CASE SetClock
    BY <2>1 DEF SetClock
  <2>2. CASE EnterDebug
    BY <2>2 DEF EnterDebug, DebugEntered
  <2>3. CASE Destroy \/ EndLook
    <3>1. /\ pc \in Living \cup {"exit"} /\ pc' = "away" /\ UNCHANGED session
          /\ "exit" \in faults' \/ DebugLeft
          /\ DebugLeft \/ UNCHANGED target
      BY <2>3 DEF Destroy, EndLook
    <3>2. DebugLeft => core' \in {"held", "running"} /\ UNCHANGED catch
      BY DEF DebugLeft
    <3> QED
      BY <3>1, <3>2
  <2> QED
    BY <1>1, <2>1, <2>2, <2>3
<1>2. CASE Probe \/ SelectOne \/ ProbeOne \/ SelectZero \/ Identify \/ Compare
  BY <1>2 DEF Probe, SelectOne, ProbeOne, SelectZero, Selects, Sequence, Identify,
     Compare
<1>3. CASE ClearSticky \/ Reset \/ LookForReset \/ AskForReset
  BY <1>3 DEF ClearSticky, Reset, LookForReset, AskForReset, StickyRead,
     DebugUnitReset, AskedToReset, ResetCore
<1>4. CASE PinLow \/ PinHigh
  BY <1>4 DEF PinLow, PinHigh, PulledLow, PulledHigh
<1>5. CASE Hold \/ HaltHeld \/ LetGo
  BY <1>5 DEF Hold, HaltHeld, LetGo
<1>6. CASE HaltAgain \/ WindowCloses \/ LookAtReset
  BY <1>6 DEF HaltAgain, WindowCloses, LookAtReset
<1>7. CASE Arm \/ ResetToVector \/ Disarm
  <2>1. /\ pc \in Vector /\ pc' \in {"reset_to_vector", "disarm", "identify", "failed"}
        /\ UNCHANGED session
    BY <1>7 DEF Arm, ResetToVector, Disarm
  <2> QED
    BY <2>1
<1>8. CASE Use
  BY <1>8, UseStep
<1>9. CASE Create \/ Find
  BY <1>9 DEF Create, Find, Begin, On, Switches, Commands
<1> QED
  BY <1>1, <1>2, <1>3, <1>4, <1>5, <1>6, <1>7, <1>8, <1>9 DEF Next, Proceeds

(* A look is never given another mode.                                     *)
LEMMA HotStep == HotInv /\ Next => HotInv'
<1> SUFFICES ASSUME HotInv, Next PROVE HotInv'
  OBVIOUS
<1>1. CASE UNCHANGED session
  BY <1>1 DEF session, HotInv
<1>2. CASE Create \/ Find
  BY <1>2 DEF Create, Find, Begin, HotInv
<1> QED
  BY <1>1, <1>2, StepTouches

(* None of the commands that run while hot plugging drives, halts or reads *)
(* DHCSR.                                                                  *)
LEMMA QuietStep ==
  ASSUME TypeOK, Next, mode = "HotPlug", pc \in Commands \ {"exit"}
  PROVE  UNCHANGED <<nrst, core, catch, sticky>>
<1> USE DEF TypeOK, Pulse, Vector, Commands, Rest, Living, Goes, Succeeds, Fails, Command,
            DrivePin, NamesACore, SawReset, target
<1>1. CASE SetClock \/ EnterDebug \/ Destroy \/ EndLook
  BY <1>1 DEF SetClock, EnterDebug, Destroy, EndLook, DebugEntered
<1>2. CASE Probe \/ SelectOne \/ ProbeOne \/ SelectZero \/ Identify \/ Compare
  BY <1>2 DEF Probe, SelectOne, ProbeOne, SelectZero, Selects, Identify, Compare
<1>3. CASE ClearSticky \/ Reset \/ LookForReset \/ AskForReset
  BY <1>3 DEF ClearSticky, Reset, LookForReset, AskForReset
<1>4. CASE PinLow \/ PinHigh
  BY <1>4 DEF PinLow, PinHigh
<1>5. CASE Hold \/ HaltHeld \/ LetGo
  BY <1>5 DEF Hold, HaltHeld, LetGo
<1>6. CASE HaltAgain \/ WindowCloses \/ LookAtReset
  BY <1>6 DEF HaltAgain, WindowCloses, LookAtReset
<1>7. CASE Arm \/ ResetToVector \/ Disarm
  BY <1>7 DEF Arm, ResetToVector, Disarm
<1>8. CASE Use
  BY <1>8, UseStep
<1>9. CASE Create \/ Find
  BY <1>9 DEF Create, Find, Begin
<1> QED
  BY <1>1, <1>2, <1>3, <1>4, <1>5, <1>6, <1>7, <1>8, <1>9 DEF Next, Proceeds

-----------------------------------------------------------------------------
(* The theorems.                                                           *)

(* A session that is over, or whose device is in use, leaves the line low  *)
(* only if it found it so, its caller asked for it, or a command of        *)
(* connecting that drives it failed, although connect.cpp:145 does not     *)
(* look at what letting it go answered.                                    *)
THEOREM PinAlwaysLetGo == Spec => []PinLetGo
<1>1. Init => PinInv
  BY DEF Init, PinInv
<1>2. PinInv /\ [Next]_vars => PinInv'
  <2> SUFFICES ASSUME PinInv, [Next]_vars PROVE PinInv'
    OBVIOUS
  <2>1. CASE Next
    BY <2>1, PinStep
  <2>2. CASE UNCHANGED vars
    BY <2>2 DEF vars, target, session, PinInv
  <2> QED
    BY <2>1, <2>2
<1>3. PinInv => PinLetGo
  BY DEF PinInv, PinLetGo, Rest, Living
<1> QED
  BY <1>1, <1>2, <1>3, PTL DEF Spec

(* Nor does it leave the vector catch armed, unless its caller wrote it so *)
(* or one of the writes of software_reset (connect.cpp) failed.            *)
THEOREM CatchAlwaysAccountedFor == Spec => []CatchAccountedFor
<1>1. Init => CatchInv
  BY DEF Init, CatchInv, Living
<1>2. TypeOK /\ CatchInv /\ [Next]_vars => CatchInv'
  <2> SUFFICES ASSUME TypeOK, CatchInv, [Next]_vars PROVE CatchInv'
    OBVIOUS
  <2>1. CASE Next
    BY <2>1, CatchStep
  <2>2. CASE UNCHANGED vars
    BY <2>2 DEF vars, target, session, CatchInv, Reaches
  <2> QED
    BY <2>1, <2>2
<1>3. CatchInv => CatchAccountedFor
  BY DEF CatchInv, CatchAccountedFor, Rest, Living
<1> QED
  BY <1>1, <1>2, <1>3, TargetTypeCorrect, PTL DEF Spec

(* The promise of connect.cpp:214-218: a device created under reset is     *)
(* stopped at its vector, the line let go and the catch disarmed.          *)
THEOREM StopsAtVector == Spec => []UnderResetStopsAtVector
<1>1. Init => VectorInv
  BY DEF Init, VectorInv, UnderResetStopsAtVector
<1>2. TypeOK /\ VectorInv /\ [Next]_vars => VectorInv'
  <2> SUFFICES ASSUME TypeOK, VectorInv, [Next]_vars PROVE VectorInv'
    OBVIOUS
  <2>1. CASE Next
    BY <2>1, VectorStep
  <2>2. CASE UNCHANGED vars
    BY <2>2 DEF vars, target, session, VectorInv, UnderResetStopsAtVector, Reaches
  <2> QED
    BY <2>1, <2>2
<1>3. VectorInv => UnderResetStopsAtVector
  BY DEF VectorInv, UnderResetStopsAtVector
<1> QED
  BY <1>1, <1>2, <1>3, TargetTypeCorrect, PTL DEF Spec

(* A device created in the normal mode has been reset in its own session,  *)
(* whatever S_RESET_ST said of an earlier one (connect.cpp:128-134).       *)
THEOREM AlwaysHasReset == Spec => []NormalHasReset
<1>1. Init => ResetInv
  BY DEF Init, ResetInv, NormalHasReset
<1>2. TypeOK /\ ResetInv /\ [Next]_vars => ResetInv'
  <2> SUFFICES ASSUME TypeOK, ResetInv, [Next]_vars PROVE ResetInv'
    OBVIOUS
  <2>1. CASE Next
    BY <2>1, ResetStep
  <2>2. CASE UNCHANGED vars
    BY <2>2 DEF vars, target, session, ResetInv, NormalHasReset, Reaches
  <2> QED
    BY <2>1, <2>2
<1>3. ResetInv => NormalHasReset
  BY DEF ResetInv, NormalHasReset
<1> QED
  BY <1>1, <1>2, <1>3, TargetTypeCorrect, PTL DEF Spec

(* No board is refused only because its CPU is on access port 1            *)
(* (connect.cpp:41-51).                                                    *)
THEOREM AlwaysFailsForAReason == Spec => []FailsForAReason
<1>1. Init => ReasonInv
  BY DEF Init, ReasonInv, FailsForAReason, Pulse, Vector
<1>2. TypeOK /\ ReasonInv /\ [Next]_vars => ReasonInv'
  <2> SUFFICES ASSUME TypeOK, ReasonInv, [Next]_vars PROVE ReasonInv'
    OBVIOUS
  <2>1. CASE Next
    BY <2>1, ReasonStep
  <2>2. CASE UNCHANGED vars
    BY <2>2 DEF vars, target, session, ReasonInv, FailsForAReason, Reaches, Excused
  <2> QED
    BY <2>1, <2>2
<1>3. ReasonInv => FailsForAReason
  BY DEF ReasonInv, FailsForAReason
<1> QED
  BY <1>1, <1>2, <1>3, TargetTypeCorrect, PTL DEF Spec

(* Whichever way a session ends, a target that ran is not left stopped,    *)
(* unless connecting under reset failed, leaving debug mode did, or a      *)
(* catch armed before caught it (device.cpp:483-497, 673-720, 766-774).    *)
THEOREM AlwaysStoppedForAReason == Spec => []StoppedForAReason
<1>1. Init => StopInv
  BY DEF Init, StopInv, Stopped, On, Switches, Living
<1>2. TypeOK /\ StopInv /\ [Next]_vars => StopInv'
  <2> SUFFICES ASSUME TypeOK, StopInv, [Next]_vars PROVE StopInv'
    OBVIOUS
  <2>1. CASE Next
    BY <2>1, StopStep
  <2>2. CASE UNCHANGED vars
    BY <2>2 DEF vars, target, session, StopInv, Stopped
  <2> QED
    BY <2>1, <2>2
<1>3. StopInv => StoppedForAReason
  BY DEF StopInv, StoppedForAReason, Rest, Living
<1> QED
  BY <1>1, <1>2, <1>3, TargetTypeCorrect, PTL DEF Spec

(* A look, and hot plugging, change nothing on the target until debug mode *)
(* is left: no line, no halt, no catch, no read of DHCSR                   *)
(* (device.cpp:685-692).                                                   *)
THEOREM LookingNeverDisturbs == Spec => LookingDisturbsNothing
<1>1. Init => HotInv
  BY DEF Init, HotInv
<1>2. HotInv /\ [Next]_vars => HotInv'
  BY HotStep DEF HotInv, vars, session
<1>3. TypeOK /\ HotInv /\ [Next]_vars =>
        [/\ look => mode = "HotPlug"
         /\ mode = "HotPlug" /\ pc \in Commands \ {"exit"}
              => UNCHANGED <<nrst, core, catch, sticky>>]_vars
  BY QuietStep DEF HotInv
<1> QED
  BY <1>1, <1>2, <1>3, TargetTypeCorrect, PTL DEF Spec, LookingDisturbsNothing


-----------------------------------------------------------------------------
-----------------------------------------------------------------------------
(* What a programmer puts in the queue, and what ageing does to it.        *)

LEMMA StaleType == ASSUME NEW i \in Item PROVE Stale(i) \in Item
  BY DEF Stale, Item

LEMMA AgedType ==
  ASSUME NEW s \in Seq(Item)
  PROVE  Aged(s) \in Seq(Item) /\ Len(Aged(s)) = Len(s)
  BY StaleType DEF Aged

LEMMA AgedEmpty == Aged(<<>>) = <<>>
  BY DEF Aged

LEMMA WrapperType == Wrapper \in Item /\ Wrapper.kind = "wrapper" /\ Wrapper.age = "fresh"
  BY DEF Wrapper, Item, Status

(* A reply that is expected is one item, of the room asked for and fresh. *)
IsReply(items, o) == Len(items) = 1 /\ items[1].kind = o.room /\ items[1].age = "fresh"

LEMMA RepliesShape ==
  ASSUME NEW o \in Op, NEW items \in RepliesTo(o)
  PROVE  /\ items \in Seq(Item)
         /\ o.room = "nothing" => items = <<>>
         /\ o.room # "nothing" => IsReply(items, o)
<1>1. CASE o.room = "nothing"
  BY <1>1 DEF RepliesTo
<1>2. CASE o.room # "nothing"
  <2>1. PICK r \in Item : r.kind = o.room /\ r.age = "fresh" /\ items = <<r>>
    BY <1>2 DEF RepliesTo
  <2> QED
    BY <1>2, <2>1 DEF IsReply
<1> QED
  BY <1>1, <1>2

(* An answer is the reply and then, of a V1 that is done, its wrapper. *)
LEMMA AnswersShape ==
  ASSUME NEW o \in Op, NEW items \in AnswersTo(o)
  PROVE  /\ items \in Seq(Item)
         /\ \E t \in RepliesTo(o) :
              items = IF version = 1 /\ o.then = "done" THEN Append(t, Wrapper) ELSE t
<1>1. PICK t \in RepliesTo(o) :
        items = IF version = 1 /\ o.then = "done" THEN Append(t, Wrapper) ELSE t
  BY DEF AnswersTo
<1>2. t \in Seq(Item)
  BY RepliesShape
<1>3. items \in Seq(Item)
  BY <1>1, <1>2, WrapperType
<1> QED
  BY <1>1, <1>3

-----------------------------------------------------------------------------
(* Types.                                                                  *)

LEMMA ExchangeTypeInit == ExchangeInit => ExchangeTypeOK
<1> SUFFICES ASSUME ExchangeInit PROVE ExchangeTypeOK
  OBVIOUS
<1>1. version \in {1, 2} /\ op \in OpsOf(version) /\ sends \in Nat
  BY DEF ExchangeInit
<1>3. inbox \in Seq(Item) /\ answer = NoAnswer
  BY DEF ExchangeInit
<1>2. link = "sound" /\ stage = "idle" /\ result = "none" /\ first = "zero"
  BY DEF ExchangeInit
<1> QED
  BY <1>1, <1>2, <1>3 DEF ExchangeTypeOK

(* The queue holds items, and an answer is one of them. *)
LEMMA StepItems ==
  ASSUME inbox \in Seq(Item), op \in Op,
     answer \in Item \cup {NoAnswer}, ExchangeNext
  PROVE  inbox' \in Seq(Item) /\ answer' \in Item \cup {NoAnswer}
<1> USE DEF Return
<1>1. ASSUME NEW o \in OpsOf(version), Call(o)
      PROVE  inbox' \in Seq(Item) /\ answer' \in Item \cup {NoAnswer}
  BY <1>1 DEF Call
<1>2. CASE SendFails
  BY <1>2, AgedType DEF SendFails
<1>3. CASE Send
  <2>1. PICK items \in AnswersTo(op) \cup {<<>>} : inbox' = Aged(inbox) \o items
    BY <1>3 DEF Send
  <2>2. items \in Seq(Item)
    <3>1. CASE items \in AnswersTo(op)
      BY <3>1, AnswersShape
    <3>2. CASE items = <<>>
      BY <3>2
    <3> QED
      BY <2>1, <3>1, <3>2
  <2>3. Aged(inbox) \in Seq(Item)
    BY AgedType
  <2> QED
    BY <1>3, <2>1, <2>2, <2>3 DEF Send
<1>4. CASE Sent
  BY <1>4 DEF Sent
<1>5. CASE ReceiveFails \/ Overflows
  BY <1>5 DEF ReceiveFails, Overflows
<1>6. CASE Retries \/ Refused \/ WrongLength
  BY <1>6 DEF Retries, Refused, WrongLength, Arrives
<1>7. CASE Accepts
  BY <1>7 DEF Accepts, Arrives
<1>8. CASE WriteData \/ WriteDataFails
  BY <1>8, WrapperType DEF WriteData, WriteDataFails
<1>9. CASE DiscardWrapper \/ DiscardFails
  BY <1>9 DEF DiscardWrapper, DiscardFails
<1>10. CASE Reopen
  BY <1>10 DEF Reopen
<1> QED
  BY <1>1, <1>2, <1>3, <1>4, <1>5, <1>6, <1>7, <1>8, <1>9, <1>10 DEF ExchangeNext, CallProceeds

(* What the type invariant says of the call itself. *)
CallTyped ==
  /\ version \in {1, 2}
  /\ stage \in {"idle", "sending", "receiving", "sent", "data", "wrapper"}
  /\ op \in OpsOf(version)
  /\ sends \in Nat
  /\ first \in Status \cup {"zero"}
  /\ result \in {"none", "io", "refused", "protocol", "ok"}
  /\ stage \in {"data", "wrapper"} => version = 1
  /\ link \in {"sound", "upset"}

LEMMA StepCall ==
  ASSUME CallTyped, inbox \in Seq(Item), ExchangeNext
  PROVE  CallTyped'
<1> USE DEF CallTyped, Return
<1>1. ASSUME NEW o \in OpsOf(version), Call(o) PROVE CallTyped'
  BY <1>1 DEF Call
<1>2. CASE SendFails \/ Sent
  BY <1>2 DEF SendFails, Sent
<1>3. CASE Send
  BY <1>3 DEF Send, AfterSend, OpsOf
<1>4. CASE ReceiveFails \/ Overflows
  BY <1>4 DEF ReceiveFails, Overflows
<1>5. CASE Retries \/ Refused \/ WrongLength \/ Accepts
  <2>1. FirstByte \in Status \cup {"zero"}
    <3>1. inbox # <<>>
      BY <1>5 DEF Retries, Refused, WrongLength, Accepts,
         Arrives
    <3>2. Head(inbox) \in Item
      BY <3>1
    <3> QED
      BY <3>2 DEF FirstByte, Item
  <2> QED
    BY <1>5, <2>1 DEF Retries, Refused, WrongLength, Accepts,
       Arrives
<1>6. CASE WriteData \/ WriteDataFails
  BY <1>6 DEF WriteData, WriteDataFails
<1>7. CASE DiscardWrapper \/ DiscardFails
  BY <1>7 DEF DiscardWrapper, DiscardFails
<1>8. CASE Reopen
  BY <1>8 DEF Reopen
<1> QED
  BY <1>1, <1>2, <1>3, <1>4, <1>5, <1>6, <1>7, <1>8 DEF ExchangeNext, CallProceeds

LEMMA ExchangeTypeStep == ExchangeTypeOK /\ [ExchangeNext]_(exchangeVars) => ExchangeTypeOK'
<1> SUFFICES ASSUME ExchangeTypeOK, [ExchangeNext]_(exchangeVars) PROVE ExchangeTypeOK'
  OBVIOUS
<1>1. CASE ExchangeNext
  <2>1. CallTyped /\ op \in Op
    BY DEF ExchangeTypeOK, CallTyped, OpsOf
  <2>2. inbox' \in Seq(Item) /\ answer' \in Item \cup {NoAnswer}
    BY <1>1, <2>1, StepItems DEF ExchangeTypeOK
  <2>3. CallTyped'
    BY <1>1, <2>1, StepCall DEF ExchangeTypeOK
  <2> QED
    BY <2>2, <2>3 DEF ExchangeTypeOK, CallTyped
<1>2. CASE UNCHANGED exchangeVars
  BY <1>2 DEF exchangeVars, ExchangeTypeOK
<1> QED
  BY <1>1, <1>2

(* The type invariant: only a V1 waits for wrappers or writes data after    *)
(* its command, whatever was left unread.                                  *)
THEOREM ExchangeTypeCorrect == ExchangeSpec => []ExchangeTypeOK
  BY ExchangeTypeInit, ExchangeTypeStep, PTL DEF ExchangeSpec

-----------------------------------------------------------------------------
(* Whose answer it is.                                                     *)

LEMMA TailOfOne ==
  ASSUME NEW I, NEW s \in Seq(I), Len(s) = 1
  PROVE  Tail(s) = <<>> /\ Head(s) = s[1]
<1>1. s # <<>>
  OBVIOUS
<1>2. Tail(s) \in Seq(I) /\ Len(Tail(s)) = 0
  BY <1>1, HeadTailProperties
<1>3. Tail(s) = <<>>
  BY <1>2, EmptySeq
<1> QED
  BY <1>3

LEMMA TailOfTwo ==
  ASSUME NEW I, NEW s \in Seq(I), Len(s) = 2
  PROVE  Len(Tail(s)) = 1 /\ Tail(s)[1] = s[2] /\ Head(s) = s[1]
  OBVIOUS

LEMMA OneAppended ==
  ASSUME NEW I, NEW s \in Seq(I), NEW i \in I, Len(s) = 1
  PROVE  /\ Len(Append(s, i)) = 2
         /\ Append(s, i)[1] = s[1]
         /\ Append(s, i)[2] = i
<1>1. Len(Append(s, i)) = Len(s) + 1
  BY AppendProperties, Zenon
<1>2. Append(s, i)[1] = s[1]
  OBVIOUS
<1>3. Append(s, i)[Len(s) + 1] = i
  BY AppendProperties, Zenon
<1> QED
  BY <1>1, <1>2, <1>3

AnswersOp(item) == item.kind = op.room /\ item.age = "fresh"

(* What is unread, wherever the call is. *)
Queue ==
  /\ stage \in {"idle", "sending", "sent", "data"} => inbox = <<>>
  /\ stage = "receiving" /\ version = 2 => inbox = <<>> \/ (Len(inbox) = 1 /\ AnswersOp(inbox[1]))
  /\ stage = "receiving" /\ version = 1 =>
       Len(inbox) = 2 /\ AnswersOp(inbox[1]) /\ inbox[2] = Wrapper
  /\ stage = "wrapper" =>
       /\ Len(inbox) = 1 /\ inbox[1] = Wrapper
       /\ op.room # "nothing" => AnswersOp(answer)

Progress ==
  /\ stage = "data" => op.then = "data"
  /\ stage = "receiving" => op.room # "nothing"
  /\ stage = "sent" => op.room = "nothing"
  /\ result # "none" => stage = "idle"

QueueInv == Progress /\ (Trusted => Queue) /\ AnswerIsForThisSend

LEMMA StepProgress ==
  ASSUME CallTyped, Progress, ExchangeNext
  PROVE  Progress'
<1> USE DEF CallTyped, Return, Progress
<1>1. ASSUME NEW o \in OpsOf(version), Call(o) PROVE Progress'
  BY <1>1 DEF Call
<1>2. CASE SendFails \/ Sent
  BY <1>2 DEF SendFails, Sent
<1>3. CASE Send
  BY <1>3 DEF Send, AfterSend, OpsOf
<1>4. CASE ReceiveFails \/ Overflows
  BY <1>4 DEF ReceiveFails, Overflows
<1>5. CASE Retries \/ Refused \/ WrongLength \/ Accepts
  BY <1>5 DEF Retries, Refused, WrongLength, Accepts,
     Arrives
<1>6. CASE WriteData \/ WriteDataFails
  BY <1>6 DEF WriteData, WriteDataFails
<1>7. CASE DiscardWrapper \/ DiscardFails
  BY <1>7 DEF DiscardWrapper, DiscardFails
<1>8. CASE Reopen
  BY <1>8 DEF Reopen
<1> QED
  BY <1>1, <1>2, <1>3, <1>4, <1>5, <1>6, <1>7, <1>8 DEF ExchangeNext, CallProceeds

(* Once it has been sent, what there is to read is what it is to be answered *)
(* with, or on a V2 possibly nothing.                                      *)
LEMMA SendQueue ==
  ASSUME ExchangeTypeOK, QueueInv, Send, Trusted'
  PROVE  Queue'
<1> USE DEF Trusted, Queue, AnswersOp
<1>typed. CallTyped /\ inbox \in Seq(Item) /\ op \in Op
  BY DEF ExchangeTypeOK, CallTyped, OpsOf
<1>1. PICK items \in AnswersTo(op) \cup {<<>>} : inbox' = Aged(inbox) \o items
  BY DEF Send
<1>2. stage = "sending" /\ stage' = AfterSend /\ UNCHANGED <<version, op, answer>>
  BY DEF Send
<1>3. Trusted /\ (version = 1 => Len(inbox') # Len(inbox) \/ <<>> \in AnswersTo(op))
  BY DEF Send
<1>4. inbox = <<>>
  BY <1>2, <1>3 DEF QueueInv
<1>5. items \in Seq(Item)
  <2>1. CASE items \in AnswersTo(op)
    BY <1>typed, <2>1, AnswersShape
  <2>2. CASE items = <<>>
    BY <2>2
  <2> QED
    BY <2>1, <2>2
<1>6. inbox' = items
  BY <1>1, <1>4, <1>5, AgedEmpty, ConcatEmptySeq
<1>7. CASE items \in AnswersTo(op)
  <2>1. PICK t \in RepliesTo(op) :
          items = IF version = 1 /\ op.then = "done" THEN Append(t, Wrapper) ELSE t
    BY <1>typed, <1>7, AnswersShape
  <2>2. /\ t \in Seq(Item)
        /\ op.room = "nothing" => t = <<>>
        /\ op.room # "nothing" => IsReply(t, op)
    BY <1>typed, RepliesShape
  <2>3. CASE version = 2
    <3>1. items = t
      BY <2>1, <2>3
    <3> QED
      BY <1>typed, <1>2, <1>6, <2>2, <2>3, <3>1 DEF AfterSend, CallTyped, OpsOf,
         IsReply
  <2>4. CASE version = 1 /\ op.then = "data"
    <3>1. items = t
      BY <2>1, <2>4
    <3> QED
      BY <1>typed, <1>2, <1>6, <2>2, <2>4, <3>1 DEF AfterSend, CallTyped, OpsOf
  <2>5. CASE version = 1 /\ op.then = "done"
    <3>1. items = Append(t, Wrapper)
      BY <2>1, <2>5
    <3>2. CASE op.room = "nothing"
      <4>1. Len(items) = 1 /\ items[1] = Wrapper
        BY <2>2, <3>1, <3>2, AppendProperties, WrapperType
      <4> QED
        BY <1>2, <1>6, <2>5, <3>2, <4>1 DEF AfterSend
    <3>3. CASE op.room # "nothing"
      <4>1. Len(items) = 2 /\ items[1] = t[1] /\ items[2] = Wrapper
        BY <2>2, <3>1, <3>3, OneAppended, WrapperType DEF IsReply
      <4> QED
        BY <1>2, <1>6, <2>2, <2>5, <3>3, <4>1 DEF AfterSend, IsReply
    <3> QED
      BY <3>2, <3>3
  <2> QED
    BY <1>typed, <2>3, <2>4, <2>5 DEF CallTyped, Op
<1>8. CASE items \notin AnswersTo(op)
  <2>1. items = <<>> /\ version = 2
    BY <1>1, <1>3, <1>4, <1>6, <1>8, <1>typed DEF CallTyped
  <2> QED
    BY <1>typed, <1>2, <1>6, <2>1 DEF AfterSend, CallTyped, OpsOf
<1> QED
  BY <1>7, <1>8

LEMMA NextQueue ==
  ASSUME ExchangeTypeOK, QueueInv, ExchangeNext, Trusted'
  PROVE  Queue'
<1>typed. CallTyped /\ inbox \in Seq(Item)
  BY DEF ExchangeTypeOK, CallTyped
<1>before. Progress /\ (Trusted => Queue)
  BY DEF QueueInv
<1> USE DEF Return
<1>1. ASSUME NEW o \in OpsOf(version), Call(o) PROVE Queue'
  <2>1. Trusted
    BY <1>1 DEF Call, Trusted
  <2> QED
    BY <1>1, <1>before, <2>1 DEF Call, Queue
<1>2. CASE SendFails
  <2>1. Trusted /\ version = 2
    BY <1>2, <1>typed DEF SendFails, Trusted, CallTyped
  <2>2. inbox = <<>>
    BY <1>2, <1>before, <2>1 DEF SendFails, Queue
  <2> QED
    BY <1>2, <2>2, AgedEmpty DEF SendFails, Queue
<1>3. CASE Send
  BY <1>3, SendQueue
<1>4. CASE Sent
  <2>1. Trusted
    BY <1>4 DEF Sent, Trusted
  <2> QED
    BY <1>4, <1>before, <2>1 DEF Sent, Queue
<1>5. CASE ReceiveFails \/ Overflows
  <2>1. Trusted /\ version = 2 /\ stage = "receiving"
    BY <1>5, <1>typed DEF ReceiveFails, Overflows, Trusted, CallTyped
  <2>2. inbox = <<>> \/ Tail(inbox) = <<>>
    BY <1>before, <1>typed, <2>1, TailOfOne DEF Queue
  <2>3. inbox' = <<>> /\ stage' = "idle"
    BY <1>5, <2>2 DEF ReceiveFails, Overflows
  <2> QED
    BY <2>3 DEF Queue
<1>6. CASE Retries \/ Refused \/ WrongLength
  <2>1. Trusted /\ version = 2 /\ stage = "receiving" /\ inbox # <<>>
    BY <1>6, <1>typed DEF Retries, Refused, WrongLength, Arrives,
       Trusted,
                          StatusChecked, WaitAgain, CallTyped, OpsOf
  <2>2. Tail(inbox) = <<>>
    BY <1>before, <1>typed, <2>1, TailOfOne DEF Queue
  <2>3. inbox' = <<>> /\ stage' \in {"idle", "sending"}
    BY <1>6, <2>2 DEF Retries, Refused, WrongLength, Arrives
  <2> QED
    BY <2>3 DEF Queue
<1>7. CASE Accepts
  <2>1. /\ Trusted /\ stage = "receiving" /\ inbox # <<>> /\ inbox' = Tail(inbox)
        /\ UNCHANGED <<version, op>>
    BY <1>7 DEF Accepts, Arrives, Trusted
  <2>2. CASE version = 2
    <3>1. Tail(inbox) = <<>>
      BY <1>before, <1>typed, <2>1, <2>2, TailOfOne DEF Queue
    <3> QED
      BY <1>7, <2>1, <2>2, <3>1 DEF Accepts, Queue
  <2>3. CASE version = 1
    <3>1. Len(inbox) = 2 /\ AnswersOp(inbox[1]) /\ inbox[2] = Wrapper
      BY <1>before, <2>1, <2>3 DEF Queue
    <3>2. Len(inbox') = 1 /\ inbox'[1] = Wrapper /\ AnswersOp(Head(inbox))
      BY <1>typed, <2>1, <3>1, TailOfTwo
    <3>3. stage' = "wrapper" /\ answer' = Head(inbox)
      BY <1>7, <2>3 DEF Accepts
    <3> QED
      BY <2>1, <3>2, <3>3 DEF Queue, AnswersOp
  <2> QED
    BY <1>typed, <2>2, <2>3 DEF CallTyped
<1>8. CASE WriteData
  <2>1. /\ Trusted /\ stage = "data" /\ stage' = "wrapper" /\ UNCHANGED op
        /\ inbox' = Append(inbox, Wrapper)
    BY <1>8 DEF WriteData, Trusted
  <2>2. inbox' = <<Wrapper>>
    BY <1>before, <2>1, WrapperType DEF Queue
  <2>3. op.room = "nothing"
    BY <1>before, <1>typed, <2>1 DEF Progress, CallTyped, OpsOf
  <2> QED
    BY <2>1, <2>2, <2>3, WrapperType DEF Queue
<1>9. CASE WriteDataFails \/ DiscardFails
  BY <1>9, <1>typed DEF WriteDataFails, DiscardFails, Trusted, CallTyped
<1>10. CASE DiscardWrapper
  <2>1. Trusted /\ stage = "wrapper" /\ stage' = "idle" /\ inbox' = Tail(inbox)
    BY <1>10 DEF DiscardWrapper, Trusted
  <2>2. inbox' = <<>>
    BY <1>before, <1>typed, <2>1, TailOfOne DEF Queue
  <2> QED
    BY <2>1, <2>2 DEF Queue
<1>11. CASE Reopen
  BY <1>11 DEF Reopen, Queue
<1> QED
  BY <1>1, <1>2, <1>3, <1>4, <1>5, <1>6, <1>7, <1>8, <1>9, <1>10, <1>11 DEF ExchangeNext,
     CallProceeds

(* A call ends well with what was at the head of the queue, or, on a V1,    *)
(* with what was there before the wrapper.                                 *)
LEMMA NextAnswer ==
  ASSUME ExchangeTypeOK, QueueInv, ExchangeNext
  PROVE  AnswerIsForThisSend'
<1>typed. CallTyped /\ inbox \in Seq(Item)
  BY DEF ExchangeTypeOK, CallTyped
<1>before. Progress /\ (Trusted => Queue)
  BY DEF QueueInv
<1> USE DEF Return, AnswerIsForThisSend
<1>1. ASSUME NEW o \in OpsOf(version), Call(o) PROVE AnswerIsForThisSend'
  BY <1>1 DEF Call
<1>2. CASE SendFails \/ ReceiveFails \/ Overflows
  BY <1>2 DEF SendFails, ReceiveFails, Overflows
<1>3. CASE Send
  BY <1>3, <1>before DEF Send, Progress
<1>4. CASE Sent
  BY <1>4, <1>before DEF Sent, Progress
<1>5. CASE Retries \/ Refused \/ WrongLength
  BY <1>5, <1>before DEF Retries, Refused, WrongLength, Arrives,
     Progress
<1>6. CASE Accepts
  <2>1. /\ stage = "receiving" /\ inbox # <<>> /\ UNCHANGED <<version, op, link>>
        /\ result' = "ok" => version # 1 /\ answer' = Head(inbox)
    BY <1>6, <1>before DEF Accepts, Arrives, Progress
  <2>2. CASE version = 2
    <3>1. AnswersOp(Head(inbox))
      BY <1>before, <1>typed, <2>1, <2>2, TailOfOne DEF Queue, Trusted
    <3> QED
      BY <2>1, <3>1 DEF AnswersOp
  <2> QED
    BY <1>typed, <2>1, <2>2 DEF CallTyped
<1>7. CASE WriteData \/ WriteDataFails
  BY <1>7, <1>before DEF WriteData, WriteDataFails, Progress
<1>8. CASE DiscardWrapper
  <2>1. stage = "wrapper" /\ UNCHANGED <<version, op, link, answer>>
    BY <1>8 DEF DiscardWrapper
  <2>2. Trusted' => Trusted
    BY <2>1 DEF Trusted
  <2> QED
    BY <1>before, <2>1, <2>2 DEF Queue, AnswersOp
<1>9. CASE DiscardFails \/ Reopen
  BY <1>9 DEF DiscardFails, Reopen
<1> QED
  BY <1>1, <1>2, <1>3, <1>4, <1>5, <1>6, <1>7, <1>8, <1>9 DEF ExchangeNext, CallProceeds

LEMMA QueueStep == ExchangeTypeOK /\ QueueInv /\ [ExchangeNext]_(exchangeVars) => QueueInv'
<1> SUFFICES ASSUME ExchangeTypeOK, QueueInv, [ExchangeNext]_(exchangeVars) PROVE QueueInv'
  OBVIOUS
<1>1. CASE ExchangeNext
  <2>1. Progress'
    BY <1>1, StepProgress DEF QueueInv, ExchangeTypeOK, CallTyped
  <2> QED
    BY <1>1, <2>1, NextQueue, NextAnswer DEF QueueInv
<1>2. CASE UNCHANGED exchangeVars
  BY <1>2 DEF exchangeVars, QueueInv, Progress, Trusted, Queue, AnswersOp,
     AnswerIsForThisSend
<1> QED
  BY <1>1, <1>2

LEMMA QueueInit == ExchangeInit => QueueInv
  BY DEF ExchangeInit, QueueInv, Progress, Queue, AnswerIsForThisSend

(* The answer a call returns is the one to the last time its command was    *)
(* sent, on any V2, and on a V1 until a transfer fails.                     *)
THEOREM AnswersMatch == ExchangeSpec => []AnswerIsForThisSend
  BY ExchangeTypeInit, ExchangeTypeStep, QueueInit, QueueStep, ExchangeTypeCorrect, PTL
     DEF ExchangeSpec, QueueInv

(* Between two calls there is nothing left to read, on the same terms.      *)
THEOREM QueueDrained == ExchangeSpec => []NothingUnread
<1>1. QueueInv => NothingUnread
  BY DEF QueueInv, Trusted, Queue, NothingUnread
<1> QED
  BY <1>1, QueueInit, QueueStep, ExchangeTypeCorrect, PTL DEF ExchangeSpec

-----------------------------------------------------------------------------
(* What the status byte is worth.                                          *)

(* While there is a status to come, what it is read over says anything but *)
(* Ok, so a reply that brings no byte cannot be taken for success.          *)
StatusInv ==
  /\ Progress /\ OkWasSaid
  /\ stage \in {"sending", "receiving"} /\ StatusChecked => first \in {"zero", "wait"}

LEMMA NextFirst ==
  ASSUME ExchangeTypeOK, StatusInv, ExchangeNext,
         stage' \in {"sending", "receiving"}, StatusChecked'
  PROVE  first' \in {"zero", "wait"}
<1>before. stage \in {"sending", "receiving"} /\ StatusChecked => first \in {"zero", "wait"}
  BY DEF StatusInv
<1> USE DEF Return, StatusChecked
<1>1. ASSUME NEW o \in OpsOf(version), Call(o) PROVE first' \in {"zero", "wait"}
  BY <1>1 DEF Call
<1>2. CASE Send
  BY <1>2, <1>before DEF Send
<1>3. CASE Retries
  BY <1>3 DEF Retries, Arrives, WaitAgain
<1>4. CASE SendFails \/ Sent \/ ReceiveFails \/ Overflows
  BY <1>4 DEF SendFails, Sent, ReceiveFails, Overflows
<1>5. CASE Refused \/ WrongLength \/ Accepts
  BY <1>5 DEF Refused, WrongLength, Accepts
<1>6. CASE WriteData \/ WriteDataFails \/ DiscardWrapper \/ DiscardFails
  BY <1>6 DEF WriteData, WriteDataFails, DiscardWrapper,
     DiscardFails
<1>7. CASE Reopen
  BY <1>7 DEF Reopen
<1> QED
  BY <1>1, <1>2, <1>3, <1>4, <1>5, <1>6, <1>7 DEF ExchangeNext, CallProceeds

LEMMA NextOk ==
  ASSUME ExchangeTypeOK, StatusInv, ExchangeNext
  PROVE  OkWasSaid'
<1>typed. CallTyped
  BY DEF ExchangeTypeOK, CallTyped
<1>before. Progress
  BY DEF StatusInv
<1> USE DEF Return, OkWasSaid, StatusChecked
<1>1. ASSUME NEW o \in OpsOf(version), Call(o) PROVE OkWasSaid'
  BY <1>1 DEF Call
<1>2. CASE SendFails \/ ReceiveFails \/ Overflows
  BY <1>2 DEF SendFails, ReceiveFails, Overflows
<1>3. CASE Send
  BY <1>3, <1>before DEF Send, Progress
<1>4. CASE Sent
  BY <1>4, <1>before, <1>typed DEF Sent, Progress, CallTyped, OpsOf
<1>5. CASE Retries \/ Refused \/ WrongLength
  BY <1>5, <1>before DEF Retries, Refused, WrongLength, Arrives,
     Progress
<1>6. CASE Accepts
  <2> SUFFICES ASSUME StatusChecked
               PROVE  answer'.extent # "empty" /\ answer'.says = "ok"
    BY <1>6 DEF Accepts, Arrives
  <2>1. version # 1 /\ first \in {"zero", "wait"}
    BY <1>6, <1>typed DEF Accepts, Arrives, StatusInv, CallTyped, OpsOf
  <2>2. FirstByte = "ok" /\ answer' = Head(inbox)
    BY <1>6, <2>1 DEF Accepts
  <2> QED
    BY <2>1, <2>2 DEF FirstByte
<1>7. CASE WriteData \/ WriteDataFails
  BY <1>7, <1>before DEF WriteData, WriteDataFails, Progress
<1>8. CASE DiscardWrapper
  BY <1>8, <1>typed DEF DiscardWrapper, CallTyped, OpsOf
<1>9. CASE DiscardFails \/ Reopen
  BY <1>9 DEF DiscardFails, Reopen
<1> QED
  BY <1>1, <1>2, <1>3, <1>4, <1>5, <1>6, <1>7, <1>8, <1>9 DEF ExchangeNext, CallProceeds

LEMMA StatusStep == ExchangeTypeOK /\ StatusInv /\ [ExchangeNext]_(exchangeVars) => StatusInv'
<1> SUFFICES ASSUME ExchangeTypeOK, StatusInv, [ExchangeNext]_(exchangeVars) PROVE StatusInv'
  OBVIOUS
<1>1. CASE ExchangeNext
  <2>1. Progress'
    BY <1>1, StepProgress DEF StatusInv, ExchangeTypeOK, CallTyped
  <2> QED
    BY <1>1, <2>1, NextFirst, NextOk DEF StatusInv
<1>2. CASE UNCHANGED exchangeVars
  BY <1>2 DEF exchangeVars, StatusInv, Progress, StatusChecked, OkWasSaid
<1> QED
  BY <1>1, <1>2

(* A checked command succeeds only on a status of Ok that arrived, although *)
(* the code does not look at how many bytes did.                            *)
THEOREM OkIsOk == ExchangeSpec => []OkWasSaid
<1>1. ExchangeInit => StatusInv
  BY DEF ExchangeInit, StatusInv, Progress, StatusChecked, OkWasSaid
<1> QED
  BY <1>1, StatusStep, ExchangeTypeCorrect, PTL DEF ExchangeSpec, StatusInv

-----------------------------------------------------------------------------
(* How often a command goes out.                                           *)

SendsInv ==
  /\ FourSendsAtMost
  /\ result # "none" => stage = "idle"
  /\ stage = "sending" => sends <= WaitRetries /\ (sends >= 1 => op.check = "Retry")

LEMMA SendsStep == ExchangeTypeOK /\ SendsInv /\ [ExchangeNext]_(exchangeVars) => SendsInv'
<1> SUFFICES ASSUME ExchangeTypeOK, SendsInv, [ExchangeNext]_(exchangeVars) PROVE SendsInv'
  OBVIOUS
<1> USE DEF SendsInv, FourSendsAtMost, WaitRetries, Return
<1>typed. sends \in Nat
  BY DEF ExchangeTypeOK
<1>1. ASSUME NEW o \in OpsOf(version), Call(o) PROVE SendsInv'
  BY <1>1 DEF Call
<1>2. CASE SendFails \/ Send
  BY <1>2, <1>typed DEF SendFails, Send, AfterSend
<1>3. CASE Sent \/ ReceiveFails \/ Overflows
  BY <1>3, <1>typed DEF Sent, ReceiveFails, Overflows
<1>4. CASE Retries
  BY <1>4, <1>typed DEF Retries, Arrives, WaitAgain
<1>5. CASE Refused
  BY <1>5, <1>typed DEF Refused, Arrives, WaitAgain
<1>6. CASE WrongLength
  BY <1>6, <1>typed DEF WrongLength, Arrives
<1>7. CASE Accepts
  <2>1. UNCHANGED <<sends, op>> /\ stage = "receiving"
    BY <1>7 DEF Accepts, Arrives
  <2>2. \/ stage' = "wrapper" /\ result' = result
        \/ stage' = "idle" /\ result' = "ok"
    BY <1>7 DEF Accepts
  <2> QED
    BY <2>1, <2>2
<1>8. CASE WriteData \/ WriteDataFails
  BY <1>8, <1>typed DEF WriteData, WriteDataFails
<1>9. CASE DiscardWrapper \/ DiscardFails \/ Reopen
  BY <1>9, <1>typed DEF DiscardWrapper, DiscardFails, Reopen
<1>10. CASE UNCHANGED exchangeVars
  BY <1>10 DEF exchangeVars
<1> QED
  BY <1>1, <1>2, <1>3, <1>4, <1>5, <1>6, <1>7, <1>8, <1>9, <1>10 DEF ExchangeNext, CallProceeds

(* Four sends at most, more than one only where a wait may be retried, and  *)
(* a wait is reported only after the fourth.                                *)
THEOREM SendsBounded == ExchangeSpec => []FourSendsAtMost
<1>1. ExchangeInit => SendsInv
  BY DEF ExchangeInit, SendsInv, FourSendsAtMost, WaitRetries
<1> QED
  BY <1>1, SendsStep, ExchangeTypeCorrect, PTL DEF ExchangeSpec, SendsInv


=============================================================================
