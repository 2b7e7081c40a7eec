----------------------------- MODULE OpenDevice -----------------------------
(***************************************************************************)
(* The life of an open device: every operation of IDevice that reaches the *)
(* target, as the V1 and the V2 programmers turn it into commands, the     *)
(* trace of ProgrammerTrace beside them, and ~Device.                      *)
(*                                                                         *)
(* An operation is the sequence of commands its function sends; it stops   *)
(* at the first that fails.  The target, external, goes on by itself in    *)
(* between: it executes, takes interrupts, stops at breakpoints, is reset  *)
(* by its button and fills the trace buffer.  Every command may fail, and  *)
(* one that failed may have taken effect.  A V1 answers nothing that says  *)
(* whether a command was carried out (programmer_v1.cpp:123-126), so there *)
(* one that went well need not have been either.                           *)
(***************************************************************************)
EXTENDS Naturals, Sequences

CONSTANT TraceBuffer  \* bound: the most bytes of trace the programmer keeps

ASSUME TraceBufferIsNat == TraceBuffer \in Nat \ {0}

VARIABLES
  api,       \* which class the programmer is, fixed: a V3 is a V2 here
  port,      \* the access port in use, fixed
  bothTrace, \* has_trace_, fixed: the chip has the pin, the programmer a rate
  held,      \* whether nRST is driven low
  halted,    \* DHCSR.S_HALT: the core has stopped
  haltBit,   \* DHCSR.C_HALT: the core is to stop
  masked,    \* DHCSR.C_MASKINTS
  sticky,    \* DHCSR.S_RESET_ST
  faulted,   \* whether the last memory access faulted on the target
  engine,    \* whether the programmer is collecting trace
  waiting,   \* how many bytes of it wait
  running,   \* ProgrammerTrace::running_
  op,        \* the operation under way, or the last one
  todo,      \* the commands it has yet to send
  room,      \* the size a trace read was given
  result,    \* how the last one ended: "none" while one is under way
  told,      \* what is_running() answered
  taken,     \* what a trace read counted, and then what it took
  made,      \* history: instructions executed in a clean step, counted to 2
  handled,   \* history: whether a handler was among them
  clean,     \* history: a step began on a halted core, and no reset since
  unread,    \* history: in reset at some time since is_running() last answered
  alone,     \* history: the core stopped, and not because it was told to
  upset      \* history: what came between the device and a good end

core == <<held, halted, haltBit, masked, sticky>>
seen == <<made, handled, clean, unread, alone>>
target == <<core, faulted, seen>>
trace == <<engine, waiting, running>>
device == <<api, port, bothTrace>>
call == <<op, todo, room, result>>
vars == <<device, target, trace, call, told, taken, upset>>

(* The interfaces of IDevice and ITrace that reach the programmer. *)
Operations ==
  {"halt", "run", "step", "reset", "low", "high", "is_running",
   "read", "write", "registers", "read_debug_register", "write_debug_register",
   "trace_start", "trace_stop", "trace_read", "destroy"}

Upsets ==
  {"step_failed", "step_disturbed", "caller_masked",
   "trace_failed", "left_tracing"}

Executing == ~halted /\ ~held

(* Told to stop, and not there yet. *)
Pending == haltBit /\ Executing

Init ==
  /\ api \in {"V1", "V2"}
  /\ port \in (IF api = "V1" THEN {0} ELSE {0, 1})
  /\ bothTrace \in (IF api = "V1" THEN {FALSE} ELSE BOOLEAN)
  /\ held = FALSE /\ halted \in BOOLEAN /\ masked = FALSE /\ sticky \in BOOLEAN
  /\ haltBit \in {FALSE, halted} /\ alone = halted
  /\ faulted = FALSE
  /\ engine = FALSE /\ waiting = 0 /\ running = FALSE
  /\ op = "destroy" /\ todo = <<>> /\ room = 0 /\ result = "ok"
  /\ told = "nothing" /\ taken = 0
  /\ made = 0 /\ handled = FALSE /\ clean = FALSE /\ unread = sticky
  /\ upset = {}

-----------------------------------------------------------------------------
(* What each operation sends, unless it returns before it sends anything.  *)

Bits == SUBSET {"halt", "step", "mask"}

(* What a word written on a caller's behalf does to the core: any bits of  *)
(* DHCSR, debug mode left by one of them, a reset by AIRCR, or nothing.    *)
Off == {"off"}
Aircr == {"reset"}
Elsewhere == {"elsewhere"}
Words == Bits \cup {Off, Aircr, Elsewhere}

Plain(what) == <<[do |-> what, bits |-> {}]>>

Data(bits) == <<[do |-> "data", bits |-> bits]>>

Sends(commands) == [how |-> "none", commands |-> commands]
Returned(how) == [how |-> how, commands |-> <<>>]

(* A size and an address, by what the checks in front tell apart. *)
Sizes == {"none", "no_buffer", "words", "bytes", "too_many_words", "too_many_bytes"}

(* check_last_write: only word writes have it, and only since the V2. *)
CheckLastWrite == Plain("confirm")

(* Faulty: a write is taken for done when its data is gone. *)
WordsUnconfirmed(bits) == Plain("announce") \o Data(bits)

WriteWords(bits) == Plain("announce") \o Data(bits) \o CheckLastWrite

WriteMemoryV2(size, word) ==
  IF size = "none" THEN Returned("ok")
  ELSE IF size \notin {"words", "bytes"} THEN Returned("refused")
  ELSE Sends(IF size = "words" THEN WriteWords(word) ELSE Plain("announce") \o Data(Elsewhere))

WriteMemoryV1(size, word) ==
  IF size = "none" THEN Returned("ok")
  ELSE IF size \notin {"words", "bytes"} THEN Returned("refused")
  ELSE Sends(Plain("announce") \o Data(IF size = "words" THEN word ELSE Elsewhere))

(* Only words can be read. *)
ReadMemoryV2(size) ==
  IF size = "none" THEN Returned("ok")
  ELSE IF size # "words" THEN Returned("refused") ELSE Sends(Plain("fetch"))

ReadMemoryV1(size) ==
  IF size = "none" THEN Returned("ok")
  ELSE IF size # "words" THEN Returned("refused") ELSE Sends(Plain("fetch"))

(* On any access port but 0, and on a V1, the debug registers are memory. *)
ReadDebugRegister ==
  IF api = "V1" THEN ReadMemoryV1("words")
  ELSE IF port = 0 THEN Sends(Plain("fetch")) ELSE ReadMemoryV2("words")

WriteDebugRegister(word) ==
  IF port = 0 THEN <<[do |-> "register", bits |-> word]>> ELSE WriteWords(word)

HaltV2 == WriteDebugRegister({"halt"})

RunV2 == WriteDebugRegister({})

(* Faulty: stepping and masking in one write. *)
StepWithoutHalt == WriteDebugRegister({"step", "mask"}) \o WriteDebugRegister({"halt"})

(* Faulty: the mask is left for whoever starts the core to lift. *)
StepKeepsMask == WriteDebugRegister({"halt", "mask"}) \o WriteDebugRegister({"step", "mask"})

(* Masked while halted, stepped, and halted with the mask lifted. *)
StepV2 ==
  WriteDebugRegister({"halt", "mask"}) \o WriteDebugRegister({"step", "mask"}) \o WriteDebugRegister({"halt"})

(* A V1 has a command of its own for each of these. *)
Own(bits) == <<[do |-> "own", bits |-> bits]>>

HaltV1 == Own({"halt"})

RunV1 == Own({})

StepV1 == Own({"step"})

ResetV2 == Plain("reset")

ResetV1 == Plain("reset")

DrivePin(level) == Plain(level)

(* One register or all of them; a value that arrives late is not checked. *)
RegistersV2 == Plain("fetch")

RegistersV1 == Plain("fetch")

(* A rate above what the programmer carries is refused. *)
TraceEnable(tooFast) == IF tooFast THEN Returned("refused") ELSE Sends(Plain("start"))

TraceDisable == Sends(Plain("stop"))

TraceRead == Sends(Plain("count") \o Plain("take"))

(* UnavailableTrace stands in for ProgrammerTrace when an end has no trace. *)
UnavailableTrace == Returned("refused")

TraceOf(calls) == IF bothTrace THEN calls ELSE {UnavailableTrace}

Pin(level) == IF api = "V1" THEN Returned("refused") ELSE Sends(DrivePin(level))

Either(v1, v2) == IF api = "V1" THEN v1 ELSE v2

(* Device: every operation goes to the programmer of its class. *)
Programs(o) ==
  CASE o = "halt" -> {Sends(Either(HaltV1, HaltV2))}
    [] o = "run" -> {Sends(Either(RunV1, RunV2))}
    [] o = "step" -> {Sends(Either(StepV1, StepV2))}
    [] o = "reset" -> {Sends(Either(ResetV1, ResetV2))}
    [] o \in {"low", "high"} -> {Pin(o)}
    [] o = "is_running" -> {Sends(Plain("ask"))}
    [] o = "read" -> {Either(ReadMemoryV1(z), ReadMemoryV2(z)) : z \in Sizes}
    [] o = "write" ->
         {Either(WriteMemoryV1(z, w), WriteMemoryV2(z, w)) : z \in Sizes, w \in Words}
    [] o = "read_debug_register" -> {ReadDebugRegister}
    [] o = "write_debug_register" ->
         {Either(WriteMemoryV1("words", w), Sends(WriteDebugRegister(w))) : w \in Words}
    [] o = "registers" -> {Sends(Either(RegistersV1, RegistersV2))}
    [] o = "trace_start" -> TraceOf({TraceEnable(FALSE), TraceEnable(TRUE)})
    [] o = "trace_stop" -> TraceOf({TraceDisable})
    [] o = "trace_read" -> TraceOf({TraceRead})
    [] o = "destroy" -> {Sends(Plain("exit"))}

-----------------------------------------------------------------------------
(* Calls and returns.                                                      *)

Idle == result # "none"
Open == Idle /\ op # "destroy"

(* create() without a reset; how else it goes is TargetSession's. *)
Create ==
  /\ Idle /\ op = "destroy"
  /\ op' = "registers" /\ result' = "ok"
  /\ running' = FALSE
  /\ UNCHANGED <<device, target, engine, waiting, todo, room, told, taken, upset>>

(* A step of a core in reset, and a caller's own word that sets the mask. *)
CalledFor(o, p) ==
  {u \in {"step_disturbed"} : o = "step" /\ held}
    \cup {u \in {"caller_masked"} : /\ o \in {"write", "write_debug_register"}
                                   /\ \E i \in DOMAIN p.commands : "mask" \in p.commands[i].bits}

Call(o) ==
  /\ Open
  /\ op' = o
  /\ \E p \in Programs(o) :
       /\ todo' = p.commands /\ result' = p.how
       /\ upset' = upset \cup CalledFor(o, p)
  /\ told' = "nothing" /\ taken' = 0
  /\ made' = 0 /\ handled' = FALSE /\ clean' = (o = "step" /\ halted /\ ~held)
  /\ room' \in (IF o = "trace_read" THEN 0 .. TraceBuffer ELSE {0})
  /\ UNCHANGED <<device, core, faulted, unread, alone, trace>>

Doing == Head(todo).do
Underway(what) == result = "none" /\ Doing = what

(* The function sends the next command, or returns when there is none. *)
GoesOn ==
  /\ todo' = Tail(todo)
  /\ result' = IF Len(todo) = 1 THEN "ok" ELSE "none"
  /\ UNCHANGED <<device, op, room, upset>>

Returns(how) ==
  /\ todo' = <<>>
  /\ result' = how
  /\ UNCHANGED <<device, op, room>>

Blames(what) == upset' = upset \cup (IF what \in Upsets THEN {what} ELSE {})

-----------------------------------------------------------------------------
(* The target's end of a command, and its own steps.                       *)

ExecutesOne(byHandler) ==
  IF clean
  THEN made' = (IF made = 2 THEN 2 ELSE made + 1) /\ handled' = (handled \/ byHandler)
  ELSE UNCHANGED <<made, handled>>

(* C_MASKINTS is sure to change only on a core that is halted and stays so; *)
(* one held in reset does not halt; one told to step executes an            *)
(* instruction, which may be a handler's unless interrupts are masked.  One *)
(* that runs may not have stopped yet when the programmer answers, but has  *)
(* when the next command gets to it; whether C_HALT shows how a step ended  *)
(* is the core's affair.                                                    *)
DhcsrWritten(bits) ==
  LET mask == "mask" \in bits
      stop == {"halt", "step"} \cap bits # {}
  IN /\ masked' \in (IF halted /\ stop THEN {mask} ELSE {masked, mask})
     /\ halted' \in (IF held THEN {FALSE}
                     ELSE IF stop /\ ~halted /\ ~haltBit THEN BOOLEAN ELSE {stop})
     /\ haltBit' \in (IF "halt" \in bits THEN {TRUE} ELSE {FALSE, stop})
     /\ alone' = (halted' /\ "halt" \notin bits)
     /\ IF "step" \in bits /\ halted
        THEN \E irq \in {FALSE, ~(masked /\ mask)} : ExecutesOne(irq)
        ELSE UNCHANGED <<made, handled>>
     /\ UNCHANGED <<held, sticky, clean, unread>>

ResetCore ==
  /\ halted' = FALSE /\ alone' = FALSE
  /\ haltBit' \in {FALSE, haltBit} /\ masked' \in {FALSE, masked}
  /\ sticky' = TRUE /\ unread' = TRUE /\ clean' = FALSE
  /\ UNCHANGED <<made, handled>>

PinLow == held' = TRUE /\ ResetCore /\ UNCHANGED faulted

PinHigh == held' = FALSE /\ UNCHANGED <<halted, haltBit, masked, sticky, faulted, seen>>

DebugLeft ==
  /\ halted' = FALSE /\ alone' = FALSE /\ haltBit' = FALSE
  /\ masked' \in {FALSE, masked}
  /\ UNCHANGED <<held, sticky, made, handled, clean, unread>>

WordWritten(word) ==
  \/ word \in Bits /\ DhcsrWritten(word)
  \/ word = Off /\ DebugLeft
  \/ word = Aircr /\ ResetCore /\ UNCHANGED held
  \/ word = Elsewhere /\ UNCHANGED <<core, seen>>

(* Executing may end at a breakpoint, which may show in C_HALT, or because *)
(* a halt takes effect; what it traces may find no room.                   *)
Executes ==
  /\ Executing
  /\ \E irq \in {FALSE, ~masked} : ExecutesOne(irq)
  /\ halted' \in {FALSE, op # "destroy"}
  /\ haltBit' \in {haltBit, haltBit \/ halted'}
  /\ alone' = (halted' /\ ~haltBit)
  /\ waiting' \in (IF engine /\ waiting < TraceBuffer THEN {waiting, waiting + 1} ELSE {waiting})
  /\ UNCHANGED <<device, held, masked, sticky, faulted, clean, unread, engine, running,
                 call, told, taken, upset>>

ResetButton ==
  /\ ResetCore /\ UNCHANGED faulted
  /\ Blames(IF op = "step" /\ ~Idle THEN "step_disturbed" ELSE "")
  /\ UNCHANGED <<device, held, trace, call, told, taken>>

-----------------------------------------------------------------------------
(* The commands, one action for those that go the same way.                *)

(* On a V1 nothing tells an effect from none. *)
Succeeds(what, Effect) ==
  /\ Underway(what)
  /\ Effect \/ (api = "V1" /\ UNCHANGED target)
  /\ GoesOn
  /\ UNCHANGED <<trace, told, taken>>

Fails(what, Effect) ==
  /\ Underway(what)
  /\ Effect \/ UNCHANGED target
  /\ Returns("failed")
  /\ Blames(IF op = "step" THEN "step_failed" ELSE "")
  /\ UNCHANGED <<trace, told, taken>>

Control(what, Effect) == Succeeds(what, Effect) \/ Fails(what, Effect)

WriteRegister == Control("register", WordWritten(Head(todo).bits) /\ UNCHANGED faulted)

OwnCommand == Control("own", DhcsrWritten(Head(todo).bits) /\ UNCHANGED faulted)

Announce == Control("announce", UNCHANGED target)

Landed == faulted' = FALSE /\ WordWritten(Head(todo).bits)

Faults ==
  /\ faulted' = TRUE
  /\ UNCHANGED <<core, seen>>

(* The transfer says that the data was taken, not what became of it. *)
SendData == Control("data", Landed \/ Faults)

Confirm ==
  \/ ~faulted /\ Succeeds("confirm", UNCHANGED target)
  \/ Fails("confirm", faulted' = FALSE /\ UNCHANGED <<core, seen>>)

(* What reading DHCSR does: a core still in reset stays marked. *)
StickyRead == sticky' = held

(* What is read from memory may be DHCSR. *)
Fetch ==
  Control("fetch",
    \/ UNCHANGED target
    \/ op # "registers" /\ StickyRead /\ UNCHANGED <<held, halted, haltBit, masked, faulted, seen>>)

Reset == Control("reset", ResetCore /\ UNCHANGED <<held, faulted>>)

DriveLow == Control("low", PinLow)

DriveHigh == Control("high", PinHigh)

(* Faulty: whatever is not halted is taken for running. *)
NotHaltedIsRunning == {IF haltBit THEN "stopped" ELSE "running"}

(* Told to halt, else Reset if it was since it was last asked, else running. *)
StateV2 == {IF haltBit \/ sticky THEN "stopped" ELSE "running"}

(* An answer too short to say is Unknown, and Unknown is not running. *)
StateV1 == IF Executing THEN {"running", "stopped"} ELSE {"stopped"}

IsRunning == Either(StateV1, StateV2)

Ask ==
  \/ /\ Underway("ask")
     /\ told' \in IsRunning
     /\ StickyRead
     /\ unread' = held
     /\ GoesOn
     /\ UNCHANGED <<held, halted, haltBit, masked, faulted, made, handled, clean, alone, trace, taken>>
  \/ Fails("ask", StickyRead /\ UNCHANGED <<held, halted, haltBit, masked, faulted, seen>>)

(* ~Device, whatever exit_debug answers. *)
Exit ==
  /\ Underway("exit")
  /\ (DebugLeft /\ UNCHANGED faulted) \/ UNCHANGED target
  /\ \E how \in {"ok", "failed"} : (how = "ok" => DebugLeft) /\ Returns(how)
  /\ Blames(IF engine THEN "left_tracing" ELSE "")
  /\ UNCHANGED <<trace, told, taken>>

-----------------------------------------------------------------------------
(* ProgrammerTrace.                                                        *)

Start ==
  /\ Underway("start")
  /\ \/ engine' = TRUE /\ running' = TRUE /\ GoesOn
     \/ engine' \in {engine, TRUE} /\ UNCHANGED running /\ Returns("failed") /\ Blames("trace_failed")
  /\ UNCHANGED <<target, waiting, told, taken>>

(* Faulty: a stop that failed stopped nothing. *)
StopIfOk ==
  /\ Underway("stop")
  /\ \/ engine' = FALSE /\ running' = FALSE /\ GoesOn
     \/ engine' \in {engine, FALSE} /\ UNCHANGED running /\ Returns("failed") /\ Blames("trace_failed")
  /\ UNCHANGED <<target, waiting, told, taken>>

(* The flag is cleared either way. *)
Stop ==
  /\ Underway("stop")
  /\ running' = FALSE
  /\ \/ engine' = FALSE /\ GoesOn
     \/ engine' \in {engine, FALSE} /\ Returns("failed") /\ Blames("trace_failed")
  /\ UNCHANGED <<target, waiting, told, taken>>

Unchanged == UNCHANGED <<target, trace, told>>

Count ==
  /\ Underway("count")
  /\ \/ taken' = waiting /\ waiting > 0 /\ waiting <= room /\ GoesOn
     \/ taken' = 0 /\ waiting = 0 /\ Returns("ok") /\ UNCHANGED upset
     \/ taken' = 0 /\ waiting > room /\ Returns("refused") /\ UNCHANGED upset
     \/ taken' = 0 /\ Returns("failed") /\ UNCHANGED upset
  /\ Unchanged

(* Exactly what was counted, of which less may arrive. *)
Take ==
  /\ Underway("take")
  /\ \/ \E n \in 0 .. taken : taken' = n /\ waiting' = waiting - n /\ GoesOn
     \/ \E n \in 0 .. taken :
          taken' = 0 /\ waiting' = waiting - n /\ Returns("failed") /\ UNCHANGED upset
  /\ UNCHANGED <<target, engine, running, told>>

-----------------------------------------------------------------------------
Next ==
  \/ Create
  \/ \E o \in Operations : Call(o)
  \/ WriteRegister \/ OwnCommand \/ Announce \/ SendData \/ Confirm \/ Fetch
  \/ Reset \/ DriveLow \/ DriveHigh \/ Ask \/ Exit
  \/ Start \/ Stop \/ Count \/ Take
  \/ Executes \/ ResetButton

Spec == Init /\ [][Next]_vars

-----------------------------------------------------------------------------
(* Properties.                                                             *)

(* programmer_v2.cpp:374-378: a step that went well, on a core that was    *)
(* halted and not reset meanwhile, executed one instruction, outside any   *)
(* handler, and left the core halted with its interrupts let through: on   *)
(* whichever access port, whatever it was in the middle of before.         *)
StepIsOneInstruction ==
  api = "V2" /\ Idle /\ op = "step" /\ result = "ok" /\ clean =>
    made = 1 /\ ~handled /\ halted /\ ~masked

(* programmer_v2.cpp:372-394: interrupts are held off only while a step is *)
(* under way, unless a step failed half way (nothing lifts the mask then), *)
(* the core was in reset for it, when the mask is written to no use, or a  *)
(* caller set the mask itself: no other operation leaves it on, whatever   *)
(* is called in whatever order.                                            *)
MaskedForAReason ==
  Idle /\ masked => {"step_failed", "step_disturbed", "caller_masked"} \cap upset # {}

(* is_running() goes by C_HALT (programmer_v2.cpp:334), not by whether the *)
(* core stopped, and by a bit that its own read clears (339).  It takes a  *)
(* stopped core for a running one only if the core stopped by itself, and  *)
(* a running one for a stopped one only if a halt has yet to take effect   *)
(* or it was reset since the last answer, never twice for one reset.       *)
WrongForAReason ==
  [][api = "V2" /\ told = "nothing" /\ told' # "nothing" =>
       /\ told' = "running" => Executing \/ alone
       /\ told' = "stopped" => ~Executing \/ Pending \/ unread]_vars

(* device.cpp:380-413: while the device says trace is running, it is; it   *)
(* says it is not when it is only after a start or a stop that failed, or  *)
(* in a device whose predecessor was destroyed while tracing.              *)
TraceAccountedFor ==
  /\ running => engine
  /\ engine /\ ~running /\ op # "destroy" =>
       {"trace_failed", "left_tracing"} \cap upset # {}

=============================================================================
