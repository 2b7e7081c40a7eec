-------------------------- MODULE OpenDeviceProofs --------------------------
(***************************************************************************)
(* Proofs about OpenDevice.  What an operation sends is a short sequence   *)
(* known beforehand; where it has got to is told by what it has left.  The *)
(* invariants therefore speak of todo, and what must hold of a step, of    *)
(* the target at every place of the nine commands a step sends.            *)
(***************************************************************************)
EXTENDS OpenDevice, SequenceTheorems, TLAPS

-----------------------------------------------------------------------------
(* Sequences put together.                                                 *)

LEMMA IsConcat ==
  ASSUME NEW S, NEW s \in Seq(S), NEW t \in Seq(S), NEW u \in Seq(S),
         Len(u) = Len(s) + Len(t),
         \A i \in 1 .. Len(s) : u[i] = s[i],
         \A i \in 1 .. Len(t) : u[Len(s) + i] = t[i]
  PROVE  s \o t = u
<1>1. /\ s \o t \in Seq(S)
      /\ Len(s \o t) = Len(s) + Len(t)
      /\ \A i \in 1 .. Len(s) + Len(t) :
           (s \o t)[i] = IF i <= Len(s) THEN s[i] ELSE t[i - Len(s)]
  BY ConcatProperties
<1>2. Len(s) \in Nat /\ Len(t) \in Nat
  BY LenProperties
<1>3. ASSUME NEW i \in 1 .. Len(u) PROVE (s \o t)[i] = u[i]
  <2>1. CASE i <= Len(s)
    BY <2>1, <1>1, <1>2
  <2>2. CASE i > Len(s)
    <3>1. i - Len(s) \in 1 .. Len(t) /\ Len(s) + (i - Len(s)) = i
      BY <2>2, <1>2
    <3>2. (s \o t)[i] = t[i - Len(s)]
      BY <2>2, <1>1, <1>2
    <3>3. u[Len(s) + (i - Len(s))] = t[i - Len(s)]
      BY <3>1
    <3> QED
      BY <3>1, <3>2, <3>3
  <2> QED
    BY <2>1, <2>2, <1>2
<1> QED
  BY <1>1, <1>3, SeqEqual

LEMMA OneAndOne ==
  ASSUME NEW x, NEW y
  PROVE  <<x>> \o <<y>> = <<x, y>>
<1> DEFINE S == {x, y}
           s == <<x>>
           t == <<y>>
           u == <<x, y>>
<1>1. s \in Seq(S) /\ t \in Seq(S) /\ u \in Seq(S)
  OBVIOUS
<1>2. Len(s) = 1 /\ Len(t) = 1 /\ Len(u) = 2 /\ u[1] = s[1] /\ u[2] = t[1]
  OBVIOUS
<1> HIDE DEF S, s, t, u
<1>3. /\ Len(u) = Len(s) + Len(t)
      /\ \A i \in 1 .. Len(s) : u[i] = s[i]
      /\ \A i \in 1 .. Len(t) : u[Len(s) + i] = t[i]
  BY <1>2
<1>4. s \o t = u
  BY <1>1, <1>3, IsConcat
<1> QED
  BY <1>4 DEF s, t, u

LEMMA TwoAndOne ==
  ASSUME NEW x, NEW y, NEW z
  PROVE  <<x, y>> \o <<z>> = <<x, y, z>>
<1> DEFINE S == {x, y, z}
           s == <<x, y>>
           t == <<z>>
           u == <<x, y, z>>
<1>1. s \in Seq(S) /\ t \in Seq(S) /\ u \in Seq(S)
  OBVIOUS
<1>2. /\ Len(u) = Len(s) + Len(t)
      /\ \A i \in 1 .. Len(s) : u[i] = s[i]
      /\ \A i \in 1 .. Len(t) : u[Len(s) + i] = t[i]
  OBVIOUS
<1> HIDE DEF S, s, t, u
<1>3. s \o t = u
  BY <1>1, <1>2, IsConcat
<1> QED
  BY <1>3 DEF s, t, u

LEMMA ThreeAndThree ==
  ASSUME NEW x, NEW y, NEW z, NEW a, NEW b, NEW c
  PROVE  <<x, y, z>> \o <<a, b, c>> = <<x, y, z, a, b, c>>
<1> DEFINE S == {x, y, z, a, b, c}
           s == <<x, y, z>>
           t == <<a, b, c>>
           u == <<x, y, z, a, b, c>>
<1>1. s \in Seq(S) /\ t \in Seq(S) /\ u \in Seq(S)
  OBVIOUS
<1>2. /\ Len(u) = Len(s) + Len(t)
      /\ \A i \in 1 .. Len(s) : u[i] = s[i]
      /\ \A i \in 1 .. Len(t) : u[Len(s) + i] = t[i]
  OBVIOUS
<1> HIDE DEF S, s, t, u
<1>3. s \o t = u
  BY <1>1, <1>2, IsConcat
<1> QED
  BY <1>3 DEF s, t, u

LEMMA SixAndThree ==
  ASSUME NEW x, NEW y, NEW z, NEW a, NEW b, NEW c, NEW d, NEW e, NEW f
  PROVE  <<x, y, z, a, b, c>> \o <<d, e, f>> = <<x, y, z, a, b, c, d, e, f>>
<1> DEFINE S == {x, y, z, a, b, c, d, e, f}
           s == <<x, y, z, a, b, c>>
           t == <<d, e, f>>
           u == <<x, y, z, a, b, c, d, e, f>>
<1>1. s \in Seq(S) /\ t \in Seq(S) /\ u \in Seq(S)
  OBVIOUS
<1>2. /\ Len(u) = Len(s) + Len(t)
      /\ \A i \in 1 .. Len(s) : u[i] = s[i]
      /\ \A i \in 1 .. Len(t) : u[Len(s) + i] = t[i]
  OBVIOUS
<1> HIDE DEF S, s, t, u
<1>3. s \o t = u
  BY <1>1, <1>2, IsConcat
<1> QED
  BY <1>3 DEF s, t, u

(* Short sequences of members. *)
LEMMA OfMembers ==
  ASSUME NEW S, NEW x \in S
  PROVE  /\ <<x>> \in Seq(S) /\ <<x>> # <<>>
         /\ \A y \in S : <<x, y>> \in Seq(S) /\ <<x, y>> # <<>>
         /\ \A y \in S, z \in S : <<x, y, z>> \in Seq(S) /\ <<x, y, z>> # <<>>
<1>1. <<x>> \in Seq(S) /\ <<x>> # <<>>
  OBVIOUS
<1>2. ASSUME NEW y \in S PROVE <<x, y>> \in Seq(S) /\ <<x, y>> # <<>>
  BY <1>2
<1>3. ASSUME NEW y \in S, NEW z \in S PROVE <<x, y, z>> \in Seq(S) /\ <<x, y, z>> # <<>>
  BY <1>3
<1> QED
  BY <1>1, <1>2, <1>3

LEMMA NineOfMembers ==
  ASSUME NEW S, NEW a \in S, NEW b \in S, NEW c \in S, NEW d \in S, NEW e \in S,
         NEW f \in S, NEW g \in S, NEW h \in S, NEW i \in S
  PROVE  /\ <<b, c, d, e, f, g, h, i>> \in Seq(S) /\ <<b, c, d, e, f, g, h, i>> # <<>>
         /\ <<a, b, c, d, e, f, g, h, i>> \in Seq(S) /\ <<a, b, c, d, e, f, g, h, i>> # <<>>
  OBVIOUS

-----------------------------------------------------------------------------
(* What the operations send.                                               *)

Command(what, bits) == [do |-> what, bits |-> bits]

Register(bits) == Command("register", bits)
Announced == Command("announce", {})
Sent(bits) == Command("data", bits)
Confirmed == Command("confirm", {})

Writes(bits) ==
  IF api = "V1" THEN {Command("own", bits)}
  ELSE {Register(bits), Announced, Sent(bits), Confirmed}

CommandsOf(o) ==
  CASE o = "halt" -> Writes({"halt"})
    [] o = "run" -> Writes({})
    [] o = "step" ->
         IF api = "V1" THEN Writes({"step"})
         ELSE Writes({"halt", "mask"}) \cup Writes({"step", "mask"}) \cup Writes({"halt"})
    [] o = "reset" -> {Command("reset", {})}
    [] o \in {"low", "high"} -> IF api = "V1" THEN {} ELSE {Command(o, {})}
    [] o = "is_running" -> {Command("ask", {})}
    [] o = "read" -> {Command("fetch", {})}
    [] o = "write" -> {Announced, Confirmed} \cup {Sent(w) : w \in Words}
    [] o = "registers" -> {Command("fetch", {})}
    [] o = "read_debug_register" -> {Command("fetch", {})}
    [] o = "write_debug_register" ->
         {Announced, Confirmed} \cup {Sent(w) : w \in Words}
           \cup (IF api = "V1" THEN {} ELSE {Register(w) : w \in Words})
    [] o = "trace_start" -> {Command("start", {})}
    [] o = "trace_stop" -> {Command("stop", {})}
    [] o = "trace_read" -> {Command("count", {}), Command("take", {})}
    [] o = "destroy" -> {Command("exit", {})}

(* What is left of a step by a V2: with certainty before the first write   *)
(* of DHCSR has been made, after it, and after the second; and where the   *)
(* write went out but whether it landed has not been asked.                *)
Hm == {"halt", "mask"}
Sm == {"step", "mask"}
Hl == {"halt"}

Left0 ==
  IF port = 0 THEN {<<Register(Hm), Register(Sm), Register(Hl)>>}
  ELSE {<<Announced, Sent(Hm), Confirmed, Announced, Sent(Sm), Confirmed,
          Announced, Sent(Hl), Confirmed>>,
        <<Sent(Hm), Confirmed, Announced, Sent(Sm), Confirmed, Announced, Sent(Hl), Confirmed>>}

Unsure1 ==
  IF port = 0 THEN {}
  ELSE {<<Confirmed, Announced, Sent(Sm), Confirmed, Announced, Sent(Hl), Confirmed>>}

Left1 ==
  IF port = 0 THEN {<<Register(Sm), Register(Hl)>>}
  ELSE {<<Announced, Sent(Sm), Confirmed, Announced, Sent(Hl), Confirmed>>,
        <<Sent(Sm), Confirmed, Announced, Sent(Hl), Confirmed>>}

Unsure2 == IF port = 0 THEN {} ELSE {<<Confirmed, Announced, Sent(Hl), Confirmed>>}

Left2 ==
  IF port = 0 THEN {<<Register(Hl)>>}
  ELSE {<<Announced, Sent(Hl), Confirmed>>, <<Sent(Hl), Confirmed>>}

Unsure3 == IF port = 0 THEN {} ELSE {<<Confirmed>>}

LEMMA WriteWordsIs ==
  ASSUME NEW bits
  PROVE  WriteWords(bits) = <<Announced, Sent(bits), Confirmed>>
<1>1. Plain("announce") \o Data(bits) = <<Announced, Sent(bits)>>
  BY OneAndOne DEF Plain, Data, Announced, Sent, Command
<1> QED
  BY <1>1, TwoAndOne DEF WriteWords, CheckLastWrite, Plain, Announced, Sent, Confirmed, Command

LEMMA WriteDebugRegisterIs ==
  ASSUME NEW bits
  PROVE  /\ port = 0 => WriteDebugRegister(bits) = <<Register(bits)>>
         /\ port # 0 => WriteDebugRegister(bits) = <<Announced, Sent(bits), Confirmed>>
  BY WriteWordsIs DEF WriteDebugRegister, Register, Command

LEMMA StepSendsLeft0 == StepV2 \in Left0
<1>1. StepV2 = (WriteDebugRegister(Hm) \o WriteDebugRegister(Sm)) \o WriteDebugRegister(Hl)
  BY DEF StepV2, Hm, Sm, Hl
<1>2. CASE port = 0
  <2>1. WriteDebugRegister(Hm) \o WriteDebugRegister(Sm) = <<Register(Hm), Register(Sm)>>
    <3>1. WriteDebugRegister(Hm) = <<Register(Hm)>> /\ WriteDebugRegister(Sm) = <<Register(Sm)>>
      BY <1>2, WriteDebugRegisterIs
    <3>2. <<Register(Hm)>> \o <<Register(Sm)>> = <<Register(Hm), Register(Sm)>>
      BY OneAndOne
    <3> QED
      BY Zenon, <3>1, <3>2
  <2>2. StepV2 = <<Register(Hm), Register(Sm), Register(Hl)>>
    <3>1. WriteDebugRegister(Hl) = <<Register(Hl)>>
      BY <1>2, WriteDebugRegisterIs
    <3>2. <<Register(Hm), Register(Sm)>> \o <<Register(Hl)>>
            = <<Register(Hm), Register(Sm), Register(Hl)>>
      BY TwoAndOne
    <3> QED
      BY Zenon, <1>1, <2>1, <3>1, <3>2
  <2> QED
    BY <1>2, <2>2 DEF Left0
<1>3. CASE port # 0
  <2>1. WriteDebugRegister(Hm) \o WriteDebugRegister(Sm)
          = <<Announced, Sent(Hm), Confirmed, Announced, Sent(Sm), Confirmed>>
    <3>1. /\ WriteDebugRegister(Hm) = <<Announced, Sent(Hm), Confirmed>>
          /\ WriteDebugRegister(Sm) = <<Announced, Sent(Sm), Confirmed>>
      BY <1>3, WriteDebugRegisterIs
    <3>2. <<Announced, Sent(Hm), Confirmed>> \o <<Announced, Sent(Sm), Confirmed>>
            = <<Announced, Sent(Hm), Confirmed, Announced, Sent(Sm), Confirmed>>
      BY ThreeAndThree
    <3> QED
      BY Zenon, <3>1, <3>2
  <2>2. StepV2 = <<Announced, Sent(Hm), Confirmed, Announced, Sent(Sm), Confirmed,
                   Announced, Sent(Hl), Confirmed>>
    <3>1. WriteDebugRegister(Hl) = <<Announced, Sent(Hl), Confirmed>>
      BY <1>3, WriteDebugRegisterIs
    <3>2. <<Announced, Sent(Hm), Confirmed, Announced, Sent(Sm), Confirmed>>
            \o <<Announced, Sent(Hl), Confirmed>>
            = <<Announced, Sent(Hm), Confirmed, Announced, Sent(Sm), Confirmed,
                Announced, Sent(Hl), Confirmed>>
      BY SixAndThree
    <3> QED
      BY Zenon, <1>1, <2>1, <3>1, <3>2
  <2> QED
    BY <1>3, <2>2 DEF Left0
<1> QED
  BY <1>2, <1>3

LEMMA TraceReadIs == Plain("count") \o Plain("take") = <<Command("count", {}), Command("take", {})>>
  BY OneAndOne DEF Plain, Command

(* An operation sends commands of its own, or has returned. *)
Sendable(p, o) ==
  /\ p.how \in {"none", "ok", "refused"}
  /\ p.commands \in Seq(CommandsOf(o))
  /\ p.how # "none" <=> p.commands = <<>>

(* The programs of each operation, once the CASE is settled. *)
LEMMA ProgramsOf ==
  /\ Programs("halt") = {Sends(Either(HaltV1, HaltV2))}
  /\ Programs("run") = {Sends(Either(RunV1, RunV2))}
  /\ Programs("step") = {Sends(Either(StepV1, StepV2))}
  /\ Programs("reset") = {Sends(Either(ResetV1, ResetV2))}
  /\ Programs("low") = {Pin("low")}
  /\ Programs("high") = {Pin("high")}
  /\ Programs("is_running") = {Sends(Plain("ask"))}
  /\ Programs("read") = {Either(ReadMemoryV1(z), ReadMemoryV2(z)) : z \in Sizes}
  /\ Programs("write") =
       {Either(WriteMemoryV1(z, w), WriteMemoryV2(z, w)) : z \in Sizes, w \in Words}
  /\ Programs("read_debug_register") = {ReadDebugRegister}
  /\ Programs("write_debug_register") =
       {Either(WriteMemoryV1("words", w), Sends(WriteDebugRegister(w))) : w \in Words}
  /\ Programs("registers") = {Sends(Either(RegistersV1, RegistersV2))}
  /\ Programs("trace_start") = TraceOf({TraceEnable(FALSE), TraceEnable(TRUE)})
  /\ Programs("trace_stop") = TraceOf({TraceDisable})
  /\ Programs("trace_read") = TraceOf({TraceRead})
  /\ Programs("destroy") = {Sends(Plain("exit"))}
  BY DEF Programs

LEMMA CommandsOfEach ==
  /\ CommandsOf("halt") = Writes(Hl)
  /\ CommandsOf("run") = Writes({})
  /\ api = "V1" => CommandsOf("step") = Writes({"step"})
  /\ api # "V1" => CommandsOf("step") = Writes(Hm) \cup Writes(Sm) \cup Writes(Hl)
  /\ CommandsOf("reset") = {Command("reset", {})}
  /\ api = "V1" => CommandsOf("low") = {} /\ CommandsOf("high") = {}
  /\ api # "V1" => CommandsOf("low") = {Command("low", {})}
  /\ api # "V1" => CommandsOf("high") = {Command("high", {})}
  /\ CommandsOf("is_running") = {Command("ask", {})}
  /\ CommandsOf("read") = {Command("fetch", {})}
  /\ CommandsOf("write") = {Announced, Confirmed} \cup {Sent(w) : w \in Words}
  /\ CommandsOf("read_debug_register") = {Command("fetch", {})}
  /\ CommandsOf("write_debug_register") =
       {Announced, Confirmed} \cup {Sent(w) : w \in Words}
         \cup (IF api = "V1" THEN {} ELSE {Register(w) : w \in Words})
  /\ CommandsOf("registers") = {Command("fetch", {})}
  /\ CommandsOf("trace_start") = {Command("start", {})}
  /\ CommandsOf("trace_stop") = {Command("stop", {})}
  /\ CommandsOf("trace_read") = {Command("count", {}), Command("take", {})}
  /\ CommandsOf("destroy") = {Command("exit", {})}
  BY DEF CommandsOf, Hm, Sm, Hl

LEMMA PlainIs == ASSUME NEW what PROVE Plain(what) = <<Command(what, {})>>
  BY DEF Plain, Command

LEMMA WritesAreSendable ==
  ASSUME NEW bits, NEW p, api \in {"V1", "V2"},
         p = Sends(Either(Own(bits), WriteDebugRegister(bits)))
  PROVE  p.how = "none" /\ p.commands \in Seq(Writes(bits)) /\ p.commands # <<>>
<1>1. p.how = "none" /\ p.commands = Either(Own(bits), WriteDebugRegister(bits))
  BY DEF Sends
<1>2. CASE api = "V1"
  <2>1. p.commands = <<Command("own", bits)>> /\ Command("own", bits) \in Writes(bits)
    BY <1>1, <1>2 DEF Either, Own, Writes, Command
  <2> QED
    BY Zenon, <1>1, <2>1, OfMembers
<1>3. CASE api = "V2"
  <2>1. Register(bits) \in Writes(bits) /\ Announced \in Writes(bits)
        /\ Sent(bits) \in Writes(bits) /\ Confirmed \in Writes(bits)
    BY <1>3 DEF Writes
  <2>2. \/ p.commands = <<Register(bits)>>
        \/ p.commands = <<Announced, Sent(bits), Confirmed>>
    BY <1>1, <1>3, WriteDebugRegisterIs DEF Either
  <2> QED
    BY Zenon, <1>1, <2>1, <2>2, OfMembers
<1> QED
  BY <1>2, <1>3

LEMMA SendingOne ==
  ASSUME NEW o, NEW c \in CommandsOf(o)
  PROVE  /\ Sendable(Sends(<<c>>), o)
         /\ \A d \in CommandsOf(o) : Sendable(Sends(<<c, d>>), o)
         /\ \A d \in CommandsOf(o), e \in CommandsOf(o) : Sendable(Sends(<<c, d, e>>), o)
  BY OfMembers DEF Sendable, Sends

LEMMA Returning == \A o : Sendable(Returned("ok"), o) /\ Sendable(Returned("refused"), o)
  BY DEF Sendable, Returned

(* What a write to memory sends, where it sends anything. *)
MemoryWrite(p) ==
  \E w \in Words :
    p = Sends(<<Announced, Sent(w)>>) \/ p = Sends(<<Announced, Sent(w), Confirmed>>)

LEMMA MemoryWrites ==
  ASSUME NEW size \in Sizes, NEW word \in Words, NEW p,
         p = WriteMemoryV1(size, word) \/ p = WriteMemoryV2(size, word)
  PROVE  p = Returned("ok") \/ p = Returned("refused") \/ MemoryWrite(p)
<1>1. \A w : Plain("announce") \o Data(w) = <<Announced, Sent(w)>>
  BY OneAndOne DEF Plain, Data, Announced, Sent, Command
<1>2. Elsewhere \in Words
  BY DEF Words
<1>3. \/ p = Returned("ok") \/ p = Returned("refused")
      \/ p = Sends(<<Announced, Sent(word)>>) \/ p = Sends(<<Announced, Sent(Elsewhere)>>)
      \/ p = Sends(<<Announced, Sent(word), Confirmed>>)
  BY <1>1, WriteWordsIs DEF WriteMemoryV1, WriteMemoryV2
<1> QED
  BY Zenon, <1>2, <1>3 DEF MemoryWrite

LEMMA ProgramsAreSendable ==
  ASSUME api \in {"V1", "V2"}, NEW o \in Operations, NEW p \in Programs(o)
  PROVE  Sendable(p, o)
<1>1. CASE o = "halt"
  <2>1. p = Sends(Either(Own(Hl), WriteDebugRegister(Hl)))
    BY <1>1, ProgramsOf DEF HaltV1, HaltV2, Hl
  <2> QED
    <3>1. p.how = "none" /\ p.commands \in Seq(Writes(Hl)) /\ p.commands # <<>>
      BY <2>1, WritesAreSendable
    <3>2. CommandsOf(o) = Writes(Hl)
      BY <1>1, CommandsOfEach
    <3> QED
      BY <3>1, <3>2 DEF Sendable
<1>2. CASE o = "run"
  <2>1. p = Sends(Either(Own({}), WriteDebugRegister({})))
    BY <1>2, ProgramsOf DEF RunV1, RunV2
  <2> QED
    <3>1. p.how = "none" /\ p.commands \in Seq(Writes({})) /\ p.commands # <<>>
      BY <2>1, WritesAreSendable
    <3>2. CommandsOf(o) = Writes({})
      BY <1>2, CommandsOfEach
    <3> QED
      BY <3>1, <3>2 DEF Sendable
<1>3. CASE o = "step"
  <2>1. p = Sends(Either(StepV1, StepV2))
    BY <1>3, ProgramsOf
  <2>2. CASE api = "V1"
    <3>1. p = Sends(<<Command("own", {"step"})>>)
      BY <2>1, <2>2 DEF Either, StepV1, Own, Command
    <3>2. CommandsOf(o) = {Command("own", {"step"})}
      BY <1>3, <2>2, CommandsOfEach DEF Writes
    <3> QED
      BY <3>1, <3>2, SendingOne
  <2>3. CASE api = "V2"
    <3> DEFINE S == Writes(Hm) \cup Writes(Sm) \cup Writes(Hl)
    <3>1. /\ Register(Hm) \in S /\ Register(Sm) \in S /\ Register(Hl) \in S
          /\ Sent(Hm) \in S /\ Sent(Sm) \in S /\ Sent(Hl) \in S
          /\ Announced \in S /\ Confirmed \in S
      BY <2>3 DEF Writes
    <3>2. p.commands \in Left0 /\ p.how = "none"
      BY <2>1, <2>3, StepSendsLeft0 DEF Sends, Either
    <3>3. CommandsOf(o) = S
      BY <1>3, <2>3, CommandsOfEach
    <3> HIDE DEF S
    <3>4. \A c \in Left0 : c \in Seq(S) /\ c # <<>>
      <4>1. /\ <<Register(Hm), Register(Sm), Register(Hl)>> \in Seq(S)
            /\ <<Register(Hm), Register(Sm), Register(Hl)>> # <<>>
        BY Zenon, <3>1, OfMembers
      <4>2. /\ <<Announced, Sent(Hm), Confirmed, Announced, Sent(Sm), Confirmed,
                 Announced, Sent(Hl), Confirmed>> \in Seq(S)
            /\ <<Announced, Sent(Hm), Confirmed, Announced, Sent(Sm), Confirmed,
                 Announced, Sent(Hl), Confirmed>> # <<>>
            /\ <<Sent(Hm), Confirmed, Announced, Sent(Sm), Confirmed,
                 Announced, Sent(Hl), Confirmed>> \in Seq(S)
            /\ <<Sent(Hm), Confirmed, Announced, Sent(Sm), Confirmed,
                 Announced, Sent(Hl), Confirmed>> # <<>>
        BY Zenon, <3>1, NineOfMembers
      <4> QED
        BY Zenon, <4>1, <4>2 DEF Left0
    <3> QED
      BY <3>2, <3>3, <3>4 DEF Sendable
  <2> QED
    BY <2>2, <2>3
<1>4. CASE o = "write"
  <2>1. PICK z \in Sizes, w \in Words : p = Either(WriteMemoryV1(z, w), WriteMemoryV2(z, w))
    BY <1>4, ProgramsOf
  <2>2. p = Returned("ok") \/ p = Returned("refused") \/ MemoryWrite(p)
    BY <2>1, MemoryWrites DEF Either
  <2>3. /\ Announced \in CommandsOf(o) /\ Confirmed \in CommandsOf(o)
        /\ \A u \in Words : Sent(u) \in CommandsOf(o)
    BY <1>4, CommandsOfEach
  <2> QED
    BY Zenon, <2>2, <2>3, SendingOne, Returning DEF MemoryWrite
<1>10. CASE o = "write_debug_register"
  <2>1. PICK w \in Words : p = Either(WriteMemoryV1("words", w), Sends(WriteDebugRegister(w)))
    BY <1>10, ProgramsOf
  <2>2. /\ Announced \in CommandsOf(o) /\ Confirmed \in CommandsOf(o)
        /\ \A u \in Words : Sent(u) \in CommandsOf(o)
    BY <1>10, CommandsOfEach
  <2>3. CASE api = "V1"
    <3>1. p = Returned("ok") \/ p = Returned("refused") \/ MemoryWrite(p)
      BY <2>1, <2>3, MemoryWrites DEF Either, Sizes
    <3> QED
      BY Zenon, <2>2, <3>1, SendingOne, Returning DEF MemoryWrite
  <2>4. CASE api = "V2"
    <3>1. p = Sends(<<Register(w)>>) \/ p = Sends(<<Announced, Sent(w), Confirmed>>)
      BY <2>1, <2>4, WriteDebugRegisterIs DEF Either
    <3>2. Register(w) \in CommandsOf(o)
      BY <1>10, <2>1, <2>4, CommandsOfEach
    <3> QED
      BY Zenon, <2>1, <2>2, <3>1, <3>2, SendingOne
  <2> QED
    BY <2>3, <2>4
<1>5. CASE o = "trace_read"
  <2>1. p = Sends(<<Command("count", {}), Command("take", {})>>) \/ p = Returned("refused")
    <3>1. TraceRead = Sends(<<Command("count", {}), Command("take", {})>>)
      BY Zenon, TraceReadIs DEF TraceRead
    <3>2. p = TraceRead \/ p = Returned("refused")
      BY <1>5, ProgramsOf DEF TraceOf, UnavailableTrace
    <3> QED
      BY <3>1, <3>2
  <2>2. {Command("count", {}), Command("take", {})} \subseteq CommandsOf("trace_read")
    BY CommandsOfEach
  <2> QED
    BY Zenon, <1>5, <2>1, <2>2, SendingOne, Returning
<1>6. CASE o = "read"
  <2>1. p = Sends(<<Command("fetch", {})>>) \/ p = Returned("refused") \/ p = Returned("ok")
    BY <1>6, ProgramsOf, PlainIs DEF Either, ReadMemoryV1, ReadMemoryV2
  <2> QED
    <3>1. Command("fetch", {}) \in CommandsOf(o)
      BY <1>6, CommandsOfEach
    <3> QED
      BY <2>1, <3>1, SendingOne, Returning
<1>7. CASE o \in {"reset", "is_running", "registers", "read_debug_register", "destroy"}
  <2>1. \/ o = "reset" /\ p = Sends(<<Command("reset", {})>>)
        \/ o = "read_debug_register" /\ p = Sends(<<Command("fetch", {})>>)
        \/ o = "is_running" /\ p = Sends(<<Command("ask", {})>>)
        \/ o = "registers" /\ p = Sends(<<Command("fetch", {})>>)
        \/ o = "destroy" /\ p = Sends(<<Command("exit", {})>>)
    BY <1>7, ProgramsOf, PlainIs DEF Either, ResetV1, ResetV2, RegistersV1, RegistersV2,
       ReadDebugRegister, ReadMemoryV1, ReadMemoryV2
  <2> QED
    <3>1. PICK c \in CommandsOf(o) : p = Sends(<<c>>)
      BY <2>1, CommandsOfEach
    <3> QED
      BY <3>1, SendingOne
<1>8. CASE o \in {"low", "high"}
  <2>1. p = Pin(o)
    BY <1>8, ProgramsOf
  <2>2. \/ api = "V1" /\ p = Returned("refused")
        \/ api # "V1" /\ p = Sends(<<Command(o, {})>>)
    BY <2>1, PlainIs DEF Pin, DrivePin
  <2>3. api # "V1" => CommandsOf(o) = {Command(o, {})}
    BY <1>8, CommandsOfEach
  <2> QED
    BY <2>2, <2>3, SendingOne, Returning
<1>9. CASE o \in {"trace_start", "trace_stop"}
  <2>1. \/ p = Returned("refused")
        \/ o = "trace_start" /\ p = Sends(<<Command("start", {})>>)
        \/ o = "trace_stop" /\ p = Sends(<<Command("stop", {})>>)
    BY <1>9, ProgramsOf, PlainIs DEF TraceOf, TraceEnable, TraceDisable, UnavailableTrace
  <2> QED
    <3>1. p = Returned("refused") \/ \E c \in CommandsOf(o) : p = Sends(<<c>>)
      BY <2>1, CommandsOfEach
    <3> QED
      BY <3>1, SendingOne, Returning
<1> QED
  BY <1>1, <1>2, <1>3, <1>4, <1>5, <1>6, <1>7, <1>8, <1>9, <1>10 DEF Operations

-----------------------------------------------------------------------------
(* The inductive invariant.                                                *)

SwitchesTyped ==
  /\ held \in BOOLEAN /\ halted \in BOOLEAN /\ masked \in BOOLEAN /\ sticky \in BOOLEAN
  /\ faulted \in BOOLEAN /\ handled \in BOOLEAN /\ clean \in BOOLEAN /\ unread \in BOOLEAN
  /\ haltBit \in BOOLEAN /\ alone \in BOOLEAN

TraceTyped ==
  /\ engine \in BOOLEAN /\ running \in BOOLEAN
  /\ waiting \in 0 .. TraceBuffer /\ room \in 0 .. TraceBuffer /\ taken \in 0 .. TraceBuffer

CallTyped ==
  /\ api \in {"V1", "V2"} /\ port \in {0, 1} /\ bothTrace \in BOOLEAN
  /\ op \in Operations
  /\ result \in {"none", "ok", "refused", "failed"}
  /\ told \in {"nothing", "running", "stopped"}
  /\ made \in 0 .. 2
  /\ upset \subseteq Upsets

TypeOK == SwitchesTyped /\ TraceTyped /\ CallTyped

(* An operation under way has commands of its own left to send. *)
Sending ==
  /\ todo \in Seq(CommandsOf(op))
  /\ Idle <=> todo = <<>>

(* A trace read takes no more than waits, as it has counted before. *)
Reading ==
  op = "trace_read" /\ ~Idle =>
    \/ todo = <<Command("count", {}), Command("take", {})>>
    \/ todo = <<Command("take", {})>> /\ taken <= waiting

(* A core in reset is marked as reset, and a mark is news. *)
Marked == (held => sticky) /\ (sticky => unread)

(* A core that has stopped was told to, or has stopped by itself. *)
Accounted == halted => haltBit \/ alone

BadStep == {"step_failed", "step_disturbed"} \cap upset # {}

CallerMasked == "caller_masked" \in upset

(* What a caller's own word sets is remembered before the word is sent. *)
Asking ==
  op \in {"write", "write_debug_register"} /\ ~Idle =>
    CallerMasked \/ todo \in Seq({c \in CommandsOf(op) : "mask" \notin c.bits})

(* The target at the places of a step.  After a bad step before this one   *)
(* the core may start again under the hands of this one.                   *)
After0 == clean => halted /\ made = 0 /\ ~handled
After1 == (clean => halted /\ masked /\ made = 0 /\ ~handled) /\ (~BadStep => halted \/ haltBit)
After2 == (clean => halted /\ masked /\ made = 1 /\ ~handled) /\ (~BadStep => halted)
After3 == (clean => halted /\ ~masked /\ made = 1 /\ ~handled) /\ (~BadStep => ~masked)

StepUnderway == api = "V2" /\ op = "step" /\ ~Idle

AtPlace ==
  \/ todo \in Left0 /\ After0
  \/ todo \in Unsure1 /\ (~faulted => After1)
  \/ todo \in Left1 /\ After1
  \/ todo \in Unsure2 /\ (~faulted => After2)
  \/ todo \in Left2 /\ After2
  \/ todo \in Unsure3 /\ (~faulted => After3)

Stepping == StepUnderway => AtPlace

(* The core is not in reset for a step that has not gone bad. *)
OutOfReset ==
  /\ clean => ~held
  /\ op = "step" /\ ~Idle /\ ~BadStep => ~held

Masks == masked => BadStep \/ CallerMasked \/ (api = "V2" /\ op = "step" /\ ~Idle)

Untold == {"trace_failed", "left_tracing"} \cap upset # {}

Tracing ==
  /\ running => engine
  /\ engine /\ ~running /\ op # "destroy" => Untold
  /\ engine /\ op = "destroy" /\ Idle => Untold

Inv ==
  /\ TypeOK /\ Sending /\ Reading /\ Asking /\ Marked /\ Accounted
  /\ OutOfReset /\ Stepping /\ StepIsOneInstruction /\ Masks /\ Tracing

-----------------------------------------------------------------------------
(* What a step of the system does to the call, and to the target.          *)

(* The function goes on to its next command, or returns. *)
Progress ==
  /\ result = "none"
  /\ UNCHANGED <<api, port, bothTrace, op, room>>
  /\ \/ todo' = Tail(todo) /\ result' = IF Len(todo) = 1 THEN "ok" ELSE "none"
     \/ todo' = <<>> /\ result' \in {"ok", "refused", "failed"}

Calls == \E o \in Operations : Call(o)

LEMMA StepProgress ==
  Next => Progress \/ UNCHANGED <<device, call>> \/ Create \/ Calls
<1> SUFFICES ASSUME Next PROVE Progress \/ UNCHANGED <<device, call>> \/ Create \/ Calls
  OBVIOUS
<1> USE DEF Progress, Underway, Control, Succeeds, Fails, GoesOn, Returns, device
<1>1. CASE WriteRegister \/ OwnCommand
  BY <1>1 DEF WriteRegister, OwnCommand
<1>2. CASE Announce \/ SendData \/ Confirm \/ Fetch
  BY <1>2 DEF Announce, SendData, Confirm, Fetch
<1>3. CASE Reset \/ DriveLow \/ DriveHigh
  BY <1>3 DEF Reset, DriveLow, DriveHigh
<1>4. CASE Ask \/ Exit
  BY <1>4 DEF Ask, Exit
<1>5. CASE Start \/ Stop \/ Count \/ Take
  BY <1>5 DEF Start, Stop, Count, Take
<1>6. CASE Executes \/ ResetButton
  BY <1>6 DEF Executes, ResetButton
<1> QED
  BY <1>1, <1>2, <1>3, <1>4, <1>5, <1>6 DEF Next, Calls

(* Nothing is forgotten that came between. *)
LEMMA UpsetGrows == Next => upset \subseteq upset'
<1> SUFFICES ASSUME Next PROVE upset \subseteq upset'
  OBVIOUS
<1> USE DEF Control, Succeeds, Fails, GoesOn, Blames
<1>1. CASE WriteRegister \/ OwnCommand
  BY <1>1 DEF WriteRegister, OwnCommand
<1>2. CASE Announce \/ SendData \/ Confirm \/ Fetch
  BY <1>2 DEF Announce, SendData, Confirm, Fetch
<1>3. CASE Reset \/ DriveLow \/ DriveHigh
  BY <1>3 DEF Reset, DriveLow, DriveHigh
<1>4. CASE Ask \/ Exit
  BY <1>4 DEF Ask, Exit
<1>5. CASE Start \/ Stop \/ Count \/ Take
  BY <1>5 DEF Start, Stop, Count, Take
<1>6. CASE Executes \/ ResetButton
  BY <1>6 DEF Executes, ResetButton
<1>7. CASE Create \/ Calls
  BY <1>7 DEF Create, Calls, Call
<1> QED
  BY <1>1, <1>2, <1>3, <1>4, <1>5, <1>6, <1>7 DEF Next, Calls

(* Everything a command, the button or the core itself does to the target. *)
Written(bits) == DhcsrWritten(bits) /\ faulted' \in {FALSE, faulted}
Untouched == UNCHANGED <<core, seen>> /\ faulted' \in BOOLEAN
WasReset ==
  ResetCore /\ faulted' \in BOOLEAN /\ (held' = held \/ (Underway("low") /\ held' = TRUE))
WasLeft == DebugLeft /\ faulted' \in BOOLEAN
Read == StickyRead /\ unread' \in {held, unread}
        /\ UNCHANGED <<held, halted, haltBit, masked, faulted, made, handled, clean, alone>>

Touched ==
  \/ \E what \in {"register", "own", "data"} : Underway(what) /\ Written(Head(todo).bits)
  \/ Untouched
  \/ WasReset
  \/ Underway("high") /\ PinHigh
  \/ WasLeft
  \/ Read
  \/ Executes

LEMMA WordTouches ==
  ASSUME NEW word, WordWritten(word), faulted' \in BOOLEAN
  PROVE  DhcsrWritten(word) \/ Untouched \/ WasReset \/ WasLeft
  BY Zenon DEF WordWritten, Untouched, WasReset, WasLeft

LEMMA StepTouches ==
  SwitchesTyped /\ Next => Touched \/ Create \/ Calls
<1> SUFFICES ASSUME SwitchesTyped, Next PROVE Touched \/ Create \/ Calls
  OBVIOUS
<1>0. UNCHANGED target => Untouched
  BY DEF SwitchesTyped, target, Untouched
<1>00. faulted' = faulted \/ faulted' = FALSE => faulted' \in BOOLEAN
  BY DEF SwitchesTyped
<1> USE DEF Touched, Control, Succeeds, Fails
<1>1. CASE WriteRegister
  <2>1. CASE Underway("register") /\ UNCHANGED target
    BY <1>0, <2>1
  <2>2. CASE Underway("register") /\ WordWritten(Head(todo).bits) /\ UNCHANGED faulted
    BY Zenon, <1>00, <2>2, WordTouches DEF Written
  <2> QED
    BY Zenon, <1>1, <2>1, <2>2 DEF WriteRegister
<1>2. CASE OwnCommand
  BY <1>0, <1>2 DEF OwnCommand, Written
<1>3. CASE Announce \/ Confirm
  BY <1>0, <1>3 DEF Announce, Confirm, Untouched
<1>4. CASE Fetch
  BY Zenon, <1>0, <1>4 DEF Fetch, Read, seen
<1>5. CASE SendData
  <2>1. Faults => Untouched
    BY DEF Faults, Untouched
  <2>2. CASE Underway("data") /\ Landed
    BY Zenon, <1>00, <2>2, WordTouches DEF Landed, Written
  <2> QED
    BY Zenon, <1>0, <1>5, <2>1, <2>2 DEF SendData
<1>6. CASE Reset \/ DriveLow \/ DriveHigh
  BY Zenon, <1>0, <1>00, <1>6 DEF Reset, DriveLow, DriveHigh, PinLow, WasReset
<1>7. CASE Ask
  BY Zenon, <1>0, <1>7 DEF Ask, Read, seen
<1>8. CASE Exit
  BY Zenon, <1>0, <1>00, <1>8 DEF Exit, WasLeft
<1>9. CASE Start \/ Stop \/ Count \/ Take
  BY <1>0, <1>9 DEF Start, Stop, Count, Take, Unchanged
<1>10. CASE Executes \/ ResetButton
  BY Zenon, <1>00, <1>10 DEF ResetButton, WasReset
<1> QED
  BY <1>1, <1>2, <1>3, <1>4, <1>5, <1>6, <1>7, <1>8, <1>9, <1>10 DEF Next, Calls

-----------------------------------------------------------------------------
(* The call.                                                               *)

LEMMA SendingHead ==
  ASSUME Sending, ~Idle
  PROVE  /\ Head(todo) \in CommandsOf(op)
         /\ Tail(todo) \in Seq(CommandsOf(op))
         /\ Len(todo) = 1 <=> Tail(todo) = <<>>
<1>1. todo \in Seq(CommandsOf(op)) /\ todo # <<>>
  BY DEF Sending
<1>2. /\ Head(todo) \in CommandsOf(op)
      /\ Tail(todo) \in Seq(CommandsOf(op))
      /\ Len(Tail(todo)) = Len(todo) - 1
  BY Zenon, <1>1, HeadTailProperties
<1>3. Tail(todo) # <<>> => Len(Tail(todo)) \in Nat \ {0}
  BY Zenon, <1>2, EmptySeq
<1>4. Len(todo) \in Nat
  BY Zenon, <1>1, LenProperties
<1>5. Tail(todo) = <<>> => Len(Tail(todo)) = 0
  OBVIOUS
<1> QED
  BY <1>2, <1>3, <1>4, <1>5

(* The commands that write DHCSR, by their kind. *)
LEMMA WritesDo ==
  ASSUME NEW bits, NEW c \in Writes(bits)
  PROVE  /\ api = "V1" => c.do = "own"
         /\ api # "V1" => c.do \in {"register", "announce", "data", "confirm"}
  BY DEF Writes, Register, Announced, Sent, Confirmed, Command

(* The function that sends a command is the one the command is for. *)
LEMMA WhoseCommand ==
  ASSUME CallTyped, Sending, ~Idle
  PROVE  /\ Doing = "reset" => op = "reset"
         /\ Doing \in {"low", "high", "ask"} => op \in {"low", "high", "is_running"}
         /\ Doing = "exit" => op = "destroy"
         /\ Doing = "start" => op = "trace_start"
         /\ Doing = "stop" => op = "trace_stop"
         /\ Doing \in {"count", "take"} => op = "trace_read"
         /\ Doing \in {"register", "own", "data"} =>
              op \in {"halt", "run", "step", "write", "write_debug_register"}
<1>1. Head(todo) \in CommandsOf(op) /\ Doing = Head(todo).do
  BY SendingHead DEF Doing
<1>2. CASE op \in {"halt", "run", "step"}
  <2>1. PICK bits : Head(todo) \in Writes(bits)
    <3>1. CASE op \in {"halt", "run"}
      <4>1. CommandsOf(op) = Writes(Hl) \/ CommandsOf(op) = Writes({})
        BY Zenon, <3>1, CommandsOfEach
      <4> QED
        BY Zenon, <1>1, <4>1
    <3>2. CASE op = "step"
      <4>1. \/ CommandsOf(op) = Writes({"step"})
            \/ CommandsOf(op) = Writes(Hm) \cup Writes(Sm) \cup Writes(Hl)
        BY Zenon, <3>2, CommandsOfEach
      <4> QED
        BY Zenon, <1>1, <4>1
    <3> QED
      BY <1>2, <3>1, <3>2
  <2>2. /\ api = "V1" => Doing = "own"
        /\ api # "V1" => Doing \in {"register", "announce", "data", "confirm"}
    BY <1>1, <2>1, WritesDo
  <2> QED
    BY <1>2, <2>2 DEF CallTyped
<1>3. CASE op \in Operations \ {"halt", "run", "step", "write", "write_debug_register"}
  <2>1. \/ op = "reset" /\ CommandsOf(op) = {Command("reset", {})}
        \/ op \in {"low", "high"} /\ CommandsOf(op) \subseteq {Command(op, {})}
        \/ op = "is_running" /\ CommandsOf(op) = {Command("ask", {})}
        \/ /\ op \in {"read", "registers", "read_debug_register"}
           /\ CommandsOf(op) = {Command("fetch", {})}
        \/ op = "trace_start" /\ CommandsOf(op) = {Command("start", {})}
        \/ op = "trace_stop" /\ CommandsOf(op) = {Command("stop", {})}
        \/ op = "trace_read" /\ CommandsOf(op) = {Command("count", {}), Command("take", {})}
        \/ op = "destroy" /\ CommandsOf(op) = {Command("exit", {})}
    BY <1>3, CommandsOfEach DEF Operations
  <2> QED
    <3>1. \A what : Command(what, {}).do = what
      BY DEF Command
    <3>2. CASE op \in {"reset", "low", "high"}
      <4>1. CommandsOf(op) \subseteq {Command(op, {})}
        BY <2>1, <3>2
      <4> QED
        BY <1>1, <3>1, <3>2, <4>1
    <3>3. CASE op \in {"is_running", "read", "registers", "read_debug_register"}
      <4>1. \/ Head(todo) = Command("ask", {}) /\ op = "is_running"
            \/ Head(todo) = Command("fetch", {})
        BY <1>1, <2>1, <3>3
      <4>2. (Doing = "ask" /\ op = "is_running") \/ Doing = "fetch"
        BY Zenon, <1>1, <3>1, <4>1
      <4> QED
        BY <4>2
    <3>4. CASE op \in {"trace_start", "trace_stop"}
      <4>1. \/ op = "trace_start" /\ Head(todo) = Command("start", {})
            \/ op = "trace_stop" /\ Head(todo) = Command("stop", {})
        BY <1>1, <2>1, <3>4
      <4>2. (op = "trace_start" /\ Doing = "start") \/ (op = "trace_stop" /\ Doing = "stop")
        BY Zenon, <1>1, <3>1, <4>1
      <4> QED
        BY <4>2
    <3>5. CASE op \in {"trace_read", "destroy"}
      <4>1. \/ op = "trace_read" /\ Head(todo) \in {Command("count", {}), Command("take", {})}
            \/ op = "destroy" /\ Head(todo) = Command("exit", {})
        BY <1>1, <2>1, <3>5
      <4>2. \/ op = "trace_read" /\ Doing \in {"count", "take"}
            \/ op = "destroy" /\ Doing = "exit"
        BY Zenon, <1>1, <3>1, <4>1
      <4> QED
        BY <4>2
    <3> QED
      BY <2>1, <3>2, <3>3, <3>4, <3>5
<1>4. CASE op \in {"write", "write_debug_register"}
  <2>1. \/ Head(todo) = Announced \/ Head(todo) = Confirmed
        \/ \E w : Head(todo) = Sent(w) \/ Head(todo) = Register(w)
    BY <1>1, <1>4, CommandsOfEach
  <2>2. Doing \in {"announce", "confirm", "data", "register"}
    BY <1>1, <2>1 DEF Announced, Sent, Confirmed, Register, Command
  <2> QED
    BY <1>4, <2>2
<1> QED
  BY Zenon, <1>2, <1>3, <1>4 DEF CallTyped

LEMMA SendingInit == Init => Sending
  BY DEF Init, Sending, Idle

LEMMA SendingStep ==
  ASSUME CallTyped, Sending, Next
  PROVE  Sending'
<1>1. CASE Progress
  <2>1. (api = api') /\ (op = op') /\ (CommandsOf(op))' = CommandsOf(op)
    BY <1>1 DEF Progress, CommandsOf, Writes
  <2>2. ~Idle
    BY <1>1 DEF Progress, Idle
  <2> QED
    <3>1. CASE todo' = <<>> /\ result' \in {"ok", "refused", "failed"}
      BY <2>1, <3>1 DEF Sending, Idle
    <3>2. CASE todo' = Tail(todo) /\ result' = IF Len(todo) = 1 THEN "ok" ELSE "none"
      BY <2>1, <2>2, <3>2, SendingHead DEF Sending, Idle
    <3> QED
      BY <1>1, <3>1, <3>2 DEF Progress
<1>2. CASE UNCHANGED <<device, call>>
  BY <1>2 DEF device, call, Sending, Idle, CommandsOf, Writes
<1>3. CASE Create
  BY <1>3 DEF Create, Sending, Idle
<1>4. CASE Calls
  <2>0. PICK o \in Operations : Call(o)
    BY <1>4 DEF Calls
  <2>1. PICK p \in Programs(o) :
          op' = o /\ todo' = p.commands /\ result' = p.how /\ UNCHANGED api
    BY <2>0 DEF Call, device
  <2>2. Sendable(p, o)
    BY ProgramsAreSendable DEF CallTyped
  <2>3. (CommandsOf(op))' = CommandsOf(o)
    BY <2>1 DEF CommandsOf, Writes
  <2> QED
    BY <2>1, <2>2, <2>3 DEF Sendable, Sending, Idle
<1> QED
  BY <1>1, <1>2, <1>3, <1>4, StepProgress

LEMMA CallInit == Init => CallTyped
<1> SUFFICES ASSUME Init PROVE CallTyped
  OBVIOUS
<1>1. bothTrace \in BOOLEAN
  BY Zenon DEF Init
<1>2. api \in {"V1", "V2"} /\ port \in {0, 1}
  BY DEF Init
<1>3. op = "destroy" /\ result = "ok" /\ told = "nothing" /\ made = 0 /\ upset = {}
  BY Zenon DEF Init
<1> QED
  BY <1>1, <1>2, <1>3 DEF CallTyped, Operations

LEMMA CallStep ==
  ASSUME CallTyped, Next
  PROVE  (api \in {"V1", "V2"} /\ port \in {0, 1} /\ bothTrace \in BOOLEAN /\ op \in Operations
          /\ result \in {"none", "ok", "refused", "failed"})'
<1>1. CASE Progress
  BY <1>1 DEF Progress, CallTyped
<1>2. CASE UNCHANGED <<device, call>>
  BY <1>2 DEF device, call, CallTyped
<1>3. CASE Create
  BY <1>3 DEF Create, CallTyped, device, Operations
<1>4. CASE Calls
  <2>0. PICK o \in Operations : Call(o)
    BY <1>4 DEF Calls
  <2>1. PICK p \in Programs(o) :
          op' = o /\ result' = p.how /\ UNCHANGED device
    BY <2>0 DEF Call
  <2>2. Sendable(p, o)
    BY ProgramsAreSendable DEF CallTyped
  <2> QED
    BY <2>1, <2>2 DEF Sendable, CallTyped, device
<1> QED
  BY <1>1, <1>2, <1>3, <1>4, StepProgress

LEMMA UpsetStep == CallTyped /\ Next => (upset \subseteq Upsets)'
<1> SUFFICES ASSUME CallTyped, Next PROVE upset' \subseteq Upsets
  OBVIOUS
<1> USE DEF Control, Succeeds, Fails, GoesOn, Blames, CallTyped
<1>1. CASE WriteRegister \/ OwnCommand
  BY <1>1 DEF WriteRegister, OwnCommand
<1>2. CASE Announce \/ SendData \/ Confirm \/ Fetch
  BY <1>2 DEF Announce, SendData, Confirm, Fetch
<1>3. CASE Reset \/ DriveLow \/ DriveHigh
  BY <1>3 DEF Reset, DriveLow, DriveHigh
<1>4. CASE Ask \/ Exit
  BY <1>4 DEF Ask, Exit
<1>5. CASE Start \/ Stop \/ Count \/ Take
  BY <1>5 DEF Start, Stop, Count, Take
<1>6. CASE Executes \/ ResetButton
  BY <1>6 DEF Executes, ResetButton
<1>7. CASE Create \/ Calls
  BY <1>7 DEF Create, Calls, Call, CalledFor, Upsets
<1> QED
  BY <1>1, <1>2, <1>3, <1>4, <1>5, <1>6, <1>7 DEF Next, Calls

LEMMA ToldStep == CallTyped /\ Next => (told \in {"nothing", "running", "stopped"})'
<1> SUFFICES ASSUME CallTyped, Next PROVE told' \in {"nothing", "running", "stopped"}
  OBVIOUS
<1> USE DEF Control, Succeeds, Fails, CallTyped
<1>1. CASE WriteRegister \/ OwnCommand
  BY <1>1 DEF WriteRegister, OwnCommand
<1>2. CASE Announce \/ SendData \/ Confirm \/ Fetch
  BY <1>2 DEF Announce, SendData, Confirm, Fetch
<1>3. CASE Reset \/ DriveLow \/ DriveHigh
  BY <1>3 DEF Reset, DriveLow, DriveHigh
<1>4. CASE Ask \/ Exit
  BY <1>4 DEF Ask, Exit, IsRunning, Either, StateV1, StateV2
<1>5. CASE Start \/ Stop \/ Count \/ Take
  BY <1>5 DEF Start, Stop, Count, Take, Unchanged
<1>6. CASE Executes \/ ResetButton
  BY <1>6 DEF Executes, ResetButton
<1>7. CASE Create \/ Calls
  BY <1>7 DEF Create, Calls, Call
<1> QED
  BY <1>1, <1>2, <1>3, <1>4, <1>5, <1>6, <1>7 DEF Next, Calls

(* Instructions are counted to two. *)
LEMMA ExecutesTyped ==
  ASSUME made \in 0 .. 2, handled \in BOOLEAN, NEW irq \in BOOLEAN, ExecutesOne(irq)
  PROVE  made' \in 0 .. 2 /\ handled' \in BOOLEAN
<1>1. handled' = (handled \/ irq) \/ handled' = handled
  BY Zenon DEF ExecutesOne
<1>2. handled' \in BOOLEAN
  BY Zenon, <1>1
<1>3. made' = made \/ made' = (IF made = 2 THEN 2 ELSE made + 1)
  BY DEF ExecutesOne
<1> QED
  BY <1>2, <1>3

LEMMA WrittenTyped ==
  ASSUME SwitchesTyped, made \in 0 .. 2, NEW bits, DhcsrWritten(bits)
  PROVE  /\ masked' \in BOOLEAN /\ halted' \in BOOLEAN /\ handled' \in BOOLEAN
         /\ haltBit' \in BOOLEAN /\ alone' \in BOOLEAN
         /\ made' \in 0 .. 2 /\ UNCHANGED <<held, sticky, clean, unread>>
<1>1. masked' \in BOOLEAN
  <2>1. masked' = masked \/ masked' = ("mask" \in bits)
    BY Zenon DEF DhcsrWritten
  <2>2. masked' = ("mask" \in bits) => masked' \in BOOLEAN
    OBVIOUS
  <2> QED
    BY Zenon, <2>1, <2>2 DEF SwitchesTyped
<1>2. halted' \in BOOLEAN
  BY Zenon DEF DhcsrWritten, SwitchesTyped
<1>5. haltBit' \in BOOLEAN /\ alone' \in BOOLEAN
  BY Zenon DEF DhcsrWritten
<1>3. (\E irq \in BOOLEAN : ExecutesOne(irq)) \/ UNCHANGED <<made, handled>>
  BY Zenon DEF DhcsrWritten, SwitchesTyped
<1>4. made' \in 0 .. 2 /\ handled' \in BOOLEAN
  BY <1>3, ExecutesTyped DEF SwitchesTyped
<1> QED
  BY Zenon, <1>1, <1>2, <1>4, <1>5 DEF DhcsrWritten

LEMMA SwitchesInit == Init => SwitchesTyped
  BY Zenon DEF Init, SwitchesTyped

LEMMA SwitchesStep ==
  ASSUME SwitchesTyped, made \in 0 .. 2, Next
  PROVE  SwitchesTyped' /\ made' \in 0 .. 2
<1>1. CASE \E bits : DhcsrWritten(bits) /\ faulted' \in {FALSE, faulted}
  BY Zenon, <1>1, WrittenTyped DEF SwitchesTyped
<1>2. CASE Untouched
  BY Zenon, <1>2 DEF Untouched, core, seen, SwitchesTyped
<1>3. CASE WasReset
  BY Zenon, <1>3 DEF WasReset, ResetCore, SwitchesTyped
<1>4. CASE PinHigh
  BY Zenon, <1>4 DEF PinHigh, seen, SwitchesTyped
<1>5. CASE WasLeft
  BY Zenon, <1>5 DEF WasLeft, DebugLeft, SwitchesTyped
<1>6. CASE Read
  BY Zenon, <1>6 DEF Read, StickyRead, SwitchesTyped
<1>7. CASE Executes
  <2>1. PICK irq \in BOOLEAN : ExecutesOne(irq)
    BY Zenon, <1>7 DEF Executes, SwitchesTyped
  <2>2. halted' \in BOOLEAN /\ haltBit' \in BOOLEAN /\ alone' \in BOOLEAN
    BY Zenon, <1>7 DEF Executes, SwitchesTyped
  <2>3. made' \in 0 .. 2 /\ handled' \in BOOLEAN
    BY <2>1, ExecutesTyped DEF SwitchesTyped
  <2> QED
    BY Zenon, <1>7, <2>2, <2>3 DEF Executes, SwitchesTyped
<1>8. CASE Create
  BY Zenon, <1>8 DEF Create, target, core, seen, SwitchesTyped
<1>9. CASE Calls
  <2>1. made' = 0 /\ handled' = FALSE /\ clean' \in BOOLEAN
        /\ UNCHANGED <<held, halted, haltBit, masked, sticky, faulted, unread, alone>>
    BY Zenon, <1>9 DEF Calls, Call, core, SwitchesTyped
  <2>2. made' \in 0 .. 2
    BY <2>1
  <2> QED
    BY Zenon, <2>1, <2>2 DEF SwitchesTyped
<1> QED
  BY Zenon, <1>1, <1>2, <1>3, <1>4, <1>5, <1>6, <1>7, <1>8, <1>9, StepTouches DEF Touched, Written

-----------------------------------------------------------------------------
(* Trace.                                                                  *)

LEMMA BlamesAdds ==
  ASSUME NEW what \in Upsets, Blames(what)
  PROVE  what \in upset'
  BY DEF Blames

LEMMA TraceSwitchesStep ==
  ASSUME engine \in BOOLEAN, running \in BOOLEAN, Next
  PROVE  engine' \in BOOLEAN /\ running' \in BOOLEAN
<1> USE DEF Control, Succeeds, Fails, trace
<1>1. CASE WriteRegister \/ OwnCommand
  BY Zenon, <1>1 DEF WriteRegister, OwnCommand
<1>2. CASE Announce \/ SendData \/ Confirm \/ Fetch
  BY Zenon, <1>2 DEF Announce, SendData, Confirm, Fetch
<1>3. CASE Reset \/ DriveLow \/ DriveHigh
  BY Zenon, <1>3 DEF Reset, DriveLow, DriveHigh
<1>4. CASE Ask \/ Exit
  BY Zenon, <1>4 DEF Ask, Exit
<1>5. CASE Start \/ Stop
  BY Zenon, <1>5 DEF Start, Stop
<1>6. CASE Count \/ Take
  BY Zenon, <1>6 DEF Count, Take, Unchanged
<1>7. CASE Executes \/ ResetButton
  BY Zenon, <1>7 DEF Executes, ResetButton
<1>8. CASE Create \/ Calls
  BY Zenon, <1>8 DEF Create, Calls, Call
<1> QED
  BY Zenon, <1>1, <1>2, <1>3, <1>4, <1>5, <1>6, <1>7, <1>8 DEF Next, Calls

(* What a trace read has left tells which of its commands comes next. *)
LEMMA ReadingHead ==
  ASSUME Reading, op = "trace_read", ~Idle
  PROVE  /\ Doing = "count" => Tail(todo) = <<Command("take", {})>> /\ Len(todo) = 2
         /\ Doing = "take" => taken <= waiting /\ Tail(todo) = <<>> /\ Len(todo) = 1
<1>1. CASE todo = <<Command("count", {}), Command("take", {})>>
  <2>1. Head(todo) = Command("count", {}) /\ Tail(todo) = <<Command("take", {})>> /\ Len(todo) = 2
    BY <1>1
  <2>2. Doing = "count"
    BY <2>1 DEF Doing, Command
  <2> QED
    BY <2>1, <2>2
<1>2. CASE todo = <<Command("take", {})>> /\ taken <= waiting
  <2>1. Head(todo) = Command("take", {}) /\ Tail(todo) = <<>> /\ Len(todo) = 1
    BY <1>2
  <2>2. Doing = "take"
    BY <2>1 DEF Doing, Command
  <2> QED
    BY <1>2, <2>1, <2>2
<1> QED
  BY <1>1, <1>2 DEF Reading

LEMMA TraceInit == Init => TraceTyped /\ Reading
<1> SUFFICES ASSUME Init PROVE TraceTyped /\ Reading
  OBVIOUS
<1>1. engine = FALSE /\ running = FALSE /\ waiting = 0 /\ room = 0 /\ taken = 0 /\ op = "destroy"
  BY Zenon DEF Init
<1>2. engine \in BOOLEAN /\ running \in BOOLEAN
  BY Zenon, <1>1
<1> QED
  BY <1>1, <1>2, TraceBufferIsNat DEF TraceTyped, Reading

LEMMA TakeFacts ==
  ASSUME CallTyped, Sending, Reading, Take
  PROVE  op = "trace_read" /\ ~Idle /\ taken <= waiting /\ Tail(todo) = <<>> /\ Len(todo) = 1
<1>1. ~Idle /\ Doing = "take"
  BY DEF Take, Underway, Idle
<1>2. op = "trace_read"
  BY <1>1, WhoseCommand
<1> QED
  BY <1>1, <1>2, ReadingHead

LEMMA TraceStep ==
  ASSUME TraceTyped, CallTyped, Sending, Reading, Next
  PROVE  TraceTyped'
<1>0. engine' \in BOOLEAN /\ running' \in BOOLEAN
  BY TraceSwitchesStep DEF TraceTyped
<1> SUFFICES (waiting \in 0 .. TraceBuffer /\ room \in 0 .. TraceBuffer /\ taken \in 0 .. TraceBuffer)'
  BY <1>0 DEF TraceTyped
<1> USE TraceBufferIsNat DEF Control, Succeeds, Fails, GoesOn, Returns, trace, call, TraceTyped
<1>1. CASE WriteRegister \/ OwnCommand
  BY <1>1 DEF WriteRegister, OwnCommand
<1>2. CASE Announce \/ SendData \/ Confirm \/ Fetch
  BY <1>2 DEF Announce, SendData, Confirm, Fetch
<1>3. CASE Reset \/ DriveLow \/ DriveHigh
  BY <1>3 DEF Reset, DriveLow, DriveHigh
<1>4. CASE Ask \/ Exit
  BY <1>4 DEF Ask, Exit
<1>5. CASE Start \/ Stop
  BY <1>5 DEF Start, Stop
<1>6. CASE Count
  BY <1>6 DEF Count, Unchanged
<1>7. CASE Take
  <2>1. taken <= waiting /\ room' = room
    BY Zenon, <1>7, TakeFacts DEF Take
  <2>2. \E n \in 0 .. taken : taken' \in {0, n} /\ waiting' = waiting - n
    BY <1>7 DEF Take
  <2> QED
    BY <2>1, <2>2
<1>8. CASE Executes \/ ResetButton
  <2>1. UNCHANGED <<room, taken>>
    BY Zenon, <1>8 DEF Executes, ResetButton
  <2>2. waiting' = waiting \/ (waiting < TraceBuffer /\ waiting' = waiting + 1)
    BY Zenon, <1>8 DEF Executes, ResetButton
  <2> QED
    BY <2>1, <2>2
<1>9. CASE Create
  BY <1>9 DEF Create
<1>10. CASE Calls
  <2>1. PICK o \in Operations : Call(o)
    BY Zenon, <1>10 DEF Calls
  <2>2. waiting' = waiting /\ taken' = 0 /\ room' \in (IF o = "trace_read" THEN 0 .. TraceBuffer ELSE {0})
    BY Zenon, <2>1 DEF Call
  <2> QED
    BY <2>2
<1> QED
  BY <1>1, <1>2, <1>3, <1>4, <1>5, <1>6, <1>7, <1>8, <1>9, <1>10 DEF Next, Calls

LEMMA ReadingStep ==
  ASSUME TraceTyped, CallTyped, Sending, Reading, Next
  PROVE  Reading'
<1> SUFFICES ASSUME op' = "trace_read", ~Idle' PROVE Reading'
  BY DEF Reading
<1>1. CASE Count
  <2>1. ~Idle /\ Doing = "count"
    BY <1>1 DEF Count, Underway, Idle
  <2>2. op = "trace_read"
    BY <2>1, WhoseCommand
  <2>3. Tail(todo) = <<Command("take", {})>>
    BY <2>1, <2>2, ReadingHead
  <2>4. taken' = waiting /\ GoesOn /\ waiting' = waiting
    BY <1>1 DEF Count, Idle, Returns, Unchanged, trace
  <2>5. todo' = <<Command("take", {})>>
    BY <2>3, <2>4 DEF GoesOn
  <2>6. taken' <= waiting'
    BY <2>4, TraceBufferIsNat DEF TraceTyped
  <2> QED
    BY <2>5, <2>6 DEF Reading
<1>2. CASE Take
  <2>1. Idle'
    BY <1>2, TakeFacts DEF Take, Idle, GoesOn, Returns
  <2> QED
    BY <2>1
<1>3. CASE Calls
  <2>1. PICK p \in Programs("trace_read") : todo' = p.commands /\ result' = p.how
    BY <1>3 DEF Calls, Call
  <2>2. p = TraceRead \/ p = UnavailableTrace
    BY <2>1, ProgramsOf DEF TraceOf
  <2>3. p = TraceRead
    <3>1. UnavailableTrace.how = "refused"
      BY DEF UnavailableTrace, Returned
    <3>2. p.how = "none"
      BY <2>1 DEF Idle
    <3> QED
      BY <2>2, <3>1, <3>2
  <2>4. todo' = Plain("count") \o Plain("take")
    BY <2>1, <2>3 DEF TraceRead, Sends
  <2> QED
    BY <2>4, TraceReadIs DEF Reading
<1>4. CASE Executes \/ ResetButton
  <2>1. UNCHANGED <<op, todo, result, taken>> /\ (waiting' = waiting \/ waiting' = waiting + 1)
    BY Zenon, <1>4 DEF Executes, ResetButton, call, trace
  <2>2. \/ todo' = <<Command("count", {}), Command("take", {})>>
        \/ todo' = <<Command("take", {})>> /\ taken <= waiting
    BY <2>1 DEF Reading, Idle
  <2>3. taken <= waiting => taken' <= waiting'
    BY <2>1, TraceBufferIsNat DEF TraceTyped
  <2> QED
    BY <2>2, <2>3 DEF Reading
<1>5. CASE Create
  BY <1>5 DEF Create
<1>6. CASE ~(Calls \/ Executes \/ ResetButton \/ Create \/ Count \/ Take)
  <2>1. result = "none" /\ op' = op /\ Doing \notin {"count", "take"}
    BY <1>6 DEF Next, Calls, Control, Succeeds, Fails, GoesOn, Returns, Underway,
       WriteRegister, OwnCommand, Announce, SendData, Confirm, Fetch,
       Reset, DriveLow, DriveHigh, Ask, Exit, Start, Stop
  <2>2. Doing \in {"count", "take"}
    <3>1. Head(todo) \in CommandsOf("trace_read")
      BY <2>1, SendingHead DEF Idle
    <3>2. Head(todo) = Command("count", {}) \/ Head(todo) = Command("take", {})
      BY Zenon, <3>1, CommandsOfEach
    <3> QED
      BY <3>2 DEF Doing, Command
  <2> QED
    BY <2>1, <2>2
<1> QED
  BY <1>1, <1>2, <1>3, <1>4, <1>5, <1>6

LEMMA TracingInit == Init => Tracing
<1> SUFFICES ASSUME Init PROVE Tracing
  OBVIOUS
<1>1. engine = FALSE /\ running = FALSE
  BY Zenon DEF Init
<1> QED
  BY <1>1 DEF Tracing

LEMMA TracingStep ==
  ASSUME CallTyped, Sending, Tracing, Next
  PROVE  Tracing'
<1>0. Untold => Untold'
  BY UpsetGrows DEF Untold
<1>1. CASE Start
  <2>1. op' = "trace_start"
    <3>1. ~Idle /\ Doing = "start"
      BY <1>1 DEF Start, Underway, Idle
    <3> QED
      BY <1>1, <3>1, WhoseCommand DEF Start, GoesOn, Returns
  <2>2. CASE engine' = TRUE /\ running' = TRUE
    <3>1. (running' => engine') /\ op' # "destroy" /\ ~(engine' /\ ~running')
      BY Zenon, <2>1, <2>2
    <3> QED
      BY Zenon, <3>1 DEF Tracing
  <2>3. CASE engine' \in {engine, TRUE} /\ running' = running /\ Blames("trace_failed")
    <3>1. Untold'
      BY <2>3, BlamesAdds DEF Untold, Upsets
    <3>2. running' => engine'
      <4>1. engine' = engine \/ engine' = TRUE
        BY Zenon, <2>3
      <4>2. engine => engine'
        BY Zenon, <4>1
      <4> QED
        BY Zenon, <2>3, <4>2 DEF Tracing
    <3> QED
      BY Zenon, <3>1, <3>2 DEF Tracing
  <2> QED
    BY Zenon, <1>1, <2>2, <2>3 DEF Start
<1>2. CASE Stop
  <2>1. running' = FALSE /\ (engine' = FALSE \/ Blames("trace_failed"))
    BY Zenon, <1>2 DEF Stop
  <2>2. Blames("trace_failed") => Untold'
    BY BlamesAdds DEF Untold, Upsets
  <2> QED
    BY Zenon, <2>1, <2>2 DEF Tracing
<1>3. CASE Exit
  <2>1. ~Idle /\ Doing = "exit" /\ UNCHANGED <<engine, running>>
    BY <1>3 DEF Exit, Underway, Idle, trace
  <2>2. op = "destroy"
    BY <2>1, WhoseCommand
  <2>3. engine => Untold'
    <3>1. engine => Blames("left_tracing")
      BY Zenon, <1>3 DEF Exit
    <3> QED
      BY <3>1, BlamesAdds DEF Untold, Upsets
  <2> QED
    BY Zenon, <2>1, <2>3 DEF Tracing
<1>4. CASE Create
  <2>1. op = "destroy" /\ Idle /\ engine' = engine /\ running' = FALSE /\ op' = "registers"
    BY Zenon, <1>4 DEF Create
  <2>2. engine => Untold'
    BY <1>0, <2>1 DEF Tracing
  <2> QED
    BY Zenon, <2>1, <2>2 DEF Tracing
<1>5. CASE Calls
  <2>1. op # "destroy" /\ UNCHANGED <<engine, running>>
    BY <1>5 DEF Calls, Call, Open, trace
  <2>2. op' = "destroy" => ~Idle'
    <3>1. PICK o \in Operations : Call(o)
      BY <1>5 DEF Calls
    <3>2. PICK p \in Programs(o) : op' = o /\ result' = p.how
      BY <3>1 DEF Call
    <3>3. o = "destroy" => p.how = "none"
      BY <3>2, ProgramsOf DEF Sends
    <3> QED
      BY <3>2, <3>3 DEF Idle
  <2> QED
    BY <1>0, <2>1, <2>2 DEF Tracing
<1>6. CASE Executes \/ ResetButton
  <2>1. UNCHANGED <<engine, running, op, result>>
    BY <1>6 DEF Executes, ResetButton, trace, call
  <2> QED
    BY <1>0, <2>1 DEF Tracing, Idle
<1>7. CASE ~(Start \/ Stop \/ Exit \/ Create \/ Calls \/ Executes \/ ResetButton)
  <2>1. /\ result = "none" /\ Doing # "exit"
        /\ UNCHANGED <<engine, running, op>>
    BY <1>7 DEF Next, Calls, Control, Succeeds, Fails, GoesOn, Returns, Underway, trace,
       WriteRegister, OwnCommand, Announce, SendData, Confirm, Fetch,
       Reset, DriveLow, DriveHigh, Ask, Count, Take, Unchanged
  <2>2. op # "destroy"
    <3>1. op = "destroy" => Head(todo) = Command("exit", {})
      BY <2>1, SendingHead, CommandsOfEach DEF Idle
    <3> QED
      BY <2>1, <3>1 DEF Doing, Command
  <2> QED
    BY <1>0, <2>1, <2>2 DEF Tracing
<1> QED
  BY <1>1, <1>2, <1>3, <1>4, <1>5, <1>6, <1>7

-----------------------------------------------------------------------------
(* Reset and its marks.                                                    *)

LEMMA WrittenLeaves ==
  ASSUME NEW bits, DhcsrWritten(bits)
  PROVE  UNCHANGED <<held, sticky, clean, unread>>
  BY DEF DhcsrWritten

LEMMA MarkedInit == Init => Marked
<1> SUFFICES ASSUME Init PROVE Marked
  OBVIOUS
<1>1. held = FALSE /\ unread = sticky
  BY Zenon DEF Init
<1> QED
  BY Zenon, <1>1 DEF Marked

LEMMA MarkedStep ==
  ASSUME SwitchesTyped, Marked, Next
  PROVE  Marked'
<1> USE DEF Marked
<1>1. CASE \E bits : DhcsrWritten(bits)
  <2>1. UNCHANGED <<held, sticky, unread>>
    BY <1>1, WrittenLeaves
  <2> QED
    BY Zenon, <2>1
<1>2. CASE Untouched
  BY Zenon, <1>2 DEF Untouched, core, seen
<1>3. CASE WasReset
  BY Zenon, <1>3 DEF WasReset, ResetCore
<1>4. CASE PinHigh
  BY Zenon, <1>4 DEF PinHigh, seen
<1>5. CASE WasLeft
  BY Zenon, <1>5 DEF WasLeft, DebugLeft
<1>6. CASE Read
  <2>1. held' = held /\ sticky' = held /\ (unread' = held \/ unread' = unread)
    BY Zenon, <1>6 DEF Read, StickyRead
  <2>2. CASE held = TRUE
    <3>1. unread' = TRUE \/ unread' = unread
      BY Zenon, <2>1, <2>2
    <3>2. unread
      BY Zenon, <2>2
    <3>3. held' = TRUE /\ sticky' = TRUE /\ unread'
      BY Zenon, <2>1, <2>2, <3>1, <3>2
    <3> QED
      BY Zenon, <3>3
  <2>3. CASE held = FALSE
    <3>1. held' = FALSE /\ sticky' = FALSE
      BY Zenon, <2>1, <2>3
    <3> QED
      BY Zenon, <3>1
  <2> QED
    BY Zenon, <2>2, <2>3 DEF SwitchesTyped
<1>7. CASE Executes
  BY Zenon, <1>7 DEF Executes
<1>8. CASE Create
  BY Zenon, <1>8 DEF Create, target, core, seen
<1>9. CASE Calls
  <2>1. UNCHANGED <<held, sticky, unread>>
    BY <1>9 DEF Calls, Call, core
  <2> QED
    BY Zenon, <2>1
<1> QED
  BY Zenon, <1>1, <1>2, <1>3, <1>4, <1>5, <1>6, <1>7, <1>8, <1>9, StepTouches DEF Touched, Written

(* What went bad stays bad, and only a call puts another operation in place. *)
LEMMA BadStaysBad == Next => (BadStep => BadStep')
  BY UpsetGrows DEF BadStep

LEMMA SameOperation ==
  Next /\ ~Create /\ ~Calls =>
    UNCHANGED <<api, port, op>> /\ (~Idle' => ~Idle) /\ (Idle => UNCHANGED <<todo, result>>)
  BY StepProgress DEF Progress, device, call, Idle

LEMMA OutOfResetInit == Init => OutOfReset
<1> SUFFICES ASSUME Init PROVE OutOfReset
  OBVIOUS
<1>1. held = FALSE
  BY Zenon DEF Init
<1> QED
  BY Zenon, <1>1 DEF OutOfReset

LEMMA OutOfResetStep ==
  ASSUME SwitchesTyped, CallTyped, Sending, OutOfReset, Next
  PROVE  OutOfReset'
<1>1. CASE Create
  <2>1. op' = "registers" /\ UNCHANGED <<held, clean>>
    BY <1>1 DEF Create, target, core, seen
  <2> QED
    BY <2>1 DEF OutOfReset
<1>2. CASE Calls
  <2>1. /\ clean' => ~held
        /\ held' = held
        /\ op' = "step" /\ held => "step_disturbed" \in upset'
    BY <1>2 DEF Calls, Call, CalledFor, core
  <2>2. "step_disturbed" \in upset' => BadStep'
    BY DEF BadStep
  <2> QED
    BY Zenon, <2>1, <2>2 DEF OutOfReset
<1>3. CASE ~Create /\ ~Calls
  <2>1. UNCHANGED op /\ (~Idle' => ~Idle)
    BY <1>3, SameOperation
  <2>2. CASE held' = held /\ (clean' => clean)
    BY Zenon, <2>1, <2>2, BadStaysBad DEF OutOfReset
  <2>3. CASE held' = FALSE
    BY Zenon, <2>3 DEF OutOfReset
  <2>4. CASE Underway("low") /\ ~clean'
    <3>1. ~Idle /\ Doing = "low"
      BY <2>4 DEF Underway, Idle
    <3>2. op # "step"
      BY <3>1, WhoseCommand
    <3> QED
      BY Zenon, <2>1, <2>4, <3>2 DEF OutOfReset
  <2>5. \/ held' = held /\ (clean' => clean)
        \/ held' = FALSE
        \/ Underway("low") /\ ~clean'
    <3>1. CASE \E bits : DhcsrWritten(bits)
      <4>1. UNCHANGED <<held, clean>>
        BY <3>1, WrittenLeaves
      <4> QED
        BY Zenon, <4>1
    <3>2. CASE Untouched
      BY Zenon, <3>2 DEF Untouched, core, seen
    <3>3. CASE WasReset
      BY Zenon, <3>3 DEF WasReset, ResetCore
    <3>4. CASE PinHigh \/ WasLeft
      BY Zenon, <3>4 DEF PinHigh, WasLeft, DebugLeft, seen
    <3>5. CASE Read
      BY Zenon, <3>5 DEF Read
    <3>6. CASE Executes
      BY Zenon, <3>6 DEF Executes
    <3> QED
      BY Zenon, <1>3, <3>1, <3>2, <3>3, <3>4, <3>5, <3>6, StepTouches DEF Touched, Written
  <2> QED
    BY <2>2, <2>3, <2>4, <2>5
<1> QED
  BY <1>1, <1>2, <1>3

(* A core stops because it was told to, or by itself. *)
LEMMA AccountedInit == Init => Accounted
<1> SUFFICES ASSUME Init PROVE Accounted
  OBVIOUS
<1>1. alone = halted
  BY Zenon DEF Init
<1> QED
  BY Zenon, <1>1 DEF Accounted

LEMMA AccountedStep ==
  ASSUME SwitchesTyped, Accounted, Next
  PROVE  Accounted'
<1> USE DEF Accounted
<1>1. CASE \E bits : DhcsrWritten(bits)
  <2>1. PICK bits : DhcsrWritten(bits)
    BY <1>1
  <2>2. CASE "halt" \in bits
    <3>1. haltBit' = TRUE
      BY Zenon, <2>1, <2>2 DEF DhcsrWritten
    <3> QED
      BY Zenon, <3>1
  <2>3. CASE "halt" \notin bits
    <3>1. alone' = (halted' /\ TRUE)
      BY Zenon, <2>1, <2>3 DEF DhcsrWritten
    <3> QED
      BY Zenon, <3>1
  <2> QED
    BY <2>2, <2>3
<1>2. CASE Untouched
  BY Zenon, <1>2 DEF Untouched, core, seen
<1>3. CASE WasReset \/ WasLeft
  <2>1. halted' = FALSE
    BY Zenon, <1>3 DEF WasReset, ResetCore, WasLeft, DebugLeft
  <2> QED
    BY Zenon, <2>1
<1>4. CASE PinHigh
  BY Zenon, <1>4 DEF PinHigh, seen
<1>5. CASE Read
  BY Zenon, <1>5 DEF Read
<1>6. CASE Executes
  <2>1. alone' = (halted' /\ ~haltBit) /\ (haltBit => haltBit')
    BY Zenon, <1>6 DEF Executes
  <2> QED
    BY Zenon, <2>1
<1>7. CASE Create
  BY Zenon, <1>7 DEF Create, target, core, seen
<1>8. CASE Calls
  <2>1. UNCHANGED <<halted, haltBit, alone>>
    BY <1>8 DEF Calls, Call, core
  <2> QED
    BY Zenon, <2>1
<1> QED
  BY Zenon, <1>1, <1>2, <1>3, <1>4, <1>5, <1>6, <1>7, <1>8, StepTouches DEF Touched, Written

-----------------------------------------------------------------------------
(* A step of a V2, place by place.                                         *)

LEMMA AtPlaces ==
  /\ todo \in Left0 =>
       \/ Head(todo) = Register(Hm) /\ Tail(todo) \in Left1 /\ Len(todo) # 1
       \/ Head(todo) = Announced /\ Tail(todo) \in Left0 /\ Len(todo) # 1
       \/ Head(todo) = Sent(Hm) /\ Tail(todo) \in Unsure1 /\ Len(todo) # 1
  /\ todo \in Unsure1 => Head(todo) = Confirmed /\ Tail(todo) \in Left1 /\ Len(todo) # 1
  /\ todo \in Left1 =>
       \/ Head(todo) = Register(Sm) /\ Tail(todo) \in Left2 /\ Len(todo) # 1
       \/ Head(todo) = Announced /\ Tail(todo) \in Left1 /\ Len(todo) # 1
       \/ Head(todo) = Sent(Sm) /\ Tail(todo) \in Unsure2 /\ Len(todo) # 1
  /\ todo \in Unsure2 => Head(todo) = Confirmed /\ Tail(todo) \in Left2 /\ Len(todo) # 1
  /\ todo \in Left2 =>
       \/ Head(todo) = Register(Hl) /\ Len(todo) = 1
       \/ Head(todo) = Announced /\ Tail(todo) \in Left2 /\ Len(todo) # 1
       \/ Head(todo) = Sent(Hl) /\ Tail(todo) \in Unsure3 /\ Len(todo) # 1
  /\ todo \in Unsure3 => Head(todo) = Confirmed /\ Len(todo) = 1
<1>1. CASE port = 0
  <2>1. ASSUME todo \in Left0
         PROVE  Head(todo) = Register(Hm) /\ Tail(todo) \in Left1 /\ Len(todo) # 1
    <3>1. CASE todo = <<Register(Hm), Register(Sm), Register(Hl)>>
      BY <1>1, <3>1 DEF Left1
    <3> QED
      BY Zenon, <1>1, <2>1, <3>1 DEF Left0
  <2>2. todo \notin Unsure1
    BY Zenon, <1>1 DEF Unsure1
  <2>3. ASSUME todo \in Left1
         PROVE  Head(todo) = Register(Sm) /\ Tail(todo) \in Left2 /\ Len(todo) # 1
    <3>1. CASE todo = <<Register(Sm), Register(Hl)>>
      BY <1>1, <3>1 DEF Left2
    <3> QED
      BY Zenon, <1>1, <2>3, <3>1 DEF Left1
  <2>4. todo \notin Unsure2
    BY Zenon, <1>1 DEF Unsure2
  <2>5. ASSUME todo \in Left2
         PROVE  Head(todo) = Register(Hl) /\ Len(todo) = 1
    <3>1. CASE todo = <<Register(Hl)>>
      BY <3>1
    <3> QED
      BY Zenon, <1>1, <2>5, <3>1 DEF Left2
  <2>6. todo \notin Unsure3
    BY Zenon, <1>1 DEF Unsure3
  <2> QED
    BY Zenon, <2>1, <2>2, <2>3, <2>4, <2>5, <2>6
<1>2. CASE port # 0
  <2>1. ASSUME todo \in Left0
         PROVE  \/ Head(todo) = Announced /\ Tail(todo) \in Left0 /\ Len(todo) # 1
                \/ Head(todo) = Sent(Hm) /\ Tail(todo) \in Unsure1 /\ Len(todo) # 1
    <3>1. CASE todo = <<Announced, Sent(Hm), Confirmed, Announced, Sent(Sm), Confirmed,
                        Announced, Sent(Hl), Confirmed>>
      <4>1. /\ Head(todo) = Announced /\ Len(todo) # 1
            /\ Tail(todo) = <<Sent(Hm), Confirmed, Announced, Sent(Sm), Confirmed,
                              Announced, Sent(Hl), Confirmed>>
        BY <3>1
      <4>2. <<Sent(Hm), Confirmed, Announced, Sent(Sm), Confirmed, Announced, Sent(Hl),
              Confirmed>> \in Left0
        BY Zenon, <1>2 DEF Left0
      <4> QED
        BY Zenon, <4>1, <4>2
    <3>2. CASE todo = <<Sent(Hm), Confirmed, Announced, Sent(Sm), Confirmed, Announced,
                        Sent(Hl), Confirmed>>
      <4>1. /\ Head(todo) = Sent(Hm) /\ Len(todo) # 1
            /\ Tail(todo) = <<Confirmed, Announced, Sent(Sm), Confirmed, Announced,
                              Sent(Hl), Confirmed>>
        BY <3>2
      <4>2. <<Confirmed, Announced, Sent(Sm), Confirmed, Announced, Sent(Hl),
              Confirmed>> \in Unsure1
        BY Zenon, <1>2 DEF Unsure1
      <4> QED
        BY Zenon, <4>1, <4>2
    <3> QED
      BY Zenon, <1>2, <2>1, <3>1, <3>2 DEF Left0
  <2>2. ASSUME todo \in Unsure1
         PROVE  Head(todo) = Confirmed /\ Tail(todo) \in Left1 /\ Len(todo) # 1
    <3>1. CASE todo = <<Confirmed, Announced, Sent(Sm), Confirmed, Announced, Sent(Hl),
                        Confirmed>>
      <4>1. /\ Head(todo) = Confirmed /\ Len(todo) # 1
            /\ Tail(todo) = <<Announced, Sent(Sm), Confirmed, Announced, Sent(Hl), Confirmed>>
        BY <3>1
      <4>2. <<Announced, Sent(Sm), Confirmed, Announced, Sent(Hl), Confirmed>> \in Left1
        BY Zenon, <1>2 DEF Left1
      <4> QED
        BY Zenon, <4>1, <4>2
    <3> QED
      BY Zenon, <1>2, <2>2, <3>1 DEF Unsure1
  <2>3. ASSUME todo \in Left1
         PROVE  \/ Head(todo) = Announced /\ Tail(todo) \in Left1 /\ Len(todo) # 1
                \/ Head(todo) = Sent(Sm) /\ Tail(todo) \in Unsure2 /\ Len(todo) # 1
    <3>1. CASE todo = <<Announced, Sent(Sm), Confirmed, Announced, Sent(Hl), Confirmed>>
      BY <1>2, <3>1 DEF Left1
    <3>2. CASE todo = <<Sent(Sm), Confirmed, Announced, Sent(Hl), Confirmed>>
      BY <1>2, <3>2 DEF Unsure2
    <3> QED
      BY Zenon, <1>2, <2>3, <3>1, <3>2 DEF Left1
  <2>4. ASSUME todo \in Unsure2
         PROVE  Head(todo) = Confirmed /\ Tail(todo) \in Left2 /\ Len(todo) # 1
    <3>1. CASE todo = <<Confirmed, Announced, Sent(Hl), Confirmed>>
      BY <1>2, <3>1 DEF Left2
    <3> QED
      BY Zenon, <1>2, <2>4, <3>1 DEF Unsure2
  <2>5. ASSUME todo \in Left2
         PROVE  \/ Head(todo) = Announced /\ Tail(todo) \in Left2 /\ Len(todo) # 1
                \/ Head(todo) = Sent(Hl) /\ Tail(todo) \in Unsure3 /\ Len(todo) # 1
    <3>1. CASE todo = <<Announced, Sent(Hl), Confirmed>>
      BY <1>2, <3>1 DEF Left2
    <3>2. CASE todo = <<Sent(Hl), Confirmed>>
      BY <1>2, <3>2 DEF Unsure3
    <3> QED
      BY Zenon, <1>2, <2>5, <3>1, <3>2 DEF Left2
  <2>6. ASSUME todo \in Unsure3
         PROVE  Head(todo) = Confirmed /\ Len(todo) = 1
    <3>1. CASE todo = <<Confirmed>>
      BY <3>1
    <3> QED
      BY Zenon, <1>2, <2>6, <3>1 DEF Unsure3
  <2> QED
    BY Zenon, <2>1, <2>2, <2>3, <2>4, <2>5, <2>6
<1> QED
  BY <1>1, <1>2

(* Each of the three writes of DHCSR takes the core from place to place. *)
LEMMA WriteMasks ==
  ASSUME SwitchesTyped, OutOfReset, StepUnderway, After0, DhcsrWritten(Hm), upset' = upset
  PROVE  After1'
<1>1. clean \/ ~BadStep => ~held
  BY DEF OutOfReset, StepUnderway
<1>2. haltBit' = TRUE /\ (~held /\ halted => halted' = TRUE)
  <2>1. ({"halt", "step"} \cap Hm # {}) = TRUE /\ "halt" \in Hm
    BY DEF Hm
  <2> QED
    BY <2>1 DEF DhcsrWritten
<1>3. halted => masked' = TRUE
  <2>1. ({"halt", "step"} \cap Hm # {}) /\ ("mask" \in Hm) = TRUE
    BY DEF Hm
  <2> QED
    BY <2>1 DEF DhcsrWritten
<1>4. UNCHANGED <<made, handled, clean>>
  BY DEF DhcsrWritten, Hm
<1>5. BadStep' = BadStep
  BY DEF BadStep
<1> QED
  BY Zenon, <1>1, <1>2, <1>3, <1>4, <1>5 DEF After0, After1

LEMMA WriteSteps ==
  ASSUME SwitchesTyped, OutOfReset, StepUnderway, After1, DhcsrWritten(Sm), upset' = upset
  PROVE  After2'
<1>1. clean \/ ~BadStep => ~held /\ (halted \/ haltBit)
  BY DEF OutOfReset, StepUnderway, After1
<1>2. ~held /\ (halted \/ haltBit) => halted' = TRUE
  <2>1. ({"halt", "step"} \cap Sm # {}) = TRUE
    BY DEF Sm
  <2> QED
    BY <2>1 DEF DhcsrWritten
<1>3. halted /\ masked => masked' = TRUE
  <2>1. ("mask" \in Sm) = TRUE
    BY DEF Sm
  <2> QED
    BY <2>1 DEF DhcsrWritten
<1>4. clean => made' = 1 /\ handled' = FALSE
  <2>1. "step" \in Sm /\ "mask" \in Sm
    BY DEF Sm
  <2>2. ASSUME clean
        PROVE  ExecutesOne(FALSE) /\ made = 0 /\ handled = FALSE
    <3>1. halted /\ masked /\ made = 0 /\ handled = FALSE
      BY Zenon, <2>2 DEF After1, SwitchesTyped
    <3>2. \E irq \in {FALSE, ~(masked /\ "mask" \in Sm)} : ExecutesOne(irq)
      BY Zenon, <2>1, <3>1 DEF DhcsrWritten
    <3>3. ~(masked /\ "mask" \in Sm) = FALSE
      BY <2>1, <3>1
    <3> QED
      BY Zenon, <3>1, <3>2, <3>3
  <2>3. clean => made' = 1
    BY <2>2 DEF ExecutesOne
  <2>4. clean => handled' = (FALSE \/ FALSE)
    BY Zenon, <2>2 DEF ExecutesOne
  <2> QED
    BY <2>3, <2>4
<1>5. BadStep' = BadStep /\ clean' = clean
  BY DEF BadStep, DhcsrWritten
<1> QED
  BY Zenon, <1>1, <1>2, <1>3, <1>4, <1>5 DEF After1, After2

LEMMA WriteUnmasks ==
  ASSUME SwitchesTyped, OutOfReset, StepUnderway, After2, DhcsrWritten(Hl), upset' = upset
  PROVE  After3'
<1>1. clean \/ ~BadStep => ~held /\ halted
  BY DEF OutOfReset, StepUnderway, After2
<1>2. ~held /\ halted => halted' = TRUE
  <2>1. ({"halt", "step"} \cap Hl # {}) = TRUE
    BY DEF Hl
  <2> QED
    BY <2>1 DEF DhcsrWritten
<1>3. halted => masked' = FALSE
  <2>1. ("mask" \in Hl) = FALSE /\ ({"halt", "step"} \cap Hl # {})
    BY DEF Hl
  <2> QED
    BY <2>1 DEF DhcsrWritten
<1>4. UNCHANGED <<made, handled, clean>>
  BY DEF DhcsrWritten, Hl
<1>5. BadStep' = BadStep
  BY DEF BadStep
<1> QED
  BY Zenon, <1>1, <1>2, <1>3, <1>4, <1>5 DEF After2, After3

(* What holds at a place goes on holding while nobody touches the core. *)
LEMMA Undisturbed ==
  ASSUME UNCHANGED <<core, seen>>, upset' = upset
  PROVE  (After0 => After0') /\ (After1 => After1') /\ (After2 => After2') /\ (After3 => After3')
<1>1. UNCHANGED <<clean, halted, haltBit, masked, made, handled>> /\ BadStep' = BadStep
  BY DEF core, seen, BadStep
<1> QED
  BY Zenon, <1>1 DEF After0, After1, After2, After3

(* Nor can the button undo it unnoticed, and the core runs only after a bad *)
(* step.                                                                   *)
LEMMA DisturbedByReset ==
  ASSUME StepUnderway, ResetButton
  PROVE  After0' /\ After1' /\ After2' /\ After3'
<1>1. clean' = FALSE /\ Blames("step_disturbed")
  BY DEF ResetButton, ResetCore, StepUnderway
<1>2. BadStep'
  BY <1>1, BlamesAdds DEF BadStep, Upsets
<1> QED
  BY Zenon, <1>1, <1>2 DEF After0, After1, After2, After3

LEMMA DisturbedByRunning ==
  ASSUME Executes
  PROVE  (After0 => After0') /\ (After1 => After1') /\ (After2 => After2') /\ (After3 => After3')
<1>1. ~halted /\ UNCHANGED <<clean, masked>> /\ BadStep' = BadStep
  BY DEF Executes, Executing, BadStep
<1>2. ~clean => UNCHANGED <<made, handled>>
  BY DEF Executes, ExecutesOne
<1>3. haltBit => haltBit'
  BY Zenon DEF Executes
<1> QED
  BY Zenon, <1>1, <1>2, <1>3 DEF After0, After1, After2, After3

LEMMA SteppingInit == Init => Stepping /\ StepIsOneInstruction
  BY DEF Init, Stepping, StepUnderway, StepIsOneInstruction, Idle

(* A command of the step takes it to its next place, or ends it: well, in   *)
(* the state a step is to leave, or badly, and then the step is remembered. *)
Moves ==
  /\ GoesOn
  /\ \/ Doing = "register" /\ WordWritten(Head(todo).bits) /\ UNCHANGED faulted
     \/ Doing = "announce" /\ UNCHANGED target
     \/ Doing = "data" /\ faulted' = FALSE /\ WordWritten(Head(todo).bits)
     \/ Doing = "data" /\ faulted' = TRUE /\ UNCHANGED <<core, seen>>
     \/ Doing = "confirm" /\ ~faulted /\ UNCHANGED target

EndsBadly == Idle' /\ result' = "failed" /\ BadStep'

LEMMA StepCommands ==
  ASSUME CallTyped, Sending, Next, StepUnderway, ~Create, ~Calls, ~Executes, ~ResetButton
  PROVE  Moves \/ EndsBadly
<1>1. api = "V2" /\ op = "step" /\ ~Idle
  BY DEF StepUnderway
<1>2. Doing \in {"register", "announce", "data", "confirm"}
  <2>1. CommandsOf(op) = Writes(Hm) \cup Writes(Sm) \cup Writes(Hl)
    BY <1>1, CommandsOfEach
  <2>2. PICK bits : Head(todo) \in Writes(bits)
    BY Zenon, <1>1, <2>1, SendingHead
  <2> QED
    BY <1>1, <2>2, WritesDo DEF Doing
<1>3. Blames("step_failed") => BadStep'
  BY BlamesAdds DEF BadStep, Upsets
<1>4. Returns("failed") => Idle' /\ result' = "failed"
  BY DEF Returns, Idle
<1> USE DEF Moves, EndsBadly, Control, Succeeds, Fails, Underway
<1>5. CASE WriteRegister
  BY <1>1, <1>3, <1>4, <1>5 DEF WriteRegister
<1>6. CASE Announce
  BY <1>1, <1>3, <1>4, <1>6 DEF Announce
<1>7. CASE SendData
  BY <1>1, <1>3, <1>4, <1>7 DEF SendData, Landed, Faults
<1>8. CASE Confirm
  BY <1>1, <1>3, <1>4, <1>8 DEF Confirm
<1>9. CASE OwnCommand \/ Fetch \/ Reset \/ DriveLow \/ DriveHigh \/ Ask \/ Exit
  BY <1>2, <1>9 DEF OwnCommand, Fetch, Reset, DriveLow, DriveHigh, Ask, Exit
<1>10. CASE Start \/ Stop \/ Count \/ Take
  BY <1>2, <1>10 DEF Start, Stop, Count, Take
<1> QED
  BY <1>5, <1>6, <1>7, <1>8, <1>9, <1>10 DEF Next, Calls

LEMMA WhatIsSent ==
  /\ \A bits : Register(bits).do = "register" /\ Register(bits).bits = bits
  /\ \A bits : Sent(bits).do = "data" /\ Sent(bits).bits = bits
  /\ Announced.do = "announce"
  /\ Confirmed.do = "confirm"
  BY DEF Register, Sent, Announced, Confirmed, Command

(* The words of a step are all for DHCSR. *)
LEMMA StepWords ==
  (WordWritten(Hm) => DhcsrWritten(Hm)) /\ (WordWritten(Sm) => DhcsrWritten(Sm))
    /\ (WordWritten(Hl) => DhcsrWritten(Hl))
<1>1. \A w \in {Hm, Sm, Hl} : "off" \notin w /\ "reset" \notin w /\ "elsewhere" \notin w
  BY DEF Hm, Sm, Hl
<1>2. "off" \in Off /\ "reset" \in Aircr /\ "elsewhere" \in Elsewhere
  BY DEF Off, Aircr, Elsewhere
<1> QED
  BY Zenon, <1>1, <1>2 DEF WordWritten

LEMMA StepMoves ==
  ASSUME SwitchesTyped, OutOfReset, StepUnderway, Stepping, Moves
  PROVE  (Len(todo) # 1 /\ AtPlace') \/ (Len(todo) = 1 /\ After3')
<1>1. port' = port /\ upset' = upset /\ todo' = Tail(todo)
  BY DEF Moves, GoesOn, device
<1>2. /\ todo' \in Left0 => (todo \in Left0)'
      /\ todo' \in Unsure1 => (todo \in Unsure1)'
      /\ todo' \in Left1 => (todo \in Left1)'
      /\ todo' \in Unsure2 => (todo \in Unsure2)'
      /\ todo' \in Left2 => (todo \in Left2)'
      /\ todo' \in Unsure3 => (todo \in Unsure3)'
  BY <1>1 DEF Left0, Unsure1, Left1, Unsure2, Left2, Unsure3
<1>3. UNCHANGED target => UNCHANGED <<core, seen>> /\ faulted' = faulted
  BY DEF target
<1>4. CASE todo \in Left0 /\ After0
  <2>1. CASE Head(todo) = Register(Hm) /\ Tail(todo) \in Left1 /\ Len(todo) # 1
    <3>1. DhcsrWritten(Hm)
      BY <2>1, WhatIsSent, StepWords DEF Moves, Doing
    <3>2. After1'
      BY <1>1, <1>4, <3>1, WriteMasks
    <3> QED
      BY Zenon, <1>1, <1>2, <2>1, <3>2 DEF AtPlace
  <2>2. CASE Head(todo) = Announced /\ Tail(todo) \in Left0 /\ Len(todo) # 1
    <3>1. UNCHANGED <<core, seen>>
      BY <1>3, <2>2, WhatIsSent DEF Moves, Doing
    <3> QED
      BY Zenon, <1>1, <1>2, <1>4, <2>2, <3>1, Undisturbed DEF AtPlace
  <2>3. CASE Head(todo) = Sent(Hm) /\ Tail(todo) \in Unsure1 /\ Len(todo) # 1
    <3>1. faulted' = TRUE \/ DhcsrWritten(Hm)
      BY <2>3, WhatIsSent, StepWords DEF Moves, Doing
    <3>2. ~faulted' => After1'
      BY <1>1, <1>4, <3>1, WriteMasks
    <3> QED
      BY Zenon, <1>1, <1>2, <2>3, <3>2 DEF AtPlace
  <2> QED
    BY Zenon, <1>4, <2>1, <2>2, <2>3, AtPlaces
<1>5. CASE todo \in Unsure1 /\ (~faulted => After1)
  <2>1. Head(todo) = Confirmed /\ Tail(todo) \in Left1 /\ Len(todo) # 1
    BY Zenon, <1>5, AtPlaces
  <2>2. UNCHANGED <<core, seen>> /\ ~faulted
    BY <1>3, <2>1, WhatIsSent DEF Moves, Doing
  <2> QED
    BY Zenon, <1>1, <1>2, <1>5, <2>1, <2>2, Undisturbed DEF AtPlace
<1>6. CASE todo \in Left1 /\ After1
  <2>1. CASE Head(todo) = Register(Sm) /\ Tail(todo) \in Left2 /\ Len(todo) # 1
    <3>1. DhcsrWritten(Sm)
      BY <2>1, WhatIsSent, StepWords DEF Moves, Doing
    <3>2. After2'
      BY <1>1, <1>6, <3>1, WriteSteps
    <3> QED
      BY Zenon, <1>1, <1>2, <2>1, <3>2 DEF AtPlace
  <2>2. CASE Head(todo) = Announced /\ Tail(todo) \in Left1 /\ Len(todo) # 1
    <3>1. UNCHANGED <<core, seen>>
      BY <1>3, <2>2, WhatIsSent DEF Moves, Doing
    <3> QED
      BY Zenon, <1>1, <1>2, <1>6, <2>2, <3>1, Undisturbed DEF AtPlace
  <2>3. CASE Head(todo) = Sent(Sm) /\ Tail(todo) \in Unsure2 /\ Len(todo) # 1
    <3>1. faulted' = TRUE \/ DhcsrWritten(Sm)
      BY <2>3, WhatIsSent, StepWords DEF Moves, Doing
    <3>2. ~faulted' => After2'
      BY <1>1, <1>6, <3>1, WriteSteps
    <3> QED
      BY Zenon, <1>1, <1>2, <2>3, <3>2 DEF AtPlace
  <2> QED
    BY Zenon, <1>6, <2>1, <2>2, <2>3, AtPlaces
<1>7. CASE todo \in Unsure2 /\ (~faulted => After2)
  <2>1. Head(todo) = Confirmed /\ Tail(todo) \in Left2 /\ Len(todo) # 1
    BY Zenon, <1>7, AtPlaces
  <2>2. UNCHANGED <<core, seen>> /\ ~faulted
    BY <1>3, <2>1, WhatIsSent DEF Moves, Doing
  <2> QED
    BY Zenon, <1>1, <1>2, <1>7, <2>1, <2>2, Undisturbed DEF AtPlace
<1>8. CASE todo \in Left2 /\ After2
  <2>1. CASE Head(todo) = Register(Hl) /\ Len(todo) = 1
    <3>1. DhcsrWritten(Hl)
      BY <2>1, WhatIsSent, StepWords DEF Moves, Doing
    <3> QED
      BY <1>1, <1>8, <2>1, <3>1, WriteUnmasks
  <2>2. CASE Head(todo) = Announced /\ Tail(todo) \in Left2 /\ Len(todo) # 1
    <3>1. UNCHANGED <<core, seen>>
      BY <1>3, <2>2, WhatIsSent DEF Moves, Doing
    <3> QED
      BY Zenon, <1>1, <1>2, <1>8, <2>2, <3>1, Undisturbed DEF AtPlace
  <2>3. CASE Head(todo) = Sent(Hl) /\ Tail(todo) \in Unsure3 /\ Len(todo) # 1
    <3>1. faulted' = TRUE \/ DhcsrWritten(Hl)
      BY <2>3, WhatIsSent, StepWords DEF Moves, Doing
    <3>2. ~faulted' => After3'
      BY <1>1, <1>8, <3>1, WriteUnmasks
    <3> QED
      BY Zenon, <1>1, <1>2, <2>3, <3>2 DEF AtPlace
  <2> QED
    BY Zenon, <1>8, <2>1, <2>2, <2>3, AtPlaces
<1>9. CASE todo \in Unsure3 /\ (~faulted => After3)
  <2>1. Head(todo) = Confirmed /\ Len(todo) = 1
    BY Zenon, <1>9, AtPlaces
  <2>2. UNCHANGED <<core, seen>> /\ ~faulted
    BY <1>3, <2>1, WhatIsSent DEF Moves, Doing
  <2> QED
    BY Zenon, <1>1, <1>9, <2>1, <2>2, Undisturbed
<1> QED
  BY Zenon, <1>4, <1>5, <1>6, <1>7, <1>8, <1>9 DEF Stepping, AtPlace

LEMMA SteppingStep ==
  ASSUME SwitchesTyped, CallTyped, Sending, OutOfReset, Stepping, Next
  PROVE  Stepping'
<1> SUFFICES ASSUME StepUnderway' PROVE AtPlace'
  BY DEF Stepping
<1>1. api' = "V2" /\ op' = "step" /\ ~Idle'
  BY DEF StepUnderway
<1>2. CASE Create
  BY <1>1, <1>2 DEF Create
<1>3. CASE Calls
  <2>1. PICK p \in Programs("step") : todo' = p.commands
    BY <1>1, <1>3 DEF Calls, Call
  <2>2. api = "V2" /\ port' = port
    BY <1>1, <1>3 DEF Calls, Call, device
  <2>3. p.commands = StepV2
    BY <2>1, <2>2, ProgramsOf DEF Sends, Either
  <2>4. (todo \in Left0)'
    BY <2>1, <2>2, <2>3, StepSendsLeft0 DEF Left0
  <2>5. made' = 0 /\ handled' = FALSE /\ halted' = halted /\ (clean' => halted)
    BY Zenon, <1>3 DEF Calls, Call, core
  <2> QED
    BY Zenon, <2>4, <2>5 DEF AtPlace, After0
<1>4. CASE ~Create /\ ~Calls
  <2>1. StepUnderway
    BY <1>1, <1>4, SameOperation DEF StepUnderway
  <2>2. CASE Executes \/ ResetButton
    <3>1. UNCHANGED <<todo, port>> /\ (Executes => faulted' = faulted)
          /\ (ResetButton => faulted' = faulted)
      BY <2>2 DEF Executes, ResetButton, ResetCore, call, device
    <3>2. /\ (todo \in Left0)' <=> todo \in Left0
          /\ (todo \in Unsure1)' <=> todo \in Unsure1
          /\ (todo \in Left1)' <=> todo \in Left1
          /\ (todo \in Unsure2)' <=> todo \in Unsure2
          /\ (todo \in Left2)' <=> todo \in Left2
          /\ (todo \in Unsure3)' <=> todo \in Unsure3
      BY <3>1 DEF Left0, Unsure1, Left1, Unsure2, Left2, Unsure3
    <3>3. AtPlace
      BY <2>1 DEF Stepping
    <3>4. /\ (After0 => After0') /\ (After1 => After1') /\ (After2 => After2')
          /\ (After3 => After3')
      BY Zenon, <2>1, <2>2, DisturbedByReset, DisturbedByRunning
    <3>5. faulted' = faulted
      BY <2>2, <3>1
    <3> QED
      BY Zenon, <3>2, <3>3, <3>4, <3>5 DEF AtPlace
  <2>3. CASE ~Executes /\ ~ResetButton
    <3>1. Moves
      BY Zenon, <1>1, <1>4, <2>1, <2>3, StepCommands DEF EndsBadly
    <3>2. Len(todo) # 1
      BY <1>1, <3>1 DEF Moves, GoesOn, Idle
    <3> QED
      BY <2>1, <3>1, <3>2, StepMoves
  <2> QED
    BY <2>2, <2>3
<1> QED
  BY <1>2, <1>3, <1>4

(* How a step ends: as it is to, or badly. *)
LEMMA StepEnds ==
  ASSUME SwitchesTyped, CallTyped, Sending, OutOfReset, Stepping, Next, StepUnderway, Idle'
  PROVE  (result' = "ok" /\ After3') \/ EndsBadly
<1>1. ~Create /\ ~Calls /\ ~Executes /\ ~ResetButton
  BY DEF StepUnderway, Create, Calls, Call, Open, Executes, ResetButton, call, Idle
<1>2. CASE Moves
  <2>1. Len(todo) = 1 /\ result' = "ok"
    BY <1>2 DEF Moves, GoesOn, Idle
  <2> QED
    BY <1>2, <2>1, StepMoves
<1> QED
  BY Zenon, <1>1, <1>2, StepCommands

LEMMA OneInstructionStep ==
  ASSUME SwitchesTyped, CallTyped, Sending, OutOfReset, Stepping, StepIsOneInstruction, Next
  PROVE  StepIsOneInstruction'
<1> SUFFICES ASSUME api' = "V2", Idle', op' = "step", result' = "ok", clean'
             PROVE  (made = 1 /\ ~handled /\ halted /\ ~masked)'
  BY Zenon DEF StepIsOneInstruction
<1>1. CASE Create
  BY <1>1 DEF Create
<1>2. CASE Calls
  <2>1. PICK p \in Programs("step") : result' = p.how
    BY <1>2 DEF Calls, Call
  <2>2. p.how = "none"
    BY <2>1, ProgramsOf DEF Sends
  <2> QED
    BY <2>1, <2>2 DEF Idle
<1>3. CASE ~Create /\ ~Calls
  <2>1. api = "V2" /\ op = "step"
    BY <1>3, SameOperation
  <2>2. CASE ~Idle
    <3>1. After3'
      BY <2>1, <2>2, StepEnds DEF StepUnderway, EndsBadly
    <3> QED
      BY Zenon, <3>1 DEF After3
  <2>3. CASE Idle
    <3>1. Executes \/ ResetButton
      BY <1>3, <2>3 DEF Idle, Next, Calls, Control, Succeeds, Fails, Underway,
         WriteRegister, OwnCommand, Announce, SendData, Confirm, Fetch, Reset, DriveLow,
         DriveHigh, Ask, Exit, Start, Stop, Count, Take
    <3>2. ~ResetButton
      BY DEF ResetButton, ResetCore
    <3>3. Executes
      BY <3>1, <3>2
    <3>4. clean /\ result = "ok"
      BY <3>3 DEF Executes, call
    <3>5. halted
      BY <2>1, <2>3, <3>4 DEF StepIsOneInstruction
    <3> QED
      BY <3>3, <3>5 DEF Executes, Executing
  <2> QED
    BY <2>2, <2>3
<1> QED
  BY <1>1, <1>2, <1>3

-----------------------------------------------------------------------------
(* The interrupt mask.                                                     *)

LEMMA MasksInit == Init => Masks
<1> SUFFICES ASSUME Init PROVE Masks
  OBVIOUS
<1>1. masked = FALSE
  BY Zenon DEF Init
<1> QED
  BY Zenon, <1>1 DEF Masks

(* Commands none of which sets the mask are commands of their own. *)
LEMMA WithoutMask ==
  ASSUME NEW S, NEW p \in Seq(S), \A i \in DOMAIN p : "mask" \notin p[i].bits
  PROVE  p \in Seq({c \in S : "mask" \notin c.bits})
  OBVIOUS

LEMMA AskingInit == Init => Asking
  BY DEF Init, Asking, Idle

(* A caller that sets the mask is noted in the call; none does later. *)
LEMMA AskingStep ==
  ASSUME CallTyped, Sending, Asking, Next
  PROVE  Asking'
<1>0. CallerMasked => CallerMasked'
  BY UpsetGrows DEF CallerMasked
<1>1. CASE Progress
  <2>1. api' = api /\ op' = op /\ (CommandsOf(op))' = CommandsOf(op) /\ ~Idle
    BY <1>1 DEF Progress, CommandsOf, Writes, Idle
  <2>2. todo # <<>>
    BY <2>1 DEF Sending
  <2>3. ~Idle' => todo' = Tail(todo)
    BY <1>1 DEF Progress, Idle
  <2>4. \A T : todo \in Seq(T) => Tail(todo) \in Seq(T)
    BY Zenon, <2>2, HeadTailProperties
  <2> QED
    BY <1>0, <2>1, <2>3, <2>4 DEF Asking
<1>2. CASE UNCHANGED <<device, call>>
  <2>1. UNCHANGED <<api, op, todo, result>>
    BY <1>2 DEF device, call
  <2>2. (CommandsOf(op))' = CommandsOf(op)
    BY <2>1 DEF CommandsOf, Writes
  <2> QED
    BY <1>0, <2>1, <2>2 DEF Asking, Idle
<1>3. CASE Create
  BY <1>3 DEF Create, Asking
<1>4. CASE Calls
  <2>0. PICK o \in Operations : Call(o)
    BY <1>4 DEF Calls
  <2>1. PICK p \in Programs(o) :
          /\ op' = o /\ todo' = p.commands /\ UNCHANGED api
          /\ upset' = upset \cup CalledFor(o, p)
    BY <2>0 DEF Call, device
  <2>2. p.commands \in Seq(CommandsOf(o))
    BY ProgramsAreSendable DEF CallTyped, Sendable
  <2>3. (CommandsOf(op))' = CommandsOf(o)
    BY <2>1 DEF CommandsOf, Writes
  <2>4. CASE \A i \in DOMAIN p.commands : "mask" \notin p.commands[i].bits
    <3>1. p.commands \in Seq({c \in CommandsOf(o) : "mask" \notin c.bits})
      BY <2>2, <2>4, WithoutMask
    <3> QED
      BY <2>1, <2>3, <3>1 DEF Asking
  <2>5. CASE o \in {"write", "write_debug_register"} /\
             \E i \in DOMAIN p.commands : "mask" \in p.commands[i].bits
    <3>1. "caller_masked" \in CalledFor(o, p)
      BY <2>5 DEF CalledFor
    <3> QED
      BY <2>1, <3>1 DEF Asking, CallerMasked
  <2>6. CASE o \notin {"write", "write_debug_register"}
    BY <2>1, <2>6 DEF Asking
  <2> QED
    BY <2>4, <2>5, <2>6
<1> QED
  BY <1>1, <1>2, <1>3, <1>4, StepProgress

(* Of the device's own operations only a step of a V2 writes the mask. *)
LEMMA OnlyStepMasks ==
  ASSUME CallTyped, Sending, Asking, ~Idle, Doing \in {"register", "own", "data"},
         "mask" \in Head(todo).bits
  PROVE  (api = "V2" /\ op = "step") \/ CallerMasked
<1>1. Head(todo) \in CommandsOf(op)
  BY SendingHead
<1>2. op = "halt" => CommandsOf(op) = Writes(Hl)
  BY CommandsOfEach
<1>3. op = "run" => CommandsOf(op) = Writes({})
  BY CommandsOfEach
<1>4. op = "step" /\ api = "V1" => CommandsOf(op) = Writes({"step"})
  BY CommandsOfEach
<1>5. \A bits : Head(todo) \in Writes(bits) => Head(todo).bits \in {bits, {}}
  BY DEF Writes, Register, Announced, Sent, Confirmed, Command
<1>6. "mask" \notin Hl /\ "mask" \notin {"step"}
  BY DEF Hl
<1>7. CASE op \in {"write", "write_debug_register"}
  <2>1. todo # <<>>
    BY DEF Sending
  <2>2. todo \notin Seq({c \in CommandsOf(op) : "mask" \notin c.bits})
    <3>1. \A T : todo \in Seq(T) => Head(todo) \in T
      BY Zenon, <2>1, HeadTailProperties
    <3> QED
      BY <3>1
  <2> QED
    BY <1>7, <2>2 DEF Asking
<1>8. op \in {"halt", "run", "step", "write", "write_debug_register"}
  BY WhoseCommand
<1> QED
  BY <1>1, <1>2, <1>3, <1>4, <1>5, <1>6, <1>7, <1>8 DEF CallTyped

LEMMA MaskOnlyGoes ==
  ASSUME NEW bits, DhcsrWritten(bits), "mask" \notin bits, SwitchesTyped
  PROVE  masked' => masked
<1>1. masked' = masked \/ (masked' <=> "mask" \in bits)
  BY Zenon DEF DhcsrWritten
<1> QED
  BY Zenon, <1>1

(* Whatever else a step of the system is, it masks nothing. *)
LEMMA MaskStep ==
  ASSUME SwitchesTyped, CallTyped, Sending, Asking, Next
  PROVE  \/ masked' => masked
         \/ api = "V2" /\ op = "step" /\ ~Idle
         \/ CallerMasked
<1>1. CASE \E what \in {"register", "own", "data"} : Underway(what) /\ Written(Head(todo).bits)
  <2>1. PICK what \in {"register", "own", "data"} : Underway(what) /\ Written(Head(todo).bits)
    BY <1>1
  <2>2. ~Idle /\ Doing = what
    BY <2>1 DEF Underway, Idle
  <2>3. CASE "mask" \in Head(todo).bits
    BY <2>2, <2>3, OnlyStepMasks
  <2>4. CASE "mask" \notin Head(todo).bits
    BY <2>1, <2>4, MaskOnlyGoes DEF Written
  <2> QED
    BY <2>3, <2>4
<1>4. CASE Untouched \/ PinHigh \/ Read
  BY Zenon, <1>4 DEF Untouched, core, PinHigh, Read
<1>5. CASE WasReset \/ WasLeft
  BY Zenon, <1>5 DEF WasReset, ResetCore, WasLeft, DebugLeft
<1>6. CASE Executes \/ Create
  BY Zenon, <1>6 DEF Executes, Create, target, core
<1>7. CASE Calls
  <2>1. masked' = masked
    BY <1>7 DEF Calls, Call, core
  <2> QED
    BY Zenon, <2>1
<1> QED
  BY <1>1, <1>4, <1>5, <1>6, <1>7, StepTouches DEF Touched

LEMMA MasksStep ==
  ASSUME SwitchesTyped, CallTyped, Sending, Asking, OutOfReset, Stepping, Masks, Next
  PROVE  Masks'
<1>0. (BadStep => BadStep') /\ (CallerMasked => CallerMasked')
  BY BadStaysBad, UpsetGrows DEF CallerMasked
<1>1. CASE Create \/ Calls
  <2>1. masked' = masked /\ Idle
    BY <1>1 DEF Create, Calls, Call, target, core, Open
  <2> QED
    BY Zenon, <1>0, <2>1 DEF Masks
<1>2. CASE ~Create /\ ~Calls
  <2>1. api' = api /\ op' = op
    BY <1>2, SameOperation
  <2>2. ASSUME masked', ~BadStep', ~CallerMasked'
        PROVE  (api = "V2" /\ op = "step" /\ ~Idle)'
    <3>1. ~BadStep /\ ~CallerMasked
      BY <1>0, <2>2
    <3>2. api = "V2" /\ op = "step" /\ ~Idle
      BY <2>2, <3>1, MaskStep DEF Masks
    <3>3. Idle' => After3'
      BY <2>2, <3>2, StepEnds DEF StepUnderway, EndsBadly
    <3> QED
      BY Zenon, <2>1, <2>2, <3>2, <3>3 DEF After3
  <2> QED
    BY Zenon, <2>2 DEF Masks
<1> QED
  BY <1>1, <1>2

-----------------------------------------------------------------------------
(* The theorems.                                                           *)

LEMMA InvInit == Init => Inv
  BY SwitchesInit, TraceInit, CallInit, SendingInit, MarkedInit, OutOfResetInit,
     SteppingInit, MasksInit, TracingInit, AccountedInit, AskingInit DEF Inv, TypeOK

LEMMA InvStep == Inv /\ [Next]_vars => Inv'
<1> SUFFICES ASSUME Inv, [Next]_vars PROVE Inv'
  OBVIOUS
<1>1. CASE Next
  <2>1. CallTyped'
    <3>1. made' \in 0 .. 2
      BY <1>1, SwitchesStep DEF Inv, TypeOK, CallTyped
    <3> QED
      BY <1>1, <3>1, CallStep, UpsetStep, ToldStep DEF Inv, TypeOK, CallTyped
  <2>2. SwitchesTyped' /\ TraceTyped'
    BY <1>1, SwitchesStep, TraceStep DEF Inv, TypeOK, CallTyped
  <2>3. Sending' /\ Reading' /\ Asking' /\ Marked' /\ Accounted' /\ OutOfReset'
    BY <1>1, SendingStep, ReadingStep, AskingStep, MarkedStep, AccountedStep, OutOfResetStep
       DEF Inv, TypeOK
  <2>4. Stepping' /\ StepIsOneInstruction' /\ Masks' /\ Tracing'
    BY <1>1, SteppingStep, OneInstructionStep, MasksStep, TracingStep DEF Inv, TypeOK
  <2> QED
    BY <2>1, <2>2, <2>3, <2>4 DEF Inv, TypeOK
<1>2. CASE UNCHANGED vars
  <2> USE <1>2 DEF Inv, vars, device, target, core, seen, trace, call, Idle, BadStep
  <2>1. TypeOK'
    BY DEF TypeOK, SwitchesTyped, TraceTyped, CallTyped
  <2>2. Sending' /\ Reading' /\ Asking'
    BY DEF Sending, Reading, Asking, CallerMasked, CommandsOf, Writes
  <2>3. Marked' /\ Accounted' /\ OutOfReset' /\ Masks' /\ Tracing' /\ StepIsOneInstruction'
    BY DEF Marked, Accounted, OutOfReset, Masks, CallerMasked, Tracing, Untold,
       StepIsOneInstruction
  <2>4. Stepping'
    BY DEF Stepping, StepUnderway, AtPlace, Left0, Unsure1, Left1, Unsure2, Left2, Unsure3,
       After0, After1, After2, After3
  <2> QED
    BY <2>1, <2>2, <2>3, <2>4
<1> QED
  BY <1>1, <1>2

(* Every variable keeps its type; in particular no more trace is taken for  *)
(* waiting than the programmer keeps, and a read leaves no less than none.  *)
THEOREM TypesHold == Spec => []TypeOK
<1>1. Inv => TypeOK
  BY DEF Inv
<1> QED
  BY <1>1, InvInit, InvStep, PTL DEF Spec

(* programmer_v2.cpp:374-378: a step that went well on a halted core that   *)
(* was not reset meanwhile executed one instruction, outside any handler,   *)
(* and left the core halted with its interrupts let through.               *)
THEOREM StepIsAlwaysOneInstruction == Spec => []StepIsOneInstruction
<1>1. Inv => StepIsOneInstruction
  BY DEF Inv
<1> QED
  BY <1>1, InvInit, InvStep, PTL DEF Spec

(* programmer_v2.cpp:372-394: no operation leaves interrupts masked, except *)
(* after a step that failed half way or found the core in reset, or after a *)
(* caller that set the mask itself.                                        *)
THEOREM AlwaysMaskedForAReason == Spec => []MaskedForAReason
<1>1. Inv => MaskedForAReason
  BY Zenon DEF Inv, Masks, BadStep, CallerMasked, MaskedForAReason
<1> QED
  BY <1>1, InvInit, InvStep, PTL DEF Spec

(* device.cpp:380-413: what the device says of trace is so, or a start, a   *)
(* stop or a destroyed device accounts for the trace it knows nothing of.   *)
THEOREM TraceIsAccountedFor == Spec => []TraceAccountedFor
<1>1. Inv => TraceAccountedFor
  BY Zenon DEF Inv, Tracing, Untold, TraceAccountedFor
<1> QED
  BY <1>1, InvInit, InvStep, PTL DEF Spec

(* What is_running() says is so, or the core stopped by itself, or has yet  *)
(* to stop, or was in reset since the last answer: StickyRead clears the    *)
(* bit that misleads it.                                                   *)
LEMMA AnswerIsSo ==
  ASSUME CallTyped, Marked, Accounted, Next, api = "V2", told = "nothing", told' # "nothing"
  PROVE  /\ told' = "running" => Executing \/ alone
         /\ told' = "stopped" => ~Executing \/ Pending \/ unread
<1>1. Ask /\ told' \in IsRunning
  <2>1. CASE ~Ask
    <3> USE DEF Control, Succeeds, Fails
    <3>1. CASE WriteRegister \/ OwnCommand \/ Announce \/ SendData
      BY <3>1 DEF WriteRegister, OwnCommand, Announce, SendData
    <3>2. CASE Confirm \/ Fetch \/ Reset \/ DriveLow \/ DriveHigh \/ Exit
      BY <3>2 DEF Confirm, Fetch, Reset, DriveLow, DriveHigh, Exit
    <3>3. CASE Start \/ Stop \/ Count \/ Take
      BY <3>3 DEF Start, Stop, Count, Take, Unchanged
    <3>4. CASE Executes \/ ResetButton \/ Create \/ Calls
      BY <3>4 DEF Executes, ResetButton, Create, Calls, Call
    <3> QED
      BY <2>1, <3>1, <3>2, <3>3, <3>4 DEF Next, Calls
  <2> QED
    BY <2>1 DEF Ask, Fails
<1>2. told' = (IF haltBit \/ sticky THEN "stopped" ELSE "running")
  BY <1>1 DEF IsRunning, Either, StateV2
<1>3. told' = "running" => ~haltBit /\ ~sticky
  BY <1>2
<1>4. told' = "stopped" => haltBit \/ sticky
  BY <1>2
<1> QED
  BY Zenon, <1>3, <1>4 DEF Marked, Accounted, Pending, Executing

(* programmer_v2.cpp:323-350: is_running() calls a stopped core running     *)
(* only if it stopped by itself, and a running one stopped only if it is    *)
(* told to stop or was reset since the last answer.                        *)
THEOREM WrongAnswersHaveAReason == Spec => WrongForAReason
<1>1. Inv /\ [Next]_vars =>
        [api = "V2" /\ told = "nothing" /\ told' # "nothing" =>
           /\ told' = "running" => Executing \/ alone
           /\ told' = "stopped" => ~Executing \/ Pending \/ unread]_vars
  BY AnswerIsSo DEF Inv, TypeOK
<1> QED
  BY <1>1, InvInit, InvStep, PTL DEF Spec, WrongForAReason
=============================================================================
