------------------------- MODULE FlashToolProofs -------------------------
(***************************************************************************)
(* Proofs about FlashTool, for every family of chip, whatever junk a       *)
(* failed read leaves, and any number of commands and lost exchanges.  A   *)
(* command is a list of calls; what is left of it after any call, cut      *)
(* short by any failure or signal, is in order (CallsInOrder), ends with   *)
(* the leaving of the chip (AlwaysDetachedClean), and changes only the     *)
(* pages that the command line covers (AlwaysOnlyTheAskedPages).           *)
(*                                                                         *)
(* First come lists of calls and the functions that are made of them, then *)
(* the controller and its helpers, then the steps.  Where the same thing   *)
(* is said of every family, the proof goes through them one by one.        *)
(* Last comes what FlashSuccessProofs rests on: what a call does whose     *)
(* exchanges are all answered, and which calls open what others close.     *)
(***************************************************************************)
EXTENDS FlashTool, SequenceTheorems, WellFoundedInduction, TLAPS

Labels == {"finalize", "relock", "result", "leave"}

\* The calls by what they do: to a register; to a page; to a range, step by
\* step; at the end of a branch of main; and all others.
BankOps == {"start", "set_PG", "clear_PG", "set_PER", "clear_PER", "set_MER", "clear_MER"}
PageOps == {"select", "erase_word", "command_erase"}
RangeOps == {"erase_section", "erase_next", "write", "load"}
LabelOps == {"finalize", "relock", "result"}
FreeOps ==
  {"force_debug", "status", "run", "reset", "succeed", "wait", "clear_errors", "check_errors",
   "unlock", "lock", "unlock_options", "unlock_PECR", "lock_PECR", "DMA_off", "DMA_back",
   "init_loader", "read_register", "unmask", "verify",
   "erase_options", "program_options", "begin_options", "change_options"}
Refusals == {"check_range", "unsupported"}
Ops == BankOps \cup PageOps \cup RangeOps \cup LabelOps \cup FreeOps \cup Refusals
         \cup {"command_mass_erase"}
Harmful == PageOps \cup RangeOps \cup {"start"}
Quiet == Labels \cup {"start", "select"}

CallRec == [op : Ops \cup {"leave"}, at : Nat, end : Nat, to : Labels \cup {""}]

CommandLine ==
  [do : {"none", "write", "erase", "reset", "option_file", "option_bytes", "optcr", "optcr1"},
   mass : BOOLEAN, odd : BOOLEAN, addr : Nat, len : Nat]

OptionCommands == {"option_file", "option_bytes", "optcr", "optcr1"}

\* The calls that the command line k has made: of the pages and ranges that
\* it covers, and of a mass erase only if it asks for one.
Within(k, u) == /\ k.do \in {"write", "erase"}
                /\ k.mass \/ (k.addr <= u /\ u < k.addr + k.len)
Fits(k, c) ==
  /\ c.op \in BankOps => c.at \in Bank
  /\ c.op \in {"set_MER", "command_mass_erase"} => k.mass
  /\ c.op \in PageOps => Within(k, c.at)
  /\ c.op = "select" => chip.type \notin {"L0_L1", "WB0"}
  /\ c.op \in RangeOps => Within(k, c.at) /\ c.to \in Labels /\ (k.mass \/ c.end = k.addr + k.len)
  /\ c.op \in Refusals => c.to \in Labels
  /\ c.op = "check_range" => c.at = k.addr /\ c.end = k.addr + k.len
Fit(k) == {c \in CallRec : Fits(k, c)}

Has(s, f) == \E i \in 1 .. Len(s) : s[i].op = f

\* A function's calls, whose failures lead further on in it or to one of L, and
\* which leave the chip alone at the end.
Open(s, L) ==
  /\ s \in Seq(CallRec)
  /\ \A i \in 1 .. Len(s) :
       s[i].to = "" \/ s[i].to \in L \/ \E j \in i + 1 .. Len(s) : s[j].op = s[i].to

Part(s, L) == Open(s, L) /\ ~Has(s, "leave")

LeaveLast(s) ==
  /\ Len(s) > 0 /\ s[Len(s)].op = "leave" /\ s[Len(s)].at = 0 /\ s[Len(s)].to = ""
  /\ \A i \in 1 .. Len(s) - 1 : s[i].op # "leave"

\* u is what is left of s once the first n are made.
Rest(u, s, n) ==
  /\ n \in 0 .. Len(s) /\ Len(u) = Len(s) - n
  /\ \A i \in 1 .. Len(u) : u[i] = s[n + i]

-----------------------------------------------------------------------------
\* The least of a set of naturals is one of them (SelectInSeq takes it).
LEMMA MinIsFirst ==
  ASSUME NEW S \in SUBSET Nat, S # {}
  PROVE  Min(S) \in S /\ \A y \in S : Min(S) <= y
<1> DEFINE R == {ss \in Nat \X Nat : ss[1] < ss[2]}
<1>1. IsWellFoundedOn(R, Nat)
  BY NatLessThanWellFounded, Zenon DEF OpToRel
<1>2. PICK x \in S : \A y \in S : ~(<<y, x>> \in R)
  <2> HIDE DEF R
  <2> QED BY <1>1, WFMin, Zenon
<1>3. \A y \in S : x <= y
  <2> SUFFICES ASSUME NEW y \in S PROVE x <= y
    OBVIOUS
  <2>1. ~(<<y, x>> \in R)
    BY <1>2, Zenon
  <2>2. x \in Nat /\ y \in Nat
    OBVIOUS
  <2> QED
    BY <2>1, <2>2
<1> QED
  BY <1>3, Zenon DEF Min

\* Call, CallOn, Try and Over make calls of CallRec.
LEMMA CallsAreRecords ==
  /\ \A f \in Ops : Call(f) \in CallRec
  /\ \A f \in Ops : \A at \in Nat : CallOn(f, at) \in CallRec
  /\ \A f \in Ops : \A l \in Labels : Try(f, l) \in CallRec
  /\ \A f \in Ops : \A at, end \in Nat : \A l \in Labels : Over(f, at, end, l) \in CallRec
  /\ Call("leave") \in CallRec /\ CallOn("leave", 1) \in CallRec
BY DEF Call, CallOn, Try, TryOn, Over, CallRec

\* ... with the fields they are told.
LEMMA CallFields ==
  /\ \A f : Call(f).op = f /\ Call(f).to = "" /\ Call(f).at = 0 /\ Call(f).end = 0
  /\ \A f, at : CallOn(f, at).op = f /\ CallOn(f, at).to = "" /\ CallOn(f, at).at = at
  /\ \A f, l : Try(f, l).op = f /\ Try(f, l).to = l /\ Try(f, l).at = 0
  /\ \A f, at, l : TryOn(f, at, l).op = f /\ TryOn(f, at, l).to = l /\ TryOn(f, at, l).at = at
  /\ \A f, at, end, l : /\ Over(f, at, end, l).op = f /\ Over(f, at, end, l).to = l
                        /\ Over(f, at, end, l).at = at /\ Over(f, at, end, l).end = end
BY DEF Call, CallOn, Try, TryOn, Over

\* Once a call is made the tail is left.
LEMMA TailRest ==
  ASSUME NEW s \in Seq(CallRec), s # <<>>
  PROVE  Tail(s) \in Seq(CallRec) /\ Len(s) \in Nat \ {0} /\ Rest(Tail(s), s, 1)
<1>1. Len(s) \in Nat /\ Len(s) # 0
  BY LenProperties, EmptySeq
<1>2. /\ Tail(s) \in Seq(CallRec) /\ Len(Tail(s)) = Len(s) - 1
      /\ \A i \in 1 .. Len(Tail(s)) : Tail(s)[i] = s[i + 1]
  BY HeadTailProperties
<1> QED
  BY <1>1, <1>2 DEF Rest

\* From(l) is what is left at the first call l.
LEMMA FromRest ==
  ASSUME todo \in Seq(CallRec), NEW l, Has(todo, l)
  PROVE  \E n \in 0 .. Len(todo) - 1 :
           /\ From(l) \in Seq(CallRec) /\ Rest(From(l), todo, n)
           /\ todo[n + 1].op = l /\ \A i \in 1 .. n : todo[i].op # l
<1> DEFINE I == {i \in 1 .. Len(todo) : todo[i].op = l}
           m == Min(I)
<1>1. Len(todo) \in Nat
  BY LenProperties
<1>2. I \in SUBSET Nat /\ I # {}
  BY <1>1 DEF Has
<1>3. m \in I /\ \A y \in I : m <= y
  BY <1>2, MinIsFirst
<1>4. SelectInSeq(todo, LAMBDA s : s.op = l) = m
  BY <1>2 DEF SelectInSeq
<1>5. From(l) = SubSeq(todo, m, Len(todo))
  BY <1>4 DEF From
<1> HIDE DEF m
<1>6. m \in 1 .. Len(todo) /\ todo[m].op = l
  BY <1>3
<1> HIDE DEF I
<1>7. \A i \in m .. Len(todo) : todo[i] \in CallRec
  BY <1>1, <1>6, ElementOfSeq
<1>8. /\ From(l) \in Seq(CallRec) /\ Len(From(l)) = Len(todo) - m + 1
      /\ \A i \in 1 .. Len(todo) - m + 1 : From(l)[i] = todo[m + i - 1]
  <2>1. m \in Int /\ Len(todo) \in Int /\ m <= Len(todo)
    BY <1>1, <1>6
  <2> QED
    BY <1>5, <1>7, <2>1, SubSeqProperties
<1>9. Rest(From(l), todo, m - 1)
  <2>1. m - 1 \in 0 .. Len(todo) /\ Len(From(l)) = Len(todo) - (m - 1)
    BY <1>1, <1>6, <1>8
  <2>2. ASSUME NEW i \in 1 .. Len(From(l)) PROVE From(l)[i] = todo[(m - 1) + i]
    <3>1. i \in 1 .. Len(todo) - m + 1 /\ m + i - 1 = (m - 1) + i
      BY <1>1, <1>6, <1>8
    <3> QED
      BY <1>8, <3>1
  <2> QED
    BY <2>1, <2>2 DEF Rest
<1>10. \A i \in 1 .. m - 1 : todo[i].op # l
  BY <1>1, <1>3, <1>6 DEF I
<1>11. m - 1 \in 0 .. Len(todo) - 1 /\ todo[(m - 1) + 1].op = l
  BY <1>1, <1>6
<1> QED
  BY <1>8, <1>9, <1>10, <1>11

\* What is left of a list that leads nowhere else leads nowhere else.
LEMMA RestOpen ==
  ASSUME NEW s, NEW u \in Seq(CallRec), NEW n, NEW L, Open(s, L), Rest(u, s, n)
  PROVE  Open(u, L)
<1>1. Len(s) \in Nat /\ n \in 0 .. Len(s) /\ Len(u) = Len(s) - n
  BY LenProperties DEF Rest, Open
<1>2. ASSUME NEW i \in 1 .. Len(u)
      PROVE  u[i].to = "" \/ u[i].to \in L \/ \E j \in i + 1 .. Len(u) : u[j].op = u[i].to
  <2>1. u[i] = s[n + i] /\ n + i \in 1 .. Len(s)
    BY <1>1 DEF Rest
  <2>2. CASE \E j \in (n + i) + 1 .. Len(s) : s[j].op = s[n + i].to
    <3>1. PICK j \in (n + i) + 1 .. Len(s) : s[j].op = s[n + i].to
      BY <2>2
    <3>2. j - n \in i + 1 .. Len(u) /\ j - n \in 1 .. Len(u) /\ n + (j - n) = j
      BY <1>1
    <3>3. u[j - n] = s[j]
      BY <3>2 DEF Rest
    <3> QED
      BY <2>1, <3>1, <3>2, <3>3
  <2>3. s[n + i].to = "" \/ s[n + i].to \in L
          \/ \E j \in (n + i) + 1 .. Len(s) : s[j].op = s[n + i].to
    BY <2>1 DEF Open
  <2> QED
    BY <2>1, <2>2, <2>3
<1> QED
  BY <1>2 DEF Open

\* A call of a concatenation is one of its parts'.
LEMMA HasConcat ==
  ASSUME NEW s \in Seq(CallRec), NEW t \in Seq(CallRec), NEW f
  PROVE  Has(s \o t, f) <=> Has(s, f) \/ Has(t, f)
<1>1. /\ s \o t \in Seq(CallRec)
      /\ Len(s \o t) = Len(s) + Len(t)
      /\ \A i \in 1 .. Len(s) + Len(t) :
           (s \o t)[i] = IF i <= Len(s) THEN s[i] ELSE t[i - Len(s)]
  BY ConcatProperties
<1>2. Len(s) \in Nat /\ Len(t) \in Nat
  BY LenProperties
<1>3. ASSUME Has(s, f) PROVE Has(s \o t, f)
  BY <1>1, <1>2, <1>3 DEF Has
<1>4. ASSUME Has(t, f) PROVE Has(s \o t, f)
  <2>1. PICK i \in 1 .. Len(t) : t[i].op = f
    BY <1>4 DEF Has
  <2>2. Len(s) + i \in 1 .. Len(s) + Len(t) /\ ~(Len(s) + i <= Len(s)) /\ (Len(s) + i) - Len(s) = i
    BY <1>2
  <2>3. (s \o t)[Len(s) + i] = t[i]
    BY <1>1, <2>2
  <2> QED
    BY <1>1, <2>1, <2>2, <2>3 DEF Has
<1>5. ASSUME Has(s \o t, f) PROVE Has(s, f) \/ Has(t, f)
  <2>1. PICK i \in 1 .. Len(s) + Len(t) : (s \o t)[i].op = f
    BY <1>1, <1>5 DEF Has
  <2>2. CASE i <= Len(s)
    BY <1>1, <1>2, <2>1, <2>2 DEF Has
  <2>3. CASE ~(i <= Len(s))
    <3>1. i - Len(s) \in 1 .. Len(t)
      BY <1>2, <2>3
    <3> QED
      BY <1>1, <2>1, <2>3, <3>1 DEF Has
  <2> QED
    BY <2>2, <2>3
<1> QED
  BY <1>3, <1>4, <1>5

\* Lists that lead into each other, put together.
LEMMA OpenConcat ==
  ASSUME NEW s, NEW t, NEW L, NEW M, Open(s, L), Open(t, M),
         \A l \in L : l \in M \/ Has(t, l)
  PROVE  Open(s \o t, M)
<1>1. s \in Seq(CallRec) /\ t \in Seq(CallRec)
  BY DEF Open
<1>2. /\ s \o t \in Seq(CallRec)
      /\ Len(s \o t) = Len(s) + Len(t)
      /\ \A i \in 1 .. Len(s) + Len(t) :
           (s \o t)[i] = IF i <= Len(s) THEN s[i] ELSE t[i - Len(s)]
  BY <1>1, ConcatProperties
<1>3. Len(s) \in Nat /\ Len(t) \in Nat
  BY <1>1, LenProperties
<1> DEFINE c == s \o t
<1>4. /\ c \in Seq(CallRec) /\ Len(c) = Len(s) + Len(t)
      /\ \A i \in 1 .. Len(s) : c[i] = s[i]
      /\ \A i \in 1 .. Len(t) : c[Len(s) + i] = t[i]
  <2>1. ASSUME NEW i \in 1 .. Len(t) PROVE c[Len(s) + i] = t[i]
    <3>1. Len(s) + i \in 1 .. Len(s) + Len(t) /\ ~(Len(s) + i <= Len(s))
          /\ (Len(s) + i) - Len(s) = i
      BY <1>3
    <3> QED
      BY <1>2, <3>1
  <2> QED
    BY <1>2, <1>3, <2>1
<1> HIDE DEF c
<1>5. ASSUME NEW i \in 1 .. Len(c)
      PROVE  c[i].to = "" \/ c[i].to \in M \/ \E j \in i + 1 .. Len(c) : c[j].op = c[i].to
  <2>1. CASE i \in 1 .. Len(s)
    <3>1. c[i] = s[i]
      BY <1>4, <2>1
    <3>2. CASE \E j \in i + 1 .. Len(s) : s[j].op = s[i].to
      <4>1. PICK j \in i + 1 .. Len(s) : s[j].op = s[i].to
        BY <3>2
      <4>2. j \in 1 .. Len(s) /\ j \in i + 1 .. Len(c)
        BY <1>3, <1>4, <2>1
      <4>3. c[j] = s[j]
        BY <1>4, <4>2
      <4> QED
        BY <3>1, <4>1, <4>2, <4>3
    <3>3. CASE s[i].to \in L /\ Has(t, s[i].to)
      <4>1. PICK j \in 1 .. Len(t) : t[j].op = s[i].to
        BY <3>3 DEF Has
      <4>2. Len(s) + j \in i + 1 .. Len(c) /\ c[Len(s) + j] = t[j]
        BY <1>3, <1>4, <2>1
      <4> QED
        BY <3>1, <4>1, <4>2
    <3>4. s[i].to = "" \/ s[i].to \in L \/ \E j \in i + 1 .. Len(s) : s[j].op = s[i].to
      BY <2>1 DEF Open
    <3> QED
      BY <3>1, <3>2, <3>3, <3>4
  <2>2. CASE i \notin 1 .. Len(s)
    <3>1. PICK k \in 1 .. Len(t) : i = Len(s) + k
      <4>1. i - Len(s) \in 1 .. Len(t) /\ i = Len(s) + (i - Len(s))
        BY <1>3, <1>4, <2>2
      <4> QED
        BY <4>1
    <3>2. c[i] = t[k]
      BY <1>4, <3>1
    <3>3. CASE \E j \in k + 1 .. Len(t) : t[j].op = t[k].to
      <4>1. PICK j \in k + 1 .. Len(t) : t[j].op = t[k].to
        BY <3>3
      <4>2. Len(s) + j \in i + 1 .. Len(c) /\ j \in 1 .. Len(t)
        BY <1>3, <1>4, <3>1
      <4>3. c[Len(s) + j] = t[j]
        BY <1>4, <4>2
      <4> QED
        BY <3>2, <4>1, <4>2, <4>3
    <3>4. t[k].to = "" \/ t[k].to \in M \/ \E j \in k + 1 .. Len(t) : t[j].op = t[k].to
      BY <3>1 DEF Open
    <3> QED
      BY <3>2, <3>3, <3>4
  <2> QED
    BY <2>1, <2>2
<1> QED
  BY <1>4, <1>5 DEF Open, c

\* ... and none of them leaves the chip.
LEMMA PartConcat ==
  ASSUME NEW s, NEW t, NEW L, NEW M, Part(s, L), Part(t, M),
         \A l \in L : l \in M \/ Has(t, l)
  PROVE  Part(s \o t, M)
<1>1. Open(s \o t, M)
  BY OpenConcat DEF Part
<1>2. ~Has(s \o t, "leave")
  <2>1. s \in Seq(CallRec) /\ t \in Seq(CallRec)
    BY DEF Part, Open
  <2> QED
    BY <2>1, HasConcat DEF Part
<1> QED
  BY <1>1, <1>2 DEF Part

-----------------------------------------------------------------------------
\* Lists written out are lists of their members.
LEMMA OfMembers ==
  ASSUME NEW S, NEW a \in S
  PROVE  /\ <<a>> \in Seq(S) /\ Len(<<a>>) = 1 /\ <<a>>[1] = a
         /\ \A b \in S : <<a, b>> \in Seq(S)
         /\ \A b, c \in S : <<a, b, c>> \in Seq(S)
         /\ \A b, c, d \in S : <<a, b, c, d>> \in Seq(S)
         /\ \A b, c, d, e \in S : <<a, b, c, d, e>> \in Seq(S)
         /\ \A b, c, d, e, f, g \in S : <<a, b, c, d, e, f, g>> \in Seq(S)
         /\ \A b, c, d, e, f, g, h \in S : <<a, b, c, d, e, f, g, h>> \in Seq(S)
<1>1. <<a>> \in Seq(S) /\ Len(<<a>>) = 1 /\ <<a>>[1] = a
  OBVIOUS
<1>2. ASSUME NEW b \in S PROVE <<a, b>> \in Seq(S)
  OBVIOUS
<1>3. ASSUME NEW b \in S, NEW c \in S PROVE <<a, b, c>> \in Seq(S)
  OBVIOUS
<1>4. ASSUME NEW b \in S, NEW c \in S, NEW d \in S PROVE <<a, b, c, d>> \in Seq(S)
  OBVIOUS
<1>5. ASSUME NEW b \in S, NEW c \in S, NEW d \in S, NEW e \in S
      PROVE  <<a, b, c, d, e>> \in Seq(S)
  OBVIOUS
<1>6. ASSUME NEW b \in S, NEW c \in S, NEW d \in S, NEW e \in S, NEW f \in S, NEW g \in S
      PROVE  <<a, b, c, d, e, f, g>> \in Seq(S)
  OBVIOUS
<1>7. ASSUME NEW b \in S, NEW c \in S, NEW d \in S, NEW e \in S, NEW f \in S, NEW g \in S,
             NEW h \in S
      PROVE  <<a, b, c, d, e, f, g, h>> \in Seq(S)
  OBVIOUS
<1> QED
  BY <1>1, <1>2, <1>3, <1>4, <1>5, <1>6, <1>7, Zenon

\* Calls that k has made, none of X, which go to one of L when they fail.
Inner(k, L, X) ==
  {c \in Fit(k) : c.op # "leave" /\ c.op \notin X /\ c.to \in L \cup {""}}

\* Such calls are a part of a function.
LEMMA InnerPart ==
  ASSUME NEW k, NEW L, NEW X, NEW s \in Seq(Inner(k, L, X))
  PROVE  Part(s, L) /\ s \in Seq(Fit(k)) /\ \A i \in 1 .. Len(s) : s[i].op \notin X
<1>1. Len(s) \in Nat /\ \A i \in 1 .. Len(s) : s[i] \in Inner(k, L, X)
  BY LenProperties, ElementOfSeq
<1>2. /\ \A i \in 1 .. Len(s) : s[i] \in CallRec /\ (s[i].to \in L \/ s[i].to = "")
      /\ \A i \in 1 .. Len(s) : s[i].op # "leave" /\ s[i].op \notin X
  BY <1>1 DEF Inner, Fit
<1>3. Inner(k, L, X) \subseteq Fit(k) /\ Inner(k, L, X) \subseteq CallRec
  BY DEF Inner, Fit
<1>4. s \in Seq(CallRec) /\ s \in Seq(Fit(k))
  BY <1>3, SeqMonotonic
<1>5. Open(s, L)
  BY <1>2, <1>4 DEF Open
<1>6. ~Has(s, "leave")
  BY <1>2 DEF Has
<1> QED
  BY <1>2, <1>4, <1>5, <1>6 DEF Part

\* No calls are a part of every function.
LEMMA EmptyPart == \A L : Part(<<>>, L)
<1>1. \A k, L, X : <<>> \in Seq(Inner(k, L, X))
  BY EmptySeq
<1> QED
  BY <1>1, InnerPart

\* Which call belongs to which kind.
LEMMA OpsAre ==
  /\ "force_debug" \in FreeOps /\ "status" \in FreeOps /\ "run" \in FreeOps /\ "reset" \in FreeOps /\
     "succeed" \in FreeOps /\ "wait" \in FreeOps /\ "clear_errors" \in FreeOps /\
     "check_errors" \in FreeOps /\ "unlock" \in FreeOps /\ "lock" \in FreeOps /\
     "unlock_options" \in FreeOps /\ "unlock_PECR" \in FreeOps /\ "lock_PECR" \in FreeOps /\
     "DMA_off" \in FreeOps /\ "DMA_back" \in FreeOps /\
     "init_loader" \in FreeOps /\ "read_register" \in FreeOps /\ "unmask" \in FreeOps /\
     "verify" \in FreeOps /\ "erase_options" \in FreeOps /\
     "program_options" \in FreeOps /\ "begin_options" \in FreeOps /\ "change_options" \in FreeOps /\
     "start" \in BankOps \ {"set_MER"} /\ "set_PG" \in BankOps \ {"set_MER"} /\
     "clear_PG" \in BankOps \ {"set_MER"} /\ "set_PER" \in BankOps \ {"set_MER"} /\
     "clear_PER" \in BankOps \ {"set_MER"} /\ "clear_MER" \in BankOps \ {"set_MER"} /\
     "finalize" \in LabelOps /\ "relock" \in LabelOps /\ "result" \in LabelOps
  /\ 1 \in Bank /\ 2 \in Bank
BY DEF BankOps, LabelOps, FreeOps, Bank

\* A call that names no page, range or register fits every command line.
LEMMA FreeFits ==
  ASSUME NEW k, NEW c \in CallRec, c.op \in FreeOps \cup LabelOps \cup {"leave"}
  PROVE  c \in Fit(k)
<1>1. /\ c.op \notin BankOps /\ c.op \notin PageOps /\ c.op \notin RangeOps
      /\ c.op \notin {"set_MER", "command_mass_erase"} /\ c.op # "select"
      /\ c.op \notin Refusals /\ c.op # "check_range"
  BY DEF FreeOps, LabelOps, BankOps, PageOps, RangeOps, Refusals
<1> QED
  BY <1>1 DEF Fit, Fits

\* The calls of FreeOps and LabelOps, as the functions make them.
LEMMA InnerCalls ==
  ASSUME NEW k, NEW L, NEW X \in {Labels, Quiet, Harmful}
  PROVE  /\ \A f \in FreeOps : Call(f) \in Inner(k, L, X)
         /\ \A f \in FreeOps : \A l \in L \cap Labels : Try(f, l) \in Inner(k, L, X)
         /\ \A f \in FreeOps : \A at, end \in Nat : \A l \in L \cap Labels :
              Over(f, at, end, l) \in Inner(k, L, X)
         /\ \A f \in LabelOps : Call(f) \in Inner(k, L, Harmful)
         /\ \A f \in LabelOps : \A l \in L \cap Labels : Try(f, l) \in Inner(k, L, Harmful)
<1>1. ASSUME NEW f \in FreeOps
      PROVE  /\ f \in Ops /\ f \notin Labels /\ f \notin Harmful /\ f # "leave"
             /\ f \notin {"start", "select"}
  BY DEF Ops, FreeOps, Labels, Harmful, PageOps, RangeOps
<1>2. ASSUME NEW f \in LabelOps PROVE f \in Ops /\ f \notin Harmful /\ f # "leave"
  BY DEF Ops, LabelOps, Harmful, PageOps, RangeOps
<1>3. ASSUME NEW f \in FreeOps, NEW l \in L \cap Labels, NEW at \in Nat, NEW end \in Nat
      PROVE  /\ Try(f, l) \in Inner(k, L, X) /\ Over(f, at, end, l) \in Inner(k, L, X)
  <2>1. Try(f, l) \in CallRec /\ Over(f, at, end, l) \in CallRec
    BY <1>1, CallsAreRecords
  <2>2. /\ Try(f, l).op = f /\ Over(f, at, end, l).op = f
        /\ Try(f, l).to = l /\ Over(f, at, end, l).to = l
    BY DEF Call, Try, TryOn, Over
  <2> QED
    BY <1>1, <2>1, <2>2, FreeFits DEF Inner, Quiet
<1>4. ASSUME NEW f \in FreeOps PROVE Call(f) \in Inner(k, L, X)
  <2>1. Call(f) \in CallRec /\ Call(f).op = f /\ Call(f).to = ""
    BY <1>1, CallsAreRecords, CallFields
  <2> QED
    BY <1>1, <2>1, FreeFits DEF Inner, Quiet
<1>5. ASSUME NEW f \in LabelOps, NEW l \in L \cap Labels PROVE Try(f, l) \in Inner(k, L, Harmful)
  <2>1. Try(f, l) \in CallRec
    BY <1>2, CallsAreRecords
  <2>2. Try(f, l).op = f /\ Try(f, l).to = l
    BY DEF Call, Try
  <2> QED
    BY <1>2, <2>1, <2>2, FreeFits DEF Inner
<1>6. ASSUME NEW f \in LabelOps PROVE Call(f) \in Inner(k, L, Harmful)
  <2>1. Call(f) \in CallRec /\ Call(f).op = f /\ Call(f).to = ""
    BY <1>2, CallsAreRecords, CallFields
  <2> QED
    BY <1>2, <2>1, FreeFits DEF Inner
<1> QED
  BY <1>3, <1>4, <1>5, <1>6

\* The check of the range that the command line gives, and the refusal.
LEMMA RefusalCalls ==
  ASSUME NEW k, NEW L, NEW l \in L \cap Labels, NEW X \in {Labels, Quiet, Harmful}
  PROVE  /\ Try("unsupported", l) \in Inner(k, L, X)
         /\ k \in CommandLine => Over("check_range", k.addr, k.addr + k.len, l) \in Inner(k, L, X)
<1>1. ASSUME NEW f \in Refusals
      PROVE  /\ f \in Ops /\ f \notin Labels /\ f \notin Harmful /\ f # "leave"
             /\ f \notin {"start", "select"} /\ f \notin BankOps /\ f \notin PageOps
             /\ f \notin RangeOps /\ f \notin {"set_MER", "command_mass_erase"}
  BY DEF Ops, Refusals, Labels, Harmful, PageOps, RangeOps, BankOps
<1>2. "unsupported" \in Refusals /\ "check_range" \in Refusals
  BY DEF Refusals
<1>4. Try("unsupported", l) \in Inner(k, L, X)
  <2>1. Try("unsupported", l) \in CallRec
    BY <1>1, <1>2, CallsAreRecords
  <2>2. Try("unsupported", l).op = "unsupported" /\ Try("unsupported", l).to = l
    BY DEF Call, Try
  <2> QED
    BY <1>1, <1>2, <2>1, <2>2 DEF Inner, Quiet, Fit, Fits
<1>5. ASSUME k \in CommandLine PROVE Over("check_range", k.addr, k.addr + k.len, l) \in Inner(k, L, X)
  <2> DEFINE c == Over("check_range", k.addr, k.addr + k.len, l)
  <2>3. k.addr \in Nat /\ k.addr + k.len \in Nat
    BY <1>5 DEF CommandLine
  <2>1. c \in CallRec
    BY <1>1, <1>2, <2>3, CallsAreRecords
  <2>2. c.op = "check_range" /\ c.to = l /\ c.at = k.addr /\ c.end = k.addr + k.len
    BY DEF Call, Try, TryOn, Over
  <2> HIDE DEF c
  <2>4. c \in Inner(k, L, X)
    BY <1>1, <1>2, <2>1, <2>2 DEF Inner, Quiet, Fit, Fits
  <2> QED
    BY <2>4 DEF c
<1> QED
  BY <1>4, <1>5

\* The calls to a control register.
LEMMA BankCalls ==
  ASSUME NEW k, NEW L
  PROVE  /\ \A f \in BankOps \ {"set_MER"} : \A b \in Bank : CallOn(f, b) \in Inner(k, L, Labels)
         /\ \A f \in {"set_PG", "clear_PG"} : \A b \in Bank : CallOn(f, b) \in Inner(k, L, Quiet)
         /\ k.mass => \A b \in Bank : CallOn("set_MER", b) \in Inner(k, L, Labels)
         /\ k.mass => Call("command_mass_erase") \in Inner(k, L, Labels)
<1>1. ASSUME NEW f \in BankOps
      PROVE  /\ f \in Ops /\ f \notin Labels /\ f # "leave"
             /\ f \notin PageOps /\ f \notin RangeOps /\ f # "command_mass_erase" /\ f # "select"
             /\ f \notin Refusals /\ f # "check_range"
  BY DEF Ops, BankOps, Labels, PageOps, RangeOps, Refusals
<1>2. ASSUME NEW f \in BankOps, f = "set_MER" => k.mass, NEW b \in Bank
      PROVE  /\ CallOn(f, b) \in Inner(k, L, Labels)
             /\ f # "start" => CallOn(f, b) \in Inner(k, L, Quiet)
  <2>1. b \in Nat
    BY DEF Bank
  <2>2. CallOn(f, b) \in CallRec
    BY <1>1, <2>1, CallsAreRecords
  <2>3. CallOn(f, b).op = f /\ CallOn(f, b).to = "" /\ CallOn(f, b).at = b
    BY DEF CallOn, Call
  <2>4. CallOn(f, b) \in Fit(k)
    BY <1>1, <1>2, <2>2, <2>3 DEF Fit, Fits
  <2> QED
    BY <1>1, <2>3, <2>4 DEF Inner, Quiet
<1>3. ASSUME k.mass PROVE Call("command_mass_erase") \in Inner(k, L, Labels)
  <2>1. /\ Call("command_mass_erase") \in CallRec
        /\ Call("command_mass_erase").op = "command_mass_erase"
        /\ Call("command_mass_erase").to = ""
    BY CallsAreRecords, CallFields DEF Ops
  <2> QED
    BY <1>3, <2>1 DEF Inner, Fit, Fits, BankOps, PageOps, RangeOps, Labels, Refusals
<1>4. "set_MER" \in BankOps /\ \A f \in {"set_PG", "clear_PG"} : f \in BankOps
  BY DEF BankOps
<1> QED
  BY <1>2, <1>3, <1>4

\* The calls to a page that the command line covers.
LEMMA PageCalls ==
  ASSUME NEW k, NEW L, NEW u \in Nat, Within(k, u)
  PROVE  /\ CallOn("erase_word", u) \in Inner(k, L, Labels)
         /\ CallOn("command_erase", u) \in Inner(k, L, Labels)
         /\ chip.type \notin {"L0_L1", "WB0"} => CallOn("select", u) \in Inner(k, L, Labels)
<1>1. ASSUME NEW f \in PageOps
      PROVE  /\ f \in Ops /\ f \notin Labels /\ f # "leave"
             /\ f \notin BankOps /\ f \notin RangeOps /\ f \notin {"set_MER", "command_mass_erase"}
             /\ f \notin Refusals /\ f # "check_range"
  BY DEF Ops, BankOps, Labels, PageOps, RangeOps, Refusals
<1>2. ASSUME NEW f \in PageOps, f = "select" => chip.type \notin {"L0_L1", "WB0"}
      PROVE  CallOn(f, u) \in Inner(k, L, Labels)
  <2>2. CallOn(f, u) \in CallRec
    BY <1>1, CallsAreRecords
  <2>3. CallOn(f, u).op = f /\ CallOn(f, u).to = "" /\ CallOn(f, u).at = u
    BY DEF CallOn, Call
  <2>4. CallOn(f, u) \in Fit(k)
    BY <1>1, <1>2, <2>2, <2>3 DEF Fit, Fits
  <2> QED
    BY <1>1, <2>3, <2>4 DEF Inner
<1>3. "erase_word" \in PageOps /\ "command_erase" \in PageOps /\ "select" \in PageOps
  BY DEF PageOps
<1> QED
  BY <1>2, <1>3

\* The calls for a range that the command line covers.
LEMMA RangeCalls ==
  ASSUME NEW k, NEW L, NEW at \in Nat, NEW end \in Nat, NEW l \in L \cap Labels,
         NEW f \in RangeOps, Within(k, at), k.mass \/ end = k.addr + k.len
  PROVE  Over(f, at, end, l) \in Inner(k, L, Labels) /\ Over(f, at, end, l) \in Inner(k, L, Quiet)
<1>1. /\ f \in Ops /\ f \notin Labels /\ f # "leave"
      /\ f \notin BankOps /\ f \notin PageOps /\ f \notin {"set_MER", "command_mass_erase"}
      /\ f # "select" /\ f # "start" /\ f \notin Refusals /\ f # "check_range"
  BY DEF Ops, BankOps, Labels, PageOps, RangeOps, Refusals
<1>2. Over(f, at, end, l) \in CallRec
  BY <1>1, CallsAreRecords
<1>3. /\ Over(f, at, end, l).op = f /\ Over(f, at, end, l).to = l
      /\ Over(f, at, end, l).at = at /\ Over(f, at, end, l).end = end
  BY DEF Call, Try, TryOn, Over
<1>4. Over(f, at, end, l) \in Fit(k)
  BY <1>1, <1>2, <1>3 DEF Fit, Fits
<1> QED
  BY <1>1, <1>3, <1>4 DEF Inner, Quiet

\* stlink_erase_flash_page makes calls to the page it is given only.
LEMMA EraseBodyIn ==
  ASSUME chip \in Chips, NEW u \in Nat, NEW l \in Labels, NEW k, Within(k, u)
  PROVE  EraseBody(u, l) \in Seq(Inner(k, {l}, Labels))
<1> DEFINE S == Inner(k, {l}, Labels)
           b == IF TwoRegisters(chip) /\ UpperHalf(chip, u) THEN 2 ELSE 1
<1>1. chip.type \in Families
  BY DEF Chips
<1>2. /\ \A f \in FreeOps : Call(f) \in S /\ Try(f, l) \in S
      /\ \A f \in BankOps \ {"set_MER"} : CallOn(f, 1) \in S /\ CallOn(f, b) \in S
      /\ CallOn("erase_word", u) \in S /\ CallOn("command_erase", u) \in S
      /\ chip.type \notin {"L0_L1", "WB0"} => CallOn("select", u) \in S
  <2>1. b \in Bank /\ 1 \in Bank
    BY DEF Bank
  <2>2. \A f \in FreeOps : Call(f) \in S /\ Try(f, l) \in S
    BY InnerCalls
  <2>3. \A f \in BankOps \ {"set_MER"} : CallOn(f, 1) \in S /\ CallOn(f, b) \in S
    BY <2>1, BankCalls
  <2>4. /\ CallOn("erase_word", u) \in S /\ CallOn("command_erase", u) \in S
        /\ chip.type \notin {"L0_L1", "WB0"} => CallOn("select", u) \in S
    BY PageCalls
  <2> QED
    BY <2>2, <2>3, <2>4
<1> HIDE DEF S
<1>3. CASE chip.type \in {"F2_F4", "F7", "L4"}
  <2>1. Call("unlock") \in S /\ CallOn("select", u) \in S /\ CallOn("start", 1) \in S /\
    Call("wait") \in S /\ Call("lock") \in S
    BY <1>2, <1>3, OpsAre
  <2>2. EraseBody(u, l) = <<Call("unlock"), CallOn("select", u), CallOn("start", 1),
    Call("wait"), Call("lock")>>
    BY <1>3 DEF EraseBody
  <2> QED
    BY <2>1, <2>2, OfMembers DEF S
<1>4. CASE chip.type = "L0_L1"
  <2>1. Try("unlock_PECR", l) \in S /\ CallOn("erase_word", u) \in S /\ Call("wait") \in S
    /\ Call("lock_PECR") \in S
    BY <1>2, OpsAre
  <2>2. EraseBody(u, l) = <<Try("unlock_PECR", l), CallOn("erase_word", u), Call("wait"),
    Call("lock_PECR")>>
    BY <1>4 DEF EraseBody
  <2> QED
    BY <2>1, <2>2, OfMembers DEF S
<1>5. CASE chip.type \in {"G0", "G4", "L5_U5", "WB_WL", "C5", "C0"}
  <2>1. Call("unlock") \in S /\ CallOn("set_PER", 1) \in S /\ CallOn("select", u) \in S /\
    CallOn("start", 1) \in S /\ Call("wait") \in S /\ CallOn("clear_PER", 1) \in S /\
    Call("lock") \in S
    BY <1>2, <1>5, OpsAre
  <2>2. EraseBody(u, l) = <<Call("unlock"), CallOn("set_PER", 1), CallOn("select", u),
    CallOn("start", 1), Call("wait"), CallOn("clear_PER", 1), Call("lock")>>
    BY <1>5 DEF EraseBody
  <2> QED
    BY <2>1, <2>2, OfMembers DEF S
<1>6. CASE chip.type = "H5"
  <2>1. Call("unlock") \in S /\ Call("clear_errors") \in S /\ CallOn("select", u) \in S /\
    CallOn("start", 1) \in S /\ Call("wait") \in S /\ CallOn("clear_PER", 1) \in S /\
    Call("lock") \in S
    BY <1>2, <1>6, OpsAre
  <2>2. EraseBody(u, l) = <<Call("unlock"), Call("clear_errors"), CallOn("select", u),
    CallOn("start", 1), Call("wait"), CallOn("clear_PER", 1), Call("lock")>>
    BY <1>6 DEF EraseBody
  <2> QED
    BY <2>1, <2>2, OfMembers DEF S
<1>7. CASE chip.type = "WB0"
  <2>1. CallOn("command_erase", u) \in S /\ Call("wait") \in S
    BY <1>2, OpsAre
  <2>2. EraseBody(u, l) = <<CallOn("command_erase", u), Call("wait")>>
    BY <1>7 DEF EraseBody
  <2> QED
    BY <2>1, <2>2, OfMembers DEF S
<1>8. CASE chip.type \in {"F0_F1_F3", "F1_XL"}
  <2>1. Call("unlock") \in S /\ CallOn("clear_PG", b) \in S /\ CallOn("set_PER", b) \in S /\
    CallOn("select", u) \in S /\ CallOn("start", b) \in S /\ Call("wait") \in S /\
    CallOn("clear_PER", b) \in S /\ Call("lock") \in S
    BY <1>2, <1>8, OpsAre
  <2>2. EraseBody(u, l) = <<Call("unlock"), CallOn("clear_PG", b), CallOn("set_PER", b),
    CallOn("select", u), CallOn("start", b), Call("wait"), CallOn("clear_PER", b),
    Call("lock")>>
    BY <1>8 DEF EraseBody, b
  <2> QED
    BY <2>1, <2>2, OfMembers DEF S
<1>9. CASE chip.type = "H7"
  <2>1. Call("unlock") \in S /\ CallOn("select", u) \in S /\ CallOn("start", b) \in S /\
    Call("wait") \in S /\ Call("lock") \in S
    BY <1>2, <1>9, OpsAre
  <2>2. EraseBody(u, l) = <<Call("unlock"), CallOn("select", u), CallOn("start", b),
    Call("wait"), Call("lock")>>
    BY <1>9 DEF EraseBody, b
  <2> QED
    BY <2>1, <2>2, OfMembers DEF S
<1> QED
  BY <1>1, <1>3, <1>4, <1>5, <1>6, <1>7, <1>8, <1>9 DEF Families, S

\* Concatenation keeps to the set of its members.
LEMMA SeqConcat ==
  ASSUME NEW S, NEW s \in Seq(S), NEW t \in Seq(S)
  PROVE  s \o t \in Seq(S)
BY ConcatProperties

\* The empty list is a list of anything.
LEMMA EmptyIn == \A S : <<>> \in Seq(S)
BY EmptySeq

\* The same of all of stlink_erase_flash_page.
LEMMA EraseFlashPageIn ==
  ASSUME chip \in Chips, NEW u \in Nat, NEW l \in Labels, NEW k, Within(k, u)
  PROVE  EraseFlashPage(u, l) \in Seq(Inner(k, {l}, Labels))
<1> DEFINE S == Inner(k, {l}, Labels)
<1>1. chip.type \in Families
  BY DEF Chips
<1>2. /\ \A f \in FreeOps : Call(f) \in S
      /\ \A f \in FreeOps : Try(f, l) \in S
      /\ \A f \in FreeOps : \A at, end \in Nat : Over(f, at, end, l) \in S
      /\ \A f \in BankOps \ {"set_MER"} : \A b \in Bank : CallOn(f, b) \in S
  BY InnerCalls, BankCalls
<1> HIDE DEF S
<1>3. <<Call("wait"), Call("clear_errors")>> \in Seq(S)
  <2>1. Call("wait") \in S /\ Call("clear_errors") \in S
    BY <1>2, OpsAre
  <2> QED
    BY <2>1, OfMembers
<1>4. <<Try("check_errors", l)>> \in Seq(S)
  <2>1. Try("check_errors", l) \in S
    BY <1>2, OpsAre
  <2> QED
    BY <2>1, OfMembers
<1>5. EraseBody(u, l) \in Seq(S)
  BY EraseBodyIn DEF S
<1> QED
  BY <1>3, <1>4, <1>5, SeqConcat DEF EraseFlashPage, S

\* A call to both registers is one to each.
LEMMA BothBanksIn ==
  ASSUME NEW S, NEW f, CallOn(f, 1) \in S, CallOn(f, 2) \in S
  PROVE  BothBanks(f) \in Seq(S)
BY OfMembers DEF BothBanks

\* The size of a flash is a number.
LEMMA FlashSizeNat == FlashSize(chip) \in Nat
BY DEF FlashSize

\* stlink_erase_flash_mass, for a command line that asks for it.
LEMMA EraseFlashMassIn ==
  ASSUME chip \in Chips, NEW l \in Labels, NEW k \in CommandLine, k.mass,
         k.do \in {"write", "erase"}
  PROVE  EraseFlashMass(l) \in Seq(Inner(k, {l}, Labels))
<1> DEFINE S == Inner(k, {l}, Labels)
<1>1. chip.type \in Families
  BY DEF Chips
<1>2. /\ \A f \in FreeOps : Call(f) \in S
      /\ \A f \in FreeOps : Try(f, l) \in S
      /\ \A f \in FreeOps : \A at, end \in Nat : Over(f, at, end, l) \in S
      /\ \A f \in BankOps \ {"set_MER"} : \A b \in Bank : CallOn(f, b) \in S
  BY InnerCalls, BankCalls
<1>20. /\ CallOn("set_MER", 1) \in S /\ CallOn("set_MER", 2) \in S
       /\ Call("command_mass_erase") \in S
       /\ Over("erase_section", 0, FlashSize(chip), l) \in S
  <2>1. Within(k, 0) /\ "erase_section" \in RangeOps
    BY DEF Within, RangeOps
  <2>2. Over("erase_section", 0, FlashSize(chip), l) \in S
    BY <2>1, FlashSizeNat, RangeCalls
  <2> QED
    BY <2>2, BankCalls, OpsAre
<1> HIDE DEF S
<1>3. <<Over("erase_section", 0, FlashSize(chip), l)>> \in Seq(S)
  <2>1. Over("erase_section", 0, FlashSize(chip), l) \in S
    BY <1>20
  <2> QED
    BY <2>1, OfMembers
<1>4. <<Call("command_mass_erase"), Call("wait")>> \in Seq(S)
  <2>1. Call("command_mass_erase") \in S /\ Call("wait") \in S
    BY <1>2, <1>20, OpsAre
  <2> QED
    BY <2>1, OfMembers
<1>5. <<Call("wait"), Call("clear_errors"), Call("unlock")>> \in Seq(S)
  <2>1. Call("wait") \in S /\ Call("clear_errors") \in S /\ Call("unlock") \in S
    BY <1>2, <1>20, OpsAre
  <2> QED
    BY <2>1, OfMembers
<1>6. <<CallOn("set_MER", 1), CallOn("start", 1), CallOn("set_MER", 2), CallOn("start", 2)>>
  \in Seq(S)
  <2>1. CallOn("set_MER", 1) \in S /\ CallOn("start", 1) \in S /\ CallOn("set_MER", 2) \in S
    /\ CallOn("start", 2) \in S
    BY <1>2, <1>20, OpsAre
  <2> QED
    BY <2>1, OfMembers
<1>7. <<CallOn("set_MER", 1), CallOn("start", 1)>> \in Seq(S)
  <2>1. CallOn("set_MER", 1) \in S /\ CallOn("start", 1) \in S
    BY <1>2, <1>20, OpsAre
  <2> QED
    BY <2>1, OfMembers
<1>8. <<Call("wait"), Call("lock")>> \in Seq(S)
  <2>1. Call("wait") \in S /\ Call("lock") \in S
    BY <1>2, <1>20, OpsAre
  <2> QED
    BY <2>1, OfMembers
<1>9. <<Try("check_errors", l)>> \in Seq(S)
  <2>1. Try("check_errors", l) \in S
    BY <1>2, <1>20, OpsAre
  <2> QED
    BY <2>1, OfMembers
<1>10. BothBanks("clear_MER") \in Seq(S)
  BY <1>2, OpsAre, BothBanksIn
<1>11. CASE chip.type \in {"L0_L1", "WB_WL"}
  BY <1>3, <1>11 DEF EraseFlashMass, S
<1>12. CASE chip.type = "WB0"
  BY <1>3, <1>4, <1>12 DEF EraseFlashMass, S
<1>13. CASE chip.type \notin {"L0_L1", "WB_WL", "WB0"}
  <2>1. (IF TwoRegisters(chip)
         THEN <<CallOn("set_MER", 1), CallOn("start", 1), CallOn("set_MER", 2), CallOn("start", 2)>>
         ELSE <<CallOn("set_MER", 1), CallOn("start", 1)>>) \in Seq(S)
    BY <1>6, <1>7
  <2> QED
    BY <1>5, <1>8, <1>9, <1>10, <1>13, <2>1, SeqConcat DEF EraseFlashMass, S
<1> QED
  BY <1>11, <1>12, <1>13

\* stlink_flashloader_start touches no page.
LEMMA FlashloaderStartIn ==
  ASSUME chip \in Chips, NEW l \in Labels, NEW k
  PROVE  FlashloaderStart(l) \in Seq(Inner(k, {l}, Quiet))
<1> DEFINE S == Inner(k, {l}, Quiet)
<1>1. chip.type \in Families
  BY DEF Chips
<1>2. /\ \A f \in FreeOps : Call(f) \in S
      /\ \A f \in FreeOps : Try(f, l) \in S
      /\ \A f \in FreeOps : \A at, end \in Nat : Over(f, at, end, l) \in S
      /\ \A f \in {"set_PG", "clear_PG"} : \A b \in Bank : CallOn(f, b) \in S
  BY InnerCalls, BankCalls
<1> HIDE DEF S
<1>3. <<Call("DMA_off"), Call("wait"), Call("clear_errors")>> \in Seq(S)
  <2>1. Call("DMA_off") \in S /\ Call("wait") \in S /\ Call("clear_errors") \in S
    BY <1>2, OpsAre
  <2> QED
    BY <2>1, OfMembers
<1>4. <<Try("init_loader", l), Call("unlock"), Try("read_register", l), CallOn("set_PG", 1)>>
  \in Seq(S)
  <2>1. Try("init_loader", l) \in S /\ Call("unlock") \in S /\ Try("read_register", l) \in S
    /\ CallOn("set_PG", 1) \in S
    BY <1>2, OpsAre
  <2> QED
    BY <2>1, OfMembers
<1>5. <<Try("init_loader", l), Call("unlock"), CallOn("set_PG", 1)>> \in Seq(S)
  <2>1. Try("init_loader", l) \in S /\ Call("unlock") \in S /\ CallOn("set_PG", 1) \in S
    BY <1>2, OpsAre
  <2> QED
    BY <2>1, OfMembers
<1>6. <<Call("unlock"), CallOn("set_PG", 1)>> \in Seq(S)
  <2>1. Call("unlock") \in S /\ CallOn("set_PG", 1) \in S
    BY <1>2, OpsAre
  <2> QED
    BY <2>1, OfMembers
<1>7. <<Try("unlock_PECR", l), Call("init_loader")>> \in Seq(S)
  <2>1. Try("unlock_PECR", l) \in S /\ Call("init_loader") \in S
    BY <1>2, OpsAre
  <2> QED
    BY <2>1, OfMembers
<1>8. <<Try("init_loader", l)>> \in Seq(S)
  <2>1. Try("init_loader", l) \in S
    BY <1>2, OpsAre
  <2> QED
    BY <2>1, OfMembers
<1>9. <<Try("init_loader", l), Call("unlock")>> \in Seq(S)
  <2>1. Try("init_loader", l) \in S /\ Call("unlock") \in S
    BY <1>2, OpsAre
  <2> QED
    BY <2>1, OfMembers
<1>10. <<Call("unlock")>> \in Seq(S)
  <2>1. Call("unlock") \in S
    BY <1>2, OpsAre
  <2> QED
    BY <2>1, OfMembers
<1>11. BothBanks("set_PG") \in Seq(S)
  BY <1>2, OpsAre, BothBanksIn
<1>12. CASE chip.type \in {"F2_F4", "F7", "L4"}
  BY <1>3, <1>4, <1>11, <1>12, SeqConcat DEF FlashloaderStart, S
<1>13. CASE chip.type = "H5"
  BY <1>3, <1>5, <1>11, <1>13, SeqConcat DEF FlashloaderStart, S
<1>14. CASE chip.type \in {"WB_WL", "G0", "G4", "L5_U5", "C5", "C0"}
  BY <1>3, <1>6, <1>11, <1>14, SeqConcat DEF FlashloaderStart, S
<1>15. CASE chip.type = "L0_L1"
  BY <1>3, <1>7, <1>11, <1>15, SeqConcat DEF FlashloaderStart, S
<1>16. CASE chip.type = "WB0"
  BY <1>3, <1>8, <1>11, <1>16, SeqConcat DEF FlashloaderStart, S
<1>17. CASE chip.type \in {"F0_F1_F3", "F1_XL"}
  BY <1>3, <1>9, <1>11, <1>17, SeqConcat DEF FlashloaderStart, S
<1>18. CASE chip.type = "H7"
  BY <1>3, <1>10, <1>11, <1>18, SeqConcat DEF FlashloaderStart, S
<1> QED
  BY <1>1, <1>12, <1>13, <1>14, <1>15, <1>16, <1>17, <1>18 DEF Families

\* stlink_flashloader_stop touches no page.
LEMMA FlashloaderStopIn ==
  ASSUME chip \in Chips, NEW k, NEW L
  PROVE  FlashloaderStop \in Seq(Inner(k, L, Quiet))
<1> DEFINE S == Inner(k, L, Quiet)
<1>2. /\ \A f \in FreeOps : Call(f) \in S
      /\ \A f \in {"set_PG", "clear_PG"} : \A b \in Bank : CallOn(f, b) \in S
  BY InnerCalls, BankCalls
<1> HIDE DEF S
<1>3. <<Call("lock_PECR")>> \in Seq(S)
  <2>1. Call("lock_PECR") \in S
    BY <1>2, OpsAre
  <2> QED
    BY <2>1, OfMembers
<1>4. <<Call("lock")>> \in Seq(S)
  <2>1. Call("lock") \in S
    BY <1>2, OpsAre
  <2> QED
    BY <2>1, OfMembers
<1>5. <<Call("unmask"), Call("DMA_back")>> \in Seq(S)
  <2>1. Call("unmask") \in S /\ Call("DMA_back") \in S
    BY <1>2, OpsAre
  <2> QED
    BY <2>1, OfMembers
<1>6. BothBanks("clear_PG") \in Seq(S)
  BY <1>2, OpsAre, BothBanksIn
<1>7. CASE chip.type = "L0_L1"
  BY <1>3, <1>5, <1>7, SeqConcat DEF FlashloaderStop, S
<1>8. CASE chip.type = "WB0"
  BY <1>5, <1>8, SeqConcat, EmptyIn DEF FlashloaderStop, S
<1>9. CASE chip.type \notin {"L0_L1", "WB0"}
  BY <1>4, <1>5, <1>6, <1>9, SeqConcat DEF FlashloaderStop, S
<1> QED
  BY <1>7, <1>8, <1>9

\* stlink_write_flash makes calls for the range of the command line.
LEMMA WriteFlashIn ==
  ASSUME chip \in Chips, NEW k \in CommandLine, NEW l \in Labels, k.do = "write", k.len > 0
  PROVE  WriteFlash(k, l) \in Seq(Inner(k, {l}, Quiet))
<1> DEFINE S == Inner(k, {l}, Quiet)
<1>1. chip.type \in Families
  BY DEF Chips
<1>2. /\ \A f \in FreeOps : Call(f) \in S
      /\ \A f \in FreeOps : Try(f, l) \in S
      /\ \A f \in FreeOps : \A at, end \in Nat : Over(f, at, end, l) \in S
      /\ \A f \in {"set_PG", "clear_PG"} : \A b \in Bank : CallOn(f, b) \in S
  BY InnerCalls, BankCalls
<1>20. /\ Over("erase_section", k.addr, k.addr + k.len, l) \in S
       /\ Over("write", k.addr, k.addr + k.len, l) \in S
  <2>1. k.addr \in Nat /\ k.addr + k.len \in Nat
    BY DEF CommandLine
  <2>2. Within(k, k.addr) /\ "erase_section" \in RangeOps /\ "write" \in RangeOps
    BY DEF Within, RangeOps, CommandLine
  <2> QED
    BY <2>1, <2>2, RangeCalls
<1> HIDE DEF S
<1>3. k.addr \in Nat /\ k.addr + k.len \in Nat
  BY DEF CommandLine
<1>4. <<Over("check_range", k.addr, k.addr + k.len, l)>> \in Seq(S)
  <2>1. Over("check_range", k.addr, k.addr + k.len, l) \in S
    BY RefusalCalls DEF S
  <2> QED
    BY <2>1, OfMembers
<1>5. <<Over("erase_section", k.addr, k.addr + k.len, l)>> \in Seq(S)
  <2>1. Over("erase_section", k.addr, k.addr + k.len, l) \in S
    BY <1>2, <1>3, <1>20, OpsAre
  <2> QED
    BY <2>1, OfMembers
<1>6. <<Over("write", k.addr, k.addr + k.len, l), Try("check_errors", l)>> \in Seq(S)
  <2>1. Over("write", k.addr, k.addr + k.len, l) \in S /\ Try("check_errors", l) \in S
    BY <1>2, <1>3, <1>20, OpsAre
  <2> QED
    BY <2>1, OfMembers
<1>7. <<Over("verify", k.addr, k.addr + k.len, l)>> \in Seq(S)
  <2>1. Over("verify", k.addr, k.addr + k.len, l) \in S
    BY <1>2, <1>3, <1>20, OpsAre
  <2> QED
    BY <2>1, OfMembers
<1>8. (IF k.mass THEN <<>> ELSE <<Over("erase_section", k.addr, k.addr + k.len, l)>>) \in Seq(S)
  BY <1>5, EmptyIn
<1>9. FlashloaderStart(l) \in Seq(S) /\ FlashloaderStop \in Seq(S)
  BY FlashloaderStartIn, FlashloaderStopIn DEF S
<1> QED
  BY <1>4, <1>6, <1>7, <1>8, <1>9, SeqConcat DEF WriteFlash, S

-----------------------------------------------------------------------------
\* The calls of lists of one and of two.
LEMMA HasOf ==
  ASSUME NEW a, NEW b
  PROVE  Has(<<a>>, a.op) /\ Has(<<a, b>>, a.op) /\ Has(<<a, b>>, b.op)
<1>1. Len(<<a>>) = 1 /\ Len(<<a, b>>) = 2 /\ <<a>>[1] = a /\ <<a, b>>[1] = a /\ <<a, b>>[2] = b
  OBVIOUS
<1> QED
  BY <1>1 DEF Has

\* A part may lead to more than it does.
LEMMA PartMore ==
  ASSUME NEW s, NEW L, NEW M, L \subseteq M, Part(s, L)
  PROVE  Part(s, M)
BY DEF Part, Open

\* The writers of option bytes touch no page and lead to "relock".
LEMMA OptionsIn ==
  ASSUME NEW k
  PROVE
  /\ OptionBytesF0 \in Seq(Inner(k, {"relock"}, Harmful)) /\ OptionRegisterF0 \in Seq(Inner(k,
          {"relock"}, Harmful))
  /\ OptionRegisterC0 \in Seq(Inner(k, {"relock"}, Harmful))
  /\ BeginAndCheck \in Seq(Inner(k, {"relock"}, Harmful)) /\ WordsThenBegin \in Seq(Inner(k,
          {"relock"}, Harmful))
  /\ OptionBytesH7 \in Seq(Inner(k, {"relock"}, Harmful))
<1> DEFINE S == Inner(k, {"relock"}, Harmful)
<1>2. /\ \A f \in FreeOps : Call(f) \in S
      /\ \A f \in FreeOps : Try(f, "relock") \in S
  BY InnerCalls DEF Labels
<1> HIDE DEF S
<1>3. <<Call("wait"), Try("check_errors", "relock")>> \in Seq(S)
  <2>1. Call("wait") \in S /\ Try("check_errors", "relock") \in S
    BY <1>2, OpsAre
  <2> QED
    BY <2>1, OfMembers
<1>4. <<Call("clear_errors"), Call("begin_options")>> \in Seq(S)
  <2>1. Call("clear_errors") \in S /\ Call("begin_options") \in S
    BY <1>2, OpsAre
  <2> QED
    BY <2>1, OfMembers
<1>5. <<Call("clear_errors"), Call("wait"), Call("check_errors"), Call("begin_options")>>
  \in Seq(S)
  <2>1. Call("clear_errors") \in S /\ Call("wait") \in S /\ Call("check_errors") \in S /\
    Call("begin_options") \in S
    BY <1>2, OpsAre
  <2> QED
    BY <2>1, OfMembers
<1>6. <<Call("clear_errors"), Try("erase_options", "relock")>> \in Seq(S)
  <2>1. Call("clear_errors") \in S /\ Try("erase_options", "relock") \in S
    BY <1>2, OpsAre
  <2> QED
    BY <2>1, OfMembers
<1>7. <<Try("init_loader", "relock"), Try("program_options", "relock"), Try("check_errors",
  "relock")>> \in Seq(S)
  <2>1. Try("init_loader", "relock") \in S /\ Try("program_options", "relock") \in S /\
    Try("check_errors", "relock") \in S
    BY <1>2, OpsAre
  <2> QED
    BY <2>1, OfMembers
<1>8. <<Try("check_errors", "relock")>> \in Seq(S)
  <2>1. Try("check_errors", "relock") \in S
    BY <1>2, OpsAre
  <2> QED
    BY <2>1, OfMembers
<1>9. <<Call("clear_errors"), Call("wait"), Try("begin_options", "relock")>> \in Seq(S)
  <2>1. Call("clear_errors") \in S /\ Call("wait") \in S /\ Try("begin_options", "relock")
    \in S
    BY <1>2, OpsAre
  <2> QED
    BY <2>1, OfMembers
<1>10. <<Call("wait"), Try("change_options", "relock")>> \in Seq(S)
  <2>1. Call("wait") \in S /\ Try("change_options", "relock") \in S
    BY <1>2, OpsAre
  <2> QED
    BY <2>1, OfMembers
<1>15. <<Call("clear_errors"), Try("read_register", "relock"), Try("read_register", "relock")>>
  \in Seq(S)
  <2>1. Call("clear_errors") \in S /\ Try("read_register", "relock") \in S
    BY <1>2, OpsAre
  <2> QED
    BY <2>1, OfMembers
<1>11. BeginAndCheck \in Seq(S) /\ WordsThenBegin \in Seq(S) /\ OptionRegisterC0 \in Seq(S)
  BY <1>3, <1>4, <1>5, <1>9, SeqConcat DEF BeginAndCheck, WordsThenBegin, OptionRegisterC0, Checked
<1>12. OptionBytesF0 \in Seq(S)
  BY <1>3, <1>6, <1>7, SeqConcat DEF OptionBytesF0, Checked
<1>13. OptionRegisterF0 \in Seq(S)
  BY <1>8, <1>12, <1>15, SeqConcat DEF OptionRegisterF0
<1>14. OptionBytesH7 \in Seq(S)
  BY <1>10 DEF OptionBytesH7
<1> QED
  BY <1>11, <1>12, <1>13, <1>14 DEF S

\* ... and so does the one that is chosen among them.
LEMMA ProgramOptionsIn ==
  ASSUME chip \in Chips, NEW do \in OptionCommands, NEW k
  PROVE  ProgramOptions(do) \in Seq(Inner(k, {"relock"}, Harmful))
<1> DEFINE S == Inner(k, {"relock"}, Harmful)
<1>1. <<Try("unsupported", "relock")>> \in Seq(S)
  <2>1. Try("unsupported", "relock") \in S
    BY RefusalCalls DEF Labels
  <2> HIDE DEF S
  <2> QED
    BY <2>1, OfMembers
<1> HIDE DEF S
<1>2. /\ OptionBytesF0 \in Seq(S) /\ OptionRegisterF0 \in Seq(S) /\ OptionRegisterC0 \in Seq(S)
      /\ BeginAndCheck \in Seq(S) /\ WordsThenBegin \in Seq(S) /\ OptionBytesH7 \in Seq(S)
  BY OptionsIn DEF S
<1>3. /\ OptionBytesF4 = BeginAndCheck /\ OptionBytesF7 = BeginAndCheck
      /\ OptionRegisterF7 = BeginAndCheck /\ OptionRegister1F7 = BeginAndCheck
      /\ OptionBytesGx = BeginAndCheck /\ OptionBytesL0 = BeginAndCheck
      /\ OptionBytesL4 = BeginAndCheck /\ OptionRegisterWb = BeginAndCheck
      /\ OptionBytesWb = WordsThenBegin /\ OptionBytesL5 = WordsThenBegin
  BY DEF OptionBytesF4, OptionBytesF7, OptionRegisterF7, OptionRegister1F7, OptionBytesGx,
         OptionBytesL0, OptionBytesL4, OptionRegisterWb, OptionBytesWb, OptionBytesL5
<1>4. chip.type \in Families
  BY DEF Chips
<1>5. CASE ~Implements(do)
  BY <1>1, <1>5 DEF ProgramOptions, S
<1>6. CASE Implements(do)
  <2>1. chip.type \notin {"H5", "C5", "WB0"}
    BY <1>6 DEF OptionCommands, Implements, HasOptionLock
  <2> QED
    BY <1>2, <1>3, <1>4, <1>6, <2>1 DEF ProgramOptions, S, Families
<1> QED
  BY <1>5, <1>6

\* The option commands relock what they unlocked, and touch no page.
LEMMA WriteOptionsPart ==
  ASSUME chip \in Chips, NEW do \in OptionCommands, NEW l \in Labels, NEW k
  PROVE  Part(WriteOptions(do, l), {l}) /\ WriteOptions(do, l) \in Seq(Inner(k, {l, "relock"},
          Harmful))
<1> DEFINE S == Inner(k, {l, "relock"}, Harmful)
           A == <<Call("wait"), Try("unlock", l), Try("unlock_options", l)>>
           B == ProgramOptions(do)
           C == <<Call("relock"), Call("lock")>>
<1>1. /\ \A f \in FreeOps : Call(f) \in S
      /\ \A f \in FreeOps : Try(f, l) \in S
  BY InnerCalls
<1>2. A \in Seq(S)
  <2>1. Call("wait") \in S /\ Try("unlock", l) \in S /\ Try("unlock_options", l) \in S
    BY <1>1, OpsAre
  <2> HIDE DEF S
  <2> QED
    BY <2>1, OfMembers
<1>3. B \in Seq(S)
  <2>1. Inner(k, {"relock"}, Harmful) \subseteq S
    BY DEF Inner
  <2> QED
    <3>1. B \in Seq(Inner(k, {"relock"}, Harmful))
      BY ProgramOptionsIn
    <3> HIDE DEF B, S
    <3> QED
      BY <2>1, <3>1, SeqMonotonic
<1>4. A \o B \in Seq(S)
  BY <1>2, <1>3, SeqConcat
<1>5. Part(A \o B, {l, "relock"})
  BY <1>4, InnerPart
<1>6. C \in Seq(Inner(k, {l}, Harmful))
  <2>1. Call("relock") \in Inner(k, {l}, Harmful) /\ Call("lock") \in Inner(k, {l}, Harmful)
    BY InnerCalls, OpsAre
  <2> QED
    BY <2>1, OfMembers
<1>7. Part(C, {l})
  BY <1>6, InnerPart
<1>8. Has(C, "relock")
  <2>1. Call("relock").op = "relock"
    BY CallFields
  <2> QED
    BY <2>1, HasOf
<1> HIDE DEF A, B, C
<1>9. Part((A \o B) \o C, {l})
  BY <1>5, <1>7, <1>8, PartConcat
<1>10. C \in Seq(S)
  <2>1. Inner(k, {l}, Harmful) \subseteq S
    BY DEF Inner
  <2> HIDE DEF S
  <2> QED
    BY <1>6, <2>1, SeqMonotonic
<1>11. (A \o B) \o C \in Seq(S)
  <2> HIDE DEF S
  <2> QED
    BY <1>4, <1>10, SeqConcat
<1> QED
  BY <1>9, <1>11 DEF WriteOptions, A, B, C

-----------------------------------------------------------------------------
(***************************************************************************)
(* The order of the calls: what makes a list of them safe to run, and to   *)
(* cut short at any call.                                                  *)
(***************************************************************************)

\* The bank a page is erased in, and the families whose pages are erased by
\* PER alone, which nothing sets when the page is named.
BankOf(u) == IF TwoRegisters(chip) /\ UpperHalf(chip, u) THEN 2 ELSE 1
PerFirst == {"F0_F1_F3", "F1_XL", "WB_WL", "C0"}

\* In a list of calls: nothing harmful once a way out is reached; a start
\* right after the choice of the page, and that after PER where it must be;
\* nothing that touches the flash before a range is checked.
LabelsLast(s) ==
  \A i, j \in 1 .. Len(s) : i < j /\ s[i].op \in Labels => s[j].op \notin Harmful
Linked(s) ==
  \A i \in 2 .. Len(s) :
    /\ s[i].op = "start" => s[i - 1].op = "select" /\ s[i].at = BankOf(s[i - 1].at)
    /\ s[i].op = "select" /\ chip.type \in PerFirst =>
         s[i - 1].op = "set_PER" /\ s[i - 1].at = BankOf(s[i].at)
Opens(s) ==
  s # <<>> => s[1].op # "start" /\ (s[1].op = "select" => chip.type \notin PerFirst)
Checks == {"check_range", "erase_section"}
Guarded(s) ==
  \A i \in 1 .. Len(s) : s[i].op \in Harmful \ {"erase_section", "start"} =>
    \E j \in 1 .. i - 1 : s[j].op \in Checks
Harmless(s) == \A i \in 1 .. Len(s) : s[i].op \notin Harmful
Unlabelled(s) == \A i \in 1 .. Len(s) : s[i].op \notin Labels

\* The members of a concatenation.
LEMMA ConcatAt ==
  ASSUME NEW s \in Seq(CallRec), NEW t \in Seq(CallRec)
  PROVE  /\ s \o t \in Seq(CallRec) /\ Len(s \o t) = Len(s) + Len(t)
         /\ Len(s) \in Nat /\ Len(t) \in Nat
         /\ \A i \in 1 .. Len(s) : (s \o t)[i] = s[i]
         /\ \A i \in 1 .. Len(t) : (s \o t)[Len(s) + i] = t[i]
         /\ \A i \in 1 .. Len(s \o t) : i \in 1 .. Len(s) \/ i - Len(s) \in 1 .. Len(t)
<1>1. /\ s \o t \in Seq(CallRec)
      /\ Len(s \o t) = Len(s) + Len(t)
      /\ \A i \in 1 .. Len(s) + Len(t) :
           (s \o t)[i] = IF i <= Len(s) THEN s[i] ELSE t[i - Len(s)]
  BY ConcatProperties
<1>2. Len(s) \in Nat /\ Len(t) \in Nat
  BY LenProperties
<1>3. ASSUME NEW i \in 1 .. Len(t) PROVE (s \o t)[Len(s) + i] = t[i]
  <2>1. Len(s) + i \in 1 .. Len(s) + Len(t) /\ ~(Len(s) + i <= Len(s))
        /\ (Len(s) + i) - Len(s) = i
    BY <1>2
  <2> QED
    BY <1>1, <2>1
<1>4. ASSUME NEW i \in 1 .. Len(s) PROVE (s \o t)[i] = s[i]
  <2>1. i \in 1 .. Len(s) + Len(t) /\ i <= Len(s)
    BY <1>2
  <2> QED
    BY <1>1, <2>1
<1>5. ASSUME NEW i \in 1 .. Len(s) + Len(t)
      PROVE  i \in 1 .. Len(s) \/ i - Len(s) \in 1 .. Len(t)
  BY <1>2
<1> QED
  BY <1>1, <1>2, <1>3, <1>4, <1>5

\* Each of them is one of the first list or of the second.
LEMMA ConcatParts ==
  ASSUME NEW s \in Seq(CallRec), NEW t \in Seq(CallRec), NEW i \in 1 .. Len(s \o t)
  PROVE  \/ i \in 1 .. Len(s) /\ (s \o t)[i] = s[i]
         \/ i - Len(s) \in 1 .. Len(t) /\ (s \o t)[i] = t[i - Len(s)]
<1>1. /\ Len(s) \in Nat /\ Len(t) \in Nat
      /\ i \in 1 .. Len(s) \/ i - Len(s) \in 1 .. Len(t)
      /\ \A k \in 1 .. Len(t) : (s \o t)[Len(s) + k] = t[k]
  BY ConcatAt
<1>2. CASE i \in 1 .. Len(s)
  BY <1>2, ConcatAt
<1>3. CASE i - Len(s) \in 1 .. Len(t)
  <2>1. Len(s) + (i - Len(s)) = i
    <3>1. i \in Nat
      BY <1>1, ConcatAt
    <3> QED
      BY <1>1, <3>1
  <2> QED
    BY <1>1, <1>3, <2>1
<1> QED
  BY <1>1, <1>2, <1>3

\* LabelsLast of a concatenation.
LEMMA LabelsConcat ==
  ASSUME NEW s \in Seq(CallRec), NEW t \in Seq(CallRec), LabelsLast(s), LabelsLast(t),
         Unlabelled(s) \/ Harmless(t)
  PROVE  LabelsLast(s \o t)
<1> DEFINE c == s \o t
<1>1. Len(s) \in Nat /\ Len(t) \in Nat /\ Len(c) \in Nat
  BY ConcatAt, LenProperties
<1>2. \A i \in 1 .. Len(c) : \/ i \in 1 .. Len(s) /\ c[i] = s[i]
                             \/ i - Len(s) \in 1 .. Len(t) /\ c[i] = t[i - Len(s)]
  BY ConcatParts
<1> HIDE DEF c
<1>3. ASSUME NEW i \in 1 .. Len(c), NEW j \in 1 .. Len(c), i < j, c[i].op \in Labels
      PROVE  c[j].op \notin Harmful
  <2>1. CASE i \in 1 .. Len(s) /\ c[i] = s[i]
    <3>1. CASE j \in 1 .. Len(s) /\ c[j] = s[j]
      BY <1>3, <2>1, <3>1 DEF LabelsLast
    <3>2. CASE j - Len(s) \in 1 .. Len(t) /\ c[j] = t[j - Len(s)]
      BY <1>3, <2>1, <3>2 DEF Unlabelled, Harmless
    <3> QED
      BY <1>2, <3>1, <3>2
  <2>2. CASE i - Len(s) \in 1 .. Len(t) /\ c[i] = t[i - Len(s)]
    <3>1. ~(j \in 1 .. Len(s)) /\ i - Len(s) < j - Len(s)
      BY <1>1, <1>3, <2>2
    <3>2. j - Len(s) \in 1 .. Len(t) /\ c[j] = t[j - Len(s)]
      BY <1>2, <3>1
    <3> QED
      BY <1>3, <2>2, <3>1, <3>2 DEF LabelsLast
  <2> QED
    BY <1>2, <2>1, <2>2
<1> QED
  BY <1>3 DEF LabelsLast, c

\* Linked of a concatenation.
LEMMA LinkedConcat ==
  ASSUME NEW s \in Seq(CallRec), NEW t \in Seq(CallRec), Linked(s), Linked(t), Opens(t)
  PROVE  Linked(s \o t)
<1> DEFINE c == s \o t
<1>1. Len(s) \in Nat /\ Len(t) \in Nat /\ Len(c) \in Nat
  BY ConcatAt, LenProperties
<1>2. \A i \in 1 .. Len(c) : \/ i \in 1 .. Len(s) /\ c[i] = s[i]
                             \/ i - Len(s) \in 1 .. Len(t) /\ c[i] = t[i - Len(s)]
  BY ConcatParts
<1>4. t # <<>> <=> Len(t) # 0
  BY EmptySeq
<1> HIDE DEF c
<1>3. ASSUME NEW i \in 2 .. Len(c)
      PROVE  /\ c[i].op = "start" => c[i - 1].op = "select" /\ c[i].at = BankOf(c[i - 1].at)
             /\ c[i].op = "select" /\ chip.type \in PerFirst =>
                  c[i - 1].op = "set_PER" /\ c[i - 1].at = BankOf(c[i].at)
  <2>0. i \in 1 .. Len(c) /\ i - 1 \in 1 .. Len(c)
    BY <1>1
  <2>1. CASE i \in 1 .. Len(s) /\ c[i] = s[i]
    <3>1. i - 1 \in 1 .. Len(s) /\ i \in 2 .. Len(s) /\ ~((i - 1) - Len(s) \in 1 .. Len(t))
      BY <1>1, <2>1
    <3>2. c[i - 1] = s[i - 1]
      BY <1>2, <2>0, <3>1
    <3> QED
      BY <2>1, <3>1, <3>2 DEF Linked
  <2>2. CASE i - Len(s) \in 1 .. Len(t) /\ c[i] = t[i - Len(s)]
    <3>1. CASE i - Len(s) = 1
      BY <1>1, <1>4, <2>2, <3>1 DEF Opens
    <3>2. CASE i - Len(s) # 1
      <4>1. /\ (i - 1) - Len(s) \in 1 .. Len(t) /\ ~(i - 1 \in 1 .. Len(s))
            /\ i - Len(s) \in 2 .. Len(t) /\ (i - 1) - Len(s) = (i - Len(s)) - 1
        BY <1>1, <2>2, <3>2
      <4>2. c[i - 1] = t[(i - Len(s)) - 1]
        BY <1>2, <2>0, <4>1
      <4> QED
        BY <2>2, <4>1, <4>2 DEF Linked
    <3> QED
      BY <3>1, <3>2
  <2> QED
    BY <1>2, <2>0, <2>1, <2>2
<1> QED
  BY <1>3 DEF Linked, c

\* Opens of a concatenation.
LEMMA OpensConcat ==
  ASSUME NEW s \in Seq(CallRec), NEW t \in Seq(CallRec), Opens(s), Opens(t)
  PROVE  Opens(s \o t)
<1>1. CASE s = <<>>
  BY <1>1, ConcatEmptySeq
<1>2. CASE s # <<>>
  <2>1. Len(s) \in Nat /\ Len(s) # 0
    BY <1>2, LenProperties, EmptySeq
  <2>2. (s \o t)[1] = s[1]
    BY <2>1, ConcatAt
  <2> QED
    BY <1>2, <2>2 DEF Opens
<1> QED
  BY <1>1, <1>2

\* Guarded of a concatenation.
LEMMA GuardedConcat ==
  ASSUME NEW s \in Seq(CallRec), NEW t \in Seq(CallRec), Guarded(s),
         Guarded(t) \/ \E i \in 1 .. Len(s) : s[i].op \in Checks
  PROVE  Guarded(s \o t)
<1> DEFINE c == s \o t
<1>1. Len(s) \in Nat /\ Len(t) \in Nat /\ Len(c) = Len(s) + Len(t)
  BY ConcatAt
<1>2. \A i \in 1 .. Len(c) : \/ i \in 1 .. Len(s) /\ c[i] = s[i]
                             \/ i - Len(s) \in 1 .. Len(t) /\ c[i] = t[i - Len(s)]
  BY ConcatParts
<1>4. /\ \A i \in 1 .. Len(s) : c[i] = s[i]
      /\ \A i \in 1 .. Len(t) : c[Len(s) + i] = t[i]
  BY ConcatAt
<1> HIDE DEF c
<1>3. ASSUME NEW i \in 1 .. Len(c), c[i].op \in Harmful \ {"erase_section", "start"}
      PROVE  \E j \in 1 .. i - 1 : c[j].op \in Checks
  <2>1. CASE i \in 1 .. Len(s) /\ c[i] = s[i]
    <3>1. PICK j \in 1 .. i - 1 : s[j].op \in Checks
      BY <1>3, <2>1 DEF Guarded
    <3>2. j \in 1 .. Len(s)
      BY <1>1, <2>1
    <3> QED
      BY <1>4, <3>1, <3>2
  <2>2. CASE i - Len(s) \in 1 .. Len(t) /\ c[i] = t[i - Len(s)]
    <3>1. CASE \E j \in 1 .. Len(s) : s[j].op \in Checks
      <4>1. PICK j \in 1 .. Len(s) : s[j].op \in Checks
        BY <3>1
      <4>2. j \in 1 .. i - 1
        BY <1>1, <2>2
      <4> QED
        BY <1>4, <4>1, <4>2
    <3>2. CASE Guarded(t)
      <4>1. PICK j \in 1 .. (i - Len(s)) - 1 : t[j].op \in Checks
        BY <1>3, <2>2, <3>2 DEF Guarded
      <4>2. j \in 1 .. Len(t) /\ Len(s) + j \in 1 .. i - 1
        BY <1>1, <2>2
      <4> QED
        BY <1>4, <4>1, <4>2
    <3> QED
      BY <3>1, <3>2
  <2> QED
    BY <1>2, <2>1, <2>2
<1> QED
  BY <1>3 DEF Guarded, c

\* Where nothing is harmful everything is in order.
LEMMA HarmlessIs ==
  ASSUME NEW s \in Seq(CallRec), Harmless(s)
  PROVE  LabelsLast(s) /\ Linked(s) /\ Opens(s) /\ Guarded(s)
<1>1. Len(s) \in Nat /\ (s # <<>> => Len(s) # 0)
  BY LenProperties, EmptySeq
<1>2. "start" \in Harmful /\ "select" \in Harmful
  BY DEF Harmful, PageOps
<1>3. LabelsLast(s) /\ Guarded(s)
  BY DEF LabelsLast, Guarded, Harmless
<1>4. Linked(s) /\ Opens(s)
  BY <1>1, <1>2 DEF Linked, Opens, Harmless
<1> QED
  BY <1>3, <1>4

\* Where no page is chosen or started, and no way out is reached, likewise.
LEMMA QuietIs ==
  ASSUME NEW s \in Seq(CallRec), \A i \in 1 .. Len(s) : s[i].op \notin Quiet
  PROVE  Unlabelled(s) /\ LabelsLast(s) /\ Linked(s) /\ Opens(s)
<1>1. Len(s) \in Nat /\ (s # <<>> => Len(s) # 0)
  BY LenProperties, EmptySeq
<1>2. \A i \in 1 .. Len(s) : s[i].op \notin Labels /\ s[i].op # "start" /\ s[i].op # "select"
  BY DEF Quiet
<1>3. Unlabelled(s) /\ LabelsLast(s)
  BY <1>2 DEF LabelsLast, Unlabelled
<1>4. Linked(s) /\ Opens(s)
  BY <1>1, <1>2 DEF Linked, Opens
<1> QED
  BY <1>3, <1>4

-----------------------------------------------------------------------------
(***************************************************************************)
(* Erasing a page, family by family.                                       *)
(***************************************************************************)

\* Every family chooses the page just before it starts the erasing, in the same
\* register, and where PER is set apart, sets it just before that.
LEMMA EraseBodyLinked ==
  ASSUME chip \in Chips, NEW u \in Nat, NEW l \in Labels
  PROVE  Linked(EraseBody(u, l)) /\ Opens(EraseBody(u, l))
<1> DEFINE b == BankOf(u)
<1>1. chip.type \in Families
  BY DEF Chips
<1>2. TwoRegisters(chip) => chip.type \in {"F1_XL", "H7"}
  BY DEF TwoRegisters
<1>3. CASE chip.type \in {"F2_F4", "F7", "L4"}
  <2> DEFINE s == <<Call("unlock"), CallOn("select", u), CallOn("start", 1), Call("wait"),
           Call("lock")>>
  <2>1. EraseBody(u, l) = s
    BY <1>3 DEF EraseBody, BankOf
  <2>2. /\ Len(s) = 5 /\ s # <<>>
        /\ s[1].op = "unlock"
        /\ s[2].op = "select" /\ s[2].at = u
        /\ s[3].op = "start" /\ s[3].at = 1
        /\ s[4].op = "wait"
        /\ s[5].op = "lock"
    BY DEF Call, CallOn, Try
  <2> HIDE DEF s
  <2>3. \A i \in 2 .. 5 : i = 2 \/ i = 3 \/ i = 4 \/ i = 5
    OBVIOUS
  <2>4. Linked(s)
    <3> SUFFICES ASSUME NEW i \in 2 .. 5
                 PROVE  /\ s[i].op = "start" => s[i - 1].op = "select"
                         /\ s[i].at = BankOf(s[i - 1].at)
                        /\ s[i].op = "select" /\ chip.type \in PerFirst =>
                             s[i - 1].op = "set_PER" /\ s[i - 1].at = BankOf(s[i].at)
      BY <2>2 DEF Linked
    <3>1. BankOf(u) = 1
      BY <1>2, <1>3 DEF BankOf
    <3>2. i # 2 /\ i # 3 => s[i].op # "start" /\ s[i].op # "select"
      BY <2>2, <2>3
    <3>3. CASE i = 2
      BY <1>3, <2>2, <3>1, <3>3 DEF PerFirst
    <3>4. CASE i = 3
      BY <2>2, <3>1, <3>4
    <3> QED
      BY <3>2, <3>3, <3>4
  <2> QED
    BY <2>1, <2>2, <2>4 DEF Opens
<1>4. CASE chip.type = "L0_L1"
  <2> DEFINE s == <<Try("unlock_PECR", l), CallOn("erase_word", u), Call("wait"), Call("lock_PECR")>>
  <2>1. EraseBody(u, l) = s
    BY <1>4 DEF EraseBody, BankOf
  <2>2. /\ Len(s) = 4 /\ s # <<>>
        /\ s[1].op = "unlock_PECR"
        /\ s[2].op = "erase_word" /\ s[2].at = u
        /\ s[3].op = "wait"
        /\ s[4].op = "lock_PECR"
    BY DEF Call, CallOn, Try
  <2> HIDE DEF s
  <2>3. \A i \in 2 .. 4 : i = 2 \/ i = 3 \/ i = 4
    OBVIOUS
  <2>4. Linked(s)
    <3> SUFFICES ASSUME NEW i \in 2 .. 4
                 PROVE  /\ s[i].op = "start" => s[i - 1].op = "select"
                         /\ s[i].at = BankOf(s[i - 1].at)
                        /\ s[i].op = "select" /\ chip.type \in PerFirst =>
                             s[i - 1].op = "set_PER" /\ s[i - 1].at = BankOf(s[i].at)
      BY <2>2 DEF Linked
    <3> QED
      BY <2>2, <2>3
  <2> QED
    BY <2>1, <2>2, <2>4 DEF Opens
<1>5. CASE chip.type \in {"G0", "G4", "L5_U5", "WB_WL", "C5", "C0"}
  <2> DEFINE s == <<Call("unlock"), CallOn("set_PER", 1), CallOn("select", u), CallOn("start", 1),
           Call("wait"), CallOn("clear_PER", 1), Call("lock")>>
  <2>1. EraseBody(u, l) = s
    BY <1>5 DEF EraseBody, BankOf
  <2>2. /\ Len(s) = 7 /\ s # <<>>
        /\ s[1].op = "unlock"
        /\ s[2].op = "set_PER" /\ s[2].at = 1
        /\ s[3].op = "select" /\ s[3].at = u
        /\ s[4].op = "start" /\ s[4].at = 1
        /\ s[5].op = "wait"
        /\ s[6].op = "clear_PER" /\ s[6].at = 1
        /\ s[7].op = "lock"
    BY DEF Call, CallOn, Try
  <2> HIDE DEF s
  <2>3. \A i \in 2 .. 7 : i = 2 \/ i = 3 \/ i = 4 \/ i = 5 \/ i = 6 \/ i = 7
    OBVIOUS
  <2>4. Linked(s)
    <3> SUFFICES ASSUME NEW i \in 2 .. 7
                 PROVE  /\ s[i].op = "start" => s[i - 1].op = "select"
                         /\ s[i].at = BankOf(s[i - 1].at)
                        /\ s[i].op = "select" /\ chip.type \in PerFirst =>
                             s[i - 1].op = "set_PER" /\ s[i - 1].at = BankOf(s[i].at)
      BY <2>2 DEF Linked
    <3>1. BankOf(u) = 1
      BY <1>2, <1>5 DEF BankOf
    <3>2. i # 3 /\ i # 4 => s[i].op # "start" /\ s[i].op # "select"
      BY <2>2, <2>3
    <3>3. CASE i = 3
      BY <1>5, <2>2, <3>1, <3>3 DEF PerFirst
    <3>4. CASE i = 4
      BY <2>2, <3>1, <3>4
    <3> QED
      BY <3>2, <3>3, <3>4
  <2> QED
    BY <2>1, <2>2, <2>4 DEF Opens
<1>6. CASE chip.type = "H5"
  <2> DEFINE s == <<Call("unlock"), Call("clear_errors"), CallOn("select", u), CallOn("start", 1),
           Call("wait"), CallOn("clear_PER", 1), Call("lock")>>
  <2>1. EraseBody(u, l) = s
    BY <1>6 DEF EraseBody, BankOf
  <2>2. /\ Len(s) = 7 /\ s # <<>>
        /\ s[1].op = "unlock"
        /\ s[2].op = "clear_errors"
        /\ s[3].op = "select" /\ s[3].at = u
        /\ s[4].op = "start" /\ s[4].at = 1
        /\ s[5].op = "wait"
        /\ s[6].op = "clear_PER" /\ s[6].at = 1
        /\ s[7].op = "lock"
    BY DEF Call, CallOn, Try
  <2> HIDE DEF s
  <2>3. \A i \in 2 .. 7 : i = 2 \/ i = 3 \/ i = 4 \/ i = 5 \/ i = 6 \/ i = 7
    OBVIOUS
  <2>4. Linked(s)
    <3> SUFFICES ASSUME NEW i \in 2 .. 7
                 PROVE  /\ s[i].op = "start" => s[i - 1].op = "select"
                         /\ s[i].at = BankOf(s[i - 1].at)
                        /\ s[i].op = "select" /\ chip.type \in PerFirst =>
                             s[i - 1].op = "set_PER" /\ s[i - 1].at = BankOf(s[i].at)
      BY <2>2 DEF Linked
    <3>1. BankOf(u) = 1
      BY <1>2, <1>6 DEF BankOf
    <3>2. i # 3 /\ i # 4 => s[i].op # "start" /\ s[i].op # "select"
      BY <2>2, <2>3
    <3>3. CASE i = 3
      BY <1>6, <2>2, <3>1, <3>3 DEF PerFirst
    <3>4. CASE i = 4
      BY <2>2, <3>1, <3>4
    <3> QED
      BY <3>2, <3>3, <3>4
  <2> QED
    BY <2>1, <2>2, <2>4 DEF Opens
<1>7. CASE chip.type = "WB0"
  <2> DEFINE s == <<CallOn("command_erase", u), Call("wait")>>
  <2>1. EraseBody(u, l) = s
    BY <1>7 DEF EraseBody, BankOf
  <2>2. /\ Len(s) = 2 /\ s # <<>>
        /\ s[1].op = "command_erase" /\ s[1].at = u
        /\ s[2].op = "wait"
    BY DEF Call, CallOn, Try
  <2> HIDE DEF s
  <2>3. \A i \in 2 .. 2 : i = 2
    OBVIOUS
  <2>4. Linked(s)
    <3> SUFFICES ASSUME NEW i \in 2 .. 2
                 PROVE  /\ s[i].op = "start" => s[i - 1].op = "select"
                         /\ s[i].at = BankOf(s[i - 1].at)
                        /\ s[i].op = "select" /\ chip.type \in PerFirst =>
                             s[i - 1].op = "set_PER" /\ s[i - 1].at = BankOf(s[i].at)
      BY <2>2 DEF Linked
    <3> QED
      BY <2>2, <2>3
  <2> QED
    BY <2>1, <2>2, <2>4 DEF Opens
<1>8. CASE chip.type \in {"F0_F1_F3", "F1_XL"}
  <2> DEFINE s == <<Call("unlock"), CallOn("clear_PG", b), CallOn("set_PER", b), CallOn("select", u),
           CallOn("start", b), Call("wait"), CallOn("clear_PER", b), Call("lock")>>
  <2>1. EraseBody(u, l) = s
    BY <1>8 DEF EraseBody, BankOf
  <2>2. /\ Len(s) = 8 /\ s # <<>>
        /\ s[1].op = "unlock"
        /\ s[2].op = "clear_PG" /\ s[2].at = b
        /\ s[3].op = "set_PER" /\ s[3].at = b
        /\ s[4].op = "select" /\ s[4].at = u
        /\ s[5].op = "start" /\ s[5].at = b
        /\ s[6].op = "wait"
        /\ s[7].op = "clear_PER" /\ s[7].at = b
        /\ s[8].op = "lock"
    BY DEF Call, CallOn, Try
  <2> HIDE DEF s
  <2>3. \A i \in 2 .. 8 : i = 2 \/ i = 3 \/ i = 4 \/ i = 5 \/ i = 6 \/ i = 7 \/ i = 8
    OBVIOUS
  <2>4. Linked(s)
    <3> SUFFICES ASSUME NEW i \in 2 .. 8
                 PROVE  /\ s[i].op = "start" => s[i - 1].op = "select"
                         /\ s[i].at = BankOf(s[i - 1].at)
                        /\ s[i].op = "select" /\ chip.type \in PerFirst =>
                             s[i - 1].op = "set_PER" /\ s[i - 1].at = BankOf(s[i].at)
      BY <2>2 DEF Linked
    <3>1. BankOf(u) = b
      OBVIOUS
    <3>2. i # 4 /\ i # 5 => s[i].op # "start" /\ s[i].op # "select"
      BY <2>2, <2>3
    <3>3. CASE i = 4
      BY <1>8, <2>2, <3>1, <3>3 DEF PerFirst
    <3>4. CASE i = 5
      BY <2>2, <3>1, <3>4
    <3> QED
      BY <3>2, <3>3, <3>4
  <2> QED
    BY <2>1, <2>2, <2>4 DEF Opens
<1>9. CASE chip.type = "H7"
  <2> DEFINE s == <<Call("unlock"), CallOn("select", u), CallOn("start", b), Call("wait"),
           Call("lock")>>
  <2>1. EraseBody(u, l) = s
    BY <1>9 DEF EraseBody, BankOf
  <2>2. /\ Len(s) = 5 /\ s # <<>>
        /\ s[1].op = "unlock"
        /\ s[2].op = "select" /\ s[2].at = u
        /\ s[3].op = "start" /\ s[3].at = b
        /\ s[4].op = "wait"
        /\ s[5].op = "lock"
    BY DEF Call, CallOn, Try
  <2> HIDE DEF s
  <2>3. \A i \in 2 .. 5 : i = 2 \/ i = 3 \/ i = 4 \/ i = 5
    OBVIOUS
  <2>4. Linked(s)
    <3> SUFFICES ASSUME NEW i \in 2 .. 5
                 PROVE  /\ s[i].op = "start" => s[i - 1].op = "select"
                         /\ s[i].at = BankOf(s[i - 1].at)
                        /\ s[i].op = "select" /\ chip.type \in PerFirst =>
                             s[i - 1].op = "set_PER" /\ s[i - 1].at = BankOf(s[i].at)
      BY <2>2 DEF Linked
    <3>1. BankOf(u) = b
      OBVIOUS
    <3>2. i # 2 /\ i # 3 => s[i].op # "start" /\ s[i].op # "select"
      BY <2>2, <2>3
    <3>3. CASE i = 2
      BY <1>9, <2>2, <3>1, <3>3 DEF PerFirst
    <3>4. CASE i = 3
      BY <2>2, <3>1, <3>4
    <3> QED
      BY <3>2, <3>3, <3>4
  <2> QED
    BY <2>1, <2>2, <2>4 DEF Opens
<1> QED
  BY <1>1, <1>3, <1>4, <1>5, <1>6, <1>7, <1>8, <1>9 DEF Families

-----------------------------------------------------------------------------
(***************************************************************************)
(* stlink_write_flash, and the ends of the branches of main.               *)
(***************************************************************************)

Licit(s) == LabelsLast(s) /\ Linked(s) /\ Opens(s) /\ Guarded(s)

\* Lists that are in order, put together.
LEMMA LicitConcat ==
  ASSUME NEW s \in Seq(CallRec), NEW t \in Seq(CallRec), Licit(s), Licit(t),
         Unlabelled(s) \/ Harmless(t)
  PROVE  Licit(s \o t)
BY LabelsConcat, LinkedConcat, OpensConcat, GuardedConcat DEF Licit

\* The range is checked before anything else.
Begins(s) == s \in Seq(CallRec) /\ s # <<>> /\ s[1].op = "check_range"

\* A list that begins with the check still does when others follow.
LEMMA BeginsConcat ==
  ASSUME NEW s, Begins(s), NEW t \in Seq(CallRec)
  PROVE  Begins(s \o t)
<1>1. s \in Seq(CallRec) /\ Len(s) \in Nat /\ Len(s) # 0 /\ s[1].op = "check_range"
  BY LenProperties, EmptySeq DEF Begins
<1>2. /\ s \o t \in Seq(CallRec) /\ Len(s \o t) = Len(s) + Len(t) /\ Len(t) \in Nat
      /\ (s \o t)[1] = s[1]
  <2>1. 1 \in 1 .. Len(s)
    BY <1>1
  <2> QED
    BY <1>1, <2>1, ConcatAt
<1>3. s \o t # <<>>
  <2>1. Len(s \o t) # 0
    BY <1>1, <1>2
  <2> QED
    BY <2>1, EmptySeq
<1> QED
  BY <1>1, <1>2, <1>3 DEF Begins

\* ... so nothing in it touches the flash before the check.
LEMMA BeginsGuarded ==
  ASSUME NEW s, Begins(s)
  PROVE  Guarded(s)
<1>1. s \in Seq(CallRec) /\ s[1].op = "check_range"
  BY DEF Begins
<1>2. "check_range" \notin Harmful /\ "check_range" \in Checks
  BY DEF Harmful, PageOps, RangeOps, Checks
<1>3. Len(s) \in Nat
  BY <1>1, LenProperties
<1>4. ASSUME NEW i \in 1 .. Len(s), s[i].op \in Harmful
      PROVE  \E j \in 1 .. i - 1 : s[j].op \in Checks
  <2>1. 1 \in 1 .. i - 1
    BY <1>1, <1>2, <1>3, <1>4
  <2> QED
    BY <1>1, <1>2, <2>1
<1> QED
  BY <1>4 DEF Guarded

\* stlink_write_flash checks the range first, and has no way out inside.
LEMMA WriteFlashLicit ==
  ASSUME chip \in Chips, NEW k \in CommandLine, NEW l \in Labels, k.do = "write", k.len > 0
  PROVE  Licit(WriteFlash(k, l)) /\ Unlabelled(WriteFlash(k, l))
<1>1. WriteFlash(k, l) \in Seq(Inner(k, {l}, Quiet))
  BY WriteFlashIn
<1>2. /\ \A i \in 1 .. Len(WriteFlash(k, l)) : WriteFlash(k, l)[i].op \notin Quiet
      /\ WriteFlash(k, l) \in Seq(CallRec)
  BY <1>1, InnerPart DEF Part, Open
<1>3. /\ Unlabelled(WriteFlash(k, l)) /\ LabelsLast(WriteFlash(k, l))
      /\ Linked(WriteFlash(k, l)) /\ Opens(WriteFlash(k, l))
  BY <1>2, QuietIs
<1> DEFINE a == <<Over("check_range", k.addr, k.addr + k.len, l)>>
           b == IF k.mass THEN <<>> ELSE <<Over("erase_section", k.addr, k.addr + k.len, l)>>
           c == FlashloaderStart(l)
           d == <<Over("write", k.addr, k.addr + k.len, l), Try("check_errors", l)>>
           e == FlashloaderStop
           f == <<Over("verify", k.addr, k.addr + k.len, l)>>
<1>4. k.addr \in Nat /\ k.addr + k.len \in Nat
  BY DEF CommandLine
<1>5. /\ "check_range" \in Ops /\ "erase_section" \in Ops /\ "write" \in Ops /\ "verify" \in Ops
      /\ "check_errors" \in Ops
  BY DEF Ops, RangeOps, FreeOps, Refusals
<1>6. /\ Over("check_range", k.addr, k.addr + k.len, l) \in CallRec
      /\ Over("erase_section", k.addr, k.addr + k.len, l) \in CallRec
      /\ Over("write", k.addr, k.addr + k.len, l) \in CallRec
      /\ Over("verify", k.addr, k.addr + k.len, l) \in CallRec
      /\ Try("check_errors", l) \in CallRec
  BY <1>4, <1>5, CallsAreRecords
<1>7. Begins(a)
  <2>1. Over("check_range", k.addr, k.addr + k.len, l).op = "check_range"
    BY DEF Call, Try, TryOn, Over
  <2> QED
    BY <1>6, <2>1, OfMembers DEF Begins
<1>8. b \in Seq(CallRec) /\ d \in Seq(CallRec) /\ f \in Seq(CallRec)
  BY <1>6, OfMembers, EmptySeq
<1>9. c \in Seq(CallRec) /\ e \in Seq(CallRec)
  <2>1. c \in Seq(Inner(k, {l}, Quiet)) /\ e \in Seq(Inner(k, {l}, Quiet))
    BY FlashloaderStartIn, FlashloaderStopIn
  <2> HIDE DEF c, e
  <2> QED
    BY <2>1, InnerPart DEF Part, Open
<1> HIDE DEF a, b, c, d, e, f
<1>10. Begins(((((a \o b) \o c) \o d) \o e) \o f)
  <2>1. Begins((a \o b) \o c)
    BY <1>7, <1>8, <1>9, BeginsConcat
  <2> QED
    BY <1>8, <1>9, <2>1, BeginsConcat
<1>11. Begins(WriteFlash(k, l))
  BY <1>10 DEF WriteFlash, a, b, c, d, e, f
<1> QED
  BY <1>3, <1>11, BeginsGuarded DEF Licit

\* Calls that are not harmful are in order.
LEMMA InnerHarmless ==
  ASSUME NEW k, NEW L, NEW s \in Seq(Inner(k, L, Harmful))
  PROVE  /\ Harmless(s) /\ Licit(s) /\ s \in Seq(Fit(k)) /\ s \in Seq(CallRec) /\ Part(s, L)
<1>1. Part(s, L) /\ s \in Seq(Fit(k)) /\ \A i \in 1 .. Len(s) : s[i].op \notin Harmful
  BY InnerPart
<1>2. s \in Seq(CallRec)
  BY <1>1 DEF Part, Open
<1>3. Harmless(s)
  BY <1>1 DEF Harmless
<1> QED
  BY <1>1, <1>2, <1>3, HarmlessIs DEF Licit

\* The calls at the end of a branch of main.
LEMMA EndsAre ==
  ASSUME NEW k
  PROVE
  /\ <<Call("finalize"), Try("result", "leave")>> \in Seq(Inner(k, {"leave"}, Harmful))
  /\ Has(<<Call("finalize"), Try("result", "leave")>>, "finalize")
  /\ <<Try("result", "leave")>> \in Seq(Inner(k, {"leave"}, Harmful))
  /\ Has(<<Try("result", "leave")>>, "result")
  /\ <<Try("result", "leave"), Try("reset", "leave")>> \in Seq(Inner(k, {"leave"}, Harmful))
  /\ Has(<<Try("result", "leave"), Try("reset", "leave")>>, "result")
  /\ <<Try("reset", "leave"), Call("run")>> \in Seq(Inner(k, {"leave"}, Harmful))
  /\ <<Call("result")>> \in Seq(Inner(k, {"leave"}, Harmful)) /\ Has(<<Call("result")>>, "result")
<1> DEFINE S == Inner(k, {"leave"}, Harmful)
<1>1. /\ Call("finalize") \in S /\ Call("run") \in S /\ Call("result") \in S
      /\ Try("result", "leave") \in S /\ Try("reset", "leave") \in S
  BY InnerCalls, OpsAre DEF Labels
<1>2. /\ Call("finalize").op = "finalize" /\ Call("result").op = "result"
      /\ Try("result", "leave").op = "result"
  BY CallFields
<1> HIDE DEF S
<1>3. /\ <<Call("finalize"), Try("result", "leave")>> \in Seq(S)
      /\ <<Try("result", "leave")>> \in Seq(S) /\ <<Call("result")>> \in Seq(S)
      /\ <<Try("result", "leave"), Try("reset", "leave")>> \in Seq(S)
      /\ <<Try("reset", "leave"), Call("run")>> \in Seq(S)
  BY <1>1, OfMembers
<1>4. /\ Has(<<Call("finalize"), Try("result", "leave")>>, "finalize")
      /\ Has(<<Try("result", "leave")>>, "result") /\ Has(<<Call("result")>>, "result")
      /\ Has(<<Try("result", "leave"), Try("reset", "leave")>>, "result")
  BY <1>2, HasOf, Zenon
<1> QED
  BY <1>3, <1>4 DEF S

-----------------------------------------------------------------------------
(***************************************************************************)
(* The branches of main, and main.                                         *)
(***************************************************************************)

\* What a branch of main, or a part of it, is made of.
Fine(k, s, L) == Part(s, L) /\ s \in Seq(Fit(k)) /\ (~k.mass => Licit(s))

\* Fine lists, put together.
LEMMA FineConcat ==
  ASSUME NEW k, NEW s, NEW t, NEW L, NEW M, Fine(k, s, L), Fine(k, t, M),
         \A l \in L : l \in M \/ Has(t, l), k.mass \/ Unlabelled(s) \/ Harmless(t)
  PROVE  Fine(k, s \o t, M)
<1>1. Part(s \o t, M)
  BY PartConcat DEF Fine
<1>2. s \o t \in Seq(Fit(k))
  BY SeqConcat DEF Fine
<1>3. ~k.mass => Licit(s \o t)
  <2>1. s \in Seq(CallRec) /\ t \in Seq(CallRec)
    BY DEF Fine, Part, Open
  <2> QED
    BY <2>1, LicitConcat DEF Fine
<1> QED
  BY <1>1, <1>2, <1>3 DEF Fine

\* A fine list may lead to more than it does.
LEMMA FineMore ==
  ASSUME NEW k, NEW s, NEW L, NEW M, L \subseteq M, Fine(k, s, L)
  PROVE  Fine(k, s, M)
BY PartMore DEF Fine

\* Calls that are not harmful are fine.
LEMMA FineHarmless ==
  ASSUME NEW k, NEW L, NEW s \in Seq(Inner(k, L, Harmful))
  PROVE  Fine(k, s, L) /\ Harmless(s)
BY InnerHarmless DEF Fine

\* No calls are fine.
LEMMA FineEmpty == \A k, L : Fine(k, <<>>, L)
<1>1. \A k, L : <<>> \in Seq(Inner(k, L, Harmful))
  BY EmptySeq
<1> QED
  BY <1>1, FineHarmless

\* stlink_erase_flash_section alone checks its range itself.
LEMMA SectionLicit ==
  ASSUME NEW c \in CallRec, c.op = "erase_section"
  PROVE  Licit(<<c>>) /\ Unlabelled(<<c>>)
<1>1. PICK s : s = <<c>>
  OBVIOUS
<1>2. s \in Seq(CallRec) /\ Len(s) = 1 /\ s[1] = c
  BY <1>1, OfMembers
<1>3. \A i \in 1 .. 1 : i = 1
  OBVIOUS
<1>4. "erase_section" \notin Quiet /\ Labels \subseteq Quiet
  BY DEF Quiet, Labels
<1>5. \A i \in 1 .. Len(s) : s[i].op = "erase_section"
  BY <1>2, <1>3
<1>6. Unlabelled(s) /\ LabelsLast(s) /\ Linked(s) /\ Opens(s)
  BY <1>2, <1>4, <1>5, QuietIs
<1>7. Guarded(s)
  BY <1>5 DEF Guarded
<1> QED
  BY <1>1, <1>6, <1>7 DEF Licit

\* What main is asked to do: a write or an erase of a range is of one that is
\* not empty.
Asking(k) == /\ k \in CommandLine /\ k.do # "none"
             /\ k.do = "write" \/ (k.do = "erase" /\ ~k.mass) => k.len > 0

\* Every branch of main is fine, and leads to main's on_error.
LEMMA CommandIs ==
  ASSUME chip \in Chips, NEW k, Asking(k)
  PROVE  Fine(k, Command(k), {"leave"})
<1>0. k \in CommandLine /\ k.do # "none"
  BY DEF Asking
<1>1. "result" \in Labels /\ "finalize" \in Labels
  BY DEF Labels
<1>2. ASSUME k.mass, k.do \in {"write", "erase"}
      PROVE  Fine(k, EraseFlashMass("result"), {"result"})
  <2>1. EraseFlashMass("result") \in Seq(Inner(k, {"result"}, Labels))
    BY <1>0, <1>1, <1>2, EraseFlashMassIn
  <2> QED
    BY <1>2, <2>1, InnerPart DEF Fine
<1>3. CASE k.do = "write"
  <2> DEFINE X == IF k.mass THEN EraseFlashMass("result") \o <<Try("result", "leave")>> ELSE <<>>
             Y == WriteFlash(k, "finalize")
             Z == <<Call("finalize"), Try("result", "leave")>>
  <2>1. Fine(k, X, {"leave"}) /\ (~k.mass => Unlabelled(X))
    <3>1. CASE k.mass
      <4>1. Fine(k, <<Try("result", "leave")>>, {"leave"})
        BY EndsAre, FineHarmless
      <4> QED
        BY <1>2, <1>3, <3>1, <4>1, EndsAre, FineConcat
    <3>2. CASE ~k.mass
      <4>1. Unlabelled(<<>>)
        BY DEF Unlabelled
      <4> QED
        BY <3>2, <4>1, FineEmpty
    <3> QED
      BY <3>1, <3>2
  <2>2. Fine(k, X, {"leave", "finalize"})
    <3> HIDE DEF X
    <3> QED
      BY <2>1, FineMore
  <2>3. Fine(k, Y, {"leave", "finalize"}) /\ Unlabelled(Y)
    <3>1. Y \in Seq(Inner(k, {"finalize"}, Quiet)) /\ Licit(Y) /\ Unlabelled(Y)
      BY <1>0, <1>1, <1>3, WriteFlashIn, WriteFlashLicit DEF Asking
    <3> HIDE DEF Y
    <3>2. Fine(k, Y, {"finalize"})
      BY <3>1, InnerPart DEF Fine
    <3> QED
      BY <3>1, <3>2, FineMore
  <2>4. Fine(k, Z, {"leave"}) /\ Has(Z, "finalize") /\ Harmless(Z)
    BY EndsAre, FineHarmless
  <2> HIDE DEF X, Y, Z
  <2>5. Fine(k, X \o Y, {"leave", "finalize"})
    BY <2>1, <2>2, <2>3, FineConcat
  <2>6. Fine(k, (X \o Y) \o Z, {"leave"})
    BY <2>4, <2>5, FineConcat
  <2> QED
    BY <1>3, <2>6 DEF Command, X, Y, Z
<1>4. CASE k.do = "erase"
  <2> DEFINE X == IF k.mass THEN EraseFlashMass("result")
                  ELSE <<Over("erase_section", k.addr, k.addr + k.len, "result")>>
             Z == <<Try("result", "leave"), Try("reset", "leave")>>
  <2>1. Fine(k, X, {"result"})
    <3>1. CASE k.mass
      BY <1>2, <1>4, <3>1
    <3>2. CASE ~k.mass
      <4> DEFINE c == Over("erase_section", k.addr, k.addr + k.len, "result")
      <4>1. k.addr \in Nat /\ k.addr + k.len \in Nat /\ Within(k, k.addr)
              /\ "erase_section" \in RangeOps
        BY <1>0, <1>4, <3>2 DEF CommandLine, Asking, Within, RangeOps
      <4>2. c \in Inner(k, {"result"}, Labels)
        BY <1>1, <4>1, RangeCalls
      <4>3. c.op = "erase_section"
        BY DEF Call, Try, TryOn, Over
      <4> HIDE DEF c
      <4>4. <<c>> \in Seq(Inner(k, {"result"}, Labels))
        BY <4>2, OfMembers
      <4>5. c \in CallRec
        BY <4>2 DEF Inner, Fit
      <4>6. Fine(k, <<c>>, {"result"})
        BY <4>3, <4>4, <4>5, SectionLicit, InnerPart DEF Fine
      <4> QED
        BY <3>2, <4>6 DEF c
    <3> QED
      BY <3>1, <3>2
  <2>2. Fine(k, Z, {"leave"}) /\ Has(Z, "result") /\ Harmless(Z)
    BY EndsAre, FineHarmless
  <2> HIDE DEF X, Z
  <2>3. Fine(k, X \o Z, {"leave"})
    BY <2>1, <2>2, FineConcat
  <2> QED
    BY <1>4, <2>3 DEF Command, X, Z
<1>5. CASE k.do = "reset"
  <2>1. Fine(k, <<Try("reset", "leave"), Call("run")>>, {"leave"})
    BY EndsAre, FineHarmless
  <2> QED
    BY <1>5, <2>1 DEF Command
<1>6. ASSUME NEW l \in Labels, k.do \in OptionCommands
      PROVE  Fine(k, WriteOptions(k.do, l), {l})
  <2>1. /\ WriteOptions(k.do, l) \in Seq(Inner(k, {l, "relock"}, Harmful))
        /\ Part(WriteOptions(k.do, l), {l})
    BY <1>6, WriteOptionsPart
  <2> QED
    BY <2>1, InnerHarmless DEF Fine
<1>7. CASE k.do = "option_file"
  <2> DEFINE X == WriteOptions(k.do, "finalize")
             Z == <<Call("finalize"), Try("result", "leave")>>
  <2>1. Fine(k, X, {"finalize"})
    BY <1>1, <1>6, <1>7 DEF OptionCommands
  <2>2. Fine(k, Z, {"leave"}) /\ Has(Z, "finalize") /\ Harmless(Z)
    BY EndsAre, FineHarmless
  <2> HIDE DEF X, Z
  <2>3. Fine(k, X \o Z, {"leave"})
    BY <2>1, <2>2, FineConcat
  <2> QED
    BY <1>7, <2>3 DEF Command, X, Z
<1>8. CASE k.do \in {"option_bytes", "optcr", "optcr1"}
  <2> DEFINE X == WriteOptions(k.do, "result")
             Z == IF k.do = "option_bytes" THEN <<Try("result", "leave")>> ELSE <<Call("result")>>
  <2>1. Fine(k, X, {"result"})
    BY <1>1, <1>6, <1>8 DEF OptionCommands
  <2>2. Fine(k, Z, {"leave"}) /\ Has(Z, "result") /\ Harmless(Z)
    BY EndsAre, FineHarmless
  <2> HIDE DEF X, Z
  <2>3. Fine(k, X \o Z, {"leave"})
    BY <2>1, <2>2, FineConcat
  <2> QED
    BY <1>8, <2>3 DEF Command, X, Z
<1> QED
  BY <1>0, <1>3, <1>4, <1>5, <1>7, <1>8 DEF CommandLine

\* The chip is left at the end, and nowhere before.
LEMMA LeaveLastConcat ==
  ASSUME NEW s \in Seq(CallRec), NEW t \in Seq(CallRec), ~Has(s, "leave"), LeaveLast(t)
  PROVE  LeaveLast(s \o t)
<1>1. /\ s \o t \in Seq(CallRec)
      /\ Len(s \o t) = Len(s) + Len(t)
      /\ \A i \in 1 .. Len(s) + Len(t) :
           (s \o t)[i] = IF i <= Len(s) THEN s[i] ELSE t[i - Len(s)]
  BY ConcatProperties
<1>2. Len(s) \in Nat /\ Len(t) \in Nat /\ Len(t) > 0
  BY LenProperties DEF LeaveLast
<1>3. (s \o t)[Len(s) + Len(t)] = t[Len(t)]
  <2>1. /\ Len(s) + Len(t) \in 1 .. Len(s) + Len(t) /\ ~(Len(s) + Len(t) <= Len(s))
        /\ (Len(s) + Len(t)) - Len(s) = Len(t)
    BY <1>2
  <2> QED
    BY <1>1, <2>1
<1>4. ASSUME NEW i \in 1 .. Len(s) + Len(t) - 1 PROVE (s \o t)[i].op # "leave"
  <2>0. i \in 1 .. Len(s) + Len(t)
    BY <1>2
  <2>1. CASE i <= Len(s)
    <3>1. i \in 1 .. Len(s) /\ (s \o t)[i] = s[i]
      BY <1>1, <1>2, <2>0, <2>1
    <3> QED
      BY <3>1 DEF Has
  <2>2. CASE ~(i <= Len(s))
    <3>1. i - Len(s) \in 1 .. Len(t) - 1
      BY <1>2, <2>2
    <3>2. (s \o t)[i] = t[i - Len(s)]
      BY <1>1, <2>0, <2>2
    <3> QED
      BY <3>1, <3>2 DEF LeaveLast
  <2> QED
    BY <2>1, <2>2
<1>5. /\ Len(s \o t) > 0 /\ (s \o t)[Len(s \o t)] = t[Len(t)]
      /\ \A i \in 1 .. Len(s \o t) - 1 : (s \o t)[i].op # "leave"
  BY <1>1, <1>2, <1>3, <1>4
<1> DEFINE c == s \o t
<1>6. /\ Len(c) > 0 /\ c[Len(c)] = t[Len(t)]
      /\ \A i \in 1 .. Len(c) - 1 : c[i].op # "leave"
  BY <1>5
<1>7. t[Len(t)].op = "leave" /\ t[Len(t)].at = 0 /\ t[Len(t)].to = ""
  BY DEF LeaveLast
<1> HIDE DEF c
<1>8. LeaveLast(c)
  BY <1>6, <1>7 DEF LeaveLast
<1> QED
  BY <1>8 DEF c

\* The calls that end main, a signal, and the leaving of an unknown chip.
LEMMA LastsAre ==
  /\ LeaveLast(<<Call("run"), Call("succeed"), Call("leave")>>)
  /\ Open(<<Call("run"), Call("succeed"), Call("leave")>>, {})
  /\ LeaveLast(<<Call("run"), Call("leave")>>) /\ Open(<<Call("run"), Call("leave")>>, {})
  /\ Open(<<CallOn("leave", 1)>>, {})
  /\ \A k : /\ <<Call("run"), Call("succeed"), Call("leave")>> \in Seq(Fit(k))
             /\ <<Call("run"), Call("leave")>> \in Seq(Fit(k)) /\ <<CallOn("leave", 1)>>
                     \in Seq(Fit(k))
  /\ Harmless(<<Call("run"), Call("succeed"), Call("leave")>>)
  /\ Harmless(<<Call("run"), Call("leave")>>) /\ Harmless(<<CallOn("leave", 1)>>)
<1> DEFINE a == Call("run")
           b == Call("succeed")
           c == Call("leave")
           d == CallOn("leave", 1)
<1>1. a \in CallRec /\ b \in CallRec /\ c \in CallRec /\ d \in CallRec
  BY CallsAreRecords DEF Ops, FreeOps
<1>2. /\ a.op = "run" /\ b.op = "succeed" /\ c.op = "leave"
      /\ a.to = "" /\ b.to = "" /\ c.to = "" /\ d.to = "" /\ c.at = 0
  BY CallFields DEF CallOn, Call
<1>10. d.op = "leave" /\ "run" \in FreeOps /\ "succeed" \in FreeOps
  BY CallFields DEF FreeOps
<1> HIDE DEF a, b, c, d
<1>3. <<a, b, c>> \in Seq(CallRec) /\ <<a, c>> \in Seq(CallRec) /\ <<d>> \in Seq(CallRec)
  BY <1>1, OfMembers
<1>4. /\ Len(<<a, b, c>>) = 3
      /\ <<a, b, c>>[1] = a /\ <<a, b, c>>[2] = b /\ <<a, b, c>>[3] = c
  OBVIOUS
<1>5. /\ Len(<<a, c>>) = 2 /\ <<a, c>>[1] = a /\ <<a, c>>[2] = c
      /\ Len(<<d>>) = 1 /\ <<d>>[1] = d
  OBVIOUS
<1>6. LeaveLast(<<a, b, c>>) /\ Open(<<a, b, c>>, {})
  <2>1. PICK s : s = <<a, b, c>>
    OBVIOUS
  <2>2. s \in Seq(CallRec) /\ Len(s) = 3 /\ s[1] = a /\ s[2] = b /\ s[3] = c
    BY <1>3, <1>4, <2>1
  <2>3. /\ \A i \in 1 .. 3 : i = 1 \/ i = 2 \/ i = 3
        /\ \A i \in 1 .. 3 - 1 : i = 1 \/ i = 2
    OBVIOUS
  <2>4. \A i \in 1 .. Len(s) : s[i].to = ""
    BY <1>2, <2>2, <2>3
  <2>5. \A i \in 1 .. Len(s) - 1 : s[i].op # "leave"
    BY <1>2, <2>2, <2>3, Zenon
  <2>6. LeaveLast(s)
    <3>1. 3 > 0
      OBVIOUS
    <3> QED
      BY <1>2, <2>2, <2>5, <3>1, Zenon DEF LeaveLast
  <2>7. Open(s, {})
    BY <2>2, <2>4, Zenon DEF Open
  <2> QED
    BY <2>1, <2>6, <2>7
<1>7. LeaveLast(<<a, c>>) /\ Open(<<a, c>>, {})
  <2>1. PICK s : s = <<a, c>>
    OBVIOUS
  <2>2. s \in Seq(CallRec) /\ Len(s) = 2 /\ s[1] = a /\ s[2] = c
    BY <1>3, <1>5, <2>1
  <2>3. /\ \A i \in 1 .. 2 : i = 1 \/ i = 2
        /\ \A i \in 1 .. 2 - 1 : i = 1
    OBVIOUS
  <2>4. \A i \in 1 .. Len(s) : s[i].to = ""
    BY <1>2, <2>2, <2>3, Zenon
  <2>5. \A i \in 1 .. Len(s) - 1 : s[i].op # "leave"
    BY <1>2, <2>2, <2>3, Zenon
  <2>6. LeaveLast(s)
    <3>1. 2 > 0
      OBVIOUS
    <3> QED
      BY <1>2, <2>2, <2>5, <3>1, Zenon DEF LeaveLast
  <2>7. Open(s, {})
    BY <2>2, <2>4, Zenon DEF Open
  <2> QED
    BY <2>1, <2>6, <2>7
<1>8. Open(<<d>>, {})
  <2>1. PICK s : s = <<d>>
    OBVIOUS
  <2>2. s \in Seq(CallRec) /\ Len(s) = 1 /\ s[1] = d
    BY <1>3, <1>5, <2>1
  <2>3. \A i \in 1 .. 1 : i = 1
    OBVIOUS
  <2>4. \A i \in 1 .. Len(s) : s[i].to = ""
    BY <1>2, <2>2, <2>3, Zenon
  <2> QED
    BY <2>1, <2>2, <2>4, Zenon DEF Open
<1>9. ASSUME NEW k
      PROVE  <<a, b, c>> \in Seq(Fit(k)) /\ <<a, c>> \in Seq(Fit(k)) /\ <<d>> \in Seq(Fit(k))
  <2>1. a \in Fit(k) /\ b \in Fit(k) /\ c \in Fit(k) /\ d \in Fit(k)
    BY <1>1, <1>2, <1>10, FreeFits
  <2> QED
    BY <2>1, OfMembers
<1>11. Harmless(<<a, b, c>>) /\ Harmless(<<a, c>>) /\ Harmless(<<d>>)
  <2>1. a.op \notin Harmful /\ b.op \notin Harmful /\ c.op \notin Harmful /\ d.op \notin Harmful
    BY <1>2, <1>10 DEF Harmful, PageOps, RangeOps
  <2>2. /\ \A i \in 1 .. 3 : i = 1 \/ i = 2 \/ i = 3
        /\ \A i \in 1 .. 2 : i = 1 \/ i = 2
        /\ \A i \in 1 .. 1 : i = 1
    OBVIOUS
  <2>3. \A i \in 1 .. 3 : <<a, b, c>>[i].op \notin Harmful
    BY <1>4, <2>1, <2>2
  <2>4. \A i \in 1 .. 2 : <<a, c>>[i].op \notin Harmful
    BY <1>5, <2>1, <2>2
  <2> QED
    BY <1>4, <1>5, <2>1, <2>2, <2>3, <2>4, Zenon DEF Harmless
<1> QED
  BY <1>6, <1>7, <1>8, <1>9, <1>11 DEF a, b, c, d

\* main: what a command line has made, in order, with the leaving at the end.
LEMMA MainIs ==
  ASSUME chip \in Chips, NEW k, Asking(k), NEW again \in BOOLEAN
  PROVE  /\ Open(Main(k, again), {}) /\ LeaveLast(Main(k, again))
         /\ Main(k, again) \in Seq(Fit(k)) /\ (~k.mass => Licit(Main(k, again)))
<1> DEFINE A == <<Try("force_debug", "leave"), Try("status", "leave")>>
           B == Command(k)
           C == IF again THEN <<Call("reset")>> ELSE <<>>
           D == <<Call("run"), Call("succeed"), Call("leave")>>
<1>1. Fine(k, A, {"leave"}) /\ Unlabelled(A)
  <2>1. /\ Try("force_debug", "leave") \in Inner(k, {"leave"}, Harmful)
        /\ Try("status", "leave") \in Inner(k, {"leave"}, Harmful)
        /\ Try("force_debug", "leave") \in Inner(k, {"leave"}, Labels)
        /\ Try("status", "leave") \in Inner(k, {"leave"}, Labels)
    BY InnerCalls, OpsAre DEF Labels
  <2>2. A \in Seq(Inner(k, {"leave"}, Harmful)) /\ A \in Seq(Inner(k, {"leave"}, Labels))
    BY <2>1, OfMembers
  <2> HIDE DEF A
  <2> QED
    BY <2>2, FineHarmless, InnerPart DEF Unlabelled
<1>2. Fine(k, B, {"leave"})
  BY CommandIs
<1>3. Fine(k, C, {"leave"}) /\ Harmless(C)
  <2>1. Call("reset") \in Inner(k, {"leave"}, Harmful)
    BY InnerCalls, OpsAre
  <2>2. C \in Seq(Inner(k, {"leave"}, Harmful))
    BY <2>1, OfMembers, EmptySeq
  <2> QED
    BY <2>2, FineHarmless
<1>4. LeaveLast(D) /\ Open(D, {}) /\ D \in Seq(Fit(k)) /\ Harmless(D)
  BY LastsAre
<1>5. Has(D, "leave")
  <2>1. Len(D) = 3 /\ D[3] = Call("leave")
    OBVIOUS
  <2>2. Call("leave").op = "leave"
    BY CallFields
  <2> HIDE DEF D
  <2> QED
    BY <2>1, <2>2 DEF Has
<1> HIDE DEF A, B, C, D
<1>6. Fine(k, (A \o B) \o C, {"leave"})
  <2>1. Fine(k, A \o B, {"leave"})
    BY <1>1, <1>2, FineConcat
  <2> QED
    BY <1>3, <2>1, FineConcat
<1> DEFINE E == (A \o B) \o C
<1>7. Part(E, {"leave"}) /\ E \in Seq(Fit(k)) /\ (~k.mass => Licit(E))
  BY <1>6 DEF Fine
<1>8. E \in Seq(CallRec) /\ D \in Seq(CallRec)
  BY <1>4, <1>7 DEF Part, Open
<1> HIDE DEF E
<1>9. Open(E \o D, {})
  BY <1>4, <1>5, <1>7, OpenConcat DEF Part
<1>10. LeaveLast(E \o D)
  BY <1>4, <1>7, <1>8, LeaveLastConcat DEF Part
<1>11. E \o D \in Seq(Fit(k))
  BY <1>4, <1>7, SeqConcat
<1>12. ~k.mass => Licit(E \o D)
  BY <1>4, <1>7, <1>8, HarmlessIs, LicitConcat DEF Licit
<1> QED
  BY <1>9, <1>10, <1>11, <1>12 DEF Main, A, B, C, D, E

-----------------------------------------------------------------------------
(***************************************************************************)
(* The controller, and its helpers.                                        *)
(***************************************************************************)

\* A controller, as its registers and its memory may be.
Controller(c) ==
  [cr : [Bank -> SUBSET Bits], sr : SUBSET Bank, sel : [Bank -> [bk : {0, 1}, n : Nat]],
   job : [Bank -> SUBSET Pages(c)], mem : [Pages(c) -> {"old", "blank", "new", "mixed"}],
   opt : {"old", "blank", "new", "mixed"}, optlock : BOOLEAN, dma : BOOLEAN, masked : BOOLEAN,
   halted : BOOLEAN, debug : BOOLEAN, catches : SUBSET {"reset", "fault"}]

Exchange == [read : BOOLEAN, write : BOOLEAN, junk : SUBSET Bits]

\* The bits of a control register.
LEMMA BitsAre == "LOCK" \in Bits /\ "PRGLOCK" \in Bits /\ "PG" \in Bits /\ "PER" \in Bits
        /\ "MER" \in Bits
BY DEF Bits

\* What the exchanges of a call may be.
LEMMA ExchangesAre ==
  /\ Either \subseteq Exchange /\ Reads \subseteq Either /\ Writes \subseteq Either
  /\ \A l \in Either : l.read /\ l.write <=> l = Good
  /\ \A l \in Reads : l.write
  /\ \A l \in Writes : l.read
  /\ Good \in Either
<1>1. \A g \in Garbage : Unread(g) \in Exchange /\ Unread(g).write /\ ~Unread(g).read
  BY GarbageIsBits DEF Unread, Exchange
<1>2. Good \in Exchange /\ Good.read /\ Good.write /\ Unwritten \in Exchange /\ Unwritten.read
        /\ ~Unwritten.write
  BY DEF Good, Unwritten, Exchange
<1> QED
  BY <1>1, <1>2 DEF Either, Reads, Writes, Unheard

\* stlink_write_debug32 to a control register makes a controller of one.
LEMMA WriteCrType ==
  ASSUME NEW c \in Chips, NEW t \in Controller(c), NEW b \in Bank, NEW bits \in SUBSET Bits, NEW l
  PROVE  WriteCr(c, t, b, bits, l) \in Controller(c)
<1>1. Reg(c, b) \in Bank
  BY DEF Reg, Bank
<1> QED
  BY <1>1 DEF WriteCr, Controller

\* A register that was read, or junk, is a set of bits.
LEMMA ReadCrType ==
  ASSUME NEW c \in Chips, NEW t \in Controller(c), NEW b \in Bank, NEW l \in Exchange
  PROVE  ReadCr(c, t, b, l) \in SUBSET Bits
<1>1. Reg(c, b) \in Bank
  BY DEF Reg, Bank
<1> QED
  BY <1>1 DEF ReadCr, Controller, Exchange

\* Naming a page makes a controller of one.
LEMMA SelectType ==
  ASSUME NEW c \in Chips, NEW t \in Controller(c), NEW b \in Bank, NEW bits \in SUBSET Bits, NEW l,
         NEW bk \in {0, 1}, NEW n \in Nat
  PROVE  Select(c, t, b, bits, bk, n, l) \in Controller(c)
<1>1. Reg(c, b) \in Bank
  BY DEF Reg, Bank
<1> QED
  BY <1>1 DEF Select, Controller

\* Beginning to erase makes a controller of one.
LEMMA BeginEraseType ==
  ASSUME NEW c \in Chips, NEW t \in Controller(c), NEW b \in Bank
  PROVE  BeginErase(c, t, b) \in Controller(c)
<1>1. Erases(c, t, b) \subseteq Pages(c)
  BY DEF Erases, Named, MassErases
<1> QED
  BY <1>1 DEF BeginErase, Controller

\* So does every helper of common_flash.c that writes a register.
LEMMA HelperTypes ==
  ASSUME NEW c \in Chips, NEW t \in Controller(c), NEW b \in Bank, NEW l \in Exchange
  PROVE  /\ ClearFlashError(c, t, l) \in Controller(c)
         /\ UnlockFlashIf(c, t, l) \in Controller(c)
         /\ LockFlash(c, t, l) \in Controller(c)
         /\ UnlockFlashOptionIf(c, t, l) \in Controller(c)
         /\ LockFlashOption(c, t, l) \in Controller(c)
         /\ SetFlashCrStrt(c, t, b, l) \in Controller(c)
         /\ ClearFlashCrPg(c, t, b, l) \in Controller(c)
         /\ SetFlashCrPg(c, t, b, l) \in Controller(c)
         /\ SetFlashCrPer(c, t, b, l) \in Controller(c)
         /\ ClearFlashCrPer(c, t, b, l) \in Controller(c)
         /\ \A on \in BOOLEAN : SetFlashCrMer(c, t, on, b, l) \in Controller(c)
<1>1. ReadCr(c, t, b, l) \in SUBSET Bits
  BY ReadCrType
<1>2. 1 \in Bank /\ 2 \in Bank /\ Reg(c, b) \in Bank
  BY DEF Bank, Reg
<1>3. ClearFlashError(c, t, l) \in Controller(c)
  BY DEF ClearFlashError, Controller
<1>4. UnlockFlashIf(c, t, l) \in Controller(c)
  BY DEF UnlockFlashIf, UnlockFlash, Controller
<1>5. LockFlash(c, t, l) \in Controller(c)
  <2> DEFINE bits == ((IF l.read THEN t.cr[1] ELSE {})
                       \ (IF c.type = "H7" THEN {"PER"} ELSE {})) \cup {"LOCK"}
             one == WriteCr(c, t, 1, bits, l)
  <2>1. bits \in SUBSET Bits
    BY <1>2, BitsAre DEF Controller
  <2> HIDE DEF bits
  <2>2. one \in Controller(c)
    BY <1>2, <2>1, WriteCrType
  <2> HIDE DEF one
  <2>3. ReadCr(c, one, 2, l) \cup {"LOCK"} \in SUBSET Bits
    BY <1>2, <2>2, ReadCrType, BitsAre
  <2>4. WriteCr(c, one, 2, ReadCr(c, one, 2, l) \cup {"LOCK"}, l) \in Controller(c)
    BY <1>2, <2>2, <2>3, WriteCrType
  <2> QED
    BY <2>2, <2>4 DEF LockFlash, one, bits
<1>6. UnlockFlashOptionIf(c, t, l) \in Controller(c)
  BY DEF UnlockFlashOptionIf, UnlockFlashOption, Controller
<1>7. LockFlashOption(c, t, l) \in Controller(c)
  BY DEF LockFlashOption, Controller
<1>8. SetFlashCrStrt(c, t, b, l) \in Controller(c)
  <2>1. WriteCr(c, t, b, ReadCr(c, t, b, l), l) \in Controller(c)
    BY <1>1, WriteCrType
  <2> QED
    BY <1>2, <2>1, BeginEraseType DEF SetFlashCrStrt, StartSelected
<1>9. ClearFlashCrPg(c, t, b, l) \in Controller(c)
  <2>1. ReadCr(c, t, b, l) \ {"PG"} \in SUBSET Bits
    BY <1>1
  <2> QED
    BY <1>2, <2>1, WriteCrType DEF ClearFlashCrPg
<1>10. SetFlashCrPg(c, t, b, l) \in Controller(c)
  <2>1. (IF c.type \in {"F0_F1_F3", "F1_XL"} THEN {} ELSE ReadCr(c, t, b,
          l)) \cup {"PG"} \in SUBSET Bits
    BY <1>1, BitsAre
  <2> QED
    BY <1>2, <2>1, WriteCrType DEF SetFlashCrPg
<1>11. SetFlashCrPer(c, t, b, l) \in Controller(c) /\ ClearFlashCrPer(c, t, b, l) \in Controller(c)
  BY <1>1, WriteCrType, BitsAre DEF SetFlashCrPer, ClearFlashCrPer
<1>12. ASSUME NEW on \in BOOLEAN PROVE SetFlashCrMer(c, t, on, b, l) \in Controller(c)
  <2> DEFINE val == ReadCr(c, t, b, l)
             bare == val \ {"PG"}
             one == IF "PG" \in val THEN WriteCr(c, t, b, bare, l) ELSE t
             bits == IF on THEN bare \cup {"MER"} ELSE bare \ {"MER"}
  <2>1. bare \in SUBSET Bits /\ bits \in SUBSET Bits
    BY <1>1, BitsAre
  <2>2. one \in Controller(c)
    BY <2>1, WriteCrType
  <2> HIDE DEF bits, one
  <2>3. WriteCr(c, one, b, bits, l) \in Controller(c)
    BY <2>1, <2>2, WriteCrType
  <2> QED
    BY <2>3 DEF SetFlashCrMer, bits, one
<1> QED
  BY <1>3, <1>4, <1>5, <1>6, <1>7, <1>8, <1>9, <1>10, <1>11, <1>12

\* Page and sector numbers are numbers.
LEMMA SectorsAreNat ==
  /\ \A u \in Nat : /\ SectorF4(u) \in Nat /\ SectorF7(u) \in Nat /\ u \div 2 \in Nat
                    /\ u \div 4 \in Nat /\ (u \div 2) % 2 \in Nat
  /\ \A c : Half(c) \in Nat
  /\ \A c, u : u \in Nat /\ UpperHalf(c, u) => u - Half(c) \in Nat
<1>1. \A n \in Nat : /\ n \div 2 \in Nat /\ n \div 4 \in Nat /\ n \div 8 \in Nat /\ n \div 16 \in Nat
                     /\ n % 2 \in Nat
  OBVIOUS
<1>2. ASSUME NEW u \in Nat PROVE SectorF4(u) \in Nat /\ SectorF7(u) \in Nat
  BY <1>1 DEF SectorF4, SectorF7
<1>3. \A c : FlashSize(c) \in Nat
  BY DEF FlashSize
<1>4. \A c : Half(c) \in Nat
  BY <1>1, <1>3 DEF Half
<1> QED
  BY <1>1, <1>2, <1>4 DEF UpperHalf

\* The pages of the four kinds of chip.
LEMMA PagesAre ==
  ASSUME NEW c
  PROVE  /\ ~IsUneven(c) =>
              /\ Pages(c) = 0 .. 3 /\ FlashSize(c) = 8
              /\ \A q \in 0 .. 3 : FirstUnit(c, q) = 2 * q /\ Extent(c, q) = 2
         /\ IsUneven(c) /\ c.dual =>
              /\ Pages(c) = 0 .. 23 /\ FlashSize(c) = 128
              /\ \A q \in 0 .. 4 : FirstUnit(c, q) = q
              /\ \A q \in 5 .. 11 : FirstUnit(c, q) = 8 * (q - 4)
              /\ \A q \in 12 .. 16 : FirstUnit(c, q) = 52 + q
              /\ \A q \in 17 .. 23 : FirstUnit(c, q) = 64 + 8 * (q - 16)
         /\ IsUneven(c) /\ ~c.dual /\ ~Twice(c) =>
              /\ Pages(c) = 0 .. 11 /\ FlashSize(c) = 64
              /\ \A q \in 0 .. 4 : FirstUnit(c, q) = q
              /\ \A q \in 5 .. 11 : FirstUnit(c, q) = 8 * (q - 4)
         /\ IsUneven(c) /\ ~c.dual /\ Twice(c) =>
              /\ Pages(c) = 0 .. 11 /\ FlashSize(c) = 128
              /\ \A q \in 0 .. 4 : FirstUnit(c, q) = 2 * q
              /\ \A q \in 5 .. 11 : FirstUnit(c, q) = 16 * (q - 4)
<1>1. CASE ~IsUneven(c)
  BY <1>1 DEF Pages, FlashSize, FirstUnit, Extent
<1>2. CASE IsUneven(c) /\ c.dual
  BY <1>2 DEF Pages, FlashSize, FirstUnit
<1>3. CASE IsUneven(c) /\ ~c.dual
  BY <1>3 DEF Pages, FlashSize, FirstUnit
<1> QED
  BY <1>1, <1>2, <1>3

\* Their lengths.
LEMMA ExtentsAre ==
  ASSUME NEW c
  PROVE  /\ IsUneven(c) /\ c.dual =>
              /\ \A q \in 0 .. 3 : Extent(c, q) = 1
              /\ Extent(c, 4) = 4
              /\ \A q \in 5 .. 11 : Extent(c, q) = 8
              /\ \A q \in 12 .. 15 : Extent(c, q) = 1
              /\ Extent(c, 16) = 4
              /\ \A q \in 17 .. 23 : Extent(c, q) = 8
         /\ IsUneven(c) /\ ~c.dual /\ ~Twice(c) =>
              /\ \A q \in 0 .. 3 : Extent(c, q) = 1
              /\ Extent(c, 4) = 4
              /\ \A q \in 5 .. 11 : Extent(c, q) = 8
         /\ IsUneven(c) /\ ~c.dual /\ Twice(c) =>
              /\ \A q \in 0 .. 3 : Extent(c, q) = 2
              /\ Extent(c, 4) = 8
              /\ \A q \in 5 .. 11 : Extent(c, q) = 16
<1>1. \A q \in 0 .. 23 : q % 12 = IF q < 12 THEN q ELSE q - 12
  OBVIOUS
<1>2. CASE IsUneven(c) /\ c.dual
  BY <1>1, <1>2 DEF Extent
<1>3. CASE IsUneven(c) /\ ~c.dual
  BY <1>1, <1>3 DEF Extent
<1> QED
  BY <1>2, <1>3

\* Every address has a page: the last that begins at it or before.
LEMMA PageIs ==
  ASSUME NEW c \in Chips, NEW u \in Nat
  PROVE  /\ PageAt(c, u) \in Pages(c)
         /\ FirstUnit(c, PageAt(c, u)) <= u
         /\ PageAt(c, u) + 1 \in Pages(c) => u < FirstUnit(c, PageAt(c, u) + 1)
<1> DEFINE P(p) == /\ FirstUnit(c, p) <= u
                   /\ p + 1 \in Pages(c) => u < FirstUnit(c, p + 1)
<1>1. \E p \in Pages(c) : P(p)
  <2>1. CASE IsUneven(c) /\ c.dual
    <3>1. Pages(c) = 0 .. 23
      BY <2>1, PagesAre
    <3>2. /\ \A p \in 0 .. 4 : FirstUnit(c, p) = p
          /\ \A p \in 5 .. 11 : FirstUnit(c, p) = 8 * (p - 4)
          /\ \A p \in 12 .. 16 : FirstUnit(c, p) = 52 + p
          /\ \A p \in 17 .. 23 : FirstUnit(c, p) = 64 + 8 * (p - 16)
      BY <2>1, PagesAre
    <3>3. CASE u < 4
      <4>1. u \in 0 .. 23 /\ P(u)
        BY <3>1, <3>2, <3>3
      <4> QED
        BY <3>1, <4>1
    <3>4. CASE u >= 4 /\ u < 8
      <4>1. P(4)
        BY <3>1, <3>2, <3>4
      <4> QED
        BY <3>1, <4>1
    <3>5. CASE u >= 8 /\ u < 64
      <4>1. u \div 8 \in 1 .. 7 /\ 8 * (u \div 8) <= u /\ u < 8 * (u \div 8) + 8
        BY <3>5
      <4>2. PICK q \in 1 .. 7 : 8 * q <= u /\ u < 8 * q + 8
        BY <4>1
      <4>3. P(q + 4)
        BY <3>1, <3>2, <4>2
      <4> QED
        BY <3>1, <4>2, <4>3
    <3>6. CASE u >= 64 /\ u < 68
      <4>1. u - 52 \in 12 .. 15 /\ P(u - 52)
        BY <3>1, <3>2, <3>6
      <4> QED
        BY <3>1, <4>1
    <3>7. CASE u >= 68 /\ u < 72
      <4>1. P(16)
        BY <3>1, <3>2, <3>7
      <4> QED
        BY <3>1, <4>1
    <3>8. CASE u >= 72 /\ u < 128
      <4>1. u \div 8 \in 9 .. 15 /\ 8 * (u \div 8) <= u /\ u < 8 * (u \div 8) + 8
        BY <3>8
      <4>2. PICK q \in 9 .. 15 : 8 * q <= u /\ u < 8 * q + 8
        BY <4>1
      <4>3. P(q + 8)
        BY <3>1, <3>2, <4>2
      <4> QED
        BY <3>1, <4>2, <4>3
    <3>9. CASE u >= 128
      <4>1. P(23)
        BY <3>1, <3>2, <3>9
      <4> QED
        BY <3>1, <4>1
    <3> QED
      BY <3>3, <3>4, <3>5, <3>6, <3>7, <3>8, <3>9
  <2>2. CASE IsUneven(c) /\ ~c.dual
    <3>1. Pages(c) = 0 .. 11
      BY <2>2, PagesAre
    <3>2. PICK m \in {1, 2} :
            /\ \A p \in 0 .. 4 : FirstUnit(c, p) = m * p
            /\ \A p \in 5 .. 11 : FirstUnit(c, p) = 8 * m * (p - 4)
      <4>1. CASE Twice(c)
        BY <2>2, <4>1, PagesAre
      <4>2. CASE ~Twice(c)
        BY <2>2, <4>2, PagesAre
      <4> QED
        BY <4>1, <4>2
    <3>3. PICK v \in Nat : m * v <= u /\ u < m * (v + 1)
      <4>1. CASE m = 1
        BY <4>1
      <4>2. CASE m = 2
        <5>1. u \div 2 \in Nat /\ 2 * (u \div 2) <= u /\ u < 2 * ((u \div 2) + 1)
          OBVIOUS
        <5> QED
          BY <4>2, <5>1
      <4> QED
        BY <4>1, <4>2
    <3>4. CASE v < 4
      <4>1. v \in 0 .. 11 /\ v + 1 \in 0 .. 4 /\ P(v)
        BY <3>1, <3>2, <3>3, <3>4
      <4> QED
        BY <3>1, <4>1
    <3>5. CASE v >= 4 /\ v < 8
      <4>1. P(4)
        BY <3>1, <3>2, <3>3, <3>5
      <4> QED
        BY <3>1, <4>1
    <3>6. CASE v >= 8 /\ v < 64
      <4>1. v \div 8 \in 1 .. 7 /\ 8 * (v \div 8) <= v /\ v < 8 * (v \div 8) + 8
        BY <3>6
      <4>2. PICK q \in 1 .. 7 : 8 * q <= v /\ v < 8 * q + 8
        BY <4>1
      <4>3. P(q + 4)
        <5>1. CASE m = 1
          BY <3>1, <3>2, <3>3, <4>2, <5>1
        <5>2. CASE m = 2
          BY <3>1, <3>2, <3>3, <4>2, <5>2
        <5> QED
          BY <5>1, <5>2
      <4> QED
        BY <3>1, <4>2, <4>3
    <3>7. CASE v >= 64
      <4>1. P(11)
        BY <3>1, <3>2, <3>3, <3>7
      <4> QED
        BY <3>1, <4>1
    <3> QED
      BY <3>4, <3>5, <3>6, <3>7
  <2>3. CASE ~IsUneven(c)
    <3>1. Pages(c) = 0 .. 3
      BY <2>3, PagesAre
    <3>2. \A p \in 0 .. 3 : FirstUnit(c, p) = 2 * p
      BY <2>3, PagesAre
    <3>3. CASE u < 8
      <4>1. u \div 2 \in 0 .. 3 /\ 2 * (u \div 2) <= u /\ u < 2 * (u \div 2) + 2
        BY <3>3
      <4>2. PICK q \in 0 .. 3 : 2 * q <= u /\ u < 2 * q + 2
        BY <4>1
      <4>3. P(q)
        BY <3>1, <3>2, <4>2
      <4> QED
        BY <3>1, <4>2, <4>3
    <3>4. CASE u >= 8
      <4>1. P(3)
        BY <3>1, <3>2, <3>4
      <4> QED
        BY <3>1, <4>1
    <3> QED
      BY <3>3, <3>4
  <2> QED
    BY <2>1, <2>2, <2>3
<1>2. PageAt(c, u) = CHOOSE p \in Pages(c) : P(p)
  BY DEF PageAt
<1> HIDE DEF P
<1>3. PageAt(c, u) \in Pages(c) /\ P(PageAt(c, u))
  BY <1>1, <1>2
<1> QED
  BY <1>3 DEF P

-----------------------------------------------------------------------------
(***************************************************************************)
(* Pages, as calculate.c numbers them.                                     *)
(***************************************************************************)

\* The number of the page at u, as the code of each family computes it.
PageNumber(c, u) == IF Twice(c) THEN SectorF7(u)
                    ELSE IF IsUneven(c) THEN SectorF4(u) ELSE u \div 2

\* The number that the code of a family computes for an address is its page's,
\* but on an F7 of two banks.
LEMMA PageNumbers ==
  ASSUME NEW c \in Chips, NEW u \in Nat, u < FlashSize(c), c.type = "F7" => ~c.dual
  PROVE  PageAt(c, u) = PageNumber(c, u)
<1> DEFINE p == PageAt(c, u)
<1>1. /\ p \in Pages(c) /\ FirstUnit(c, p) <= u
      /\ p + 1 \in Pages(c) => u < FirstUnit(c, p + 1)
  BY PageIs
<1>0. Twice(c) => IsUneven(c) /\ ~c.dual
  BY DEF Twice, IsUneven
<1> HIDE DEF p
<1>2. CASE IsUneven(c) /\ ~Twice(c)
  <2>1. ASSUME c.dual PROVE p = SectorF4(u)
    <3>1. Pages(c) = 0 .. 23 /\ u < 128
      BY <1>2, <2>1, PagesAre
    <3>2. /\ \A q \in 0 .. 4 : FirstUnit(c, q) = q
          /\ \A q \in 5 .. 11 : FirstUnit(c, q) = 8 * (q - 4)
          /\ \A q \in 12 .. 16 : FirstUnit(c, q) = 52 + q
          /\ \A q \in 17 .. 23 : FirstUnit(c, q) = 64 + 8 * (q - 16)
      BY <1>2, <2>1, PagesAre
    <3>3. ASSUME p \in 0 .. 3 PROVE p = SectorF4(u)
      <4>1. u = p
        BY <1>1, <3>1, <3>2, <3>3
      <4> QED
        BY <3>3, <4>1 DEF SectorF4
    <3>4. ASSUME p = 4 PROVE p = SectorF4(u)
      <4>1. 4 <= u /\ u < 8
        BY <1>1, <3>1, <3>2, <3>4
      <4> QED
        BY <3>4, <4>1 DEF SectorF4
    <3>5. ASSUME p \in 5 .. 11 PROVE p = SectorF4(u)
      <4>1. 8 * (p - 4) <= u /\ u < 8 * (p - 4) + 8
        BY <1>1, <3>1, <3>2, <3>5
      <4>2. u \div 8 = p - 4 /\ ~(u < 8) /\ ~(u >= 64)
        BY <3>5, <4>1
      <4> QED
        BY <3>5, <4>2 DEF SectorF4
    <3>6. ASSUME p \in 12 .. 15 PROVE p = SectorF4(u)
      <4>1. u = 52 + p
        BY <1>1, <3>1, <3>2, <3>6
      <4> QED
        BY <3>6, <4>1 DEF SectorF4
    <3>7. ASSUME p = 16 PROVE p = SectorF4(u)
      <4>1. 68 <= u /\ u < 72
        BY <1>1, <3>1, <3>2, <3>7
      <4> QED
        BY <3>7, <4>1 DEF SectorF4
    <3>8. ASSUME p \in 17 .. 23 PROVE p = SectorF4(u)
      <4>1. 64 + 8 * (p - 16) <= u /\ u < 64 + 8 * (p - 16) + 8
        BY <1>1, <3>1, <3>2, <3>8
      <4>2. (u - 64) \div 8 = p - 16 /\ u >= 64 /\ ~(u - 64 < 8)
        BY <3>8, <4>1
      <4> QED
        BY <3>8, <4>2 DEF SectorF4
    <3> QED
      BY <1>1, <3>1, <3>3, <3>4, <3>5, <3>6, <3>7, <3>8
  <2>2. ASSUME ~c.dual PROVE p = SectorF4(u)
    <3>1. Pages(c) = 0 .. 11 /\ u < 64
      BY <1>2, <2>2, PagesAre
    <3>2. /\ \A q \in 0 .. 4 : FirstUnit(c, q) = q
          /\ \A q \in 5 .. 11 : FirstUnit(c, q) = 8 * (q - 4)
      BY <1>2, <2>2, PagesAre
    <3>3. ASSUME p \in 0 .. 3 PROVE p = SectorF4(u)
      <4>1. u = p
        BY <1>1, <3>1, <3>2, <3>3
      <4> QED
        BY <3>3, <4>1 DEF SectorF4
    <3>4. ASSUME p = 4 PROVE p = SectorF4(u)
      <4>1. 4 <= u /\ u < 8
        BY <1>1, <3>1, <3>2, <3>4
      <4> QED
        BY <3>4, <4>1 DEF SectorF4
    <3>5. ASSUME p \in 5 .. 11 PROVE p = SectorF4(u)
      <4>1. 8 * (p - 4) <= u /\ u < 8 * (p - 4) + 8
        BY <1>1, <3>1, <3>2, <3>5
      <4>2. u \div 8 = p - 4 /\ ~(u < 8) /\ ~(u >= 64)
        BY <3>1, <3>5, <4>1
      <4> QED
        BY <3>5, <4>2 DEF SectorF4
    <3> QED
      BY <1>1, <3>1, <3>3, <3>4, <3>5
  <2>3. p = SectorF4(u)
    BY <2>1, <2>2
  <2> QED
    BY <1>2, <2>3 DEF PageNumber, p
<1>3. CASE Twice(c)
  <2>1. Pages(c) = 0 .. 11 /\ u < 128
    BY <1>0, <1>3, PagesAre
  <2>2. /\ \A q \in 0 .. 4 : FirstUnit(c, q) = 2 * q
        /\ \A q \in 5 .. 11 : FirstUnit(c, q) = 16 * (q - 4)
    BY <1>0, <1>3, PagesAre
  <2>3. ASSUME p \in 0 .. 3 PROVE p = SectorF7(u)
    <3>1. 2 * p <= u /\ u < 2 * p + 2
      BY <1>1, <2>1, <2>2, <2>3
    <3>2. u \div 2 = p /\ u < 8
      BY <2>3, <3>1
    <3> QED
      BY <2>3, <3>2 DEF SectorF7
  <2>4. ASSUME p = 4 PROVE p = SectorF7(u)
    <3>1. 8 <= u /\ u < 16
      BY <1>1, <2>1, <2>2, <2>4
    <3> QED
      BY <2>4, <3>1 DEF SectorF7
  <2>5. ASSUME p \in 5 .. 11 PROVE p = SectorF7(u)
    <3>1. 16 * (p - 4) <= u /\ u < 16 * (p - 4) + 16
      BY <1>1, <2>1, <2>2, <2>5
    <3>2. u \div 16 = p - 4 /\ ~(u < 16) /\ ~(u < 8)
      BY <2>5, <3>1
    <3> QED
      BY <2>5, <3>2 DEF SectorF7
  <2>6. p = SectorF7(u)
    BY <1>1, <2>1, <2>3, <2>4, <2>5
  <2> QED
    BY <1>3, <2>6 DEF PageNumber, p
<1>4. CASE ~IsUneven(c)
  <2>1. Pages(c) = 0 .. 3 /\ u < 8
    BY <1>4, PagesAre
  <2>2. \A q \in 0 .. 3 : FirstUnit(c, q) = 2 * q
    BY <1>4, PagesAre
  <2>3. 2 * p <= u /\ u < 2 * p + 2 /\ p \in 0 .. 3
    BY <1>1, <2>1, <2>2
  <2>4. u \div 2 = p
    BY <2>3
  <2> QED
    BY <1>0, <1>4, <2>4 DEF PageNumber, p
<1> QED
  BY <1>2, <1>3, <1>4

\* Pages are not empty.
LEMMA PageSizes ==
  ASSUME NEW c \in Chips, NEW u \in Nat
  PROVE  PageSize(c, u) \in Nat /\ PageSize(c, u) > 0
BY DEF PageSize

\* Pages follow one another to the end of the flash.
LEMMA PagesJoin ==
  ASSUME NEW c, NEW p \in Pages(c)
  PROVE  /\ FirstUnit(c, p) \in Nat /\ Extent(c, p) \in Nat /\ Extent(c, p) > 0
         /\ FirstUnit(c, p) + Extent(c, p)
              = IF p + 1 \in Pages(c) THEN FirstUnit(c, p + 1) ELSE FlashSize(c)
<1>1. CASE ~IsUneven(c)
  <2>1. /\ Pages(c) = 0 .. 3 /\ FlashSize(c) = 8
        /\ \A q \in 0 .. 3 : FirstUnit(c, q) = 2 * q /\ Extent(c, q) = 2
    BY <1>1, PagesAre
  <2> QED
    BY <2>1
<1>2. CASE IsUneven(c) /\ c.dual
  <2>1. /\ Pages(c) = 0 .. 23 /\ FlashSize(c) = 128
        /\ \A q \in 0 .. 4 : FirstUnit(c, q) = q
        /\ \A q \in 5 .. 11 : FirstUnit(c, q) = 8 * (q - 4)
        /\ \A q \in 12 .. 16 : FirstUnit(c, q) = 52 + q
        /\ \A q \in 17 .. 23 : FirstUnit(c, q) = 64 + 8 * (q - 16)
    BY <1>2, PagesAre
  <2>2. /\ \A q \in 0 .. 3 : Extent(c, q) = 1
        /\ Extent(c, 4) = 4
        /\ \A q \in 5 .. 11 : Extent(c, q) = 8
        /\ \A q \in 12 .. 15 : Extent(c, q) = 1
        /\ Extent(c, 16) = 4
        /\ \A q \in 17 .. 23 : Extent(c, q) = 8
    BY <1>2, ExtentsAre
  <2>3. CASE p \in 0 .. 11
    BY <2>1, <2>2, <2>3
  <2>4. CASE p \in 12 .. 23
    BY <2>1, <2>2, <2>4
  <2> QED
    BY <2>1, <2>3, <2>4
<1>3. CASE IsUneven(c) /\ ~c.dual /\ ~Twice(c)
  <2>1. /\ Pages(c) = 0 .. 11 /\ FlashSize(c) = 64
        /\ \A q \in 0 .. 4 : FirstUnit(c, q) = q
        /\ \A q \in 5 .. 11 : FirstUnit(c, q) = 8 * (q - 4)
    BY <1>3, PagesAre
  <2>2. /\ \A q \in 0 .. 3 : Extent(c, q) = 1
        /\ Extent(c, 4) = 4
        /\ \A q \in 5 .. 11 : Extent(c, q) = 8
    BY <1>3, ExtentsAre
  <2> QED
    BY <2>1, <2>2
<1>4. CASE IsUneven(c) /\ ~c.dual /\ Twice(c)
  <2>1. /\ Pages(c) = 0 .. 11 /\ FlashSize(c) = 128
        /\ \A q \in 0 .. 4 : FirstUnit(c, q) = 2 * q
        /\ \A q \in 5 .. 11 : FirstUnit(c, q) = 16 * (q - 4)
    BY <1>4, PagesAre
  <2>2. /\ \A q \in 0 .. 3 : Extent(c, q) = 2
        /\ Extent(c, 4) = 8
        /\ \A q \in 5 .. 11 : Extent(c, q) = 16
    BY <1>4, ExtentsAre
  <2> QED
    BY <2>1, <2>2
<1> QED
  BY <1>1, <1>2, <1>3, <1>4

\* An address is between the beginning and the end of its page.
LEMMA PageSpan ==
  ASSUME NEW c \in Chips, NEW u \in Nat, u < FlashSize(c)
  PROVE  /\ FirstUnit(c, PageAt(c, u)) \in Nat /\ Extent(c, PageAt(c, u)) \in Nat
         /\ FirstUnit(c, PageAt(c, u)) <= u
         /\ u < FirstUnit(c, PageAt(c, u)) + Extent(c, PageAt(c, u))
<1> DEFINE p == PageAt(c, u)
<1>1. /\ p \in Pages(c) /\ FirstUnit(c, p) <= u
      /\ p + 1 \in Pages(c) => u < FirstUnit(c, p + 1)
  BY PageIs
<1>2. /\ FirstUnit(c, p) \in Nat /\ Extent(c, p) \in Nat
      /\ FirstUnit(c, p) + Extent(c, p)
           = IF p + 1 \in Pages(c) THEN FirstUnit(c, p + 1) ELSE FlashSize(c)
  BY <1>1, PagesJoin
<1> HIDE DEF p
<1>3. u < FirstUnit(c, p) + Extent(c, p)
  BY <1>1, <1>2
<1> QED
  BY <1>1, <1>2, <1>3 DEF p

\* stlink_calculate_pagesize tells the length of the page, but on an F7 of
\* two banks.
LEMMA SizeIsExtent ==
  ASSUME NEW c \in Chips, NEW u \in Nat, u < FlashSize(c), c.type = "F7" => ~c.dual
  PROVE  PageSize(c, u) = Extent(c, PageAt(c, u))
<1> DEFINE p == PageAt(c, u)
<1>1. p \in Pages(c) /\ p = PageNumber(c, u)
  BY PageIs, PageNumbers
<1>2. Twice(c) => IsUneven(c) /\ ~c.dual
  BY DEF Twice, IsUneven
<1>3. IsUneven(c) <=> c.type \in {"F2_F4", "F7"}
  BY DEF IsUneven
<1> HIDE DEF p
<1>4. CASE Twice(c)
  <2>1. p = SectorF7(u) /\ p \in 0 .. 11 /\ p % 12 = p
    BY <1>1, <1>2, <1>4, PagesAre DEF PageNumber
  <2>2. PageSize(c, u) = 2 * (IF p < 4 THEN 1 ELSE IF p < 5 THEN 4 ELSE 8)
    BY <1>4, <2>1 DEF PageSize
  <2>3. Extent(c, p) = 2 * (IF p < 4 THEN 1 ELSE IF p < 5 THEN 4 ELSE 8)
    BY <1>2, <1>4, <2>1 DEF Extent
  <2> QED
    BY <2>2, <2>3 DEF p
<1>5. CASE IsUneven(c) /\ ~Twice(c)
  <2>1. p = SectorF4(u)
    BY <1>1, <1>5 DEF PageNumber
  <2>2. PageSize(c, u) = IF p % 12 < 4 THEN 1 ELSE IF p % 12 < 5 THEN 4 ELSE 8
    BY <1>3, <1>5, <2>1 DEF PageSize
  <2>3. Extent(c, p) = IF p % 12 < 4 THEN 1 ELSE IF p % 12 < 5 THEN 4 ELSE 8
    BY <1>5 DEF Extent
  <2> QED
    BY <2>2, <2>3 DEF p
<1>6. CASE ~IsUneven(c)
  BY <1>2, <1>3, <1>6 DEF PageSize, Extent
<1> QED
  BY <1>4, <1>5, <1>6

-----------------------------------------------------------------------------
(***************************************************************************)
(* Choosing the page to erase.                                             *)
(***************************************************************************)

\* The choice of the page at u, as SelectPageToErase makes it.
Selected(t, u, l) ==
  CASE chip.type = "L4" -> WriteFlashCrBkerPnb(chip, t, u, l)
    [] chip.type \in {"F2_F4", "F7"} -> WriteFlashCrSnb(chip, t, 1, SectorNumber(chip, u), l)
    [] chip.type = "H7" -> WriteFlashCrSnb(chip, t, BankOf(u), SectorH7(chip, u, BankOf(u)), l)
    [] chip.type = "H5" -> SelectSectorH5(chip, t, u, l)
    [] chip.type \in {"F0_F1_F3", "F1_XL"} -> WriteFlashAr(chip, t, u, BankOf(u), l)
    [] OTHER -> SelectPage(chip, t, u, l)

\* Names the page at u, when what was read is right.
Names(u, bk, n) ==
  u < FlashSize(chip) => Named(chip, BankOf(u), [bk |-> bk, n |-> n]) = {PageAt(chip, u)}

\* The halves of a flash with even pages.
LEMMA HalfPages ==
  ASSUME chip \in Chips, NEW u \in Nat, chip.type \notin {"F2_F4", "F7"}
  PROVE  /\ Half(chip) = 4 /\ Pages(chip) = 0 .. 3
         /\ u < FlashSize(chip) => PageAt(chip, u) = u \div 2 /\ u \in 0 .. 7 /\ u \div 2 \in 0 .. 3
         /\ UpperHalf(chip, u) <=> u >= 4
         /\ u \div 2 \in Nat /\ u >= 4 => (u - 4) \div 2 \in Nat
         /\ u \in 4 .. 7 => (u - 4) \div 2 \in 0 .. 1 /\ u \div 2 = 2 + (u - 4) \div 2
         /\ u \in 0 .. 3 => u \div 2 \in 0 .. 1
         /\ u \in 4 .. 7 => u \div 2 \in 2 .. 3
<1>1. FlashSize(chip) = 8 /\ Half(chip) = 4 /\ Pages(chip) = 0 .. 3
  BY PagesAre DEF Half, IsUneven
<1>2. u < 8 => PageAt(chip, u) = u \div 2
  BY <1>1, PageNumbers DEF PageNumber, Twice, IsUneven
<1> QED
  BY <1>1, <1>2 DEF UpperHalf

\* Pages counted in a half, and from the start.
LEMMA SmallHalves ==
  ASSUME NEW u \in 0 .. 7
  PROVE  /\ u >= 4 => 2 + (((u - 4) \div 2) % 2) = u \div 2 /\ 2 + ((u \div 2) % 2) = u \div 2
         /\ ~(u >= 4) => (u \div 2) % 2 = u \div 2
<1>1. \A x \in 0 .. 1 : x % 2 = x /\ (x + 2) % 2 = x
  OBVIOUS
<1>2. CASE u >= 4
  <2>1. PICK q \in 0 .. 1 : (u - 4) \div 2 = q /\ u \div 2 = q + 2
    BY <1>2
  <2>2. q % 2 = q /\ (q + 2) % 2 = q /\ 2 + q = q + 2
    BY <1>1
  <2> QED
    BY <1>2, <2>1, <2>2, Zenon
<1>3. CASE ~(u >= 4)
  <2>1. u \div 2 \in 0 .. 1
    BY <1>3
  <2> QED
    BY <1>1, <1>3, <2>1
<1> QED
  BY <1>2, <1>3

\* The pages that the bank and page fields name.
LEMMA NamedIs ==
  ASSUME chip \in Chips, NEW b \in Bank, NEW x \in {0, 1}, NEW y \in Nat
  PROVE  /\ chip.type \in {"L4", "G4", "H5", "L5_U5", "C5"} /\ Banked(chip) =>
              Named(chip, b, [bk |-> x, n |-> y])
                = Pages(chip) \cap {2 * (IF chip.swap THEN 1 - x ELSE x) + (y % 2)}
         /\ chip.type = "H7" /\ chip.dual =>
              Named(chip, b, [bk |-> x, n |-> y]) = Pages(chip) \cap {2 * (b - 1) + y}
         /\ ~Banked(chip) => Named(chip, b, [bk |-> x, n |-> y]) = Pages(chip) \cap {y}
<1>1. PICK s : s = [bk |-> x, n |-> y]
  OBVIOUS
<1>2. s.bk = x /\ s.n = y
  BY <1>1
<1>3. ASSUME chip.type \in {"L4", "G4", "H5", "L5_U5", "C5"}, Banked(chip)
      PROVE  Named(chip, b, s) = Pages(chip) \cap {2 * (IF chip.swap THEN 1 - x ELSE x) + (y % 2)}
  <2>1. ~TwoRegisters(chip) /\ ~IsUneven(chip) /\ chip.type # "H7"
    BY <1>3 DEF TwoRegisters, IsUneven
  <2>2. ~(IsUneven(chip) /\ chip.dual) /\ ~(chip.type = "H7" /\ chip.dual)
    BY <2>1
  <2>3. Named(chip, b, s)
          = Pages(chip) \cap {2 * (IF chip.swap THEN 1 - s.bk ELSE s.bk) + (s.n % 2)}
    BY <1>3, <2>1, <2>2, Zenon DEF Named
  <2> QED
    BY <1>2, <2>3, Zenon
<1>4. ASSUME chip.type = "H7", chip.dual
      PROVE  Named(chip, b, s) = Pages(chip) \cap {2 * (b - 1) + y}
  <2>1. TwoRegisters(chip) /\ ~IsUneven(chip)
    BY <1>4 DEF TwoRegisters, IsUneven
  <2> QED
    BY <1>2, <1>4, <2>1 DEF Named
<1>5. ASSUME ~Banked(chip)
      PROVE  Named(chip, b, s) = Pages(chip) \cap {y}
  <2>1. ~chip.dual
    BY <1>5 DEF Banked
  <2> QED
    BY <1>2, <1>5, <2>1 DEF Named
<1> QED
  BY <1>1, <1>3, <1>4, <1>5

\* What every family writes to choose the page at u names that page and no other,
\* if what was read was right and the chip is one whose pages the code names.
LEMMA SelectedIs ==
  ASSUME chip \in Chips, chip.type \notin {"L0_L1", "WB0"}, NEW t \in Controller(chip),
         NEW u \in Nat, NEW l \in Exchange
  PROVE  \E bits \in SUBSET Bits, bk \in {0, 1}, n \in Nat :
           /\ Selected(t, u, l) = Select(chip, t, BankOf(u), bits, bk, n, l)
           /\ l.read /\ Known(chip) => Names(u, bk, n)
           /\ l.read => "PER" \in bits \/ (chip.type \in PerFirst /\ bits = t.cr[BankOf(u)])
           /\ l.read => bits \subseteq t.cr[BankOf(u)] \cup {"PER"}
<1> DEFINE b == BankOf(u)
           val == ReadCr(chip, t, b, l)
<1>1. /\ chip.type \in Families /\ chip.dual \in BOOLEAN /\ chip.swap \in BOOLEAN
      /\ chip.listed \in BOOLEAN /\ chip.big \in BOOLEAN
      /\ chip.dual \/ chip.type \notin {"F1_XL", "H5"}
      /\ chip.dual => chip.type \notin {"F0_F1_F3", "WB_WL", "C0"}
      /\ chip.swap => chip.dual /\ chip.type \in {"H5", "C5"}
      /\ chip.type = "L5_U5" => chip.listed = chip.dual
      /\ chip.type = "G4" /\ chip.dual => chip.big
      /\ chip.type = "L4" /\ chip.big => ~chip.dual
      /\ chip.type # "L4" => (Banked(chip) <=> chip.dual)
      /\ Known(chip) => ~(chip.type \in {"F7", "G0"} /\ chip.dual)
      /\ Known(chip) /\ chip.type = "L4" /\ chip.dual => chip.listed
  BY DEF Chips, Banked, Known
<1>2. b \in Bank /\ Reg(chip, b) = b /\ Reg(chip, b) \in Bank
  BY DEF BankOf, Reg, Bank
<1>3. val \in SUBSET Bits /\ (l.read => val = t.cr[b])
  BY <1>2, ReadCrType DEF ReadCr
<1>4. /\ val \cup {"PER"} \in SUBSET Bits
      /\ (val \ {"PG", "MER"}) \cup {"PER"} \in SUBSET Bits
      /\ (val \ {"MER", "PG"}) \cup {"PER"} \in SUBSET Bits
      /\ t.cr[b] \in SUBSET Bits
  BY <1>2, <1>3, BitsAre DEF Controller
<1>0. l.read => /\ val \subseteq t.cr[b] \cup {"PER"}
                /\ val \cup {"PER"} \subseteq t.cr[b] \cup {"PER"}
                /\ (val \ {"PG", "MER"}) \cup {"PER"} \subseteq t.cr[b] \cup {"PER"}
                /\ (val \ {"MER", "PG"}) \cup {"PER"} \subseteq t.cr[b] \cup {"PER"}
  BY <1>3
<1>5. chip.type \notin {"F1_XL", "H7"} => b = 1 /\ ~TwoRegisters(chip)
  BY DEF BankOf, TwoRegisters
<1>6. CASE chip.type = "L4"
  <2> DEFINE page == PageL4(chip, u, l)
  <2>1. /\ Half(chip) = 4 /\ (UpperHalf(chip, u) <=> u >= 4)
        /\ u \div 2 \in Nat /\ (u >= 4 => (u - 4) \div 2 \in Nat) /\ (u \div 2) % 2 \in Nat
    BY <1>6, HalfPages, SectorsAreNat
  <2>2. \/ page = [bk |-> 1, n |-> (u - 4) \div 2] /\ u >= 4
        \/ page = [bk |-> IF u >= 4 THEN 1 ELSE 0, n |-> (u \div 2) % 2]
        \/ page = [bk |-> 0, n |-> u \div 2]
    BY <2>1 DEF PageL4
  <2>3. page.bk \in {0, 1} /\ page.n \in Nat
    BY <2>1, <2>2
  <2>4. Selected(t, u, l)
          = Select(chip, t, b, (val \ {"PG", "MER"}) \cup {"PER"}, page.bk, page.n, l)
    BY <1>5, <1>6 DEF Selected, WriteFlashCrBkerPnb
  <2>5. ASSUME l.read, Known(chip)
        PROVE  Names(u, page.bk, page.n)
    <3> SUFFICES ASSUME u < FlashSize(chip)
                 PROVE  Named(chip, b, [bk |-> page.bk, n |-> page.n]) = {PageAt(chip, u)}
      BY DEF Names
    <3>0. ~chip.swap /\ l.read = TRUE
      BY <1>1, <1>6, <2>5 DEF Exchange
    <3>1. CASE Banked(chip)
      <4>1. 2 * page.bk + (page.n % 2) = u \div 2
        <5>1. CASE chip.dual /\ u >= 4
          <6>1. page = [bk |-> 1, n |-> (u - 4) \div 2]
            BY <1>1, <1>6, <2>1, <2>5, <3>0, <5>1 DEF PageL4
          <6> QED
            BY <1>6, <5>1, <6>1, HalfPages, SmallHalves
        <5>2. CASE chip.dual /\ ~(u >= 4)
          <6>1. page = [bk |-> 0, n |-> u \div 2]
            BY <1>1, <1>6, <2>1, <2>5, <3>0, <5>2 DEF PageL4
          <6> QED
            BY <1>6, <5>2, <6>1, HalfPages, SmallHalves
        <5>3. CASE ~chip.dual
          <6>1. chip.big
            BY <3>1, <5>3 DEF Banked
          <6>2. page = [bk |-> IF u >= 4 THEN 1 ELSE 0, n |-> (u \div 2) % 2]
            BY <2>1, <3>0, <5>3, <6>1 DEF PageL4
          <6>3. ((u \div 2) % 2) % 2 = (u \div 2) % 2
            BY <2>1
          <6>4. (IF u >= 4 THEN 2 ELSE 0) + ((u \div 2) % 2) = u \div 2
            BY <1>6, HalfPages, SmallHalves
          <6> QED
            BY <6>2, <6>3, <6>4
        <5> QED
          BY <1>1, <5>1, <5>2, <5>3
      <4> HIDE DEF page
      <4>2. Named(chip, b, [bk |-> page.bk, n |-> page.n])
              = Pages(chip) \cap {2 * (IF chip.swap THEN 1 - page.bk ELSE page.bk) + (page.n % 2)}
        BY <1>2, <1>6, <2>3, <3>1, NamedIs
      <4> QED
        BY <1>6, <3>0, <4>1, <4>2, HalfPages
    <3>2. CASE ~Banked(chip)
      <4>1. ~chip.dual /\ ~chip.big
        BY <1>6, <3>2 DEF Banked
      <4>2. page = [bk |-> 0, n |-> u \div 2]
        BY <3>0, <4>1 DEF PageL4
      <4>3. page.n = u \div 2
        BY <4>2
      <4> HIDE DEF page
      <4>4. Named(chip, b, [bk |-> page.bk, n |-> page.n]) = Pages(chip) \cap {page.n}
        BY <1>2, <2>3, <3>2, NamedIs
      <4> QED
        BY <1>6, <4>3, <4>4, HalfPages
    <3> QED
      BY <3>1, <3>2
  <2> HIDE DEF page
  <2> QED
    BY <1>0, <1>4, <2>3, <2>4, <2>5
<1>7. CASE chip.type \in {"F2_F4", "F7"}
  <2> DEFINE n == SectorNumber(chip, u)
  <2>0. IsUneven(chip) /\ SectorF4(u) \in Nat /\ SectorF7(u) \in Nat
    BY <1>7, SectorsAreNat DEF IsUneven
  <2>1. n \in Nat
    BY <2>0 DEF SectorNumber
  <2>2. Selected(t, u, l) = Select(chip, t, b, val \cup {"PER"}, 0, n, l)
    BY <1>5, <1>7 DEF Selected, WriteFlashCrSnb
  <2>3. ASSUME Known(chip)
        PROVE  Names(u, 0, n)
    <3> SUFFICES ASSUME u < FlashSize(chip)
                 PROVE  Named(chip, b, [bk |-> 0, n |-> n]) = {PageAt(chip, u)}
      BY DEF Names
    <3>0. chip.type = "F7" => ~chip.dual
      BY <1>1, <2>3
    <3>1. PageAt(chip, u) = PageNumber(chip, u) /\ PageAt(chip, u) \in Pages(chip)
      BY <3>0, PageNumbers, PageIs
    <3>3. CASE Twice(chip)
      <4>1. ~Banked(chip)
        BY <1>1, <3>0, <3>3 DEF Twice
      <4>2. n = SectorF7(u) /\ PageAt(chip, u) = SectorF7(u)
        BY <3>1, <3>3 DEF SectorNumber, PageNumber
      <4> HIDE DEF n
      <4>3. Named(chip, b, [bk |-> 0, n |-> n]) = Pages(chip) \cap {n}
        BY <1>2, <2>1, <4>1, NamedIs
      <4> QED
        BY <3>1, <4>2, <4>3
    <3>4. CASE ~Twice(chip)
      <4>0. PageAt(chip, u) = SectorF4(u)
        BY <2>0, <3>1, <3>4 DEF PageNumber
      <4>1. n = (IF SectorF4(u) >= 12 THEN SectorF4(u) + 4 ELSE SectorF4(u))
        BY <3>4 DEF SectorNumber
      <4>2. (IF n >= 16 THEN n - 4 ELSE n) = SectorF4(u)
        BY <2>0, <4>1
      <4> HIDE DEF n
      <4>3. CASE chip.dual
        <5>1. Named(chip, b, [bk |-> 0, n |-> n]) = Pages(chip) \cap {SectorF4(u)}
          BY <1>7, <2>0, <4>2, <4>3 DEF Named
        <5> QED
          BY <3>1, <4>0, <5>1
      <4>4. CASE ~chip.dual
        <5>1. Pages(chip) = 0 .. 11 /\ n = SectorF4(u)
          BY <2>0, <3>1, <3>4, <4>0, <4>1, <4>4, PagesAre
        <5>2. Named(chip, b, [bk |-> 0, n |-> n]) = Pages(chip) \cap {n}
          BY <1>1, <1>2, <1>7, <2>1, <4>4, NamedIs
        <5> QED
          BY <3>1, <4>0, <5>1, <5>2
      <4> QED
        BY <1>1, <4>3, <4>4
    <3> QED
      BY <3>3, <3>4
  <2> QED
    BY <1>0, <1>4, <2>1, <2>2, <2>3
<1>8. CASE chip.type = "H7"
  <2> DEFINE n == SectorH7(chip, u, b)
  <2>1. n \in Nat /\ n = (IF b = 1 THEN u ELSE u - 4) \div 2 /\ (b # 1 => u >= 4 /\ b = 2)
    BY <1>8, HalfPages DEF SectorH7, BankOf
  <2>2. Selected(t, u, l) = Select(chip, t, b, val \cup {"PER"}, 0, n, l)
    BY <1>8 DEF Selected, WriteFlashCrSnb
  <2>3. Names(u, 0, n)
    <3> SUFFICES ASSUME u < FlashSize(chip)
                 PROVE  Named(chip, b, [bk |-> 0, n |-> n]) = {PageAt(chip, u)}
      BY DEF Names
    <3>1. CASE chip.dual
      <4>1. b = IF u >= 4 THEN 2 ELSE 1
        BY <1>8, <3>1, HalfPages DEF BankOf, TwoRegisters
      <4>2. 2 * (b - 1) + n = u \div 2
        <5>1. CASE u >= 4
          BY <2>1, <4>1, <5>1, <1>8, HalfPages
        <5>2. CASE ~(u >= 4)
          BY <2>1, <4>1, <5>2, <1>8, HalfPages
        <5> QED
          BY <5>1, <5>2
      <4>3. Named(chip, b, [bk |-> 0, n |-> n]) = Pages(chip) \cap {2 * (b - 1) + n}
        BY <1>2, <1>8, <2>1, <3>1, NamedIs
      <4> QED
        BY <1>8, <4>2, <4>3, HalfPages
    <3>2. CASE ~chip.dual
      <4>1. b = 1
        BY <1>8, <3>2 DEF BankOf, TwoRegisters
      <4> QED
        BY <1>1, <1>2, <1>8, <2>1, <3>2, <4>1, HalfPages, NamedIs
    <3> QED
      BY <1>1, <3>1, <3>2
  <2> QED
    BY <1>0, <1>4, <2>1, <2>2, <2>3
<1>9. CASE chip.type = "H5"
  <2> DEFINE upper == IF u >= 4 THEN 1 ELSE 0
             n == (IF u >= 4 THEN u - 4 ELSE u) \div 2
             bk == IF (u >= 4) # (chip.swap /\ l.read) THEN 1 ELSE 0
  <2>1. n \in Nat /\ bk \in {0, 1}
    BY <1>9, HalfPages
  <2>2. Selected(t, u, l) = Select(chip, t, b, (val \ {"MER", "PG"}) \cup {"PER"}, bk, n, l)
    <3>1. Half(chip) = 4
      BY <1>9, HalfPages
    <3> QED
      BY <1>5, <1>9, <3>1 DEF Selected, SelectSectorH5, UpperHalf
  <2>3. ASSUME l.read PROVE Names(u, bk, n)
    <3> SUFFICES ASSUME u < FlashSize(chip)
                 PROVE  Named(chip, b, [bk |-> bk, n |-> n]) = {PageAt(chip, u)}
      BY DEF Names
    <3>1. Banked(chip) /\ chip.dual /\ l.read = TRUE
      BY <1>1, <1>9, <2>3 DEF Exchange
    <3>2. (IF chip.swap THEN 1 - bk ELSE bk) = upper
      BY <1>1, <3>1
    <3>3. 2 * upper + (n % 2) = u \div 2
      BY <1>9, HalfPages, SmallHalves
    <3>4. Named(chip, b, [bk |-> bk, n |-> n])
            = Pages(chip) \cap {2 * (IF chip.swap THEN 1 - bk ELSE bk) + (n % 2)}
      BY <1>2, <1>9, <2>1, <3>1, NamedIs
    <3> HIDE DEF n, bk, upper
    <3> QED
      BY <1>9, <3>2, <3>3, <3>4, HalfPages
  <2> QED
    BY <1>0, <1>4, <2>1, <2>2, <2>3
<1>10. CASE chip.type \in {"F0_F1_F3", "F1_XL"}
  <2>1. Selected(t, u, l) = Select(chip, t, b, t.cr[b], 0, u \div 2, l)
    BY <1>2, <1>10 DEF Selected, WriteFlashAr
  <2>2. u \div 2 \in Nat
    BY SectorsAreNat
  <2>3. Names(u, 0, u \div 2)
    BY <1>1, <1>10, HalfPages DEF Names, Named, TwoRegisters, IsUneven, Banked
  <2>4. chip.type \in PerFirst
    BY <1>10 DEF PerFirst
  <2> QED
    BY <1>4, <2>1, <2>2, <2>3, <2>4
<1>11. CASE chip.type = "G0"
  <2> DEFINE n == u \div 2
             bk == 0
  <2>1. n \in Nat /\ bk \in {0, 1}
    BY <1>11, HalfPages
  <2>2. Selected(t, u, l) = Select(chip, t, b, val \cup {"PER"}, bk, n, l)
    BY <1>5, <1>11, HalfPages DEF Selected, SelectPage
  <2>3. Known(chip) => Names(u, bk, n)
    BY <1>1, <1>2, <1>11, HalfPages, NamedIs DEF Names
  <2> QED
    BY <1>0, <1>3, <1>4, <1>11, <2>1, <2>2, <2>3 DEF PerFirst
<1>12. CASE chip.type = "G4"
  <2> DEFINE n == u \div 2
             bk == IF chip.big THEN (IF u >= 4 THEN 1 ELSE 0) ELSE 0
  <2>1. n \in Nat /\ bk \in {0, 1}
    BY <1>12, HalfPages
  <2>2. Selected(t, u, l) = Select(chip, t, b, (val \ {"MER", "PG"}) \cup {"PER"}, bk, n, l)
    BY <1>5, <1>12, HalfPages DEF Selected, SelectPage
  <2>3. Names(u, bk, n)
    <3> SUFFICES ASSUME u < FlashSize(chip)
                 PROVE  Named(chip, b, [bk |-> bk, n |-> n]) = {PageAt(chip, u)}
      BY DEF Names
    <3>1. ~chip.swap
      BY <1>1, <1>12
    <3>2. CASE chip.dual
      <4>1. 2 * bk + (n % 2) = u \div 2
        BY <1>1, <1>12, <3>2, HalfPages, SmallHalves
      <4>2. Named(chip, b, [bk |-> bk, n |-> n])
              = Pages(chip) \cap {2 * (IF chip.swap THEN 1 - bk ELSE bk) + (n % 2)}
        BY <1>1, <1>2, <1>12, <2>1, <3>2, NamedIs
      <4> HIDE DEF n, bk
      <4> QED
        BY <1>12, <3>1, <4>1, <4>2, HalfPages
    <3>3. CASE ~chip.dual
      <4>1. Named(chip, b, [bk |-> bk, n |-> n]) = Pages(chip) \cap {n}
        BY <1>1, <1>2, <1>12, <2>1, <3>3, NamedIs
      <4> QED
        BY <1>12, <4>1, HalfPages
    <3> QED
      BY <1>1, <3>2, <3>3
  <2> QED
    BY <1>0, <1>4, <2>1, <2>2, <2>3
<1>13. CASE (chip.type = "L5_U5" /\ chip.listed) \/ (chip.type = "C5" /\ (chip.dual \/ ~l.read))
  <2> DEFINE upper == IF u >= 4 THEN 1 ELSE 0
             n == (IF u >= 4 THEN u - 4 ELSE u) \div 2
             bk == IF chip.type = "C5"
                   THEN (IF (upper = 1) # (chip.swap /\ l.read) THEN 1 ELSE 0) ELSE upper
  <2>1. n \in Nat /\ bk \in {0, 1}
    BY <1>13, HalfPages
  <2>2. \E bits \in SUBSET Bits :
           /\ "PER" \in bits /\ (l.read => bits \subseteq t.cr[b] \cup {"PER"})
           /\ Selected(t, u, l) = Select(chip, t, b, bits, bk, n, l)
    <3>1. CASE chip.type = "L5_U5" /\ chip.listed
      <4>1. Selected(t, u, l) = Select(chip, t, b, val \cup {"PER"}, bk, n, l)
        BY <1>5, <3>1, HalfPages DEF Selected, SelectPage
      <4> QED
        BY <1>0, <1>4, <4>1
    <3>2. CASE chip.type = "C5" /\ (chip.dual \/ ~l.read)
      <4>1. Selected(t, u, l) = Select(chip, t, b, (val \ {"PG", "MER"}) \cup {"PER"}, bk, n, l)
        BY <1>5, <3>2, HalfPages DEF Selected, SelectPage
      <4> QED
        BY <1>0, <1>4, <4>1
    <3> QED
      BY <1>13, <3>1, <3>2
  <2>3. ASSUME l.read PROVE Names(u, bk, n)
    <3> SUFFICES ASSUME u < FlashSize(chip)
                 PROVE  Named(chip, b, [bk |-> bk, n |-> n]) = {PageAt(chip, u)}
      BY DEF Names
    <3>1. Banked(chip) /\ l.read = TRUE
      BY <1>1, <1>13, <2>3 DEF Exchange
    <3>2. (IF chip.swap THEN 1 - bk ELSE bk) = upper
      BY <1>1, <1>13, <3>1
    <3>3. 2 * upper + (n % 2) = u \div 2
      BY <1>13, HalfPages, SmallHalves
    <3>4. Named(chip, b, [bk |-> bk, n |-> n])
            = Pages(chip) \cap {2 * (IF chip.swap THEN 1 - bk ELSE bk) + (n % 2)}
      BY <1>2, <1>13, <2>1, <3>1, NamedIs
    <3> HIDE DEF n, bk, upper
    <3> QED
      BY <1>13, <3>2, <3>3, <3>4, HalfPages
  <2> QED
    BY <2>1, <2>2, <2>3
<1>16. CASE chip.type = "L5_U5" /\ ~chip.listed
  <2> DEFINE n == u \div 2
             bk == 0
  <2>1. n \in Nat /\ bk \in {0, 1}
    BY <1>16, HalfPages
  <2>2. Selected(t, u, l) = Select(chip, t, b, val \cup {"PER"}, bk, n, l)
    BY <1>5, <1>16, HalfPages DEF Selected, SelectPage
  <2>3. Names(u, bk, n)
    BY <1>1, <1>2, <1>16, HalfPages, NamedIs DEF Names
  <2> QED
    BY <1>0, <1>3, <1>4, <2>1, <2>2, <2>3
<1>14. CASE chip.type = "C5" /\ ~chip.dual /\ l.read
  <2> DEFINE n == u \div 2
             bk == 0
  <2>1. n \in Nat /\ bk \in {0, 1}
    BY <1>14, HalfPages
  <2>2. Selected(t, u, l) = Select(chip, t, b, (val \ {"PG", "MER"}) \cup {"PER"}, bk, n, l)
    BY <1>5, <1>14, HalfPages DEF Selected, SelectPage
  <2>3. Names(u, bk, n)
    BY <1>1, <1>2, <1>14, HalfPages, NamedIs DEF Names
  <2> QED
    BY <1>0, <1>3, <1>4, <1>14, <2>1, <2>2, <2>3 DEF PerFirst
<1>15. CASE chip.type \in {"WB_WL", "C0"}
  <2> DEFINE n == u \div 2
             bk == 0
  <2>1. n \in Nat /\ bk \in {0, 1}
    BY <1>15, HalfPages
  <2>2. Selected(t, u, l) = Select(chip, t, b, val, bk, n, l)
    BY <1>5, <1>15, HalfPages DEF Selected, SelectPage
  <2>3. Names(u, bk, n)
    BY <1>1, <1>2, <1>15, HalfPages, NamedIs DEF Names
  <2> QED
    BY <1>0, <1>3, <1>4, <1>15, <2>1, <2>2, <2>3 DEF PerFirst
<1> QED
  BY <1>1, <1>6, <1>7, <1>8, <1>9, <1>10, <1>11, <1>12, <1>13, <1>14, <1>15, <1>16 DEF Families

-----------------------------------------------------------------------------
(***************************************************************************)
(* What the helpers leave alone.                                           *)
(***************************************************************************)

\* The controller t keeps what is in the flash, and what is being erased.
Keeps(c, t, u) == u \in Controller(c) /\ u.mem = t.mem /\ u.job = t.job

\* A write to a control register changes no page.
LEMMA WriteCrKeeps ==
  ASSUME NEW c, NEW t \in Controller(c), NEW b, NEW bits, NEW l
  PROVE  WriteCr(c, t, b, bits, l).mem = t.mem /\ WriteCr(c, t, b, bits, l).job = t.job
BY DEF WriteCr, Controller

\* Nor do the helpers.
LEMMA HelpersKeep ==
  ASSUME NEW c \in Chips, NEW t \in Controller(c), NEW b \in Bank, NEW l \in Exchange
  PROVE  /\ Keeps(c, t, ClearFlashError(c, t, l))
         /\ Keeps(c, t, UnlockFlashIf(c, t, l))
         /\ Keeps(c, t, LockFlash(c, t, l))
         /\ Keeps(c, t, UnlockFlashOptionIf(c, t, l))
         /\ Keeps(c, t, LockFlashOption(c, t, l))
         /\ Keeps(c, t, ClearFlashCrPg(c, t, b, l))
         /\ Keeps(c, t, SetFlashCrPg(c, t, b, l))
         /\ Keeps(c, t, SetFlashCrPer(c, t, b, l))
         /\ Keeps(c, t, ClearFlashCrPer(c, t, b, l))
         /\ \A on \in BOOLEAN : Keeps(c, t, SetFlashCrMer(c, t, on, b, l))
<1> USE HelperTypes
<1>1. ClearFlashError(c, t, l).mem = t.mem /\ ClearFlashError(c, t, l).job = t.job
  BY DEF ClearFlashError, Controller
<1>2. UnlockFlashIf(c, t, l).mem = t.mem /\ UnlockFlashIf(c, t, l).job = t.job
  BY DEF UnlockFlashIf, UnlockFlash, Controller
<1>3. LockFlash(c, t, l).mem = t.mem /\ LockFlash(c, t, l).job = t.job
  <2> DEFINE bits == ((IF l.read THEN t.cr[1] ELSE {})
                       \ (IF c.type = "H7" THEN {"PER"} ELSE {})) \cup {"LOCK"}
             one == WriteCr(c, t, 1, bits, l)
             two == WriteCr(c, one, 2, ReadCr(c, one, 2, l) \cup {"LOCK"}, l)
  <2>1. 1 \in Bank /\ bits \in SUBSET Bits
    BY BitsAre DEF Controller, Bank
  <2> HIDE DEF bits
  <2>2. one \in Controller(c) /\ one.mem = t.mem /\ one.job = t.job
    BY <2>1, WriteCrType, WriteCrKeeps
  <2> HIDE DEF one
  <2>3. two.mem = one.mem /\ two.job = one.job
    BY <2>2, WriteCrKeeps
  <2> QED
    BY <2>2, <2>3 DEF LockFlash, one, bits
<1>4. UnlockFlashOptionIf(c, t, l).mem = t.mem /\ UnlockFlashOptionIf(c, t, l).job = t.job
  BY DEF UnlockFlashOptionIf, UnlockFlashOption, Controller
<1>5. LockFlashOption(c, t, l).mem = t.mem /\ LockFlashOption(c, t, l).job = t.job
  BY DEF LockFlashOption, Controller
<1>6. ClearFlashCrPg(c, t, b, l).mem = t.mem /\ ClearFlashCrPg(c, t, b, l).job = t.job
  BY WriteCrKeeps DEF ClearFlashCrPg
<1>7. SetFlashCrPg(c, t, b, l).mem = t.mem /\ SetFlashCrPg(c, t, b, l).job = t.job
  BY WriteCrKeeps DEF SetFlashCrPg
<1>8. SetFlashCrPer(c, t, b, l).mem = t.mem /\ SetFlashCrPer(c, t, b, l).job = t.job
  BY WriteCrKeeps DEF SetFlashCrPer
<1>9. ClearFlashCrPer(c, t, b, l).mem = t.mem /\ ClearFlashCrPer(c, t, b, l).job = t.job
  BY WriteCrKeeps DEF ClearFlashCrPer
<1>10. ASSUME NEW on \in BOOLEAN
       PROVE  Keeps(c, t, SetFlashCrMer(c, t, on, b, l))
  <2> DEFINE val == ReadCr(c, t, b, l)
             bare == val \ {"PG"}
             one == IF "PG" \in val THEN WriteCr(c, t, b, bare, l) ELSE t
             bits == IF on THEN bare \cup {"MER"} ELSE bare \ {"MER"}
  <2>1. bare \in SUBSET Bits
    BY ReadCrType
  <2>2. one \in Controller(c) /\ one.mem = t.mem /\ one.job = t.job
    BY <2>1, WriteCrType, WriteCrKeeps
  <2> HIDE DEF bits, one
  <2>3. WriteCr(c, one, b, bits, l).mem = one.mem /\ WriteCr(c, one, b, bits, l).job = one.job
    BY <2>2, WriteCrKeeps
  <2>4. SetFlashCrMer(c, t, on, b, l) = WriteCr(c, one, b, bits, l)
    BY DEF SetFlashCrMer, bits, one
  <2> QED
    BY <2>2, <2>3, <2>4 DEF Keeps
<1> QED BY <1>1, <1>2, <1>3, <1>4, <1>5, <1>6, <1>7, <1>8, <1>9, <1>10 DEF Keeps

-----------------------------------------------------------------------------
(***************************************************************************)
(* Calls under way: the type invariant, and the calls that leave the flash *)
(* alone.                                                                  *)
(***************************************************************************)

TypeOK ==
  /\ chip \in Chips /\ target \in Controller(chip) /\ cmd \in CommandLine
  /\ Open(todo, {}) /\ todo \in Seq(Fit(cmd))
  /\ ret \in {0, -1} /\ err \in {0, 1, -1} /\ backup \in BOOLEAN
  /\ runs \in Nat /\ faults \in Nat /\ lost \subseteq Ops \cup {"leave", "identify", "junk"}
  /\ failed \in BOOLEAN /\ killed \in {"", "signal", "unplugged"} /\ tidy \in BOOLEAN
  /\ licence \subseteq Pages(chip)

\* A call is made, with one of the exchanges it may have.
Made == /\ todo # <<>>
        /\ \E l \in Either : \E ok : Link(l) /\ Returns(ok)

\* The calls that change the flash, or prepare the erasing of a page; the last
\* call of all; those that become others.
Touching == {"select", "set_PER", "start", "erase_word", "command_erase", "command_mass_erase",
             "load", "reset"}
Replaced == {"erase_section", "erase_next", "write", "check_range", "unsupported"}

\* The helpers that are not in common_flash.c make controllers of controllers.
LEMMA OtherTypes ==
  ASSUME NEW c, NEW t \in Controller(c), NEW l \in Exchange
  PROVE  /\ PecrUnlock(c, t, l) \in Controller(c) /\ PecrLock(c, t, l) \in Controller(c)
         /\ Keeps(c, t, DmaOff(c, t, l)) /\ DmaBackup(c, t, l) \in BOOLEAN
         /\ [t EXCEPT !.opt = "blank", !.cr[1] = {}] \in Controller(c)
<1>1. 1 \in Bank
  BY DEF Bank
<1>2. t.cr[1] \ {"LOCK", "PRGLOCK"} \in SUBSET Bits /\ t.cr[1] \cup {"LOCK",
        "PRGLOCK"} \in SUBSET Bits
  BY <1>1, BitsAre DEF Controller
<1>3. PecrUnlock(c, t, l) \in Controller(c)
  BY <1>1, <1>2 DEF Controller, PecrUnlock
<1>4. PecrLock(c, t, l) \in Controller(c)
  BY <1>1, <1>2 DEF Controller, PecrLock
<1>5. DmaOff(c, t, l) \in Controller(c)
  BY DEF DmaOff, Controller
<1>6. DmaOff(c, t, l).mem = t.mem /\ DmaOff(c, t, l).job = t.job
  BY DEF DmaOff, Controller
<1>7. DmaBackup(c, t, l) \in BOOLEAN
  <2>1. t.dma \in BOOLEAN
    BY DEF Controller
  <2>2. CASE l.read
    BY <2>1, <2>2 DEF DmaBackup
  <2>3. CASE ~l.read
    <3>1. DmaBackup(c, t, l) = ("MER" \in l.junk)
      BY <2>3 DEF DmaBackup
    <3> QED
      BY <3>1
  <2> QED
    BY <2>2, <2>3
<1>8. [t EXCEPT !.opt = "blank", !.cr[1] = {}] \in Controller(c)
  BY <1>1 DEF Controller
<1> QED
  BY <1>3, <1>4, <1>5, <1>6, <1>7, <1>8 DEF Keeps

\* The call that is made next.
LEMMA HeadIs ==
  ASSUME TypeOK, todo # <<>>
  PROVE  /\ todo \in Seq(CallRec) /\ Step \in CallRec /\ Fits(cmd, Step)
         /\ Len(todo) \in Nat /\ Len(todo) > 0 /\ Step.to \in Labels \cup {""} /\ Step.at \in Nat
                 /\ Step.end \in Nat
<1>1. todo \in Seq(Fit(cmd)) /\ todo \in Seq(CallRec)
  BY DEF TypeOK, Open
<1>2. Len(todo) \in Nat /\ Len(todo) > 0
  BY <1>1, EmptySeq, LenProperties
<1>3. Step \in Fit(cmd)
  BY <1>1, <1>2, ElementOfSeq DEF Step
<1> QED
  BY <1>1, <1>2, <1>3 DEF Fit, CallRec

\* What the loop of H7 does with the options.
LEMMA ChangeIs ==
  ASSUME ChangeOptions
  PROVE  /\ At("change_options") /\ backup' = backup
         /\ \E l \in Either : \E ok \in BOOLEAN :
              /\ Link(l) /\ Returns(ok)
              /\ target' = target \/ target' = [target EXCEPT !.opt = "new"]
              /\ l = Good => /\ ok \/ chip.refuses
                            /\ target' = IF OptionsOpen(target) /\ target.opt # "new" /\ ~chip.refuses
                                        THEN [target EXCEPT !.opt = "new"] ELSE target
<1> DEFINE Begun(same, l) == /\ l.write /\ OptionsOpen(target)
                             /\ IF l.read THEN target.opt # "new" ELSE ~same
           Ok(same, l) == IF l.read THEN Begun(same, l) => ~chip.refuses
                          ELSE same \/ "LOCK" \notin l.junk
<1>1. PICK same \in BOOLEAN :
        Calls("change_options", Either,
              LAMBDA l : IF Begun(same, l) /\ ~chip.refuses THEN [target EXCEPT !.opt = "new"]
                         ELSE target,
              LAMBDA l : Ok(same, l))
  BY Zenon DEF ChangeOptions
<1>2. At("change_options") /\ backup' = backup
  BY <1>1, Zenon DEF Calls
<1>3. PICK l \in Either : /\ Link(l) /\ Returns(Ok(same, l))
                          /\ target' = IF Begun(same, l) /\ ~chip.refuses
                                      THEN [target EXCEPT !.opt = "new"] ELSE target
  BY <1>1, Zenon DEF Calls
<1>4. Ok(same, l) \in BOOLEAN
  OBVIOUS
<1>5. target' = target \/ target' = [target EXCEPT !.opt = "new"]
  BY <1>3, Zenon
<1>6. l = Good => /\ Ok(same, l) \/ chip.refuses
                  /\ target' = IF OptionsOpen(target) /\ target.opt # "new" /\ ~chip.refuses
                              THEN [target EXCEPT !.opt = "new"] ELSE target
  BY <1>3 DEF Good
<1> QED
  BY <1>2, <1>3, <1>4, <1>5, <1>6, Zenon

\* Every call but those of Touching, Replaced and the last leaves the flash and
\* the erasing of its pages as they are.
LEMMA SteadyCalls ==
  ASSUME TypeOK,
         \/ Wait \/ ClearErrors \/ CheckErrors \/ Unlock \/ Lock \/ UnlockOptions \/ Relock
         \/ SetPg \/ ClearPg \/ ClearPer \/ SetMer \/ ClearMer \/ UnlockPecr \/ LockPecr
         \/ RestoreDma \/ InitLoader \/ ReadRegister \/ Unmask \/ EraseOptions \/ ProgramOption
         \/ BeginOptions \/ ChangeOptions \/ ForceDebug \/ Status \/ RunCore \/ Finalize \/ StopDma
         \/ Verify
  PROVE  /\ Made /\ Step.op \notin Touching \cup Replaced \cup {"leave"}
         /\ Keeps(chip, target, target') /\ backup' \in BOOLEAN
<1> DEFINE Goal == /\ Made /\ Step.op \notin Touching \cup Replaced \cup {"leave"}
                   /\ Keeps(chip, target, target') /\ backup' \in BOOLEAN
<1>1. chip \in Chips /\ target \in Controller(chip) /\ backup \in BOOLEAN
  BY DEF TypeOK
<1>2. Keeps(chip, target, target)
  BY <1>1 DEF Keeps
<1>3. 1 \in Bank
  BY DEF Bank
<1>10. CASE Wait
  <2>1. PICK l \in Reads : \E ok : /\ Link(l) /\ Returns(ok)
                           /\ target' = target
    BY <1>10, Zenon DEF Wait, Calls, Always
  <2>2. At("wait") /\ backup' = backup
    BY <1>10, Zenon DEF Wait, Calls
  <2>3. l \in Either /\ l \in Exchange
    BY ExchangesAre
  <2>4. Keeps(chip, target, target')
    BY <1>1, <1>2, <1>3, <2>1, <2>3, HelpersKeep
  <2> QED
    BY <1>1, <2>1, <2>2, <2>3, <2>4 DEF Made, At, Touching, Replaced
<1>11. CASE ClearErrors
  <2>1. PICK l \in Writes : \E ok : /\ Link(l) /\ Returns(ok)
                           /\ target' = ClearFlashError(chip, target, l)
    BY <1>11, Zenon DEF ClearErrors, Calls, Always
  <2>2. At("clear_errors") /\ backup' = backup
    BY <1>11, Zenon DEF ClearErrors, Calls
  <2>3. l \in Either /\ l \in Exchange
    BY ExchangesAre
  <2>4. Keeps(chip, target, target')
    BY <1>1, <1>2, <1>3, <2>1, <2>3, HelpersKeep
  <2> QED
    BY <1>1, <2>1, <2>2, <2>3, <2>4 DEF Made, At, Touching, Replaced
<1>12. CASE CheckErrors
  <2>1. PICK l \in Reads : \E ok : /\ Link(l) /\ Returns(ok)
                           /\ target' = target
    BY <1>12, Zenon DEF CheckErrors, Calls
  <2>2. At("check_errors") /\ backup' = backup
    BY <1>12, Zenon DEF CheckErrors, Calls
  <2>3. l \in Either /\ l \in Exchange
    BY ExchangesAre
  <2>4. Keeps(chip, target, target')
    BY <1>1, <1>2, <1>3, <2>1, <2>3, HelpersKeep
  <2> QED
    BY <1>1, <2>1, <2>2, <2>3, <2>4 DEF Made, At, Touching, Replaced
<1>13. CASE Unlock
  <2>1. PICK l \in Either : \E ok : /\ Link(l) /\ Returns(ok)
                           /\ target' = UnlockFlashIf(chip, target, l)
    BY <1>13, Zenon DEF Unlock, Calls
  <2>2. At("unlock") /\ backup' = backup
    BY <1>13, Zenon DEF Unlock, Calls
  <2>3. l \in Either /\ l \in Exchange
    BY ExchangesAre
  <2>4. Keeps(chip, target, target')
    BY <1>1, <1>2, <1>3, <2>1, <2>3, HelpersKeep
  <2> QED
    BY <1>1, <2>1, <2>2, <2>3, <2>4 DEF Made, At, Touching, Replaced
<1>14. CASE Lock
  <2>1. PICK l \in Either : \E ok : /\ Link(l) /\ Returns(ok)
                           /\ target' = LockFlash(chip, target, l)
    BY <1>14, Zenon DEF Lock, Calls, Always
  <2>2. At("lock") /\ backup' = backup
    BY <1>14, Zenon DEF Lock, Calls
  <2>3. l \in Either /\ l \in Exchange
    BY ExchangesAre
  <2>4. Keeps(chip, target, target')
    BY <1>1, <1>2, <1>3, <2>1, <2>3, HelpersKeep
  <2> QED
    BY <1>1, <2>1, <2>2, <2>3, <2>4 DEF Made, At, Touching, Replaced
<1>15. CASE UnlockOptions
  <2>1. PICK l \in Either : \E ok : /\ Link(l) /\ Returns(ok)
                           /\ target' = UnlockFlashOptionIf(chip, target, l)
    BY <1>15, Zenon DEF UnlockOptions, Calls
  <2>2. At("unlock_options") /\ backup' = backup
    BY <1>15, Zenon DEF UnlockOptions, Calls
  <2>3. l \in Either /\ l \in Exchange
    BY ExchangesAre
  <2>4. Keeps(chip, target, target')
    BY <1>1, <1>2, <1>3, <2>1, <2>3, HelpersKeep
  <2> QED
    BY <1>1, <2>1, <2>2, <2>3, <2>4 DEF Made, At, Touching, Replaced
<1>16. CASE Relock
  <2>1. PICK l \in Writes : \E ok : /\ Link(l) /\ Returns(ok)
                           /\ target' = LockFlashOption(chip, target, l)
    BY <1>16, Zenon DEF Relock, Calls, Always
  <2>2. At("relock") /\ backup' = backup
    BY <1>16, Zenon DEF Relock, Calls
  <2>3. l \in Either /\ l \in Exchange
    BY ExchangesAre
  <2>4. Keeps(chip, target, target')
    BY <1>1, <1>2, <1>3, <2>1, <2>3, HelpersKeep
  <2> QED
    BY <1>1, <2>1, <2>2, <2>3, <2>4 DEF Made, At, Touching, Replaced
<1>17. CASE SetPg
  <2>1. PICK l \in Either : \E ok : /\ Link(l) /\ Returns(ok)
                           /\ target' = SetFlashCrPg(chip, target, Step.at, l)
    BY <1>17, Zenon DEF SetPg, Calls, Always
  <2>2. At("set_PG") /\ backup' = backup
    BY <1>17, Zenon DEF SetPg, Calls
  <2>3. l \in Either /\ l \in Exchange
    BY ExchangesAre
  <2>4. Keeps(chip, target, target')
    <3>1. Step.at \in Bank
      BY <2>2, HeadIs DEF At, Fits, BankOps
    <3> QED
      BY <1>1, <2>1, <2>3, <3>1, HelpersKeep
  <2> QED
    BY <1>1, <2>1, <2>2, <2>3, <2>4 DEF Made, At, Touching, Replaced
<1>18. CASE ClearPg
  <2>1. PICK l \in Either : \E ok : /\ Link(l) /\ Returns(ok)
                           /\ target' = ClearFlashCrPg(chip, target, Step.at, l)
    BY <1>18, Zenon DEF ClearPg, Calls, Always
  <2>2. At("clear_PG") /\ backup' = backup
    BY <1>18, Zenon DEF ClearPg, Calls
  <2>3. l \in Either /\ l \in Exchange
    BY ExchangesAre
  <2>4. Keeps(chip, target, target')
    <3>1. Step.at \in Bank
      BY <2>2, HeadIs DEF At, Fits, BankOps
    <3> QED
      BY <1>1, <2>1, <2>3, <3>1, HelpersKeep
  <2> QED
    BY <1>1, <2>1, <2>2, <2>3, <2>4 DEF Made, At, Touching, Replaced
<1>19. CASE ClearPer
  <2>1. PICK l \in Either : \E ok : /\ Link(l) /\ Returns(ok)
                           /\ target' = ClearFlashCrPer(chip, target, Step.at, l)
    BY <1>19, Zenon DEF ClearPer, Calls, Always
  <2>2. At("clear_PER") /\ backup' = backup
    BY <1>19, Zenon DEF ClearPer, Calls
  <2>3. l \in Either /\ l \in Exchange
    BY ExchangesAre
  <2>4. Keeps(chip, target, target')
    <3>1. Step.at \in Bank
      BY <2>2, HeadIs DEF At, Fits, BankOps
    <3> QED
      BY <1>1, <2>1, <2>3, <3>1, HelpersKeep
  <2> QED
    BY <1>1, <2>1, <2>2, <2>3, <2>4 DEF Made, At, Touching, Replaced
<1>20. CASE SetMer
  <2>1. PICK l \in Either : \E ok : /\ Link(l) /\ Returns(ok)
                           /\ target' = SetFlashCrMer(chip, target, TRUE, Step.at, l)
    BY <1>20, Zenon DEF SetMer, Calls, Always
  <2>2. At("set_MER") /\ backup' = backup
    BY <1>20, Zenon DEF SetMer, Calls
  <2>3. l \in Either /\ l \in Exchange
    BY ExchangesAre
  <2>4. Keeps(chip, target, target')
    <3>1. Step.at \in Bank
      BY <2>2, HeadIs DEF At, Fits, BankOps
    <3> QED
      BY <1>1, <2>1, <2>3, <3>1, HelpersKeep
  <2> QED
    BY <1>1, <2>1, <2>2, <2>3, <2>4 DEF Made, At, Touching, Replaced
<1>21. CASE ClearMer
  <2>1. PICK l \in Either : \E ok : /\ Link(l) /\ Returns(ok)
                           /\ target' = SetFlashCrMer(chip, target, FALSE, Step.at, l)
    BY <1>21, Zenon DEF ClearMer, Calls, Always
  <2>2. At("clear_MER") /\ backup' = backup
    BY <1>21, Zenon DEF ClearMer, Calls
  <2>3. l \in Either /\ l \in Exchange
    BY ExchangesAre
  <2>4. Keeps(chip, target, target')
    <3>1. Step.at \in Bank
      BY <2>2, HeadIs DEF At, Fits, BankOps
    <3> QED
      BY <1>1, <2>1, <2>3, <3>1, HelpersKeep
  <2> QED
    BY <1>1, <2>1, <2>2, <2>3, <2>4 DEF Made, At, Touching, Replaced
<1>22. CASE UnlockPecr
  <2>1. PICK l \in Either : \E ok : /\ Link(l) /\ Returns(ok)
                           /\ target' = PecrUnlock(chip, target, l)
    BY <1>22, Zenon DEF UnlockPecr, Calls
  <2>2. At("unlock_PECR") /\ backup' = backup
    BY <1>22, Zenon DEF UnlockPecr, Calls
  <2>3. l \in Either /\ l \in Exchange
    BY ExchangesAre
  <2>4. Keeps(chip, target, target')
    <3>1. target' \in Controller(chip)
      BY <1>1, <2>1, <2>3, OtherTypes
    <3>2. target'.mem = target.mem /\ target'.job = target.job
      BY <1>1, <2>1 DEF Controller, PecrUnlock
    <3> QED
      BY <3>1, <3>2 DEF Keeps
  <2> QED
    BY <1>1, <2>1, <2>2, <2>3, <2>4 DEF Made, At, Touching, Replaced
<1>23. CASE LockPecr
  <2>1. PICK l \in Writes : \E ok : /\ Link(l) /\ Returns(ok)
                           /\ target' = PecrLock(chip, target, l)
    BY <1>23, Zenon DEF LockPecr, Calls, Always
  <2>2. At("lock_PECR") /\ backup' = backup
    BY <1>23, Zenon DEF LockPecr, Calls
  <2>3. l \in Either /\ l \in Exchange
    BY ExchangesAre
  <2>4. Keeps(chip, target, target')
    <3>1. target' \in Controller(chip)
      BY <1>1, <2>1, <2>3, OtherTypes
    <3>2. target'.mem = target.mem /\ target'.job = target.job
      BY <1>1, <2>1 DEF Controller, PecrLock
    <3> QED
      BY <3>1, <3>2 DEF Keeps
  <2> QED
    BY <1>1, <2>1, <2>2, <2>3, <2>4 DEF Made, At, Touching, Replaced
<1>24. CASE RestoreDma
  <2>1. PICK l \in Either : \E ok : /\ Link(l) /\ Returns(ok)
                           /\ target' = DmaBack(chip, target, backup, l)
    BY <1>24, Zenon DEF RestoreDma, Calls, Always
  <2>2. At("DMA_back") /\ backup' = backup
    BY <1>24, Zenon DEF RestoreDma, Calls
  <2>3. l \in Either /\ l \in Exchange
    BY ExchangesAre
  <2>4. Keeps(chip, target, target')
    <3>1. target' \in Controller(chip)
      BY <1>1, <2>1 DEF Controller, DmaBack
    <3>2. target'.mem = target.mem /\ target'.job = target.job
      BY <1>1, <2>1 DEF Controller, DmaBack
    <3> QED
      BY <3>1, <3>2 DEF Keeps
  <2> QED
    BY <1>1, <2>1, <2>2, <2>3, <2>4 DEF Made, At, Touching, Replaced
<1>25. CASE InitLoader
  <2>1. PICK l \in Writes : \E ok : /\ Link(l) /\ Returns(ok)
                           /\ target' = (IF l.write THEN [target EXCEPT !.halted = TRUE,
                                   !.masked = TRUE] ELSE target)
    BY <1>25, ZenonT(40) DEF InitLoader, Calls, Answered
  <2>2. At("init_loader") /\ backup' = backup
    BY <1>25, Zenon DEF InitLoader, Calls
  <2>3. l \in Either /\ l \in Exchange
    BY ExchangesAre
  <2>4. Keeps(chip, target, target')
    <3>1. target' \in Controller(chip)
      <4>1. [target EXCEPT !.halted = TRUE, !.masked = TRUE] \in Controller(chip)
        BY <1>1 DEF Controller
      <4> QED
        BY <1>1, <2>1, <4>1
    <3>2. target'.mem = target.mem /\ target'.job = target.job
      BY <1>1, <2>1 DEF Controller
    <3> QED
      BY <3>1, <3>2 DEF Keeps
  <2> QED
    BY <1>1, <2>1, <2>2, <2>3, <2>4 DEF Made, At, Touching, Replaced
<1>26. CASE ReadRegister
  <2>1. PICK l \in Reads : \E ok : /\ Link(l) /\ Returns(ok)
                           /\ target' = target
    BY <1>26, Zenon DEF ReadRegister, Calls, Answered
  <2>2. At("read_register") /\ backup' = backup
    BY <1>26, Zenon DEF ReadRegister, Calls
  <2>3. l \in Either /\ l \in Exchange
    BY ExchangesAre
  <2>4. Keeps(chip, target, target')
    BY <1>1, <1>2, <1>3, <2>1, <2>3, HelpersKeep
  <2> QED
    BY <1>1, <2>1, <2>2, <2>3, <2>4 DEF Made, At, Touching, Replaced
<1>27. CASE Unmask
  <2>1. PICK l \in Either : \E ok : /\ Link(l) /\ Returns(ok)
                           /\ target' = (IF l = Good THEN [target EXCEPT !.masked = FALSE]
                                   ELSE target)
    BY <1>27, ZenonT(40) DEF Unmask, Calls, Always
  <2>2. At("unmask") /\ backup' = backup
    BY <1>27, Zenon DEF Unmask, Calls
  <2>3. l \in Either /\ l \in Exchange
    BY ExchangesAre
  <2>4. Keeps(chip, target, target')
    <3>1. target' \in Controller(chip)
      <4>1. [target EXCEPT !.masked = FALSE] \in Controller(chip)
        BY <1>1 DEF Controller
      <4> QED
        BY <1>1, <2>1, <4>1
    <3>2. target'.mem = target.mem /\ target'.job = target.job
      BY <1>1, <2>1 DEF Controller
    <3> QED
      BY <3>1, <3>2 DEF Keeps
  <2> QED
    BY <1>1, <2>1, <2>2, <2>3, <2>4 DEF Made, At, Touching, Replaced
<1>28. CASE EraseOptions
  <2>1. PICK l \in Writes : \E ok : /\ Link(l) /\ Returns(ok)
                           /\ target' = (IF l.write /\ OptionsOpen(target)
                                   THEN [target EXCEPT !.opt = "blank", !.cr[1] = {}] ELSE target)
    BY <1>28, Zenon DEF EraseOptions, Calls, Answered
  <2>2. At("erase_options") /\ backup' = backup
    BY <1>28, Zenon DEF EraseOptions, Calls
  <2>3. l \in Either /\ l \in Exchange
    BY ExchangesAre
  <2>4. Keeps(chip, target, target')
    <3>1. target' \in Controller(chip)
      BY <1>1, <2>1, <2>3, OtherTypes
    <3>2. target'.mem = target.mem /\ target'.job = target.job
      BY <1>1, <2>1 DEF Controller
    <3> QED
      BY <3>1, <3>2 DEF Keeps
  <2> QED
    BY <1>1, <2>1, <2>2, <2>3, <2>4 DEF Made, At, Touching, Replaced
<1>29. CASE ProgramOption
  <2>1. PICK l \in Writes : \E ok : /\ Link(l) /\ Returns(ok)
                           /\ target' = (IF l.write /\ OptionsOpen(target)
                                   THEN [target EXCEPT !.opt = IF @ = "blank" THEN "new"
                                           ELSE "mixed"] ELSE target)
    BY <1>29, Zenon DEF ProgramOption, Calls, Answered
  <2>2. At("program_options") /\ backup' = backup
    BY <1>29, Zenon DEF ProgramOption, Calls
  <2>3. l \in Either /\ l \in Exchange
    BY ExchangesAre
  <2>4. Keeps(chip, target, target')
    <3>1. target' \in Controller(chip)
      BY <1>1, <2>1 DEF Controller
    <3>2. target'.mem = target.mem /\ target'.job = target.job
      BY <1>1, <2>1 DEF Controller
    <3> QED
      BY <3>1, <3>2 DEF Keeps
  <2> QED
    BY <1>1, <2>1, <2>2, <2>3, <2>4 DEF Made, At, Touching, Replaced
<1>30. CASE BeginOptions
  <2>1. PICK l \in Writes : \E ok : /\ Link(l) /\ Returns(ok)
                           /\ target' = (IF l.write /\ OptionsOpen(target)
                                   THEN [target EXCEPT !.opt = "new"] ELSE target)
    BY <1>30, Zenon DEF BeginOptions, Calls, Answered
  <2>2. At("begin_options") /\ backup' = backup
    BY <1>30, Zenon DEF BeginOptions, Calls
  <2>3. l \in Either /\ l \in Exchange
    BY ExchangesAre
  <2>4. Keeps(chip, target, target')
    <3>1. target' \in Controller(chip)
      BY <1>1, <2>1 DEF Controller
    <3>2. target'.mem = target.mem /\ target'.job = target.job
      BY <1>1, <2>1 DEF Controller
    <3> QED
      BY <3>1, <3>2 DEF Keeps
  <2> QED
    BY <1>1, <2>1, <2>2, <2>3, <2>4 DEF Made, At, Touching, Replaced
<1>37. CASE ChangeOptions
  <2>1. PICK l \in Either : \E ok : /\ Link(l) /\ Returns(ok)
                           /\ (target' = target \/ target' = [target EXCEPT !.opt = "new"])
    BY <1>37, ChangeIs, Zenon
  <2>2. At("change_options") /\ backup' = backup
    BY <1>37, ChangeIs
  <2>3. l \in Either /\ l \in Exchange
    BY ExchangesAre
  <2>4. Keeps(chip, target, target')
    <3>1. target' \in Controller(chip)
      BY <1>1, <2>1 DEF Controller
    <3>2. target'.mem = target.mem /\ target'.job = target.job
      BY <1>1, <2>1 DEF Controller
    <3> QED
      BY <3>1, <3>2 DEF Keeps
  <2> QED
    BY <1>1, <2>1, <2>2, <2>3, <2>4 DEF Made, At, Touching, Replaced
<1>31. CASE ForceDebug
  <2>1. PICK l \in Writes : \E ok : /\ Link(l) /\ Returns(ok)
                           /\ target' = (IF l.write THEN Halt(target) ELSE target)
    BY <1>31, Zenon DEF ForceDebug, Calls, Answered
  <2>2. At("force_debug") /\ backup' = backup
    BY <1>31, Zenon DEF ForceDebug, Calls
  <2>3. l \in Either /\ l \in Exchange
    BY ExchangesAre
  <2>4. Keeps(chip, target, target')
    <3>1. target \in Controller(chip)
      BY <1>1
    <3>2. /\ Halt(target) \in Controller(chip)
          /\ Halt(target).mem = target.mem /\ Halt(target).job = target.job
      BY <3>1 DEF Controller, Halt
    <3>3. target' = Halt(target) \/ target' = target
      BY <2>1
    <3> QED
      BY <3>1, <3>2, <3>3 DEF Keeps
  <2> QED
    BY <1>1, <2>1, <2>2, <2>3, <2>4 DEF Made, At, Touching, Replaced
<1>32. CASE Status
  <2>1. PICK l \in Reads : \E ok : /\ Link(l) /\ Returns(ok)
                           /\ target' = target
    BY <1>32, Zenon DEF Status, Calls, Answered
  <2>2. At("status") /\ backup' = backup
    BY <1>32, Zenon DEF Status, Calls
  <2>3. l \in Either /\ l \in Exchange
    BY ExchangesAre
  <2>4. Keeps(chip, target, target')
    BY <1>1, <1>2, <1>3, <2>1, <2>3, HelpersKeep
  <2> QED
    BY <1>1, <2>1, <2>2, <2>3, <2>4 DEF Made, At, Touching, Replaced
<1>33. CASE RunCore
  <2>1. PICK l \in Writes : \E ok : /\ Link(l) /\ Returns(ok)
                           /\ target' = (IF l.write THEN Run(target) ELSE target)
    BY <1>33, ZenonT(40) DEF RunCore, Calls, Always
  <2>2. At("run") /\ backup' = backup
    BY <1>33, Zenon DEF RunCore, Calls
  <2>3. l \in Either /\ l \in Exchange
    BY ExchangesAre
  <2>4. Keeps(chip, target, target')
    <3>1. target' \in Controller(chip)
      <4>1. Run(target) \in Controller(chip)
        BY <1>1 DEF Controller, Run
      <4> QED
        BY <1>1, <2>1, <4>1
    <3>2. target'.mem = target.mem /\ target'.job = target.job
      BY <1>1, <2>1 DEF Controller, Run
    <3> QED
      BY <3>1, <3>2 DEF Keeps
  <2> QED
    BY <1>1, <2>1, <2>2, <2>3, <2>4 DEF Made, At, Touching, Replaced
<1>34. CASE Finalize
  <2>1. PICK l \in Writes : \E ok : /\ Link(l) /\ Returns(ok)
                           /\ target' = (IF l.write THEN Run(target) ELSE target)
    BY <1>34, ZenonT(40) DEF Finalize, Calls, Always
  <2>2. At("finalize") /\ backup' = backup
    BY <1>34, Zenon DEF Finalize, Calls
  <2>3. l \in Either /\ l \in Exchange
    BY ExchangesAre
  <2>4. Keeps(chip, target, target')
    <3>1. target' \in Controller(chip)
      <4>1. Run(target) \in Controller(chip)
        BY <1>1 DEF Controller, Run
      <4> QED
        BY <1>1, <2>1, <4>1
    <3>2. target'.mem = target.mem /\ target'.job = target.job
      BY <1>1, <2>1 DEF Controller, Run
    <3> QED
      BY <3>1, <3>2 DEF Keeps
  <2> QED
    BY <1>1, <2>1, <2>2, <2>3, <2>4 DEF Made, At, Touching, Replaced
<1>35. CASE StopDma
  <2>1. PICK l \in Either : Link(l) /\ target' = DmaOff(chip, target, l)
                           /\ backup' = IF HasDma(chip) THEN DmaBackup(chip, target, l) ELSE backup
    BY <1>35 DEF StopDma
  <2>2. At("DMA_off") /\ Returns(TRUE)
    BY <1>35 DEF StopDma
  <2>3. Keeps(chip, target, target') /\ backup' \in BOOLEAN
    BY <1>1, <2>1, OtherTypes, ExchangesAre
  <2> QED
    BY <2>1, <2>2, <2>3 DEF Made, At, Touching, Replaced
<1>36. CASE Verify
  <2>1. PICK l \in Reads : \E ok \in BOOLEAN : Link(l) /\ Returns(ok)
    BY <1>36 DEF Verify
  <2>2. At("verify") /\ target' = target /\ backup' = backup
    BY <1>36 DEF Verify
  <2>3. l \in Either
    BY ExchangesAre
  <2> QED
    BY <1>1, <1>2, <2>1, <2>2, <2>3 DEF Made, At, Touching, Replaced
<1> QED
  BY <1>10, <1>11, <1>12, <1>13, <1>14, <1>15, <1>16, <1>17, <1>18, <1>19, <1>20, <1>21, <1>22,
          <1>23, <1>24, <1>25, <1>26, <1>27, <1>28, <1>29, <1>30, <1>31, <1>32, <1>33, <1>34,
                  <1>35, <1>36, <1>37

-----------------------------------------------------------------------------
(***************************************************************************)
(* Where a call goes on.                                                   *)
(***************************************************************************)

\* What is left is of the command line.
LEMMA RestTyped ==
  ASSUME TypeOK, NEW u \in Seq(CallRec), NEW n, Rest(u, todo, n)
  PROVE  Open(u, {}) /\ u \in Seq(Fit(cmd))
<1>1. Open(todo, {}) /\ todo \in Seq(Fit(cmd))
  BY DEF TypeOK
<1>2. Open(u, {})
  BY <1>1, RestOpen
<1>3. Len(todo) \in Nat /\ Len(u) \in Nat /\ u \in [1 .. Len(u) -> CallRec]
  BY <1>1, LenProperties
<1>4. \A i \in 1 .. Len(u) : u[i] \in Fit(cmd)
  <2> TAKE i \in 1 .. Len(u)
  <2>1. n + i \in 1 .. Len(todo) /\ u[i] = todo[n + i]
    BY <1>3 DEF Rest
  <2> QED
    BY <1>1, <2>1, ElementOfSeq
<1>5. u \in [1 .. Len(u) -> Fit(cmd)]
  BY <1>3, <1>4
<1> QED
  BY <1>2, <1>3, <1>5, SeqDef

\* A call that may fail finds where its callers go among the calls to come.
LEMMA OpenAhead ==
  ASSUME NEW s, Open(s, {}), s # <<>>
  PROVE  s[1].to = "" \/ (Has(Tail(s), s[1].to) /\ Has(s, s[1].to))
<1>1. s \in Seq(CallRec)
  BY DEF Open
<1>2. Len(s) \in Nat \ {0} /\ Rest(Tail(s), s, 1)
  BY <1>1, TailRest
<1>3. 1 \in 1 .. Len(s)
  BY <1>2
<1>4. \A j \in 1 + 1 .. Len(s) : /\ j \in 1 .. Len(s) /\ j - 1 \in 1 .. Len(Tail(s))
                                 /\ Tail(s)[j - 1] = s[j]
  BY <1>2 DEF Rest
<1>5. s[1].to = "" \/ \E j \in 1 + 1 .. Len(s) : s[j].op = s[1].to
  BY <1>3 DEF Open
<1> QED
  BY <1>4, <1>5 DEF Has

\* ... of the calls that are still to be made.
LEMMA TargetAhead ==
  ASSUME TypeOK, todo # <<>>, Step.to # ""
  PROVE  Has(Tail(todo), Step.to) /\ Has(todo, Step.to)
BY OpenAhead DEF TypeOK, Step

\* A number below another.
LEMMA Before == \A m \in Nat : \A n \in 0 .. m - 1 : n \in 0 .. m /\ n < m
OBVIOUS

\* Where a call that returns goes on: at the next, or further on.
LEMMA Onward ==
  ASSUME TypeOK, todo # <<>>, todo' = Tail(todo) \/ (Step.to # "" /\ todo' = From(Step.to))
  PROVE  /\ todo' \in Seq(CallRec)
         /\ \E n \in 0 .. Len(todo) :
              /\ Rest(todo', todo, n)
              /\ \/ n = 1 /\ todo' = Tail(todo)
                 \/ n < Len(todo) /\ Step.to # "" /\ todo[n + 1].op = Step.to
<1>1. todo \in Seq(CallRec) /\ Len(todo) \in Nat /\ Len(todo) > 0
  BY HeadIs
<1>2. \A n \in 0 .. Len(todo) - 1 : n \in 0 .. Len(todo) /\ n < Len(todo)
  BY <1>1, Before
<1>3. CASE todo' = Tail(todo)
  BY <1>1, <1>3, TailRest DEF Rest
<1>4. CASE Step.to # "" /\ todo' = From(Step.to)
  <2>1. Has(todo, Step.to)
    BY <1>4, TargetAhead
  <2>2. PICK n \in 0 .. Len(todo) - 1 :
           /\ From(Step.to) \in Seq(CallRec) /\ Rest(From(Step.to), todo, n)
           /\ todo[n + 1].op = Step.to
    BY <1>1, <2>1, FromRest
  <2> QED
    BY <1>2, <1>4, <2>2
<1> QED
  BY <1>3, <1>4

\* Where a call goes on that becomes others.
LEMMA Expands ==
  ASSUME TypeOK, todo # <<>>, NEW calls, NEW X, calls \in Seq(Inner(cmd, {Step.to} \ {""}, X))
  PROVE  Open(calls \o Tail(todo), {}) /\ calls \o Tail(todo) \in Seq(Fit(cmd))
<1>1. todo \in Seq(CallRec) /\ Len(todo) \in Nat /\ Len(todo) > 0
  BY HeadIs
<1>2. Part(calls, {Step.to} \ {""}) /\ calls \in Seq(Fit(cmd))
  BY InnerPart
<1>3. Open(Tail(todo), {}) /\ Tail(todo) \in Seq(Fit(cmd)) /\ Tail(todo) \in Seq(CallRec)
  BY <1>1, TailRest, RestTyped
<1>4. \A l \in {Step.to} \ {""} : l \in {} \/ Has(Tail(todo), l)
  BY TargetAhead
<1>5. Open(calls \o Tail(todo), {})
  BY <1>2, <1>3, <1>4, OpenConcat, ZenonT(40) DEF Part
<1> QED
  BY <1>2, <1>3, <1>5, SeqConcat

\* The type invariant, put together.
LEMMA TypeFrom ==
  ASSUME TypeOK, chip' = chip, cmd' = cmd, target' \in Controller(chip), Open(todo', {}),
         todo' \in Seq(Fit(cmd)), ret' \in {0, -1}, err' \in {0, 1, -1}, backup' \in BOOLEAN,
         runs' \in Nat, faults' \in Nat, lost' \subseteq Ops \cup {"leave", "identify", "junk"},
         failed' \in BOOLEAN, killed' \in {"", "signal", "unplugged"}, tidy' \in BOOLEAN,
         licence' \subseteq Pages(chip)
  PROVE  TypeOK'
<1>1. Fit(cmd)' = Fit(cmd)
  <2>1. ASSUME NEW c  PROVE Fits(cmd, c)' <=> Fits(cmd, c)
    <3>1. Within(cmd, c.at)' <=> Within(cmd, c.at)
      BY DEF Within
    <3> QED
      BY <3>1 DEF Fits
  <2> QED
    BY <2>1 DEF Fit
<1>2. Controller(chip)' = Controller(chip) /\ Pages(chip)' = Pages(chip)
  BY DEF Controller, Pages
<1>3. Open(todo, {})'
  BY DEF Open
<1> QED
  BY <1>1, <1>2, <1>3 DEF TypeOK

\* A call that is made keeps the type invariant.
LEMMA MadeType ==
  ASSUME TypeOK, Made, target' \in Controller(chip), backup' \in BOOLEAN
  PROVE  TypeOK'
<1>1. PICK l \in Either : \E ok : Link(l) /\ Returns(ok)
  BY DEF Made
<1>2. PICK ok : Link(l) /\ Returns(ok)
  BY <1>1
<1>3. todo # <<>> /\ (todo' = Tail(todo) \/ (Step.to # "" /\ todo' = From(Step.to)))
  BY <1>2 DEF Returns, Made
<1>4. Open(todo', {}) /\ todo' \in Seq(Fit(cmd))
  BY <1>3, Onward, RestTyped
<1>5. ret' \in {0, -1} /\ failed' \in BOOLEAN
  BY <1>2 DEF Returns, TypeOK
<1>6. faults' \in Nat /\ lost' \subseteq Ops \cup {"leave", "identify", "junk"}
  <2>1. Step.op \in Ops \cup {"leave"}
    BY <1>3, HeadIs DEF CallRec
  <2>2. faults \in Nat /\ lost \subseteq Ops \cup {"leave", "identify", "junk"}
    BY DEF TypeOK
  <2> QED
    BY <1>2, <2>1, <2>2 DEF Link
<1>7. UNCHANGED <<chip, cmd, err, runs, killed, tidy, licence>>
  BY <1>2 DEF Returns
<1> QED
  BY <1>4, <1>5, <1>6, <1>7, TypeFrom DEF TypeOK

\* So does one that becomes others.
LEMMA BecomesType ==
  ASSUME TypeOK, todo # <<>>, NEW ok \in BOOLEAN, NEW calls, NEW X,
         calls \in Seq(Inner(cmd, {Step.to} \ {""}, X)), Becomes(ok, calls), ok \/ Step.to # ""
  PROVE  TypeOK'
<1>1. Open(todo', {}) /\ todo' \in Seq(Fit(cmd))
  <2>1. CASE ok
    BY <2>1, Expands DEF Becomes
  <2>2. CASE ~ok
    <3>1. todo' = From(Step.to)
      BY <2>2 DEF Becomes
    <3> QED
      BY <2>2, <3>1, Onward, RestTyped
  <2> QED
    BY <2>1, <2>2
<1>2. ret' \in {0, -1} /\ failed' \in BOOLEAN
  BY DEF Becomes, TypeOK
<1>3. UNCHANGED <<chip, target, cmd, err, backup, runs, faults, lost, killed, tidy, licence>>
  BY DEF Becomes
<1> QED
  BY <1>1, <1>2, <1>3, TypeFrom DEF TypeOK

-----------------------------------------------------------------------------
(***************************************************************************)
(* The calls that touch the flash.                                         *)
(***************************************************************************)

\* The call op is under way, with the exchange l, and leaves the controller t.
Doing(op, l, t) == At(op) /\ l \in Either /\ Link(l) /\ target' = t /\ backup' = backup

\* What the calls of Touching, and the last, do.
LEMMA TouchingAre ==
  /\ SelectPageToErase => \E l :
       Doing("select", l, Selected(target, Step.at, l)) /\ Returns(TRUE)
  /\ SetPer => \E l :
       Doing("set_PER", l, SetFlashCrPer(chip, target, Step.at, l)) /\ Returns(TRUE)
  /\ Start => \E l :
       Doing("start", l, SetFlashCrStrt(chip, target, Step.at, l)) /\ Returns(TRUE)
  /\ EraseWord => \E l :
       Doing("erase_word", l, PecrErase(chip, target, Step.at, l)) /\ Returns(TRUE)
  /\ CommandPageErase => \E l :
       Doing("command_erase", l, CommandErase(chip, target, {PageAt(chip, Step.at)}, l))
               /\ Returns(TRUE)
  /\ CommandMassErase => \E l :
       Doing("command_mass_erase", l, CommandErase(chip, target, Pages(chip), l)) /\ Returns(TRUE)
  /\ Leave => \E l :
       Doing("leave", l, IF l = Good /\ Step.at = 0 THEN LetGo(target) ELSE target) /\ Returns(TRUE)
  /\ Load => \E l : \E soft \in BOOLEAN : \E ok :
       Doing("load", l, IF l.write \/ soft THEN Program(chip, target, PageAt(chip, Step.at))
                     ELSE target) /\ Returns(ok)
  /\ ResetTarget => \E l : \E soft \in BOOLEAN : \E ok :
       Doing("reset", l, IF l.write THEN Reset(target, soft) ELSE target) /\ Returns(ok)
<1>1. Reads \subseteq Either /\ Writes \subseteq Either
  BY ExchangesAre
<1>2. ASSUME SelectPageToErase
      PROVE  \E l : Doing("select", l, Selected(target, Step.at, l)) /\ Returns(TRUE)
  <2>1. PICK l \in Either : /\ At("select") /\ Link(l) /\ Returns(TRUE) /\ backup' = backup
                       /\ target' = Selected(target, Step.at, l)
    BY <1>2, Zenon DEF SelectPageToErase, Calls, Always, Selected, BankOf
  <2> QED
    BY <1>1, <2>1 DEF Doing
<1>3. ASSUME SetPer
      PROVE  \E l : Doing("set_PER", l, SetFlashCrPer(chip, target, Step.at, l)) /\ Returns(TRUE)
  <2>1. PICK l \in Either : /\ At("set_PER") /\ Link(l) /\ Returns(TRUE) /\ backup' = backup
                       /\ target' = SetFlashCrPer(chip, target, Step.at, l)
    BY <1>3, Zenon DEF SetPer, Calls, Always
  <2> QED
    BY <1>1, <2>1 DEF Doing
<1>4. ASSUME Start
      PROVE  \E l : Doing("start", l, SetFlashCrStrt(chip, target, Step.at, l)) /\ Returns(TRUE)
  <2>1. PICK l \in Either : /\ At("start") /\ Link(l) /\ Returns(TRUE) /\ backup' = backup
                       /\ target' = SetFlashCrStrt(chip, target, Step.at, l)
    BY <1>4, Zenon DEF Start, Calls, Always
  <2> QED
    BY <1>1, <2>1 DEF Doing
<1>5. ASSUME EraseWord
      PROVE  \E l : Doing("erase_word", l, PecrErase(chip, target, Step.at, l)) /\ Returns(TRUE)
  <2>1. PICK l \in Writes : /\ At("erase_word") /\ Link(l) /\ Returns(TRUE) /\ backup' = backup
                       /\ target' = PecrErase(chip, target, Step.at, l)
    BY <1>5, Zenon DEF EraseWord, Calls, Always
  <2> QED
    BY <1>1, <2>1 DEF Doing
<1>6. ASSUME CommandPageErase
      PROVE  \E l : Doing("command_erase", l, CommandErase(chip, target, {PageAt(chip, Step.at)},
              l)) /\ Returns(TRUE)
  <2>1. PICK l \in Writes : /\ At("command_erase") /\ Link(l) /\ Returns(TRUE) /\ backup' = backup
                       /\ target' = CommandErase(chip, target, {PageAt(chip, Step.at)}, l)
    BY <1>6, Zenon DEF CommandPageErase, Calls, Always
  <2> QED
    BY <1>1, <2>1 DEF Doing
<1>7. ASSUME CommandMassErase
      PROVE  \E l : Doing("command_mass_erase", l, CommandErase(chip, target, Pages(chip), l))
              /\ Returns(TRUE)
  <2>1. PICK l \in Writes : /\ At("command_mass_erase") /\ Link(l) /\ Returns(TRUE)
          /\ backup' = backup
                       /\ target' = CommandErase(chip, target, Pages(chip), l)
    BY <1>7, Zenon DEF CommandMassErase, Calls, Always
  <2> QED
    BY <1>1, <2>1 DEF Doing
<1>8. ASSUME Leave
      PROVE  \E l : Doing("leave", l, IF l = Good /\ Step.at = 0 THEN LetGo(target) ELSE target)
              /\ Returns(TRUE)
  <2>1. PICK l \in Either : /\ At("leave") /\ Link(l) /\ Returns(TRUE) /\ backup' = backup
                       /\ target' = (IF l = Good /\ Step.at = 0 THEN LetGo(target) ELSE target)
    BY <1>8, Zenon DEF Leave, Calls, Always
  <2> QED
    BY <1>1, <2>1 DEF Doing
<1>9. ASSUME Load
      PROVE  \E l : \E soft \in BOOLEAN : \E ok :
               Doing("load", l, IF l.write \/ soft THEN Program(chip, target, PageAt(chip, Step.at))
                     ELSE target) /\ Returns(ok)
  <2>1. PICK soft \in BOOLEAN, l \in Either : \E ok :
          /\ At("load") /\ Link(l) /\ Returns(ok) /\ backup' = backup
          /\ target' = (IF l.write \/ soft THEN Program(chip, target, PageAt(chip, Step.at))
                     ELSE target)
    BY <1>9, Zenon DEF Load, Calls, Answered
  <2> QED
    BY <2>1 DEF Doing
<1>10. ASSUME ResetTarget
      PROVE  \E l : \E soft \in BOOLEAN : \E ok :
               Doing("reset", l, IF l.write THEN Reset(target, soft) ELSE target) /\ Returns(ok)
  <2>1. PICK soft \in BOOLEAN, l \in Either : \E ok :
          /\ At("reset") /\ Link(l) /\ Returns(ok) /\ backup' = backup
          /\ target' = (IF l.write THEN Reset(target, soft) ELSE target)
    BY <1>10, Zenon DEF ResetTarget, Calls, Answered
  <2> QED
    BY <2>1 DEF Doing
<1> QED
  BY <1>2, <1>3, <1>4, <1>5, <1>6, <1>7, <1>8, <1>9, <1>10

-----------------------------------------------------------------------------
(***************************************************************************)
(* Calls that become others.                                               *)
(***************************************************************************)

\* The range of the command line is in the flash.
Writable == InFlash(cmd.addr, cmd.addr + cmd.len)

Listed == ~cmd.mass => LabelsLast(todo) /\ Linked(todo) /\ (Guarded(todo) \/ Writable)

\* Calls among which no page is chosen or started are in order.
LEMMA InnerMore ==
  ASSUME NEW k, NEW L, NEW s \in Seq(Inner(k, L, Quiet))
  PROVE  /\ s \in Seq(Inner(k, L, Labels)) /\ s \in Seq(CallRec)
         /\ Unlabelled(s) /\ LabelsLast(s) /\ Linked(s) /\ Opens(s)
<1>1. Inner(k, L, Quiet) \subseteq Inner(k, L, Labels)
  BY DEF Inner, Quiet
<1>2. s \in Seq(Inner(k, L, Labels))
  BY <1>1, SeqMonotonic
<1>3. s \in Seq(CallRec) /\ \A i \in 1 .. Len(s) : s[i].op \notin Quiet
  BY InnerPart DEF Part, Open
<1> QED
  BY <1>2, <1>3, QuietIs

\* stlink_erase_flash_page chooses its page before it starts.
LEMMA EraseFlashPageLinked ==
  ASSUME chip \in Chips, NEW u \in Nat, NEW l \in Labels, NEW k, Within(k, u)
  PROVE  Linked(EraseFlashPage(u, l)) /\ Opens(EraseFlashPage(u, l))
<1> DEFINE a == <<Call("wait"), Call("clear_errors")>>
           b == EraseBody(u, l)
           c == <<Try("check_errors", l)>>
           S == Inner(k, {l}, Quiet)
<1>1. /\ \A f \in FreeOps : Call(f) \in S
      /\ \A f \in FreeOps : Try(f, l) \in S
  BY InnerCalls
<1>2. a \in Seq(S) /\ c \in Seq(S)
  <2> HIDE DEF S
  <2>1. Call("wait") \in S /\ Call("clear_errors") \in S /\ Try("check_errors", l) \in S
    BY <1>1, OpsAre
  <2> QED
    BY <2>1, OfMembers
<1>3. a \in Seq(CallRec) /\ Linked(a) /\ Opens(a) /\ c \in Seq(CallRec) /\ Linked(c) /\ Opens(c)
  BY <1>2, InnerMore
<1>4. b \in Seq(CallRec)
  BY EraseBodyIn, InnerPart DEF Part, Open
<1>5. Linked(b) /\ Opens(b)
  BY EraseBodyLinked
<1> HIDE DEF a, b, c
<1>6. Linked(a \o b) /\ Opens(a \o b) /\ a \o b \in Seq(CallRec)
  BY <1>3, <1>4, <1>5, LinkedConcat, OpensConcat, SeqConcat
<1>7. Linked(a \o b \o c) /\ Opens(a \o b \o c)
  BY <1>3, <1>6, LinkedConcat, OpensConcat
<1> QED
  BY <1>7 DEF EraseFlashPage, a, b, c

\* A step of a range.
LEMMA StepOfRange ==
  ASSUME TypeOK, todo # <<>>, Step.op \in RangeOps, NEW f \in RangeOps, NEW at \in Nat,
         Within(cmd, at)
  PROVE  <<[Step EXCEPT !.op = f, !.at = at]>> \in Seq(Inner(cmd, {Step.to}, Quiet))
<1> DEFINE c == [Step EXCEPT !.op = f, !.at = at]
<1>1. Step \in CallRec /\ Fits(cmd, Step)
  BY HeadIs
<1>2. Step.to \in Labels /\ (cmd.mass \/ Step.end = cmd.addr + cmd.len)
  BY <1>1 DEF Fits
<1>3. /\ f \in Ops /\ f \notin Labels /\ f # "leave" /\ f \notin Quiet
      /\ f \notin BankOps /\ f \notin PageOps /\ f \notin {"set_MER", "command_mass_erase"}
      /\ f # "select" /\ f \notin Refusals /\ f # "check_range"
  BY DEF Ops, BankOps, Labels, PageOps, RangeOps, Refusals, Quiet
<1>4. c \in CallRec /\ c.op = f /\ c.at = at /\ c.end = Step.end /\ c.to = Step.to
  BY <1>1, <1>3 DEF CallRec
<1> HIDE DEF c
<1>5. c \in Inner(cmd, {Step.to}, Quiet)
  BY <1>2, <1>3, <1>4 DEF Inner, Fit, Fits
<1>6. <<c>> \in Seq(Inner(cmd, {Step.to}, Quiet))
  BY <1>5, OfMembers
<1> QED
  BY <1>6 DEF c

\* What a call of Replaced becomes.
Becoming(ok, calls) ==
  /\ calls \in Seq(Inner(cmd, {Step.to}, Labels)) /\ Linked(calls) /\ Opens(calls)
  /\ Becomes(ok, calls)

\* The page of a range that is still to be done is inside the flash.
LEMMA RangeIsInFlash ==
  ASSUME TypeOK, Listed, todo # <<>>, Step.op \in Harmful \ {"erase_section", "start"}, ~cmd.mass
  PROVE  Writable
<1>1. Len(todo) \in Nat /\ Len(todo) > 0
  BY HeadIs
<1>2. ASSUME Guarded(todo) PROVE FALSE
  <2>1. 1 \in 1 .. Len(todo)
    BY <1>1
  <2>2. \E j \in 1 .. 1 - 1 : todo[j].op \in Checks
    BY <1>2, <2>1 DEF Guarded, Step
  <2> QED
    BY <2>2
<1> QED
  BY <1>2 DEF Listed

\* No calls at all.
LEMMA EmptyCalls ==
  \A k, L : <<>> \in Seq(Inner(k, L, Labels)) /\ Linked(<<>>) /\ Opens(<<>>)
BY EmptyIn DEF Linked, Opens

\* stlink_erase_flash_section goes on only if its range is in the flash.
LEMMA EraseSectionIs ==
  ASSUME TypeOK, EraseSection
  PROVE  \E ok \in BOOLEAN : \E calls : Becoming(ok, calls) /\ (ok => InFlash(Step.at, Step.end))
<1> DEFINE ok == InFlash(Step.at, Step.end) /\ Aligned(Step.at)
           calls == <<[Step EXCEPT !.op = "erase_next"]>>
<1>1. todo # <<>> /\ Step.op = "erase_section" /\ Becomes(ok, calls)
  BY DEF EraseSection, At
<1>2. Step \in CallRec /\ Fits(cmd, Step) /\ Step.at \in Nat
  BY <1>1, HeadIs
<1>3. "erase_next" \in RangeOps /\ "erase_section" \in RangeOps
  BY DEF RangeOps
<1>4. Within(cmd, Step.at)
  BY <1>1, <1>2, <1>3 DEF Fits
<1>5. [Step EXCEPT !.op = "erase_next"] = [Step EXCEPT !.op = "erase_next", !.at = Step.at]
  BY <1>2 DEF CallRec
<1>6. calls \in Seq(Inner(cmd, {Step.to}, Quiet))
  BY <1>1, <1>2, <1>3, <1>4, <1>5, StepOfRange
<1>7. calls \in Seq(Inner(cmd, {Step.to}, Labels)) /\ Linked(calls) /\ Opens(calls)
  BY <1>6, InnerMore
<1>8. ok \in BOOLEAN
  OBVIOUS
<1> HIDE DEF calls
<1>9. ok => InFlash(Step.at, Step.end)
  OBVIOUS
<1> QED
  BY <1>1, <1>7, <1>8, <1>9 DEF Becoming

\* The rest of a range, after one of its pages.
LEMMA RestOfRange ==
  ASSUME TypeOK, todo # <<>>, Step.op \in {"erase_next", "write"}, NEW next \in Nat,
         cmd.mass \/ cmd.addr <= next,
         NEW rest, rest = IF next < Step.end THEN <<[Step EXCEPT !.at = next]>> ELSE <<>>
  PROVE  rest \in Seq(Inner(cmd, {Step.to}, Quiet))
<1>1. Step \in CallRec /\ Fits(cmd, Step)
  BY HeadIs
<1>2. Step.op \in RangeOps
  BY DEF RangeOps
<1>3. Within(cmd, Step.at) /\ (cmd.mass \/ Step.end = cmd.addr + cmd.len)
  BY <1>1, <1>2 DEF Fits
<1>4. CASE next < Step.end
  <2>1. Within(cmd, next)
    BY <1>3, <1>4 DEF Within
  <2>2. [Step EXCEPT !.at = next] = [Step EXCEPT !.op = Step.op, !.at = next]
    BY <1>1 DEF CallRec
  <2>3. <<[Step EXCEPT !.op = Step.op, !.at = next]>> \in Seq(Inner(cmd, {Step.to}, Quiet))
    BY <1>2, <2>1, StepOfRange
  <2> QED
    BY <1>4, <2>2, <2>3
<1>5. CASE ~(next < Step.end)
  BY <1>5, EmptyIn
<1> QED
  BY <1>4, <1>5

\* A page of the range is erased, then the rest.
LEMMA EraseNextIs ==
  ASSUME TypeOK, EraseNext
  PROVE  \E ok \in BOOLEAN : \E calls : Becoming(ok, calls)
<1> DEFINE next == Step.at + PageSize(chip, Step.at)
           rest == IF next < Step.end THEN <<[Step EXCEPT !.at = next]>> ELSE <<>>
           ok == next <= Step.end \/ cmd.do = "write"
           body == EraseFlashPage(Step.at, Step.to)
<1>1. todo # <<>> /\ Step.op = "erase_next" /\ Becomes(ok, body \o rest)
  BY DEF EraseNext, At
<1>2. /\ Step \in CallRec /\ Fits(cmd, Step) /\ Step.at \in Nat /\ chip \in Chips
      /\ cmd \in CommandLine
  BY <1>1, HeadIs DEF TypeOK
<1>3. Within(cmd, Step.at) /\ Step.to \in Labels
  BY <1>1, <1>2 DEF Fits, RangeOps
<1>4. next \in Nat /\ (cmd.mass \/ cmd.addr <= next)
  <2>1. PageSize(chip, Step.at) \in Nat
    BY <1>2, PageSizes
  <2> HIDE DEF rest, ok, body
  <2> QED
    BY <1>2, <1>3, <2>1 DEF Within, CommandLine
<1>5. rest \in Seq(Inner(cmd, {Step.to}, Quiet))
  <2> HIDE DEF next
  <2> QED
    BY <1>1, <1>4, RestOfRange
<1>6. rest \in Seq(Inner(cmd, {Step.to}, Labels)) /\ rest \in Seq(CallRec) /\ Linked(rest)
        /\ Opens(rest)
  BY <1>5, InnerMore
<1>7. body \in Seq(Inner(cmd, {Step.to}, Labels)) /\ Linked(body) /\ Opens(body)
  BY <1>2, <1>3, EraseFlashPageIn, EraseFlashPageLinked
<1>8. body \in Seq(CallRec)
  BY <1>7, InnerPart DEF Part, Open
<1> HIDE DEF rest, body
<1>9. body \o rest \in Seq(Inner(cmd, {Step.to}, Labels)) /\ Linked(body \o rest)
        /\ Opens(body \o rest)
  BY <1>6, <1>7, <1>8, LinkedConcat, OpensConcat, SeqConcat
<1>10. ok \in BOOLEAN
  OBVIOUS
<1> QED
  BY <1>1, <1>9, <1>10 DEF Becoming

\* A page of the range is loaded, then the rest.
LEMMA WritePageIs ==
  ASSUME TypeOK, Listed, WritePage
  PROVE  \E calls : Becoming(TRUE, calls)
<1> DEFINE p == PageAt(chip, Step.at)
           next == FirstUnit(chip, p) + Extent(chip, p)
           load == <<[Step EXCEPT !.op = "load"]>>
           page == IF chip.type \in {"F0_F1_F3", "F1_XL"}
                   THEN <<Call("unlock")>> \o load \o <<Call("lock")>> ELSE load
           rest == IF next < Step.end THEN <<[Step EXCEPT !.at = next]>> ELSE <<>>
           S == Inner(cmd, {Step.to}, Quiet)
<1>1. todo # <<>> /\ Step.op = "write" /\ Becomes(TRUE, page \o rest)
  BY DEF WritePage, At
<1>2. /\ Step \in CallRec /\ Fits(cmd, Step) /\ Step.at \in Nat /\ chip \in Chips
      /\ cmd \in CommandLine
  BY <1>1, HeadIs DEF TypeOK
<1>3. Within(cmd, Step.at) /\ Step.to \in Labels
  BY <1>1, <1>2 DEF Fits, RangeOps
<1>4. next \in Nat /\ (cmd.mass \/ cmd.addr <= next)
  <2> HIDE DEF rest, page, load
  <2>1. p \in Pages(chip)
    BY <1>2, PageIs
  <2>2. FirstUnit(chip, p) \in Nat /\ Extent(chip, p) \in Nat
    BY <2>1, PagesJoin
  <2>3. ASSUME ~cmd.mass PROVE cmd.addr <= next
    <3>1. Writable
      BY <1>1, <2>3, RangeIsInFlash DEF Harmful, RangeOps
    <3>2. Step.at < FlashSize(chip)
      BY <1>2, <1>3, <2>3, <3>1, FlashSizeNat DEF Writable, InFlash, Within, CommandLine
    <3>3. Step.at < next
      BY <1>2, <3>2, PageSpan
    <3> HIDE DEF p
    <3> QED
      BY <1>2, <1>3, <2>2, <2>3, <3>3 DEF Within, CommandLine
  <2> QED
    BY <2>1, <2>2, <2>3
<1>5. rest \in Seq(S)
  <2> HIDE DEF next
  <2> QED
    BY <1>1, <1>4, RestOfRange
<1>6. load \in Seq(S)
  <2>1. [Step EXCEPT !.op = "load"] = [Step EXCEPT !.op = "load", !.at = Step.at]
    BY <1>2 DEF CallRec
  <2>2. "load" \in RangeOps /\ "write" \in RangeOps
    BY DEF RangeOps
  <2> HIDE DEF rest, page
  <2> QED
    BY <1>1, <1>2, <1>3, <2>1, <2>2, StepOfRange
<1>7. <<Call("unlock")>> \in Seq(S) /\ <<Call("lock")>> \in Seq(S)
  <2>1. \A f \in FreeOps : Call(f) \in S
    BY InnerCalls
  <2> HIDE DEF S
  <2> QED
    BY <2>1, OpsAre, OfMembers
<1> HIDE DEF load, rest, S
<1>8. page \o rest \in Seq(S)
  BY <1>5, <1>6, <1>7, SeqConcat
<1>9. page \o rest \in Seq(Inner(cmd, {Step.to}, Labels)) /\ Linked(page \o rest)
        /\ Opens(page \o rest)
  BY <1>8, InnerMore DEF S
<1> QED
  BY <1>1, <1>9 DEF Becoming

-----------------------------------------------------------------------------
(***************************************************************************)
(* What is left of calls in order.                                         *)
(***************************************************************************)

\* What is left of calls in order is in order.
LEMMA RestListed ==
  ASSUME NEW s \in Seq(CallRec), NEW u \in Seq(CallRec), NEW n, Rest(u, s, n)
  PROVE  /\ LabelsLast(s) => LabelsLast(u)
         /\ Linked(s) => Linked(u)
         /\ n < Len(s) => u # <<>> /\ u[1] = s[n + 1]
<1>1. Len(s) \in Nat /\ Len(u) \in Nat /\ n \in Nat /\ n <= Len(s) /\ Len(u) = Len(s) - n
  BY LenProperties DEF Rest
<1>2. \A i \in 1 .. Len(u) : n + i \in 1 .. Len(s) /\ u[i] = s[n + i]
  BY <1>1 DEF Rest
<1>3. ASSUME LabelsLast(s) PROVE LabelsLast(u)
  <2> SUFFICES ASSUME NEW i \in 1 .. Len(u), NEW j \in 1 .. Len(u), i < j, u[i].op \in Labels
               PROVE  u[j].op \notin Harmful
    BY DEF LabelsLast
  <2>1. n + i \in 1 .. Len(s) /\ n + j \in 1 .. Len(s) /\ n + i < n + j
    BY <1>1, <1>2
  <2> QED
    BY <1>2, <1>3, <2>1 DEF LabelsLast
<1>4. ASSUME Linked(s) PROVE Linked(u)
  <2> SUFFICES ASSUME NEW i \in 2 .. Len(u)
               PROVE  /\ u[i].op = "start" => u[i - 1].op = "select" /\ u[i].at = BankOf(u[i - 1].at)
                      /\ u[i].op = "select" /\ chip.type \in PerFirst =>
                           u[i - 1].op = "set_PER" /\ u[i - 1].at = BankOf(u[i].at)
    BY DEF Linked
  <2>1. n + i \in 2 .. Len(s) /\ u[i] = s[n + i] /\ u[i - 1] = s[(n + i) - 1]
    <3>1. n + i \in 2 .. Len(s) /\ i \in 1 .. Len(u) /\ i - 1 \in 1 .. Len(u)
      BY <1>1
    <3>2. n + (i - 1) = (n + i) - 1
      BY <1>1
    <3> QED
      BY <1>2, <3>1, <3>2
  <2> QED
    BY <1>4, <2>1 DEF Linked
<1>5. ASSUME n < Len(s) PROVE u # <<>> /\ u[1] = s[n + 1]
  <2>1. 1 \in 1 .. Len(u)
    BY <1>1, <1>5
  <2>2. Len(u) # 0
    BY <1>1, <1>5
  <2> QED
    BY <1>2, <2>1, <2>2, EmptySeq
<1> QED
  BY <1>3, <1>4, <1>5

\* What is left once the first call is made.
LEMMA TailListed ==
  ASSUME NEW s \in Seq(CallRec), s # <<>>
  PROVE  /\ Guarded(s) /\ s[1].op \notin Checks => Guarded(Tail(s))
         /\ Linked(s) /\ Tail(s) # <<>> =>
              /\ Tail(s)[1].op = "start" => s[1].op = "select" /\ Tail(s)[1].at = BankOf(s[1].at)
              /\ Tail(s)[1].op = "select" /\ chip.type \in PerFirst =>
                   s[1].op = "set_PER" /\ s[1].at = BankOf(Tail(s)[1].at)
<1>1. /\ Tail(s) \in Seq(CallRec) /\ Len(s) \in Nat \ {0} /\ Len(Tail(s)) = Len(s) - 1
      /\ \A i \in 1 .. Len(Tail(s)) : Tail(s)[i] = s[1 + i]
  BY TailRest DEF Rest
<1>2. ASSUME Guarded(s), s[1].op \notin Checks PROVE Guarded(Tail(s))
  <2> SUFFICES ASSUME NEW i \in 1 .. Len(Tail(s)),
                      Tail(s)[i].op \in Harmful \ {"erase_section", "start"}
               PROVE  \E j \in 1 .. i - 1 : Tail(s)[j].op \in Checks
    BY DEF Guarded
  <2>1. 1 + i \in 1 .. Len(s) /\ s[1 + i].op \in Harmful \ {"erase_section", "start"}
    BY <1>1
  <2>2. PICK j \in 1 .. (1 + i) - 1 : s[j].op \in Checks
    BY <1>2, <2>1 DEF Guarded
  <2>3. j # 1
    BY <1>2, <2>2
  <2>4. j - 1 \in 1 .. i - 1 /\ j - 1 \in 1 .. Len(Tail(s)) /\ 1 + (j - 1) = j
    BY <1>1, <2>2, <2>3
  <2> QED
    BY <1>1, <2>2, <2>4
<1>3. ASSUME Linked(s), Tail(s) # <<>>
      PROVE  /\ Tail(s)[1].op = "start" => s[1].op = "select" /\ Tail(s)[1].at = BankOf(s[1].at)
             /\ Tail(s)[1].op = "select" /\ chip.type \in PerFirst =>
                  s[1].op = "set_PER" /\ s[1].at = BankOf(Tail(s)[1].at)
  <2>1. Len(Tail(s)) \in Nat /\ Len(Tail(s)) # 0
    BY <1>1, <1>3, LenProperties, EmptySeq
  <2>2. 2 \in 2 .. Len(s) /\ Tail(s)[1] = s[2] /\ 2 - 1 = 1
    BY <1>1, <2>1
  <2> QED
    BY <1>3, <2>2 DEF Linked
<1> QED
  BY <1>2, <1>3

\* On the way out nothing touches the flash.
LEMMA JumpListed ==
  ASSUME NEW s \in Seq(CallRec), NEW u \in Seq(CallRec), NEW n, Rest(u, s, n), LabelsLast(s),
         n < Len(s), s[n + 1].op \in Labels
  PROVE  Harmless(u)
<1>1. Len(s) \in Nat /\ Len(u) \in Nat /\ n \in Nat /\ Len(u) = Len(s) - n
  BY LenProperties DEF Rest
<1>2. \A i \in 1 .. Len(u) : n + i \in 1 .. Len(s) /\ u[i] = s[n + i]
  BY <1>1 DEF Rest
<1>3. \A f \in Labels : f \notin Harmful
  BY DEF Labels, Harmful, PageOps, RangeOps
<1> SUFFICES ASSUME NEW i \in 1 .. Len(u) PROVE u[i].op \notin Harmful
  BY DEF Harmless
<1>4. CASE i = 1
  BY <1>2, <1>3, <1>4
<1>5. CASE i # 1
  <2>1. n + 1 \in 1 .. Len(s) /\ n + 1 < n + i
    BY <1>1, <1>5
  <2> QED
    BY <1>2, <2>1 DEF LabelsLast
<1> QED
  BY <1>4, <1>5

\* The first call, if it is a start, is prepared by the one made just before.
Follows(s) ==
  s # <<>> =>
    /\ s[1].op = "start" => Step.op = "select" /\ s[1].at = BankOf(Step.at)
    /\ s[1].op = "select" /\ chip.type \in PerFirst =>
         Step.op = "set_PER" /\ Step.at = BankOf(s[1].at)

\* Where nothing is harmful nothing needs preparing.
LEMMA HarmlessFollows ==
  ASSUME NEW s \in Seq(CallRec), Harmless(s)
  PROVE  Follows(s)
<1>1. s # <<>> => 1 \in 1 .. Len(s)
  <2>1. Len(s) \in Nat /\ (s # <<>> => Len(s) # 0)
    BY LenProperties, EmptySeq
  <2> QED
    BY <2>1
<1>2. "start" \in Harmful /\ "select" \in Harmful
  BY DEF Harmful, PageOps
<1> QED
  BY <1>1, <1>2 DEF Harmless, Follows

\* Wherever a call goes on, the calls to come are in order.
LEMMA OnwardListed ==
  ASSUME TypeOK, Listed, ~cmd.mass, todo # <<>>,
         todo' = Tail(todo) \/ (Step.to # "" /\ todo' = From(Step.to))
  PROVE  /\ LabelsLast(todo') /\ Linked(todo') /\ Follows(todo')
         /\ (Step.op \in Checks /\ todo' = Tail(todo)) \/ Guarded(todo') \/ Writable
<1>1. todo \in Seq(CallRec) /\ Len(todo) \in Nat /\ todo' \in Seq(CallRec)
        /\ Step.to \in Labels \cup {""}
  BY HeadIs, Onward
<1>2. LabelsLast(todo) /\ Linked(todo) /\ (Guarded(todo) \/ Writable)
  BY DEF Listed
<1>3. PICK n \in 0 .. Len(todo) :
        /\ Rest(todo', todo, n)
        /\ \/ n = 1 /\ todo' = Tail(todo)
           \/ n < Len(todo) /\ Step.to # "" /\ todo[n + 1].op = Step.to
  BY Onward
<1>4. CASE n = 1 /\ todo' = Tail(todo)
  <2>1. LabelsLast(todo') /\ Linked(todo')
    BY <1>1, <1>2, <1>3, RestListed
  <2>2. /\ Guarded(todo) /\ todo[1].op \notin Checks => Guarded(Tail(todo))
        /\ Follows(Tail(todo))
    BY <1>1, <1>2, TailListed DEF Follows, Step
  <2> QED
    BY <1>2, <1>4, <2>1, <2>2 DEF Step
<1>5. CASE n < Len(todo) /\ Step.to # "" /\ todo[n + 1].op = Step.to
  <2>1. Harmless(todo')
    BY <1>1, <1>2, <1>3, <1>5, JumpListed
  <2> QED
    BY <1>1, <2>1, HarmlessIs, HarmlessFollows
<1> QED
  BY <1>3, <1>4, <1>5

\* What a call of Replaced becomes, and that a range it lets pass is in the flash.
LEMMA ReplacedIs ==
  ASSUME TypeOK, Listed, EraseSection \/ EraseNext \/ WritePage \/ CheckRange \/ Unsupported
  PROVE  /\ todo # <<>> /\ Step.op \in Replaced /\ Step.to \in Labels
         /\ \E ok \in BOOLEAN : \E calls :
              Becoming(ok, calls) /\ (ok /\ ~cmd.mass => Writable)
<1>1. /\ todo # <<>> /\ Step.op \in Replaced
      /\ EraseSection => Step.op = "erase_section"
      /\ EraseNext => Step.op = "erase_next" /\ Step.op \notin Checks
      /\ WritePage => Step.op = "write" /\ Step.op \notin Checks
      /\ CheckRange => Step.op = "check_range"
      /\ Unsupported => Step.op = "unsupported" /\ Step.op \notin Checks
  BY DEF EraseSection, EraseNext, WritePage, CheckRange, Unsupported, At, Replaced, Checks
<1>2. /\ Step \in CallRec /\ Fits(cmd, Step) /\ Step.at \in Nat /\ cmd \in CommandLine
        /\ chip \in Chips
  BY <1>1, HeadIs DEF TypeOK
<1>3. Step.op \in RangeOps \/ Step.op \in Refusals
  BY <1>1 DEF Replaced, RangeOps, Refusals
<1>4. Step.to \in Labels
  BY <1>2, <1>3 DEF Fits
<1>5. CASE EraseSection
  <2>1. PICK ok \in BOOLEAN : \E calls : Becoming(ok, calls) /\ (ok => InFlash(Step.at, Step.end))
    BY <1>5, EraseSectionIs
  <2>2. ASSUME ok, ~cmd.mass PROVE Writable
    <3>1. Step.end = cmd.addr + cmd.len /\ cmd.addr <= Step.at
      BY <1>1, <1>2, <1>5, <2>2 DEF Fits, RangeOps, Within
    <3>2. InFlash(Step.at, Step.end)
      BY <2>1, <2>2
    <3> QED
      BY <1>2, <3>1, <3>2, FlashSizeNat DEF Writable, InFlash, CommandLine
  <2> QED
    BY <1>1, <1>4, <2>1, <2>2
<1>6. CASE EraseNext
  <2>1. ~cmd.mass => Writable
    BY <1>1, <1>6, RangeIsInFlash DEF Harmful, RangeOps
  <2> QED
    BY <1>1, <1>4, <1>6, <2>1, EraseNextIs
<1>7. CASE WritePage
  <2>1. ~cmd.mass => Writable
    BY <1>1, <1>7, RangeIsInFlash DEF Harmful, RangeOps
  <2> QED
    BY <1>1, <1>4, <1>7, <2>1, WritePageIs
<1>8. CASE CheckRange
  <2> DEFINE ok == InFlash(Step.at, Step.end) /\ (Padded(cmd) \/ Aligned(Step.at))
  <2>1. Becoming(ok, <<>>)
    BY <1>8, EmptyCalls DEF CheckRange, Becoming
  <2>2. ok => Writable
    BY <1>1, <1>2, <1>8 DEF Fits, Writable
  <2>3. ok \in BOOLEAN
    OBVIOUS
  <2> HIDE DEF ok
  <2> QED
    BY <1>1, <1>4, <2>1, <2>2, <2>3
<1>9. CASE Unsupported
  <2>1. Becoming(FALSE, <<>>)
    BY <1>9, EmptyCalls DEF Unsupported, Becoming
  <2> QED
    BY <1>1, <1>4, <2>1
<1> QED
  BY <1>5, <1>6, <1>7, <1>8, <1>9

\* On a way out nothing touches the flash.
LEMMA FromHarmless ==
  ASSUME TypeOK, todo # <<>>, Step.to \in Labels, LabelsLast(todo)
  PROVE  From(Step.to) \in Seq(CallRec) /\ Harmless(From(Step.to))
<1>1. todo \in Seq(CallRec) /\ Len(todo) \in Nat
  BY HeadIs
<1>2. Has(todo, Step.to)
  BY TargetAhead DEF Labels
<1>3. PICK n \in 0 .. Len(todo) - 1 :
        /\ From(Step.to) \in Seq(CallRec) /\ Rest(From(Step.to), todo, n)
        /\ todo[n + 1].op = Step.to
  BY <1>1, <1>2, FromRest
<1>4. n < Len(todo)
  BY <1>1, Before
<1> QED
  BY <1>1, <1>3, <1>4, JumpListed

\* The calls it becomes are in order with those that follow.
LEMMA BecomingIs ==
  ASSUME TypeOK, Listed, todo # <<>>, Step.op \in Replaced, Step.to \in Labels,
         NEW ok \in BOOLEAN, NEW calls, Becoming(ok, calls),
         ok /\ ~cmd.mass => Writable
  PROVE  /\ TypeOK'
         /\ UNCHANGED <<chip, target, cmd, err, backup, runs, faults, lost, killed, tidy, licence>>
         /\ ~cmd.mass => /\ LabelsLast(todo') /\ Linked(todo') /\ Opens(todo')
                         /\ Guarded(todo') \/ Writable
<1>1. /\ calls \in Seq(Inner(cmd, {Step.to}, Labels)) /\ Linked(calls) /\ Opens(calls)
      /\ Becomes(ok, calls)
  BY DEF Becoming
<1>2. Step.to # "" /\ {Step.to} \ {""} = {Step.to}
  BY DEF Labels
<1>3. TypeOK'
  BY <1>1, <1>2, BecomesType
<1>4. UNCHANGED <<chip, target, cmd, err, backup, runs, faults, lost, killed, tidy, licence>>
  BY <1>1 DEF Becomes
<1>5. ASSUME ~cmd.mass
      PROVE  /\ LabelsLast(todo') /\ Linked(todo') /\ Opens(todo')
             /\ Guarded(todo') \/ Writable
  <2>1. todo \in Seq(CallRec) /\ Len(todo) \in Nat /\ Tail(todo) \in Seq(CallRec)
    BY HeadIs, TailRest
  <2>2. LabelsLast(todo) /\ Linked(todo) /\ (Guarded(todo) \/ Writable)
    BY <1>5 DEF Listed
  <2>3. CASE ok
    <3>1. todo' = calls \o Tail(todo)
      BY <1>1, <2>3 DEF Becomes
    <3>2. calls \in Seq(CallRec) /\ Unlabelled(calls)
      BY <1>1, InnerPart DEF Part, Open, Unlabelled
    <3>3. LabelsLast(Tail(todo)) /\ Linked(Tail(todo))
      BY <2>1, <2>2, TailRest, RestListed
    <3>4. Step.op # "select" /\ Step.op # "set_PER"
      BY DEF Replaced
    <3>5. Opens(Tail(todo))
      BY <2>1, <2>2, <3>4, TailListed DEF Opens, Step
    <3>6. Writable
      BY <1>5, <2>3
    <3>7. LabelsLast(calls)
      BY <3>2 DEF LabelsLast, Unlabelled
    <3>8. LabelsLast(calls \o Tail(todo)) /\ Linked(calls \o Tail(todo)) /\ Opens(calls \o Tail(todo))
      BY <1>1, <2>1, <3>2, <3>3, <3>5, <3>7, LabelsConcat, LinkedConcat, OpensConcat
    <3> QED
      BY <3>1, <3>6, <3>8
  <2>4. CASE ~ok
    <3>1. todo' = From(Step.to)
      BY <1>1, <2>4 DEF Becomes
    <3> QED
      BY <2>2, <3>1, FromHarmless, HarmlessIs
  <2> QED
    BY <2>3, <2>4
<1> QED
  BY <1>3, <1>4, <1>5

-----------------------------------------------------------------------------
(***************************************************************************)
(* Command lines, resets and connections.                                  *)
(***************************************************************************)

\* The command lines are what main accepts.
LEMMA LinesAre ==
  ASSUME chip \in Chips, NEW k \in Lines(chip)
  PROVE  Asking(k) /\ (k.mass => k.do \in {"write", "erase"})
<1>1. \A r \in Ranges(chip) : r[1] \in Nat /\ r[2] \in Nat /\ r[2] > 0
  BY DEF Ranges, Across, FlashSize
<1>2. Across(chip) \in Ranges(chip) /\ <<1, 2>> \in Ranges(chip)
  BY DEF Ranges
<1>3. <<0, 0>>[1] \in Nat /\ <<0, 0>>[2] \in Nat
  OBVIOUS
<1>4. ASSUME NEW do \in {"write", "erase", "reset", "option_file", "option_bytes", "optcr", "optcr1"},
             NEW mass \in BOOLEAN, NEW odd \in BOOLEAN, NEW r, r[1] \in Nat, r[2] \in Nat,
             k = Line(do, mass, odd, r)
      PROVE  k \in CommandLine /\ k.do = do /\ k.mass = mass /\ k.len = r[2]
  BY <1>4 DEF Line, CommandLine
<1>5. CASE \E do \in {"write", "erase"} : \E r \in Ranges(chip) : k = Line(do, FALSE, FALSE, r)
  <2>1. PICK do \in {"write", "erase"}, r \in Ranges(chip) : k = Line(do, FALSE, FALSE, r)
    BY <1>5
  <2>2. k \in CommandLine /\ k.do = do /\ k.mass = FALSE /\ k.len = r[2] /\ r[2] > 0
    BY <1>1, <1>4, <2>1
  <2> QED
    BY <2>2 DEF Asking
<1>6. CASE \E odd \in BOOLEAN : \E r \in Ranges(chip) : k = Line("write", TRUE, odd, r)
  <2>1. PICK odd \in BOOLEAN, r \in Ranges(chip) : k = Line("write", TRUE, odd, r)
    BY <1>6
  <2>2. k \in CommandLine /\ k.do = "write" /\ k.len = r[2] /\ r[2] > 0
    BY <1>1, <1>4, <2>1
  <2> QED
    BY <2>2 DEF Asking
<1>7. CASE k = Line("erase", TRUE, FALSE, <<0, 0>>)
  <2>1. k \in CommandLine /\ k.do = "erase" /\ k.mass = TRUE
    BY <1>3, <1>4, <1>7
  <2> QED
    BY <2>1 DEF Asking
<1>8. CASE \E do \in {"reset", "option_file", "option_bytes", "optcr", "optcr1"} :
             k = Line(do, FALSE, FALSE, <<0, 0>>)
  <2>1. PICK do \in {"reset", "option_file", "option_bytes", "optcr", "optcr1"} :
          k = Line(do, FALSE, FALSE, <<0, 0>>)
    BY <1>8
  <2>2. k \in CommandLine /\ k.do = do /\ k.mass = FALSE
    BY <1>3, <1>4, <2>1
  <2> QED
    BY <2>2 DEF Asking
<1> QED
  BY <1>2, <1>5, <1>6, <1>7, <1>8 DEF Lines

\* A chip that has run for a while is a controller.
LEMMA FreshType ==
  ASSUME chip \in Chips
  PROVE  Fresh(chip) \in Controller(chip)
<1>1. CrAtReset(chip) \in [Bank -> SUBSET Bits]
  BY BitsAre DEF CrAtReset
<1> QED
  BY <1>1 DEF Fresh, Controller

\* A reset touches the pages that are being erased, and ends their erasing.
Cuts(c, t, u) ==
  /\ u \in Controller(c) /\ \A b \in Bank : u.job[b] = {}
  /\ \A p \in Pages(c) : u.mem[p] # t.mem[p] => p \in t.job[1] \cup t.job[2]

\* A reset does no more.
LEMMA ResetCuts ==
  ASSUME NEW c \in Chips, NEW t \in Controller(c)
  PROVE  Cuts(c, t, ResetChip(c, t))
<1>1. CrAtReset(c) \in [Bank -> SUBSET Bits]
  BY BitsAre DEF CrAtReset
<1>2. ResetChip(c, t) \in Controller(c)
  BY <1>1 DEF ResetChip, Controller
<1>3. \A b \in Bank : ResetChip(c, t).job[b] = {}
  BY DEF ResetChip, Controller
<1>4. \A p \in Pages(c) : ResetChip(c, t).mem[p] # t.mem[p] => p \in t.job[1] \cup t.job[2]
  BY DEF ResetChip, Controller
<1> QED
  BY <1>2, <1>3, <1>4 DEF Cuts

\* Nor do the catches, the halt and DMA that go with it.
LEMMA CutsMore ==
  ASSUME NEW c \in Chips, NEW t, NEW u, Cuts(c, t, u), NEW a \in SUBSET {"reset", "fault"},
         NEW h \in BOOLEAN
  PROVE  /\ Cuts(c, t, [u EXCEPT !.catches = a, !.halted = h])
         /\ Cuts(c, t, [u EXCEPT !.catches = a, !.halted = h, !.dma = FALSE])
         /\ Cuts(c, t, [u EXCEPT !.debug = h])
<1>1. u \in Controller(c)
  BY DEF Cuts
<1>2. /\ [u EXCEPT !.catches = a, !.halted = h] \in Controller(c)
      /\ [u EXCEPT !.catches = a, !.halted = h, !.dma = FALSE] \in Controller(c)
      /\ [u EXCEPT !.debug = h] \in Controller(c)
  BY <1>1 DEF Controller
<1>3. \A v \in {[u EXCEPT !.catches = a, !.halted = h],
                [u EXCEPT !.catches = a, !.halted = h, !.dma = FALSE],
                [u EXCEPT !.debug = h]} : v.job = u.job /\ v.mem = u.mem
  BY <1>1 DEF Controller
<1> QED
  BY <1>2, <1>3 DEF Cuts

\* Nor do stlink_reset and the connection under reset.
LEMMA ResetsCut ==
  ASSUME chip \in Chips, NEW t \in Controller(chip), NEW soft \in BOOLEAN
  PROVE  Cuts(chip, t, Reset(t, soft)) /\ Cuts(chip, t, ResetIntoVector(t))
<1>1. Cuts(chip, t, ResetChip(chip, t))
  BY ResetCuts
<1>2. t.catches \in SUBSET {"reset", "fault"} /\ t.debug \in BOOLEAN
  BY DEF Controller
<1> DEFINE armed == IF soft THEN {"fault"} ELSE t.catches
           halt == "reset" \in armed /\ t.debug
<1>3. armed \in SUBSET {"reset", "fault"} /\ halt \in BOOLEAN
  BY <1>2
<1>4. Reset(t, soft) = [ResetChip(chip, t) EXCEPT !.catches = armed, !.halted = halt]
  BY DEF Reset
<1> HIDE DEF armed, halt
<1>5. Cuts(chip, t, Reset(t, soft))
  <2> DEFINE u == ResetChip(chip, t)
  <2>1. Cuts(chip, t, u)
    BY <1>1
  <2>2. Reset(t, soft) = [u EXCEPT !.catches = armed, !.halted = halt]
    BY <1>4
  <2> HIDE DEF u
  <2>3. Cuts(chip, t, [u EXCEPT !.catches = armed, !.halted = halt])
    BY <1>3, <2>1, CutsMore
  <2> QED
    BY <2>2, <2>3
<1>6. {"reset", "fault"} \in SUBSET {"reset", "fault"} /\ TRUE \in BOOLEAN
  OBVIOUS
<1>7. Cuts(chip, t, ResetIntoVector(t))
  BY <1>1, <1>6, CutsMore DEF ResetIntoVector
<1> QED
  BY <1>5, <1>7

\* Connecting changes no page but those that were being erased.
LEMMA ConnectedIs ==
  ASSUME chip \in Chips, target \in Controller(chip), NEW how \in Connects, NEW soft \in BOOLEAN
  PROVE  /\ Connected(how, soft) \in Controller(chip)
         /\ \A b \in Bank : Connected(how, soft).job[b] \subseteq target.job[1] \cup target.job[2]
         /\ \A p \in Pages(chip) : Connected(how, soft).mem[p] # target.mem[p] =>
                                     p \in target.job[1] \cup target.job[2]
<1>1. how \in {"normal", "under_reset", "hot-plug"}
  BY ConnectsAreKinds
<1>2. CASE how \in {"normal", "under_reset"}
  <2>1. Cuts(chip, target, Connected(how, soft))
    <3>1. Cuts(chip, target, [Reset(target, soft) EXCEPT !.debug = TRUE])
      BY ResetsCut, CutsMore
    <3>2. Cuts(chip, target, [ResetIntoVector(target) EXCEPT !.debug = TRUE])
      BY ResetsCut, CutsMore
    <3> QED
      BY <1>2, <3>1, <3>2 DEF Connected
  <2> QED
    BY <2>1 DEF Cuts
<1>3. CASE how = "hot-plug"
  <2>1. Connected(how, soft) = [target EXCEPT !.debug = TRUE]
    BY <1>3 DEF Connected
  <2>2. /\ [target EXCEPT !.debug = TRUE] \in Controller(chip)
        /\ [target EXCEPT !.debug = TRUE].job = target.job
        /\ [target EXCEPT !.debug = TRUE].mem = target.mem
    BY DEF Controller
  <2>3. \A b \in Bank : b = 1 \/ b = 2
    BY DEF Bank
  <2> QED
    BY <2>1, <2>2, <2>3
<1> QED
  BY <1>1, <1>2, <1>3

-----------------------------------------------------------------------------
(***************************************************************************)
(* Programming and erasing.                                                *)
(***************************************************************************)

\* A unit of data changes the page it arrives in only.
LEMMA ProgramIs ==
  ASSUME NEW c \in Chips, NEW t \in Controller(c), NEW p \in Pages(c)
  PROVE  /\ Program(c, t, p) \in Controller(c) /\ Program(c, t, p).job = t.job
         /\ \A q \in Pages(c) : q # p => Program(c, t, p).mem[q] = t.mem[q]
<1> DEFINE b == Reg(c, PageBank(c, p))
<1>1. b \in Bank
  BY DEF Reg, PageBank, Bank
<1> HIDE DEF b
<1>2. Program(c, t, p) = IF ~Programmable(c, t, p) THEN [t EXCEPT !.sr = @ \cup {b}]
                         ELSE IF t.mem[p] = "blank" THEN [t EXCEPT !.mem[p] = "new"]
                         ELSE [t EXCEPT !.mem[p] = "mixed", !.sr = @ \cup {b}]
  BY DEF Program, b
<1>3. t.sr \cup {b} \in SUBSET Bank
  BY <1>1 DEF Controller
<1>4. /\ [t EXCEPT !.sr = @ \cup {b}] \in Controller(c)
      /\ [t EXCEPT !.mem[p] = "new"] \in Controller(c)
      /\ [t EXCEPT !.mem[p] = "mixed", !.sr = @ \cup {b}] \in Controller(c)
  BY <1>3 DEF Controller
<1>5. /\ [t EXCEPT !.sr = @ \cup {b}].job = t.job /\ [t EXCEPT !.sr = @ \cup {b}].mem = t.mem
      /\ [t EXCEPT !.mem[p] = "new"].job = t.job
      /\ [t EXCEPT !.mem[p] = "mixed", !.sr = @ \cup {b}].job = t.job
  BY DEF Controller
<1>6. ASSUME NEW q \in Pages(c), q # p
      PROVE  /\ [t EXCEPT !.mem[p] = "new"].mem[q] = t.mem[q]
             /\ [t EXCEPT !.mem[p] = "mixed", !.sr = @ \cup {b}].mem[q] = t.mem[q]
  BY <1>6 DEF Controller
<1>7. Program(c, t, p) \in Controller(c) /\ Program(c, t, p).job = t.job
  BY <1>2, <1>4, <1>5
<1>8. ASSUME NEW q \in Pages(c), q # p PROVE Program(c, t, p).mem[q] = t.mem[q]
  BY <1>2, <1>5, <1>6, <1>8
<1> QED
  BY <1>7, <1>8

\* The end of an erase changes the pages that were being erased only.
LEMMA FinishIs ==
  ASSUME NEW c \in Chips, NEW t \in Controller(c), NEW b \in Bank
  PROVE  /\ Finish(t, b) \in Controller(c)
         /\ \A d \in Bank : Finish(t, b).job[d] \subseteq t.job[d]
         /\ \A q \in Pages(c) : Finish(t, b).mem[q] # t.mem[q] => q \in t.job[b]
         /\ Finish(t, b).cr = t.cr /\ Finish(t, b).sel = t.sel
<1>1. DOMAIN t.mem = Pages(c)
  BY DEF Controller
<1> QED
  BY <1>1 DEF Finish, Controller

\* The erasing of pages is begun, and nothing else changes in the flash.
Begun(c, t, u, pages) ==
  u \in Controller(c) /\ u.mem = t.mem /\ \A b \in Bank : u.job[b] \subseteq t.job[b] \cup pages

\* The commands of L0, L1 and WB0 begin to erase the pages they name.
LEMMA CommandsBegin ==
  ASSUME NEW c \in Chips, NEW t \in Controller(c), NEW l \in Exchange
  PROVE  /\ \A u \in Nat : Begun(c, t, PecrErase(c, t, u, l), {PageAt(c, u)})
         /\ \A pages \in SUBSET Pages(c) : Begun(c, t, CommandErase(c, t, pages, l), pages)
<1>1. 1 \in Bank
  BY DEF Bank
<1>2. ASSUME NEW u \in Nat PROVE Begun(c, t, PecrErase(c, t, u, l), {PageAt(c, u)})
  <2>1. {PageAt(c, u)} \in SUBSET Pages(c)
    BY PageIs
  <2> QED
    BY <1>1, <2>1 DEF Begun, PecrErase, Controller
<1>3. ASSUME NEW pages \in SUBSET Pages(c) PROVE Begun(c, t, CommandErase(c, t, pages, l), pages)
  <2>1. CASE ~l.write
    BY <2>1 DEF Begun, CommandErase
  <2>2. CASE l.write /\ c.refuses
    BY <1>1, <2>2 DEF Begun, CommandErase, Controller
  <2>3. CASE l.write /\ ~c.refuses
    BY <1>1, <2>3 DEF Begun, CommandErase, Controller
  <2> QED
    BY <2>1, <2>2, <2>3
<1> QED
  BY <1>2, <1>3

\* A register that is locked, or has both ways of erasing selected, starts nothing.
Refuses(bits) == "LOCK" \in bits \/ {"PER", "MER"} \subseteq bits

\* The start bit has the pages erased that the register names, if what goes
\* back into it is what was read.
LEMMA StartIs ==
  ASSUME NEW c \in Chips, NEW t \in Controller(c), NEW b \in Bank, NEW l \in Exchange
  PROVE  /\ Begun(c, t, SetFlashCrStrt(c, t, b, l), Pages(c))
         /\ l.read => Begun(c, t, SetFlashCrStrt(c, t, b, l),
                            IF Refuses(t.cr[Reg(c, b)]) THEN {} ELSE Erases(c, t, Reg(c, b)))
<1> DEFINE r == Reg(c, b)
           one == WriteCr(c, t, b, ReadCr(c, t, b, l), l)
           u == SetFlashCrStrt(c, t, b, l)
<1>1. r \in Bank
  BY DEF Reg, Bank
<1>2. one \in Controller(c) /\ one.mem = t.mem /\ one.job = t.job
  BY ReadCrType, WriteCrType, WriteCrKeeps
<1>3. u \in Controller(c)
  BY HelperTypes
<1>4. u = IF ~l.write THEN t ELSE BeginErase(c, one, r)
  BY DEF SetFlashCrStrt, StartSelected
<1>5. l.read => one.cr[r] = t.cr[r] /\ one.sel = t.sel
  BY <1>1 DEF WriteCr, ReadCr, Controller
<1>6. Erases(c, one, r) \subseteq Pages(c)
  BY DEF Erases, Named, MassErases
<1>7. l.read => Erases(c, one, r) = Erases(c, t, r)
  BY <1>5 DEF Erases
<1> HIDE DEF one, r, u
<1>8. u.mem = t.mem /\ \A d \in Bank : u.job[d] = t.job[d]
                         \/ (~Refuses(one.cr[r]) /\ u.job[d] = Erases(c, one, r))
  BY <1>1, <1>2, <1>4 DEF BeginErase, Controller, Refuses
<1>9. Begun(c, t, u, Pages(c))
  BY <1>3, <1>6, <1>8 DEF Begun
<1>10. l.read => Begun(c, t, u, IF Refuses(t.cr[r]) THEN {} ELSE Erases(c, t, r))
  BY <1>3, <1>5, <1>7, <1>8 DEF Begun
<1> QED
  BY <1>9, <1>10 DEF u, r

\* Choosing a page changes none.
LEMMA SelectedKeeps ==
  ASSUME chip \in Chips, chip.type \notin {"L0_L1", "WB0"}, NEW t \in Controller(chip),
         NEW u \in Nat, NEW l \in Exchange
  PROVE  Keeps(chip, t, Selected(t, u, l))
<1>1. PICK bits \in SUBSET Bits, bk \in {0, 1}, n \in Nat :
        /\ Selected(t, u, l) = Select(chip, t, BankOf(u), bits, bk, n, l)
        /\ l.read /\ Known(chip) => Names(u, bk, n)
        /\ l.read => "PER" \in bits \/ (chip.type \in PerFirst /\ bits = t.cr[BankOf(u)])
        /\ l.read => bits \subseteq t.cr[BankOf(u)] \cup {"PER"}
  BY SelectedIs
<1>2. BankOf(u) \in Bank
  BY DEF BankOf, Bank
<1>3. Selected(t, u, l) \in Controller(chip)
  BY <1>1, <1>2, SelectType
<1>4. Selected(t, u, l).mem = t.mem /\ Selected(t, u, l).job = t.job
  BY <1>1 DEF Select, Controller
<1> QED
  BY <1>3, <1>4 DEF Keeps

\* The calls of Touching, and the last, keep the controller one.
LEMMA TouchingType ==
  ASSUME TypeOK,
         \/ SelectPageToErase \/ SetPer \/ Start \/ EraseWord \/ CommandPageErase
         \/ CommandMassErase \/ Load \/ ResetTarget \/ Leave
  PROVE  /\ Made /\ Step.op \in Touching \cup {"leave"}
         /\ target' \in Controller(chip) /\ backup' \in BOOLEAN
<1>1. chip \in Chips /\ target \in Controller(chip) /\ backup \in BOOLEAN
  BY DEF TypeOK
<1>2. ASSUME NEW f, NEW l, NEW t, NEW ok, Doing(f, l, t), Returns(ok), t \in Controller(chip),
             f \in Touching \cup {"leave"}
      PROVE  /\ Made /\ Step.op \in Touching \cup {"leave"}
             /\ target' \in Controller(chip) /\ backup' \in BOOLEAN
  <2>1. /\ todo # <<>> /\ Step.op = f /\ l \in Either /\ Link(l) /\ target' = t /\ backup' = backup
    BY <1>2 DEF Doing, At
  <2> QED
    BY <1>1, <1>2, <2>1 DEF Made
<1>3. \A f, l, t : Doing(f, l, t) => l \in Exchange /\ todo # <<>> /\ Step.op = f
  BY ExchangesAre DEF Doing, At
<1>4. \A f \in {"select", "set_PER", "start", "erase_word", "command_erase", "command_mass_erase",
                "load", "reset", "leave"} : f \in Touching \cup {"leave"}
  BY DEF Touching
<1>5. todo # <<>> => Step \in CallRec /\ Fits(cmd, Step) /\ Step.at \in Nat
  BY HeadIs
<1>6. CASE SelectPageToErase
  <2>1. PICK l : Doing("select", l, Selected(target, Step.at, l)) /\ Returns(TRUE)
    BY <1>6, TouchingAre
  <2>2. l \in Exchange /\ Step.at \in Nat /\ chip.type \notin {"L0_L1", "WB0"}
    BY <1>3, <1>5, <2>1 DEF Fits
  <2>3. Selected(target, Step.at, l) \in Controller(chip)
    BY <1>1, <2>2, SelectedKeeps DEF Keeps
  <2> QED
    BY <1>2, <1>4, <2>1, <2>3
<1>7. CASE SetPer
  <2>1. PICK l : Doing("set_PER", l, SetFlashCrPer(chip, target, Step.at, l)) /\ Returns(TRUE)
    BY <1>7, TouchingAre
  <2>2. l \in Exchange /\ Step.at \in Bank
    BY <1>3, <1>5, <2>1 DEF Fits, BankOps
  <2>3. SetFlashCrPer(chip, target, Step.at, l) \in Controller(chip)
    BY <1>1, <2>2, HelperTypes
  <2> QED
    BY <1>2, <1>4, <2>1, <2>3
<1>8. CASE Start
  <2>1. PICK l : Doing("start", l, SetFlashCrStrt(chip, target, Step.at, l)) /\ Returns(TRUE)
    BY <1>8, TouchingAre
  <2>2. l \in Exchange /\ Step.at \in Bank
    BY <1>3, <1>5, <2>1 DEF Fits, BankOps
  <2>3. SetFlashCrStrt(chip, target, Step.at, l) \in Controller(chip)
    BY <1>1, <2>2, HelperTypes
  <2> QED
    BY <1>2, <1>4, <2>1, <2>3
<1>9. CASE EraseWord
  <2>1. PICK l : Doing("erase_word", l, PecrErase(chip, target, Step.at, l)) /\ Returns(TRUE)
    BY <1>9, TouchingAre
  <2>2. l \in Exchange /\ Step.at \in Nat
    BY <1>3, <1>5, <2>1
  <2>3. PecrErase(chip, target, Step.at, l) \in Controller(chip)
    BY <1>1, <2>2, CommandsBegin DEF Begun
  <2> QED
    BY <1>2, <1>4, <2>1, <2>3
<1>10. CASE CommandPageErase
  <2>1. PICK l : /\ Doing("command_erase", l, CommandErase(chip, target, {PageAt(chip, Step.at)}, l))
                 /\ Returns(TRUE)
    BY <1>10, TouchingAre
  <2>2. l \in Exchange /\ Step.at \in Nat
    BY <1>3, <1>5, <2>1
  <2>3. {PageAt(chip, Step.at)} \in SUBSET Pages(chip)
    BY <1>1, <2>2, PageIs
  <2>4. CommandErase(chip, target, {PageAt(chip, Step.at)}, l) \in Controller(chip)
    BY <1>1, <2>2, <2>3, CommandsBegin DEF Begun
  <2> QED
    BY <1>2, <1>4, <2>1, <2>4
<1>11. CASE CommandMassErase
  <2>1. PICK l : /\ Doing("command_mass_erase", l, CommandErase(chip, target, Pages(chip), l))
                 /\ Returns(TRUE)
    BY <1>11, TouchingAre
  <2>2. l \in Exchange
    BY <1>3, <2>1
  <2>3. CommandErase(chip, target, Pages(chip), l) \in Controller(chip)
    BY <1>1, <2>2, CommandsBegin DEF Begun
  <2> QED
    BY <1>2, <1>4, <2>1, <2>3
<1>12. CASE Load
  <2>5. PICK l : \E soft \in BOOLEAN : \E ok :
          /\ Doing("load", l, IF l.write \/ soft THEN Program(chip, target, PageAt(chip, Step.at))
                              ELSE target)
          /\ Returns(ok)
    BY <1>12, TouchingAre, Zenon
  <2>1. PICK soft \in BOOLEAN : \E ok :
          /\ Doing("load", l, IF l.write \/ soft THEN Program(chip, target, PageAt(chip, Step.at))
                              ELSE target)
          /\ Returns(ok)
    BY <2>5
  <2>2. l \in Exchange /\ Step.at \in Nat
    BY <1>3, <1>5, <2>1
  <2>3. Program(chip, target, PageAt(chip, Step.at)) \in Controller(chip)
    BY <1>1, <2>2, PageIs, ProgramIs
  <2>4. (IF l.write \/ soft THEN Program(chip, target, PageAt(chip, Step.at)) ELSE target)
          \in Controller(chip)
    BY <1>1, <2>3
  <2> QED
    BY <1>2, <1>4, <2>1, <2>4
<1>13. CASE ResetTarget
  <2>5. PICK l : \E soft \in BOOLEAN : \E ok :
          Doing("reset", l, IF l.write THEN Reset(target, soft) ELSE target) /\ Returns(ok)
    BY <1>13, TouchingAre, Zenon
  <2>1. PICK soft \in BOOLEAN : \E ok :
          Doing("reset", l, IF l.write THEN Reset(target, soft) ELSE target) /\ Returns(ok)
    BY <2>5
  <2>2. (IF l.write THEN Reset(target, soft) ELSE target) \in Controller(chip)
    BY <1>1, ResetsCut DEF Cuts
  <2> QED
    BY <1>2, <1>4, <2>1, <2>2
<1>14. CASE Leave
  <2>1. PICK l : /\ Doing("leave", l, IF l = Good /\ Step.at = 0 THEN LetGo(target) ELSE target)
                 /\ Returns(TRUE)
    BY <1>14, TouchingAre
  <2>2. LetGo(target) \in Controller(chip)
    BY <1>1 DEF LetGo, Controller
  <2>3. (IF l = Good /\ Step.at = 0 THEN LetGo(target) ELSE target) \in Controller(chip)
    BY <1>1, <2>2
  <2> QED
    BY <1>2, <1>4, <2>1, <2>3
<1> QED
  BY <1>6, <1>7, <1>8, <1>9, <1>10, <1>11, <1>12, <1>13, <1>14

\* What a call that is made leaves to do.
LEMMA MadeIs ==
  ASSUME TypeOK, Listed, Made, target' \in Controller(chip), backup' \in BOOLEAN,
         Step.op \notin Checks
  PROVE  /\ TypeOK' /\ UNCHANGED <<chip, cmd, err, runs, killed, tidy, licence>>
         /\ todo' = Tail(todo) \/ (Step.to # "" /\ todo' = From(Step.to))
         /\ lost \subseteq lost'
         /\ ~cmd.mass => /\ LabelsLast(todo') /\ Linked(todo') /\ Follows(todo')
                         /\ Guarded(todo') \/ Writable
<1>1. PICK l \in Either : \E ok : Link(l) /\ Returns(ok)
  BY DEF Made
<1>2. PICK ok : Link(l) /\ Returns(ok)
  BY <1>1
<1>3. todo # <<>> /\ (todo' = Tail(todo) \/ (Step.to # "" /\ todo' = From(Step.to)))
  BY <1>2 DEF Returns, Made
<1>4. UNCHANGED <<chip, cmd, err, runs, killed, tidy, licence>> /\ lost \subseteq lost'
  BY <1>2 DEF Returns, Link
<1>5. TypeOK'
  BY MadeType
<1>6. ASSUME ~cmd.mass
      PROVE  /\ LabelsLast(todo') /\ Linked(todo') /\ Follows(todo')
             /\ Guarded(todo') \/ Writable
  BY <1>3, <1>6, OnwardListed
<1> QED
  BY <1>3, <1>4, <1>5, <1>6

\* Listed in the next state, from what is left to do in it.
LEMMA ListedFrom ==
  ASSUME chip' = chip, cmd' = cmd,
         ~cmd.mass => LabelsLast(todo') /\ Linked(todo') /\ (Guarded(todo') \/ Writable)
  PROVE  Listed'
BY DEF Listed, LabelsLast, Linked, Guarded, Writable, InFlash, BankOf, TwoRegisters, UpperHalf,
   Half,
       FlashSize

-----------------------------------------------------------------------------
(***************************************************************************)
(* Every step keeps the calls in order.                                    *)
(***************************************************************************)

\* A controller is in order or it is not.
LEMMA InOrderIs == \A t : InOrder(t) \in BOOLEAN
BY Zenon DEF InOrder

\* A command begins with its calls before it; nothing is known of a chip that
\* was not identified but that it is to be left.
LEMMA BeginIs ==
  ASSUME TypeOK, Begin
  PROVE  /\ TypeOK' /\ Listed' /\ chip' = chip /\ killed' = ""
         /\ \/ lost' = {} /\ LeaveLast(todo')
            \/ lost' = {"identify"} /\ todo' = <<CallOn("leave", 1)>>
         /\ ~cmd'.mass => Opens(todo')
         /\ licence' = Asked(cmd') \cup target.job[1] \cup target.job[2]
         /\ \A b \in Bank : target'.job[b] \subseteq target.job[1] \cup target.job[2]
         /\ \A p \in Pages(chip) :
              target'.mem[p] # target.mem[p] => p \in target.job[1] \cup target.job[2]
         /\ cmd'.mass => Asked(cmd') = Pages(chip)
<1>1. PICK k \in Lines(chip), how \in Connects, soft \in BOOLEAN, again \in BOOLEAN,
           known \in BOOLEAN :
        /\ cmd' = k /\ target' = Connected(how, soft)
        /\ todo' = IF known THEN Main(k, again) ELSE <<CallOn("leave", 1)>>
        /\ faults' = IF known THEN faults ELSE faults + 1
        /\ lost' = IF known THEN {} ELSE {"identify"}
        /\ tidy' = InOrder(target')
        /\ licence' = Asked(k) \cup target.job[1] \cup target.job[2]
  BY ZenonT(40) DEF Begin
<1>2. /\ err' = -1 /\ ret' = 0 /\ backup' = FALSE /\ runs' = runs + 1 /\ failed' = FALSE
      /\ killed' = "" /\ chip' = chip
  BY Zenon DEF Begin
<1>3. /\ chip \in Chips /\ target \in Controller(chip) /\ runs \in Nat /\ faults \in Nat
  BY DEF TypeOK
<1>4. Asking(k) /\ k \in CommandLine /\ (k.mass => k.do \in {"write", "erase"})
  BY <1>3, LinesAre, Zenon DEF Asking
<1>5. /\ target' \in Controller(chip)
      /\ \A b \in Bank : target'.job[b] \subseteq target.job[1] \cup target.job[2]
      /\ \A p \in Pages(chip) :
              target'.mem[p] # target.mem[p] => p \in target.job[1] \cup target.job[2]
  BY <1>1, <1>3, ConnectedIs, Zenon
<1>6. /\ target.job[1] \subseteq Pages(chip) /\ target.job[2] \subseteq Pages(chip)
  BY <1>3 DEF Controller, Bank
<1>7. Asked(k) \subseteq Pages(chip) /\ (k.mass => Asked(k) = Pages(chip))
  BY <1>4 DEF Asked
<1>8. Open(todo', {}) /\ todo' \in Seq(Fit(k)) /\ todo' \in Seq(CallRec) /\ (~k.mass => Licit(todo'))
  <2>1. CASE known
    BY <2>1, <1>1, <1>3, <1>4, MainIs, Zenon DEF Open
  <2>2. CASE ~known
    <3>1. todo' = <<CallOn("leave", 1)>>
      BY <2>2, <1>1
    <3>2. Open(todo', {}) /\ todo' \in Seq(Fit(k)) /\ todo' \in Seq(CallRec) /\ Harmless(todo')
      BY <3>1, LastsAre, Zenon DEF Open
    <3>q. QED
      BY <3>2, HarmlessIs, Zenon DEF Licit
  <2>q. QED
    BY <2>1, <2>2
<1>9. todo' \in Seq(Fit(cmd'))
  BY <1>8, <1>1
<1>10. /\ runs' \in Nat /\ faults' \in Nat /\ lost' \subseteq {"identify"} /\ tidy' \in BOOLEAN
       /\ licence' \subseteq Pages(chip)
  <2>3. runs' = runs + 1 /\ faults' \in {faults, faults + 1} /\ runs \in Nat /\ faults \in Nat
    BY <1>1, <1>2, <1>3
  <2>1. runs' \in Nat /\ faults' \in Nat
    BY <2>3
  <2>2. tidy' \in BOOLEAN
    BY <1>1, InOrderIs, Zenon
  <2>q. QED
    BY <2>1, <2>2, <1>1, <1>6, <1>7
<1>11. (Fit(cmd))' = Fit(cmd')
  BY <1>2 DEF Fit, Fits, Within
<1>12. TypeOK'
  BY <1>1, <1>2, <1>3, <1>4, <1>5, <1>8, <1>9, <1>10, <1>11 DEF TypeOK
<1>13. Listed'
  <2>1. ~cmd'.mass => LabelsLast(todo') /\ Linked(todo') /\ Guarded(todo')
    BY <1>8, <1>1 DEF Licit
  <2>2. (LabelsLast(todo))' = LabelsLast(todo') /\ (Guarded(todo))' = Guarded(todo')
    BY Zenon DEF LabelsLast, Guarded
  <2>3. (Linked(todo))' <=> Linked(todo')
    BY <1>2 DEF Linked, BankOf
  <2>q. QED
    BY <2>1, <2>2, <2>3, Zenon DEF Listed
<1>14. \/ lost' = {} /\ LeaveLast(todo')
       \/ lost' = {"identify"} /\ todo' = <<CallOn("leave", 1)>>
  <2>1. CASE known
    BY <2>1, <1>1, <1>3, <1>4, MainIs, Zenon
  <2>2. CASE ~known
    BY <2>2, <1>1
  <2>q. QED
    BY <2>1, <2>2
<1>q. QED
  BY <1>1, <1>2, <1>5, <1>7, <1>8, <1>12, <1>13, <1>14, Zenon DEF Licit

\* The ways out: a signal, the programmer pulled out.
LEMMA CutShort ==
  ASSUME TypeOK, Listed, Interrupt \/ Unplugged
  PROVE  TypeOK' /\ Listed' /\ (~cmd'.mass => Opens(todo'))
<1>1. /\ chip' = chip /\ cmd' = cmd /\ target' = target /\ ret' = ret /\ backup' = backup
      /\ runs' = runs /\ faults' = faults /\ lost' = lost /\ failed' = failed /\ tidy' = tidy
      /\ licence' = licence /\ killed' \in {"signal", "unplugged"} /\ err' \in {1, err}
  BY DEF Interrupt, Unplugged
<1>2. Open(todo', {}) /\ todo' \in Seq(Fit(cmd)) /\ todo' \in Seq(CallRec) /\ Harmless(todo')
  <2>1. CASE Interrupt
    BY <2>1, LastsAre, Zenon DEF Open, Interrupt
  <2>2. CASE Unplugged
    <3>1. todo' = <<>>
      BY <2>2 DEF Unplugged
    <3>2. Open(<<>>, {})
      BY EmptyPart, Zenon DEF Part
    <3>3. Harmless(<<>>)
      BY DEF Harmless
    <3>q. QED
      BY <3>1, <3>2, <3>3, EmptyIn, Zenon
  <2>q. QED
    BY <2>1, <2>2
<1>3. TypeOK'
  <2>1. /\ chip \in Chips /\ target \in Controller(chip) /\ cmd \in CommandLine
        /\ ret \in {0, -1} /\ err \in {0, 1, -1} /\ backup \in BOOLEAN
        /\ runs \in Nat /\ faults \in Nat /\ lost \subseteq Ops \cup {"leave", "identify", "junk"}
        /\ failed \in BOOLEAN /\ tidy \in BOOLEAN /\ licence \subseteq Pages(chip)
    BY DEF TypeOK
  <2>2. err' \in {0, 1, -1}
    BY <1>1, <2>1
  <2>q. QED
    BY <1>1, <1>2, <2>1, <2>2, TypeFrom
<1>4. LabelsLast(todo') /\ Linked(todo') /\ Guarded(todo') /\ Opens(todo')
  BY <1>2, HarmlessIs, Zenon
<1>q. QED
  BY <1>1, <1>3, <1>4, ListedFrom, Zenon

\* The looks at the result, and the success.
LEMMA ResultIs ==
  ASSUME TypeOK, Listed, Result \/ Succeed
  PROVE  /\ TypeOK' /\ todo # <<>> /\ Step.op \notin {"select", "set_PER", "leave"} \cup Checks
         /\ todo' = Tail(todo) \/ (Step.to # "" /\ todo' = From(Step.to))
         /\ UNCHANGED <<chip, target, cmd, backup, runs, faults, lost, history>>
         /\ ~cmd.mass => /\ LabelsLast(todo') /\ Linked(todo') /\ Follows(todo')
                         /\ Guarded(todo') \/ Writable
<1>1. /\ todo # <<>> /\ Step.op \in {"result", "succeed"}
      /\ UNCHANGED <<chip, target, cmd, backup, runs, faults, lost, history>>
      /\ err' \in {0, ret} /\ ret' \in {0, ret}
  BY DEF Result, Succeed, At
<1>2. todo' = Tail(todo) \/ (Step.to # "" /\ todo' = From(Step.to))
  <2>1. CASE Result
    <3>1. CASE ret = -1 /\ Step.to = "leave"
      BY <2>1, <3>1 DEF Result
    <3>2. CASE ~(ret = -1 /\ Step.to = "leave")
      BY <2>1, <3>2 DEF Result
    <3>q. QED
      BY <3>1, <3>2
  <2>2. CASE Succeed
    BY <2>2 DEF Succeed
  <2>q. QED
    BY <2>1, <2>2
<1>3. /\ todo' \in Seq(CallRec)
      /\ \E n \in 0 .. Len(todo) : Rest(todo', todo, n)
  BY <1>1, <1>2, Onward, Zenon
<1>4. Open(todo', {}) /\ todo' \in Seq(Fit(cmd))
  BY <1>3, RestTyped, Zenon
<1>5. TypeOK'
  <2>1. /\ chip \in Chips /\ target \in Controller(chip) /\ cmd \in CommandLine
        /\ ret \in {0, -1} /\ err \in {0, 1, -1} /\ backup \in BOOLEAN
        /\ runs \in Nat /\ faults \in Nat /\ lost \subseteq Ops \cup {"leave", "identify", "junk"}
        /\ failed \in BOOLEAN /\ killed \in {"", "signal", "unplugged"} /\ tidy \in BOOLEAN
        /\ licence \subseteq Pages(chip)
    BY DEF TypeOK
  <2>2. err' \in {0, 1, -1} /\ ret' \in {0, -1}
    BY <1>1, <2>1
  <2>3. /\ chip' = chip /\ target' = target /\ cmd' = cmd /\ backup' = backup /\ runs' = runs
        /\ faults' = faults /\ lost' = lost /\ failed' = failed /\ killed' = killed /\ tidy' = tidy
        /\ licence' = licence
    BY <1>1 DEF history
  <2>q. QED
    BY <1>4, <2>1, <2>2, <2>3, TypeFrom
<1>6. ASSUME ~cmd.mass
      PROVE  /\ LabelsLast(todo') /\ Linked(todo') /\ Follows(todo')
             /\ Guarded(todo') \/ Writable
  <2>1. Step.op \notin Checks
    BY <1>1 DEF Checks
  <2>q. QED
    BY <1>1, <1>2, <1>6, <2>1, OnwardListed
<1>7. Step.op \notin {"select", "set_PER", "leave"} \cup Checks
  BY <1>1 DEF Checks
<1>q. QED
  BY <1>1, <1>2, <1>5, <1>6, <1>7

\* An erase comes to its end, and nothing else happens.
LEMMA EndsIs ==
  ASSUME TypeOK, Listed, EraseEnds
  PROVE  /\ TypeOK' /\ Listed' /\ UNCHANGED <<chip, cmd, call, runs, faults, lost, history>>
         /\ \A b \in Bank : target'.job[b] \subseteq target.job[b]
         /\ \A p \in Pages(chip) :
              target'.mem[p] # target.mem[p] => p \in target.job[1] \cup target.job[2]
         /\ target'.cr = target.cr /\ target'.sel = target.sel
<1>1. PICK b \in Bank : target' = Finish(target, b)
  BY DEF EraseEnds
<1>2. UNCHANGED <<chip, cmd, call, runs, faults, lost, history>>
  BY DEF EraseEnds
<1>3. /\ target' \in Controller(chip)
      /\ \A d \in Bank : target'.job[d] \subseteq target.job[d]
      /\ \A p \in Pages(chip) : target'.mem[p] # target.mem[p] => p \in target.job[b]
      /\ target'.cr = target.cr /\ target'.sel = target.sel
  BY <1>1, FinishIs, Zenon DEF TypeOK
<1>4. TypeOK'
  <2>1. /\ chip \in Chips /\ cmd \in CommandLine /\ Open(todo, {}) /\ todo \in Seq(Fit(cmd))
        /\ ret \in {0, -1} /\ err \in {0, 1, -1} /\ backup \in BOOLEAN
        /\ runs \in Nat /\ faults \in Nat /\ lost \subseteq Ops \cup {"leave", "identify", "junk"}
        /\ failed \in BOOLEAN /\ killed \in {"", "signal", "unplugged"} /\ tidy \in BOOLEAN
        /\ licence \subseteq Pages(chip)
    BY DEF TypeOK
  <2>2. /\ chip' = chip /\ cmd' = cmd /\ todo' = todo /\ ret' = ret /\ err' = err /\ backup' = backup
        /\ runs' = runs /\ faults' = faults /\ lost' = lost /\ failed' = failed /\ killed' = killed
        /\ tidy' = tidy /\ licence' = licence
    BY <1>2 DEF history, call
  <2>q. QED
    BY <1>3, <2>1, <2>2, TypeFrom
<1>5. Listed'
  <2>1. chip' = chip /\ cmd' = cmd /\ todo' = todo
    BY <1>2 DEF call
  <2>q. QED
    BY <2>1, ListedFrom DEF Listed
<1>6. b = 1 \/ b = 2
  BY DEF Bank
<1>q. QED
  BY <1>2, <1>3, <1>4, <1>5, <1>6

\* Whatever is called, the calls to come stay in order.
LEMMA CallsStep ==
  ASSUME TypeOK, Listed, Next
  PROVE  TypeOK' /\ Listed'
<1>1. ASSUME Made, target' \in Controller(chip), backup' \in BOOLEAN, Step.op \notin Checks
      PROVE  TypeOK' /\ Listed'
  BY <1>1, MadeIs, ListedFrom
<1>2. CASE \/ Wait \/ ClearErrors \/ CheckErrors \/ Unlock \/ Lock \/ UnlockOptions \/ Relock
           \/ SetPg \/ ClearPg \/ ClearPer \/ SetMer \/ ClearMer \/ UnlockPecr \/ LockPecr
           \/ RestoreDma \/ InitLoader \/ ReadRegister \/ Unmask \/ EraseOptions \/ ProgramOption
           \/ BeginOptions \/ ChangeOptions \/ ForceDebug \/ Status \/ RunCore \/ Finalize \/ StopDma
           \/ Verify
  <2>1. /\ Made /\ Step.op \notin Touching \cup Replaced \cup {"leave"}
        /\ Keeps(chip, target, target') /\ backup' \in BOOLEAN
    BY <1>2, SteadyCalls
  <2>2. Step.op \notin Checks /\ target' \in Controller(chip)
    BY <2>1 DEF Checks, Replaced, Keeps
  <2>q. QED
    BY <1>1, <2>1, <2>2
<1>3. CASE \/ SelectPageToErase \/ SetPer \/ Start \/ EraseWord \/ CommandPageErase
           \/ CommandMassErase \/ Load \/ ResetTarget \/ Leave
  <2>1. /\ Made /\ Step.op \in Touching \cup {"leave"}
        /\ target' \in Controller(chip) /\ backup' \in BOOLEAN
    BY <1>3, TouchingType
  <2>2. Step.op \notin Checks
    BY <2>1 DEF Checks, Touching
  <2>q. QED
    BY <1>1, <2>1, <2>2
<1>4. CASE EraseSection \/ EraseNext \/ WritePage \/ CheckRange \/ Unsupported
  <2>1. /\ todo # <<>> /\ Step.op \in Replaced /\ Step.to \in Labels
        /\ \E ok \in BOOLEAN : \E calls : Becoming(ok, calls) /\ (ok /\ ~cmd.mass => Writable)
    BY <1>4, ReplacedIs
  <2>2. PICK ok \in BOOLEAN : \E calls : Becoming(ok, calls) /\ (ok /\ ~cmd.mass => Writable)
    BY <2>1, Zenon
  <2>3. PICK calls : Becoming(ok, calls) /\ (ok /\ ~cmd.mass => Writable)
    BY <2>2, Zenon
  <2>4. /\ TypeOK' /\ chip' = chip /\ cmd' = cmd
        /\ ~cmd.mass => LabelsLast(todo') /\ Linked(todo') /\ (Guarded(todo') \/ Writable)
    BY <2>1, <2>3, BecomingIs
  <2>q. QED
    BY <2>4, ListedFrom
<1>5. CASE Begin
  BY <1>5, BeginIs
<1>6. CASE Interrupt \/ Unplugged
  BY <1>6, CutShort
<1>7. CASE EraseEnds
  BY <1>7, EndsIs
<1>8. CASE Result \/ Succeed
  <2>1. /\ TypeOK' /\ chip' = chip /\ cmd' = cmd
        /\ ~cmd.mass => LabelsLast(todo') /\ Linked(todo') /\ (Guarded(todo') \/ Writable)
    BY <1>8, ResultIs
  <2>q. QED
    BY <2>1, ListedFrom
<1>q. QED
  BY <1>2, <1>3, <1>4, <1>5, <1>6, <1>7, <1>8 DEF Next

\* Where nothing happens the calls to come stay in order.
LEMMA StillListed == TypeOK /\ Listed /\ UNCHANGED vars => TypeOK' /\ Listed'
<1> SUFFICES ASSUME TypeOK, Listed, UNCHANGED vars  PROVE TypeOK' /\ Listed'
  OBVIOUS
<1>1. /\ chip' = chip /\ cmd' = cmd /\ todo' = todo /\ ret' = ret /\ err' = err /\ backup' = backup
      /\ runs' = runs /\ faults' = faults /\ lost' = lost /\ failed' = failed /\ killed' = killed
      /\ tidy' = tidy /\ licence' = licence /\ target' = target
  BY DEF vars, history, call
<1>2. TypeOK'
  BY <1>1, TypeFrom DEF TypeOK
<1>3. Listed'
  BY <1>1, ListedFrom DEF Listed
<1>q. QED
  BY <1>2, <1>3

\* At first there are none.
LEMMA InitListed == Init => TypeOK /\ Listed
<1> SUFFICES ASSUME Init  PROVE TypeOK /\ Listed
  OBVIOUS
<1>1. /\ chip \in Chips /\ target = Fresh(chip) /\ todo = <<>> /\ ret = 0 /\ err = 0 /\ backup = FALSE
      /\ cmd = Line("none", FALSE, FALSE, <<0, 0>>)
      /\ runs = 0 /\ faults = 0 /\ lost = {} /\ failed = FALSE /\ killed = "" /\ tidy = TRUE
      /\ licence = {}
  BY DEF Init
<1>2. target \in Controller(chip)
  BY <1>1, FreshType
<1>3. cmd \in CommandLine
  BY <1>1 DEF Line, CommandLine
<1>4. Open(todo, {}) /\ todo \in Seq(Fit(cmd)) /\ todo \in Seq(CallRec) /\ Harmless(todo)
  <2>1. Open(<<>>, {})
    BY EmptyPart, Zenon DEF Part
  <2>2. Harmless(<<>>)
    BY DEF Harmless
  <2>q. QED
    BY <1>1, <2>1, <2>2, EmptyIn, Zenon
<1>5. TypeOK
  BY <1>1, <1>2, <1>3, <1>4 DEF TypeOK
<1>6. Listed
  BY <1>4, HarmlessIs, Zenon DEF Listed
<1>q. QED
  BY <1>5, <1>6

\* Type correctness, and that the calls to come are always in order: nothing that
\* touches the flash follows a way out or comes before the check of its range, and
\* every start follows the choice of its page.
THEOREM CallsInOrder == Spec => [](TypeOK /\ Listed)
<1>1. Init => TypeOK /\ Listed
  BY InitListed
<1>2. TypeOK /\ Listed /\ [Next]_vars => TypeOK' /\ Listed'
  BY CallsStep, StillListed
<1>q. QED
  BY <1>1, <1>2, PTL DEF Spec

-----------------------------------------------------------------------------
(***************************************************************************)
(* The chip is left as it should be.                                       *)
(***************************************************************************)

\* While a command runs on a chip it knows, the leaving of the chip is the last
\* call to come, and the one thing left to do with a chip it does not know.
Attended ==
  /\ killed = "unplugged" => todo = <<>>
  /\ todo # <<>> /\ "identify" \notin lost => LeaveLast(todo)
  /\ todo # <<>> /\ "identify" \in lost => todo = <<CallOn("leave", 1)>>
  /\ DetachedClean

\* What is left of a command before its last call ends with that call.
LEMMA RestLeaves ==
  ASSUME NEW s \in Seq(CallRec), NEW u \in Seq(CallRec), NEW n, Rest(u, s, n), n < Len(s),
         LeaveLast(s)
  PROVE  u # <<>> /\ LeaveLast(u)
<1>1. /\ Len(s) \in Nat /\ Len(u) \in Nat /\ n \in Nat /\ Len(u) = Len(s) - n /\ Len(u) > 0
  BY DEF Rest
<1>2. \A i \in 1 .. Len(u) : u[i] = s[n + i]
  BY DEF Rest
<1>3. /\ s[Len(s)].op = "leave" /\ s[Len(s)].at = 0 /\ s[Len(s)].to = ""
      /\ \A i \in 1 .. Len(s) - 1 : s[i].op # "leave"
  BY DEF LeaveLast
<1>4. n + Len(u) = Len(s) /\ Len(u) \in 1 .. Len(u)
  BY <1>1
<1>5. u[Len(u)] = s[Len(s)]
  BY <1>2, <1>4
<1>6. ASSUME NEW i \in 1 .. Len(u) - 1  PROVE u[i].op # "leave"
  <2>1. i \in 1 .. Len(u) /\ n + i \in 1 .. Len(s) - 1
    BY <1>1
  <2>q. QED
    BY <2>1, <1>2, <1>3
<1>7. u # <<>>
  BY <1>1
<1>q. QED
  BY <1>1, <1>3, <1>5, <1>6, <1>7 DEF LeaveLast

\* A number other than none and one.
LEMMA Later == \A m \in Nat : m # 0 /\ m # 1 => m > 1 /\ 1 \in 1 .. m - 1
OBVIOUS

\* A list that ends with the leaving is not empty.
LEMMA LeaveLastIs == \A s : LeaveLast(s) => s # <<>>
<1>1. \A s : LeaveLast(s) => Len(s) > 0
  BY Zenon DEF LeaveLast
<1>2. ~(Len(<<>>) > 0)
  OBVIOUS
<1>q. QED
  BY <1>1, <1>2, Zenon

\* The leaving is next only when it is the last.
LEMMA LeaveIsLast ==
  ASSUME NEW s \in Seq(CallRec), s # <<>>, LeaveLast(s)
  PROVE  IF Len(s) = 1 THEN s[1].op = "leave" /\ s[1].at = 0 /\ Tail(s) = <<>>
         ELSE s[1].op # "leave" /\ Len(s) > 1
<1>1. Len(s) \in Nat /\ Len(s) # 0
  BY EmptySeq, LenProperties
<1>2. CASE Len(s) = 1
  <2>1. s[1].op = "leave" /\ s[1].at = 0
    BY <1>2, Zenon DEF LeaveLast
  <2>2. Len(Tail(s)) = 0 /\ Tail(s) \in Seq(CallRec)
    BY <1>2, HeadTailProperties
  <2>3. Tail(s) = <<>>
    BY <2>2, EmptySeq
  <2>q. QED
    BY <1>2, <2>1, <2>3
<1>3. CASE Len(s) # 1
  <2>1. Len(s) > 1 /\ 1 \in 1 .. Len(s) - 1
    BY <1>1, <1>3, Later
  <2>2. s[1].op # "leave"
    BY <2>1, Zenon DEF LeaveLast
  <2>q. QED
    BY <1>3, <2>1, <2>2
<1>q. QED
  BY <1>2, <1>3

\* A call that is not the last leads to another, and the last is still to come.
LEMMA OnwardLeaves ==
  ASSUME TypeOK, todo # <<>>, LeaveLast(todo), Step.op # "leave",
         todo' = Tail(todo) \/ (Step.to # "" /\ todo' = From(Step.to))
  PROVE  todo' # <<>> /\ LeaveLast(todo')
<1>1. PICK n \in 0 .. Len(todo) :
        /\ todo' \in Seq(CallRec) /\ Rest(todo', todo, n)
        /\ \/ n = 1 /\ todo' = Tail(todo)
           \/ n < Len(todo) /\ Step.to # "" /\ todo[n + 1].op = Step.to
  BY Onward, Zenon
<1>2. todo \in Seq(CallRec)
  BY HeadIs
<1>3. Len(todo) > 1
  BY <1>2, LeaveIsLast DEF Step
<1>4. n < Len(todo)
  BY <1>1, <1>3
<1>q. QED
  BY <1>1, <1>2, <1>4, RestLeaves

\* Attended in the next state, while a command runs.
LEMMA AttendedFrom ==
  ASSUME killed' # "unplugged", todo' # <<>>,
         IF "identify" \in lost' THEN todo' = <<CallOn("leave", 1)>> ELSE LeaveLast(todo')
  PROVE  Attended'
<1>1. (LeaveLast(todo))' <=> LeaveLast(todo')
  BY DEF LeaveLast
<1>2. DetachedClean'
  BY DEF DetachedClean
<1>3. (CallOn("leave", 1))' = CallOn("leave", 1)
  BY Zenon DEF CallOn, Call
<1>q. QED
  BY <1>1, <1>2, <1>3, Zenon DEF Attended

\* A chip that was not identified is left without a look at it.
LEMMA UnknownIsLeft ==
  ASSUME todo = <<CallOn("leave", 1)>>
  PROVE  todo # <<>> /\ Step.op = "leave" /\ Step.to = "" /\ Step.at = 1 /\ Tail(todo) = <<>>
<1>1. todo # <<>> /\ todo[1] = CallOn("leave", 1) /\ Tail(todo) = <<>>
  OBVIOUS
<1>2. Step = CallOn("leave", 1)
  BY <1>1 DEF Step
<1>3. Step.op = "leave" /\ Step.to = "" /\ Step.at = 1
  BY <1>2 DEF CallOn, Call
<1>q. QED
  BY <1>1, <1>2, <1>3

\* A call that is not the last.
LEMMA AttendedOnward ==
  ASSUME TypeOK, Attended, todo # <<>>, Step.op # "leave", killed' = killed,
         "identify" \in lost' => "identify" \in lost,
         todo' = Tail(todo) \/ (Step.to # "" /\ todo' = From(Step.to))
  PROVE  Attended'
<1>1. killed' # "unplugged"
  BY DEF Attended
<1>2. "identify" \notin lost
  BY UnknownIsLeft DEF Attended
<1>3. LeaveLast(todo)
  BY <1>2 DEF Attended
<1>4. todo' # <<>> /\ LeaveLast(todo')
  BY <1>3, OnwardLeaves
<1>q. QED
  BY <1>1, <1>2, <1>4, AttendedFrom

\* A call that is made is not the identification.
LEMMA MadeIsNotIdentifying ==
  ASSUME TypeOK, Made
  PROVE  /\ killed' = killed /\ todo # <<>> /\ ("identify" \in lost' => "identify" \in lost)
         /\ todo' = Tail(todo) \/ (Step.to # "" /\ todo' = From(Step.to))
<1>1. PICK l \in Either : \E ok : Link(l) /\ Returns(ok)
  BY DEF Made
<1>2. PICK ok : Link(l) /\ Returns(ok)
  BY <1>1
<1>3. todo # <<>> /\ (todo' = Tail(todo) \/ (Step.to # "" /\ todo' = From(Step.to)))
  BY <1>2 DEF Returns, Made
<1>4. Step.op # "identify"
  <2>1. Step.op \in Ops \cup {"leave"}
    BY <1>3, HeadIs DEF CallRec
  <2>q. QED
    BY <2>1 DEF Ops, BankOps, PageOps, RangeOps, LabelOps, FreeOps, Refusals
<1>5. lost' = lost \cup (IF l = Good THEN {} ELSE {Step.op}) \cup (IF l.read THEN {} ELSE {"junk"})
  BY <1>2 DEF Link
<1>6. killed' = killed
  BY <1>2 DEF Returns
<1>q. QED
  BY <1>3, <1>4, <1>5, <1>6

\* The last call of all.
LEMMA LeaveAttended ==
  ASSUME TypeOK, Attended, Leave
  PROVE  Attended'
<1>1. PICK l : /\ Doing("leave", l, IF l = Good /\ Step.at = 0 THEN LetGo(target) ELSE target)
               /\ Returns(TRUE)
  BY TouchingAre
<1>2. todo # <<>> /\ Step.op = "leave" /\ Link(l) /\ l \in Either
  BY <1>1 DEF Doing, At
<1>3. Made
  BY <1>1, <1>2 DEF Made
<1>4. /\ killed' = killed /\ ("identify" \in lost' => "identify" \in lost) /\ todo' = Tail(todo)
      /\ lost \subseteq lost' /\ runs' = runs
  BY <1>1, <1>2 , <1>3, MadeIsNotIdentifying DEF Returns, Link
<1>5. killed # "unplugged"
  BY <1>2 DEF Attended
<1>6. CASE "identify" \in lost
  <2>1. todo' = <<>> /\ "identify" \in lost'
    BY <1>2, <1>4, <1>6, UnknownIsLeft DEF Attended
  <2>2. DetachedClean'
    BY <2>1 DEF DetachedClean
  <2>q. QED
    BY <2>1, <2>2 DEF Attended
<1>7. CASE "identify" \notin lost
  <2>1. LeaveLast(todo) /\ todo \in Seq(CallRec)
    BY <1>2, <1>7, HeadIs DEF Attended
  <2>2. Step.at = 0 /\ todo' = <<>>
    BY <1>2, <1>4, <2>1, LeaveIsLast DEF Step
  <2>3. CASE l = Good
    <3>1. target' = LetGo(target) /\ target \in Controller(chip)
      BY <1>1, <2>2, <2>3 DEF Doing, TypeOK
    <3>2. ~target'.debug /\ ~target'.halted /\ ~target'.masked /\ target'.catches = {}
      BY <3>1 DEF LetGo, Controller
    <3>3. DetachedClean'
      BY <3>2 DEF DetachedClean
    <3>q. QED
      BY <2>2, <3>3 DEF Attended
  <2>4. CASE l # Good
    <3>1. "leave" \in lost'
      BY <1>2, <2>4 DEF Link
    <3>2. DetachedClean'
      BY <3>1 DEF DetachedClean
    <3>q. QED
      BY <2>2, <3>2 DEF Attended
  <2>q. QED
    BY <2>3, <2>4
<1>q. QED
  BY <1>6, <1>7

\* A call that becomes others: none of them is the last.
LEMMA BecomingAttended ==
  ASSUME TypeOK, Attended, todo # <<>>, Step.op \in Replaced, Step.to \in Labels,
         NEW ok, NEW calls, Becoming(ok, calls)
  PROVE  Attended'
<1>1. /\ killed' = killed /\ lost' = lost
      /\ todo' = IF ok THEN calls \o Tail(todo) ELSE From(Step.to)
      /\ calls \in Seq(Inner(cmd, {Step.to}, Labels))
  BY DEF Becoming, Becomes
<1>2. killed' # "unplugged"
  BY <1>1 DEF Attended
<1>3. Step.op # "leave" /\ Step.to # ""
  BY DEF Replaced, Labels
<1>4. "identify" \notin lost
  BY <1>3, UnknownIsLeft DEF Attended
<1>5. LeaveLast(todo) /\ todo \in Seq(CallRec)
  BY <1>4, HeadIs DEF Attended
<1>6. CASE ok
  <2>1. Tail(todo) \in Seq(CallRec) /\ Rest(Tail(todo), todo, 1)
    BY <1>5, TailRest
  <2>2. Len(todo) > 1
    BY <1>3, <1>5, LeaveIsLast DEF Step
  <2>3. LeaveLast(Tail(todo))
    BY <1>5, <2>1, <2>2, RestLeaves
  <2>4. Part(calls, {Step.to})
    BY <1>1, InnerPart, Zenon
  <2>5. calls \in Seq(CallRec) /\ ~Has(calls, "leave")
    BY <2>4 DEF Part, Open
  <2>6. LeaveLast(calls \o Tail(todo))
    BY <2>1, <2>3, <2>5, LeaveLastConcat
  <2>7. LeaveLast(todo')
    BY <1>1, <1>6, <2>6
  <2>8. todo' # <<>>
    BY <2>7, LeaveLastIs, Zenon
  <2>q. QED
    BY <1>1, <1>2, <1>4, <2>7, <2>8, AttendedFrom
<1>7. CASE ~ok
  <2>1. Has(todo, Step.to)
    BY <1>3, TargetAhead
  <2>2. PICK n \in 0 .. Len(todo) - 1 :
          /\ From(Step.to) \in Seq(CallRec) /\ Rest(From(Step.to), todo, n)
          /\ todo[n + 1].op = Step.to /\ \A i \in 1 .. n : todo[i].op # Step.to
    BY <1>5, <2>1, FromRest, Zenon
  <2>3. n < Len(todo)
    BY <1>5, <2>2, Before
  <2>4. todo' # <<>> /\ LeaveLast(todo')
    BY <1>1, <1>5, <1>7, <2>2, <2>3, RestLeaves
  <2>q. QED
    BY <1>1, <1>2, <1>4, <2>4, AttendedFrom
<1>q. QED
  BY <1>6, <1>7

\* Attended is kept by every step.
LEMMA AttendedStep ==
  ASSUME TypeOK, Listed, Attended, Next
  PROVE  Attended'
<1>1. CASE \/ Wait \/ ClearErrors \/ CheckErrors \/ Unlock \/ Lock \/ UnlockOptions \/ Relock
           \/ SetPg \/ ClearPg \/ ClearPer \/ SetMer \/ ClearMer \/ UnlockPecr \/ LockPecr
           \/ RestoreDma \/ InitLoader \/ ReadRegister \/ Unmask \/ EraseOptions \/ ProgramOption
           \/ BeginOptions \/ ChangeOptions \/ ForceDebug \/ Status \/ RunCore \/ Finalize \/ StopDma
           \/ Verify
  <2>1. Made /\ Step.op # "leave"
    BY <1>1, SteadyCalls
  <2>q. QED
    BY <2>1, MadeIsNotIdentifying, AttendedOnward
<1>2. CASE \/ SelectPageToErase \/ SetPer \/ Start \/ EraseWord \/ CommandPageErase
           \/ CommandMassErase \/ Load \/ ResetTarget
  <2>1. Made
    BY <1>2, TouchingType
  <2>2. Step.op # "leave"
    BY <1>2 DEF SelectPageToErase, SetPer, Start, EraseWord, CommandPageErase, CommandMassErase,
       Load,
                ResetTarget, Calls, At
  <2>q. QED
    BY <2>1, <2>2, MadeIsNotIdentifying, AttendedOnward
<1>3. CASE Leave
  BY <1>3, LeaveAttended
<1>4. CASE EraseSection \/ EraseNext \/ WritePage \/ CheckRange \/ Unsupported
  <2>1. /\ todo # <<>> /\ Step.op \in Replaced /\ Step.to \in Labels
        /\ \E ok \in BOOLEAN : \E calls : Becoming(ok, calls) /\ (ok /\ ~cmd.mass => Writable)
    BY <1>4, ReplacedIs
  <2>q. QED
    BY <2>1, BecomingAttended
<1>5. CASE Begin
  <2>1. /\ killed' = ""
        /\ \/ lost' = {} /\ LeaveLast(todo')
           \/ lost' = {"identify"} /\ todo' = <<CallOn("leave", 1)>>
    BY <1>5, BeginIs
  <2>2. todo' # <<>>
    <3>1. LeaveLast(todo') => todo' # <<>>
      BY LeaveLastIs, Zenon
    <3>2. todo' = <<CallOn("leave", 1)>> => todo' # <<>>
      OBVIOUS
    <3>q. QED
      BY <2>1, <3>1, <3>2, Zenon
  <2>q. QED
    BY <2>1, <2>2, AttendedFrom
<1>6. CASE Interrupt
  <2>1. killed' = "signal" /\ lost' = lost /\ "identify" \notin lost /\ todo' # <<>>
        /\ todo' = <<Call("run"), Call("leave")>>
    BY <1>6 DEF Interrupt, history
  <2>2. LeaveLast(todo')
    BY <2>1, LastsAre, Zenon
  <2>q. QED
    BY <2>1, <2>2, AttendedFrom
<1>7. CASE Unplugged
  <2>1. todo' = <<>> /\ killed' = "unplugged"
    BY <1>7 DEF Unplugged
  <2>2. DetachedClean'
    BY <2>1 DEF DetachedClean
  <2>q. QED
    BY <2>1, <2>2 DEF Attended
<1>8. CASE EraseEnds
  <2>1. PICK b \in Bank : target' = Finish(target, b)
    BY <1>8 DEF EraseEnds
  <2>2. /\ target'.debug = target.debug /\ target'.halted = target.halted
        /\ target'.masked = target.masked /\ target'.catches = target.catches
    BY <2>1 DEF Finish, TypeOK, Controller
  <2>3. todo' = todo /\ lost' = lost /\ killed' = killed /\ runs' = runs
    BY <1>8 DEF EraseEnds, call, history
  <2>4. DetachedClean'
    BY <2>2, <2>3 DEF DetachedClean, Attended
  <2>5. (LeaveLast(todo))' <=> LeaveLast(todo)
    BY <2>3 DEF LeaveLast
  <2>6. (CallOn("leave", 1))' = CallOn("leave", 1)
    BY Zenon DEF CallOn, Call
  <2>q. QED
    BY <2>3, <2>4, <2>5, <2>6, Zenon DEF Attended
<1>9. CASE Result \/ Succeed
  <2>1. /\ todo # <<>> /\ Step.op # "leave" /\ killed' = killed /\ lost' = lost
        /\ todo' = Tail(todo) \/ (Step.to # "" /\ todo' = From(Step.to))
    BY <1>9, ResultIs DEF history
  <2>q. QED
    BY <2>1, AttendedOnward
<1>q. QED
  BY <1>1, <1>2, <1>3, <1>4, <1>5, <1>6, <1>7, <1>8, <1>9 DEF Next

\* The leaving of the chip is the last call of every command there is.
THEOREM AlwaysAttended == Spec => []Attended
<1>1. Init => Attended
  <2> SUFFICES ASSUME Init  PROVE Attended
    OBVIOUS
  <2>1. todo = <<>> /\ runs = 0 /\ killed = ""
    BY DEF Init
  <2>4. runs = 0
    BY <2>1
  <2>3. ~(runs > 0)
    BY <2>4
  <2>2. DetachedClean
    BY <2>3, Zenon DEF DetachedClean
  <2>q. QED
    BY <2>1, <2>2 DEF Attended
<1>2. TypeOK /\ Listed /\ Attended /\ UNCHANGED vars => Attended'
  <2> SUFFICES ASSUME Attended, UNCHANGED vars  PROVE Attended'
    OBVIOUS
  <2>1. todo' = todo /\ lost' = lost /\ killed' = killed /\ runs' = runs /\ target' = target
    BY DEF vars, call, history
  <2>2. DetachedClean'
    BY <2>1 DEF DetachedClean, Attended
  <2>3. (LeaveLast(todo))' <=> LeaveLast(todo)
    BY <2>1 DEF LeaveLast
  <2>4. (CallOn("leave", 1))' = CallOn("leave", 1)
    BY Zenon DEF CallOn, Call
  <2>q. QED
    BY <2>1, <2>2, <2>3, <2>4, Zenon DEF Attended
<1>3. TypeOK /\ Listed /\ Attended /\ [Next]_vars => Attended'
  BY <1>2, AttendedStep
<1>q. QED
  BY <1>1, <1>3, CallsInOrder, PTL DEF Spec

\* Once st-flash is done with a chip it knew, the chip runs on its own.
THEOREM AlwaysDetachedClean == Spec => []DetachedClean
<1>1. Attended => DetachedClean
  BY DEF Attended
<1> QED
  BY <1>1, AlwaysAttended, PTL

-----------------------------------------------------------------------------
(***************************************************************************)
(* Only the pages asked for change.                                        *)
(***************************************************************************)

\* No exchange was lost that selects a page to erase, and no junk was read,
\* from a chip whose pages the code names.
Heard == {"junk", "select", "set_PER"} \cap lost = {} /\ Known(chip)

\* The register of b names a page that may be erased, or ignores the start;
\* it erases the page that is named next, or ignores it.
Chosen(b) ==
  LET r == Reg(chip, b)
  IN  \/ "LOCK" \in target.cr[r]
      \/ "PER" \in target.cr[r] /\ Named(chip, r, target.sel[r]) \subseteq licence
Pending(b) == LET r == Reg(chip, b) IN "LOCK" \in target.cr[r] \/ "PER" \in target.cr[r]

\* What comes next finds the page chosen, or its erasing selected.
Ready == todo # <<>> => /\ Step.op = "start" => Chosen(Step.at)
                        /\ Step.op = "select" /\ chip.type \in PerFirst => Pending(BankOf(Step.at))

\* The pages that the command covers may change, all pages if it is for all of
\* them; nothing else is being erased, or about to be.
Careful == /\ cmd.mass => licence = Pages(chip)
           /\ Asked(cmd) \subseteq licence
           /\ Heard => (\A b \in Bank : target.job[b] \subseteq licence) /\ (~cmd.mass => Ready)

\* What a step may do to the flash.
Permitted(t, u) == /\ \A p \in Pages(chip) : u.mem[p] # t.mem[p] => p \in licence
                   /\ \A b \in Bank : u.job[b] \subseteq licence

\* An address of a range, and the page around it.
LEMMA InRange ==
  ASSUME NEW u \in Nat, NEW a \in Nat, NEW n \in Nat, NEW f \in Nat, NEW z \in Nat, NEW size \in Nat,
         a <= u, u < a + n, a + n <= size
  PROVE  /\ u < size
         /\ f <= u /\ u < f + z => f < a + n /\ a < f + z
OBVIOUS

\* The page of an address in the range of a command line is one it asks for.
LEMMA AskedPage ==
  ASSUME chip \in Chips, NEW k \in CommandLine, NEW u \in Nat, Within(k, u), ~k.mass,
         InFlash(k.addr, k.addr + k.len)
  PROVE  u < FlashSize(chip) /\ PageAt(chip, u) \in Asked(k)
<1>1. k.addr \in Nat /\ k.len \in Nat
  BY DEF CommandLine
<1>2. k.addr <= u /\ u < k.addr + k.len
  BY Zenon DEF Within
<1>3. k.addr + k.len <= FlashSize(chip) /\ FlashSize(chip) \in Nat
  BY FlashSizeNat, Zenon DEF InFlash
<1>4. u < FlashSize(chip)
  BY <1>1, <1>2, <1>3
<1> DEFINE p == PageAt(chip, u)
           f == FirstUnit(chip, p)
           z == Extent(chip, p)
<1>5. f \in Nat /\ z \in Nat /\ f <= u /\ u < f + z
  BY <1>4, PageSpan, Zenon
<1>8. p \in Pages(chip)
  BY PageIs, Zenon
<1> HIDE DEF f, z
<1>9. f < k.addr + k.len /\ k.addr < f + z
  BY <1>1, <1>2, <1>3, <1>5, InRange
<1>10. Covered(k, p)
  BY <1>9 DEF Covered, f, z
<1>11. k.do \in {"write", "erase"}
  BY DEF Within
<1>q. QED
  BY <1>4, <1>8, <1>10, <1>11 DEF Asked

\* The page of a call to it may change.
LEMMA PageIsLicensed ==
  ASSUME TypeOK, Listed, Careful, todo # <<>>, Step.op \in PageOps \cup {"load"}
  PROVE  /\ PageAt(chip, Step.at) \in licence
         /\ ~cmd.mass => Step.at < FlashSize(chip)
<1>1. chip \in Chips /\ cmd \in CommandLine
  BY DEF TypeOK
<1>2. Step.at \in Nat /\ Fits(cmd, Step)
  BY HeadIs
<1>3. PageAt(chip, Step.at) \in Pages(chip)
  BY <1>1, <1>2, PageIs
<1>4. CASE cmd.mass
  BY <1>3, <1>4 DEF Careful
<1>5. CASE ~cmd.mass
  <2>1. Within(cmd, Step.at)
    BY <1>2 DEF Fits, RangeOps
  <2>2. Step.op \in Harmful \ {"erase_section", "start"}
    BY DEF Harmful, PageOps, RangeOps
  <2>3. InFlash(cmd.addr, cmd.addr + cmd.len)
    BY <1>5, <2>2, RangeIsInFlash DEF Writable
  <2>4. Step.at < FlashSize(chip) /\ PageAt(chip, Step.at) \in Asked(cmd)
    BY <1>1, <1>2, <1>5, <2>1, <2>3, AskedPage
  <2>q. QED
    BY <2>4 DEF Careful
<1>q. QED
  BY <1>4, <1>5

\* A step of a command, from what it does to the flash and to the calls to come.
LEMMA CarefulFrom ==
  ASSUME Careful, chip' = chip, cmd' = cmd, licence' = licence, lost \subseteq lost',
         Heard' => Permitted(target, target') /\ (~cmd.mass => Ready')
  PROVE  Careful'
<1>1. (Asked(cmd))' = Asked(cmd)
  BY DEF Asked, Covered
<1>2. (Pages(chip))' = Pages(chip)
  OBVIOUS
<1>3. Heard' => /\ \A b \in Bank : target'.job[b] \subseteq licence
                /\ ~cmd.mass => Ready'
  BY DEF Permitted
<1>4. cmd.mass => licence = Pages(chip)
  BY DEF Careful
<1>5. Asked(cmd) \subseteq licence
  BY DEF Careful
<1>q. QED
  BY <1>1, <1>2, <1>3, <1>4, <1>5 DEF Careful

\* After a call that neither names a page nor selects erasing, none is started.
LEMMA ReadyFollows ==
  ASSUME chip' = chip, Follows(todo'), Step.op \notin {"select", "set_PER"}
  PROVE  Ready'
<1>1. todo' # <<>> => todo'[1].op # "start" /\ ~(todo'[1].op = "select" /\ chip.type \in PerFirst)
  BY DEF Follows
<1>q. QED
  BY <1>1 DEF Ready, Step, PerFirst

\* Nor at the beginning of a function.
LEMMA ReadyOpens ==
  ASSUME chip' = chip, Opens(todo')
  PROVE  Ready'
BY DEF Ready, Step, PerFirst, Opens

\* A step that changes no page is permitted.
LEMMA KeepsPermitted ==
  ASSUME Careful, Heard, NEW u, Keeps(chip, target, u)
  PROVE  Permitted(target, u)
BY DEF Careful, Keeps, Permitted

\* So is one that begins to erase pages that may change.
LEMMA BegunPermitted ==
  ASSUME Careful, Heard, NEW u, NEW pages \in SUBSET licence, Begun(chip, target, u, pages)
  PROVE  Permitted(target, u)
BY DEF Careful, Begun, Permitted

\* So is a reset.
LEMMA CutsPermitted ==
  ASSUME Careful, Heard, NEW u, Cuts(chip, target, u)
  PROVE  Permitted(target, u)
<1>1. target.job[1] \subseteq licence /\ target.job[2] \subseteq licence
  BY DEF Careful, Bank
<1>q. QED
  BY <1>1 DEF Cuts, Permitted

\* The register of a page.
LEMMA RegIs ==
  ASSUME chip \in Chips
  PROVE  /\ \A b \in Bank : Reg(chip, b) \in Bank
         /\ \A u : BankOf(u) \in Bank /\ Reg(chip, BankOf(u)) = BankOf(u)
BY DEF Reg, BankOf, Bank

\* What an exchange that was not lost is.
LEMMA HeardIs ==
  ASSUME NEW op, NEW l, NEW t, Doing(op, l, t), chip' = chip, Heard'
  PROVE  /\ Heard /\ lost \subseteq lost' /\ l \in Exchange /\ l.read
         /\ op \in {"select", "set_PER"} => l = Good
<1>1. lost' = lost \cup (IF l = Good THEN {} ELSE {Step.op}) \cup (IF l.read THEN {} ELSE {"junk"})
  BY DEF Doing, Link
<1>2. Step.op = op /\ l \in Either
  BY DEF Doing, At
<1>3. Heard /\ lost \subseteq lost'
  BY <1>1 DEF Heard, Known
<1>4. l.read
  BY <1>1 DEF Heard
<1>5. op \in {"select", "set_PER"} => l = Good
  BY <1>1, <1>2 DEF Heard
<1>q. QED
  BY <1>2, <1>3, <1>4, <1>5, ExchangesAre

\* A call is made of Touching: what a step of it may be, as far as the lemmas
\* below rely on it.
Touched(op, l) ==
  /\ op \in Touching \cup {"leave"}
  /\ todo # <<>> /\ Step.op = op
  /\ chip \in Chips /\ target \in Controller(chip) /\ Step.at \in Nat /\ Fits(cmd, Step)
  /\ chip' = chip /\ cmd' = cmd /\ licence' = licence /\ lost \subseteq lost'
  /\ ~cmd.mass => Follows(todo')
  /\ l \in Exchange

\* The steps of these calls.
LEMMA TouchedIs ==
  ASSUME TypeOK, Listed, NEW op \in Touching \cup {"leave"}, NEW l, NEW t, Doing(op, l, t),
         NEW ok, Returns(ok), target' \in Controller(chip)
  PROVE  Touched(op, l)
<1>1. todo # <<>> /\ Step.op = op /\ Link(l) /\ l \in Either /\ backup' = backup
  BY DEF Doing, At
<1>2. Made
  BY <1>1 DEF Made
<1>3. Step.op \notin Checks
  BY <1>1 DEF Checks, Touching
<1>4. backup' \in BOOLEAN
  BY <1>1 DEF TypeOK
<1>5. /\ UNCHANGED <<chip, cmd, err, runs, killed, tidy, licence>> /\ lost \subseteq lost'
      /\ ~cmd.mass => Follows(todo')
  BY <1>2, <1>3, <1>4, MadeIs
<1>6. chip \in Chips /\ target \in Controller(chip)
  BY DEF TypeOK
<1>7. l \in Exchange
  BY <1>1, ExchangesAre
<1>q. QED
  BY <1>1, <1>5, <1>6, <1>7, HeadIs DEF Touched

\* What a call of Touching has to show.
Shown == /\ \A p \in Pages(chip) : target'.mem[p] # target.mem[p] => p \in licence' \/ ~Heard'
         /\ Careful' /\ chip' = chip

\* What they have to show, from what they do.
LEMMA ShownFrom ==
  ASSUME Careful, NEW op, NEW l, Touched(op, l),
         Heard' => Permitted(target, target') /\ (~cmd.mass => Ready')
  PROVE  Shown
<1>1. chip' = chip /\ cmd' = cmd /\ licence' = licence /\ lost \subseteq lost'
  BY DEF Touched
<1>2. Careful'
  BY <1>1, CarefulFrom
<1>3. \A p \in Pages(chip) : target'.mem[p] # target.mem[p] => p \in licence \/ ~Heard'
  BY DEF Permitted
<1>q. QED
  BY <1>1, <1>2, <1>3 DEF Shown

\* A call that neither selects a page nor selects erasing.
LEMMA ShownPermitted ==
  ASSUME Careful, NEW op, NEW l, Touched(op, l), op \notin {"select", "set_PER"},
         Heard' => Permitted(target, target')
  PROVE  Shown
<1>1. ~cmd.mass => Ready'
  BY ReadyFollows DEF Touched
<1>q. QED
  BY <1>1, ShownFrom

\* Loading a page.
LEMMA LoadShown ==
  ASSUME TypeOK, Listed, Careful, NEW l, Touched("load", l), NEW soft \in BOOLEAN,
         target' = IF l.write \/ soft THEN Program(chip, target, PageAt(chip, Step.at)) ELSE target,
         Heard' => Heard
  PROVE  Shown
<1>1. chip \in Chips /\ target \in Controller(chip) /\ todo # <<>> /\ Step.op = "load"
        /\ Step.at \in Nat
  BY DEF Touched
<1>2. PageAt(chip, Step.at) \in licence
  BY <1>1, PageIsLicensed
<1>3. PageAt(chip, Step.at) \in Pages(chip)
  BY <1>1, PageIs
<1> DEFINE u == Program(chip, target, PageAt(chip, Step.at))
<1>4. u.job = target.job /\ \A q \in Pages(chip) : q # PageAt(chip,
        Step.at) => u.mem[q] = target.mem[q]
  BY <1>1, <1>3, ProgramIs
<1> HIDE DEF u
<1>5. ASSUME Heard  PROVE Permitted(target, u) /\ Permitted(target, target)
  <2>1. \A b \in Bank : target.job[b] \subseteq licence
    BY <1>5 DEF Careful
  <2>q. QED
    BY <2>1, <1>2, <1>4 DEF Permitted
<1>6. target' = u \/ target' = target
  BY DEF u
<1>q. QED
  BY <1>5, <1>6, ShownPermitted

\* Resetting the chip.
LEMMA ResetShown ==
  ASSUME TypeOK, Careful, NEW l, Touched("reset", l), NEW soft \in BOOLEAN,
         target' = IF l.write THEN Reset(target, soft) ELSE target, Heard' => Heard
  PROVE  Shown
<1>1. chip \in Chips /\ target \in Controller(chip)
  BY DEF Touched
<1>2. Cuts(chip, target, Reset(target, soft))
  BY <1>1, ResetsCut
<1>3. ASSUME Heard  PROVE Permitted(target, Reset(target, soft)) /\ Permitted(target, target)
  <2>1. \A b \in Bank : target.job[b] \subseteq licence
    BY <1>3 DEF Careful
  <2>2. Permitted(target, Reset(target, soft))
    BY <1>2, <1>3, CutsPermitted
  <2>q. QED
    BY <2>1, <2>2 DEF Permitted
<1>4. target' = Reset(target, soft) \/ target' = target
  OBVIOUS
<1>q. QED
  BY <1>3, <1>4, ShownPermitted

\* Beginning to erase pages that may change.
LEMMA BegunShown ==
  ASSUME Careful, NEW op, NEW l, Touched(op, l), op \notin {"select", "set_PER"}, Heard' => Heard,
         NEW pages \in SUBSET licence, Begun(chip, target, target', pages)
  PROVE  Shown
<1>1. Heard' => Permitted(target, target')
  BY BegunPermitted
<1>q. QED
  BY <1>1, ShownPermitted

\* Erasing a page of L0 or L1.
LEMMA EraseWordShown ==
  ASSUME TypeOK, Listed, Careful, NEW l, Touched("erase_word", l), Heard' => Heard,
         target' = PecrErase(chip, target, Step.at, l)
  PROVE  Shown
<1>1. /\ chip \in Chips /\ target \in Controller(chip) /\ todo # <<>> /\ Step.op = "erase_word"
      /\ l \in Exchange /\ Step.at \in Nat
  BY DEF Touched
<1>2. PageAt(chip, Step.at) \in licence
  BY <1>1, PageIsLicensed DEF PageOps
<1>3. Begun(chip, target, target', {PageAt(chip, Step.at)})
  BY <1>1, CommandsBegin
<1>q. QED
  BY <1>2, <1>3, BegunShown

\* Erasing a page of WB0.
LEMMA CommandPageShown ==
  ASSUME TypeOK, Listed, Careful, NEW l, Touched("command_erase", l), Heard' => Heard,
         target' = CommandErase(chip, target, {PageAt(chip, Step.at)}, l)
  PROVE  Shown
<1>1. /\ chip \in Chips /\ target \in Controller(chip) /\ todo # <<>> /\ Step.op = "command_erase"
      /\ l \in Exchange /\ Step.at \in Nat
  BY DEF Touched
<1>2. PageAt(chip, Step.at) \in licence
  BY <1>1, PageIsLicensed DEF PageOps
<1>3. PageAt(chip, Step.at) \in Pages(chip)
  BY <1>1, PageIs
<1>4. Begun(chip, target, target', {PageAt(chip, Step.at)})
  BY <1>1, <1>3, CommandsBegin
<1>q. QED
  BY <1>2, <1>4, BegunShown

\* Erasing all pages of WB0.
LEMMA CommandMassShown ==
  ASSUME TypeOK, Careful, NEW l, Touched("command_mass_erase", l), Heard' => Heard,
         target' = CommandErase(chip, target, Pages(chip), l)
  PROVE  Shown
<1>1. /\ chip \in Chips /\ target \in Controller(chip) /\ Step.op = "command_mass_erase"
      /\ l \in Exchange /\ Fits(cmd, Step)
  BY DEF Touched
<1>2. Pages(chip) \subseteq licence
  BY <1>1 DEF Fits, Careful
<1>3. Begun(chip, target, target', Pages(chip))
  BY <1>1, CommandsBegin
<1>q. QED
  BY <1>2, <1>3, BegunShown

\* The start: of a page that was chosen, or of all pages.
LEMMA StartShown ==
  ASSUME TypeOK, Listed, Careful, NEW l, Touched("start", l), Heard' => Heard /\ l.read,
         target' = SetFlashCrStrt(chip, target, Step.at, l)
  PROVE  Shown
<1>1. /\ chip \in Chips /\ target \in Controller(chip) /\ todo # <<>> /\ Step.op = "start"
      /\ l \in Exchange /\ Fits(cmd, Step)
  BY DEF Touched
<1>2. Step.at \in Bank
  BY <1>1 DEF Fits, BankOps
<1> DEFINE r == Reg(chip, Step.at)
           pages == IF Refuses(target.cr[r]) THEN {} ELSE Erases(chip, target, r)
<1>3. /\ Begun(chip, target, target', Pages(chip))
      /\ l.read => Begun(chip, target, target', pages)
  BY <1>1, <1>2, StartIs
<1>4. ASSUME Heard', cmd.mass  PROVE Permitted(target, target')
  <2>1. Pages(chip) \subseteq licence
    BY <1>4 DEF Careful
  <2>q. QED
    BY <1>3, <1>4, <2>1, BegunPermitted
<1>5. ASSUME Heard', ~cmd.mass  PROVE Permitted(target, target')
  <2>1. Ready
    BY <1>5 DEF Careful
  <2>2. Chosen(Step.at)
    BY <1>1, <2>1 DEF Ready
  <2>3. \/ "LOCK" \in target.cr[r]
        \/ "PER" \in target.cr[r] /\ Named(chip, r, target.sel[r]) \subseteq licence
    BY <2>2 DEF Chosen
  <2>4. "PER" \in target.cr[r] /\ ~Refuses(target.cr[r]) =>
          Erases(chip, target, r) = Named(chip, r, target.sel[r])
    BY DEF Erases, Refuses
  <2>5. pages \subseteq licence
    BY <2>3, <2>4 DEF Refuses
  <2>6. Begun(chip, target, target', pages)
    BY <1>3, <1>5
  <2> HIDE DEF pages
  <2>q. QED
    BY <1>5, <2>5, <2>6, BegunPermitted
<1>q. QED
  BY <1>4, <1>5, ShownPermitted

\* Erasing by pages is selected, before the page is named.
LEMMA SetPerShown ==
  ASSUME TypeOK, Listed, Careful, NEW l, Touched("set_PER", l), Heard' => Heard /\ l = Good,
         target' = SetFlashCrPer(chip, target, Step.at, l)
  PROVE  Shown
<1>1. /\ chip \in Chips /\ target \in Controller(chip) /\ todo # <<>> /\ Step.op = "set_PER"
      /\ l \in Exchange /\ Fits(cmd, Step) /\ chip' = chip /\ (~cmd.mass => Follows(todo'))
  BY DEF Touched
<1>2. Step.at \in Bank
  BY <1>1 DEF Fits, BankOps
<1>3. Keeps(chip, target, target')
  BY <1>1, <1>2, HelpersKeep
<1>4. Heard' => Permitted(target, target')
  BY <1>3, KeepsPermitted
<1>5. ASSUME Heard', ~cmd.mass  PROVE Ready'
  <2> DEFINE r == Reg(chip, Step.at)
  <2>1. l.write /\ l = Good /\ r \in Bank
    BY <1>1, <1>2, <1>5, RegIs DEF Good
  <2>2. "LOCK" \in target'.cr[r] \/ "PER" \in target'.cr[r]
    <3>1. CASE "LOCK" \in target.cr[r]
      BY <2>1, <3>1 DEF SetFlashCrPer, WriteCr
    <3>2. CASE "LOCK" \notin target.cr[r]
      <4> DEFINE bits == ReadCr(chip, target, Step.at, l) \cup {"PER"}
      <4>1. "PER" \in bits
        OBVIOUS
      <4> HIDE DEF bits
      <4>2. target' = [target EXCEPT !.cr[r] = bits]
        BY <2>1, <3>2 DEF SetFlashCrPer, WriteCr, bits
      <4>3. target'.cr[r] = bits
        BY <1>1, <2>1, <4>2 DEF Controller
      <4>q. QED
        BY <4>1, <4>3
    <3>q. QED
      BY <3>1, <3>2
  <2>3. Follows(todo')
    BY <1>1, <1>5
  <2>4. ASSUME todo' # <<>>, todo'[1].op = "start"  PROVE FALSE
    BY <1>1, <2>3, <2>4 DEF Follows
  <2>5. ASSUME todo' # <<>>, todo'[1].op = "select", chip.type \in PerFirst
        PROVE  Pending(BankOf(todo[1].at))'
    <3>1. Step.at = BankOf(todo'[1].at)
      BY <2>3, <2>5 DEF Follows
    <3>2. (BankOf(todo[1].at))' = BankOf(todo'[1].at)
      BY <1>1 DEF BankOf
    <3>3. (Reg(chip, BankOf(todo[1].at)))' = r
      BY <1>1, <3>1, <3>2 DEF Reg
    <3>q. QED
      BY <2>2, <3>3 DEF Pending
  <2>q. QED
    BY <1>1, <2>4, <2>5 DEF Ready, Step, PerFirst
<1>q. QED
  BY <1>4, <1>5, ShownFrom

\* The two fields that naming a page writes.
LEMMA NamingFields ==
  ASSUME NEW r \in Bank, NEW bits, NEW s, target \in Controller(chip),
         target' = [target EXCEPT !.cr[r] = bits, !.sel[r] = s]
  PROVE  target'.cr[r] = bits /\ target'.sel[r] = s
BY DEF Controller

\* The page is named, and with it, or before, its erasing selected.
LEMMA SelectShown ==
  ASSUME TypeOK, Listed, Careful, NEW l, Touched("select", l), Heard' => Heard /\ l = Good,
         target' = Selected(target, Step.at, l)
  PROVE  Shown
<1>1. /\ chip \in Chips /\ target \in Controller(chip) /\ todo # <<>> /\ Step.op = "select"
      /\ l \in Exchange /\ Fits(cmd, Step) /\ chip' = chip /\ (~cmd.mass => Follows(todo'))
      /\ Step.at \in Nat /\ licence' = licence
  BY DEF Touched
<1>2. chip.type \notin {"L0_L1", "WB0"}
  BY <1>1 DEF Fits
<1>3. Keeps(chip, target, target')
  BY <1>1, <1>2, SelectedKeeps
<1>4. Heard' => Permitted(target, target')
  BY <1>3, KeepsPermitted
<1>5. ASSUME Heard', ~cmd.mass  PROVE Ready'
  <2> DEFINE r == BankOf(Step.at)
  <2>1. l.write /\ l.read /\ l = Good /\ r \in Bank /\ Reg(chip, r) = r
    BY <1>1, <1>5, RegIs DEF Good
  <2>2. PICK bits \in SUBSET Bits, bk \in {0, 1}, n \in Nat :
          /\ target' = Select(chip, target, r, bits, bk, n, l)
          /\ l.read /\ Known(chip) => Names(Step.at, bk, n)
          /\ l.read => "PER" \in bits \/ (chip.type \in PerFirst /\ bits = target.cr[r])
    <3>1. \E bits \in SUBSET Bits, bk \in {0, 1}, n \in Nat :
            /\ Selected(target, Step.at, l)
                 = Select(chip, target, BankOf(Step.at), bits, bk, n, l)
            /\ l.read /\ Known(chip) => Names(Step.at, bk, n)
            /\ l.read => "PER" \in bits
                           \/ (chip.type \in PerFirst /\ bits = target.cr[BankOf(Step.at)])
            /\ l.read => bits \subseteq target.cr[BankOf(Step.at)] \cup {"PER"}
      BY <1>1, <1>2, SelectedIs, ZenonT(40)
    <3>q. QED
      BY <1>1, <3>1
  <2>3. Step.at < FlashSize(chip) /\ PageAt(chip, Step.at) \in licence
    BY <1>1, <1>5, PageIsLicensed DEF PageOps
  <2>4. Named(chip, r, [bk |-> bk, n |-> n]) \subseteq licence
    <3>1. Known(chip)
      BY <1>5 DEF Heard
    <3>q. QED
      BY <2>1, <2>2, <2>3, <3>1 DEF Names
  <2>5. chip.type \in PerFirst => "LOCK" \in target.cr[r] \/ "PER" \in target.cr[r]
    <3>1. Ready
      BY <1>5 DEF Careful
    <3>q. QED
      BY <1>1, <2>1, <3>1 DEF Ready, Pending
  <2> HIDE DEF r
  <2>6. \/ "LOCK" \in target'.cr[r]
        \/ "PER" \in target'.cr[r] /\ Named(chip, r, target'.sel[r]) \subseteq licence
    <3>1. CASE "LOCK" \in target.cr[r]
      BY <2>1, <2>2, <3>1 DEF Select
    <3>2. CASE "LOCK" \notin target.cr[r]
      <4>1. target' = [target EXCEPT !.cr[r] = bits, !.sel[r] = [bk |-> bk, n |-> n]]
        BY <2>1, <2>2, <3>2 DEF Select
      <4>2. target'.cr[r] = bits /\ target'.sel[r] = [bk |-> bk, n |-> n]
        <5> DEFINE s == [bk |-> bk, n |-> n]
        <5> HIDE DEF s
        <5>1. target' = [target EXCEPT !.cr[r] = bits, !.sel[r] = s]
          BY <4>1 DEF s
        <5>3. target \in Controller(chip) /\ r \in Bank
          BY <1>1, <2>1
        <5>2. target'.cr[r] = bits /\ target'.sel[r] = s
          BY <5>1, <5>3, NamingFields
        <5>q. QED
          BY <5>2 DEF s
      <4>4. "PER" \in bits
        BY <2>1, <2>2, <2>5, <3>2
      <4>q. QED
        BY <2>4, <4>2, <4>4
    <3>q. QED
      BY <3>1, <3>2
  <2>7. Follows(todo')
    BY <1>1, <1>5
  <2>8. ASSUME todo' # <<>>, todo'[1].op = "select", chip.type \in PerFirst  PROVE FALSE
    BY <1>1, <2>7, <2>8 DEF Follows
  <2>9. ASSUME todo' # <<>>, todo'[1].op = "start"  PROVE Chosen(todo[1].at)'
    <3>1. todo'[1].at = r
      BY <2>7, <2>9 DEF Follows, r
    <3>2. (Reg(chip, todo[1].at))' = r
      BY <1>1, <2>1, <3>1 DEF Reg
    <3>q. QED
      BY <1>1, <2>6, <3>2 DEF Chosen
  <2>q. QED
    BY <1>1, <2>8, <2>9 DEF Ready, Step, PerFirst
<1>q. QED
  BY <1>4, <1>5, ShownFrom

\* Leaving the chip.
LEMMA LeaveShown ==
  ASSUME TypeOK, Careful, NEW l, Touched("leave", l), Heard' => Heard,
         target' = IF l = Good /\ Step.at = 0 THEN LetGo(target) ELSE target
  PROVE  Shown
<1>1. target \in Controller(chip)
  BY DEF Touched
<1>2. LetGo(target).mem = target.mem /\ LetGo(target).job = target.job
  BY <1>1 DEF LetGo, Controller
<1>3. target'.mem = target.mem /\ target'.job = target.job
  BY <1>2
<1>4. Heard' => Permitted(target, target')
  BY <1>3 DEF Careful, Permitted
<1>q. QED
  BY <1>4, ShownPermitted

\* All of them.
LEMMA TouchingShown ==
  ASSUME TypeOK, Listed, Careful,
         \/ SelectPageToErase \/ SetPer \/ Start \/ EraseWord \/ CommandPageErase
         \/ CommandMassErase \/ Load \/ ResetTarget \/ Leave
  PROVE  Shown
<1>1. target' \in Controller(chip)
  BY TouchingType
<1>2. ASSUME NEW op \in Touching \cup {"leave"}, NEW l, NEW t, Doing(op, l, t), NEW ok, Returns(ok)
      PROVE  Touched(op, l) /\ target' = t /\ (Heard' => Heard /\ l.read)
  <2>1. Touched(op, l)
    BY <1>1, <1>2, TouchedIs
  <2>2. target' = t
    BY <1>2 DEF Doing
  <2>3. Heard' => Heard /\ l.read
    BY <1>2, <2>1, HeardIs DEF Touched
  <2>q. QED
    BY <2>1, <2>2, <2>3
<1>3. CASE SelectPageToErase
  <2>1. PICK l : Doing("select", l, Selected(target, Step.at, l)) /\ Returns(TRUE)
    BY <1>3, TouchingAre
  <2> DEFINE t == Selected(target, Step.at, l)
  <2>2. "select" \in Touching \cup {"leave"} /\ Doing("select", l, t) /\ Returns(TRUE)
    BY <2>1 DEF Touching
  <2> HIDE DEF t
  <2>3. Touched("select", l) /\ target' = t /\ (Heard' => Heard /\ l.read)
    BY <1>2, <2>2
  <2>4. Heard' => l = Good
    BY <2>2, <2>3, HeardIs DEF Touched
  <2>q. QED
    BY <2>3, <2>4, SelectShown DEF t
<1>4. CASE SetPer
  <2>1. PICK l : Doing("set_PER", l, SetFlashCrPer(chip, target, Step.at, l)) /\ Returns(TRUE)
    BY <1>4, TouchingAre
  <2> DEFINE t == SetFlashCrPer(chip, target, Step.at, l)
  <2>2. "set_PER" \in Touching \cup {"leave"} /\ Doing("set_PER", l, t) /\ Returns(TRUE)
    BY <2>1 DEF Touching
  <2> HIDE DEF t
  <2>3. Touched("set_PER", l) /\ target' = t /\ (Heard' => Heard /\ l.read)
    BY <1>2, <2>2
  <2>4. Heard' => l = Good
    BY <2>2, <2>3, HeardIs DEF Touched
  <2>q. QED
    BY <2>3, <2>4, SetPerShown DEF t
<1>5. CASE Start
  <2>1. PICK l : Doing("start", l, SetFlashCrStrt(chip, target, Step.at, l)) /\ Returns(TRUE)
    BY <1>5, TouchingAre
  <2> DEFINE t == SetFlashCrStrt(chip, target, Step.at, l)
  <2>2. "start" \in Touching \cup {"leave"} /\ Doing("start", l, t) /\ Returns(TRUE)
    BY <2>1 DEF Touching
  <2> HIDE DEF t
  <2>3. Touched("start", l) /\ target' = t /\ (Heard' => Heard /\ l.read)
    BY <1>2, <2>2
  <2>q. QED
    BY <2>3, StartShown DEF t
<1>6. CASE EraseWord
  <2>1. PICK l : Doing("erase_word", l, PecrErase(chip, target, Step.at, l)) /\ Returns(TRUE)
    BY <1>6, TouchingAre
  <2> DEFINE t == PecrErase(chip, target, Step.at, l)
  <2>2. "erase_word" \in Touching \cup {"leave"} /\ Doing("erase_word", l, t) /\ Returns(TRUE)
    BY <2>1 DEF Touching
  <2> HIDE DEF t
  <2>3. Touched("erase_word", l) /\ target' = t /\ (Heard' => Heard /\ l.read)
    BY <1>2, <2>2
  <2>q. QED
    BY <2>3, EraseWordShown DEF t
<1>7. CASE CommandPageErase
  <2>1. PICK l : Doing("command_erase", l, CommandErase(chip, target, {PageAt(chip, Step.at)}, l))
          /\ Returns(TRUE)
    BY <1>7, TouchingAre
  <2> DEFINE t == CommandErase(chip, target, {PageAt(chip, Step.at)}, l)
  <2>2. "command_erase" \in Touching \cup {"leave"} /\ Doing("command_erase", l, t) /\ Returns(TRUE)
    BY <2>1 DEF Touching
  <2> HIDE DEF t
  <2>3. Touched("command_erase", l) /\ target' = t /\ (Heard' => Heard /\ l.read)
    BY <1>2, <2>2
  <2>q. QED
    BY <2>3, CommandPageShown DEF t
<1>8. CASE CommandMassErase
  <2>1. PICK l : Doing("command_mass_erase", l, CommandErase(chip, target, Pages(chip), l))
          /\ Returns(TRUE)
    BY <1>8, TouchingAre
  <2> DEFINE t == CommandErase(chip, target, Pages(chip), l)
  <2>2. "command_mass_erase" \in Touching \cup {"leave"} /\ Doing("command_mass_erase", l, t)
          /\ Returns(TRUE)
    BY <2>1 DEF Touching
  <2> HIDE DEF t
  <2>3. Touched("command_mass_erase", l) /\ target' = t /\ (Heard' => Heard /\ l.read)
    BY <1>2, <2>2
  <2>q. QED
    BY <2>3, CommandMassShown DEF t
<1>9. CASE Load
  <2>1. PICK l : \E soft \in BOOLEAN : \E ok : Doing("load", l, IF l.write \/ soft
          THEN Program(chip, target, PageAt(chip, Step.at)) ELSE target) /\ Returns(ok)
    BY <1>9, TouchingAre, Zenon
  <2>2. PICK soft \in BOOLEAN : \E ok : Doing("load", l, IF l.write \/ soft THEN Program(chip,
          target, PageAt(chip, Step.at)) ELSE target) /\ Returns(ok)
    BY <2>1, Zenon
  <2> DEFINE t == IF l.write \/ soft THEN Program(chip, target, PageAt(chip, Step.at)) ELSE target
  <2>3. PICK ok : "load" \in Touching \cup {"leave"} /\ Doing("load", l, t) /\ Returns(ok)
    BY <2>2 DEF Touching
  <2> HIDE DEF t
  <2>4. Touched("load", l) /\ target' = t /\ (Heard' => Heard /\ l.read)
    BY <1>2, <2>3
  <2>q. QED
    BY <2>4, LoadShown DEF t
<1>10. CASE ResetTarget
  <2>1. PICK l : \E soft \in BOOLEAN : \E ok : Doing("reset", l, IF l.write THEN Reset(target,
          soft) ELSE target) /\ Returns(ok)
    BY <1>10, TouchingAre, Zenon
  <2>2. PICK soft \in BOOLEAN : \E ok : Doing("reset", l, IF l.write THEN Reset(target, soft)
          ELSE target) /\ Returns(ok)
    BY <2>1, Zenon
  <2> DEFINE t == IF l.write THEN Reset(target, soft) ELSE target
  <2>3. PICK ok : "reset" \in Touching \cup {"leave"} /\ Doing("reset", l, t) /\ Returns(ok)
    BY <2>2 DEF Touching
  <2> HIDE DEF t
  <2>4. Touched("reset", l) /\ target' = t /\ (Heard' => Heard /\ l.read)
    BY <1>2, <2>3
  <2>q. QED
    BY <2>4, ResetShown DEF t
<1>11. CASE Leave
  <2>1. PICK l : Doing("leave", l, IF l = Good /\ Step.at = 0 THEN LetGo(target) ELSE target)
          /\ Returns(TRUE)
    BY <1>11, TouchingAre
  <2> DEFINE t == IF l = Good /\ Step.at = 0 THEN LetGo(target) ELSE target
  <2>2. "leave" \in Touching \cup {"leave"} /\ Doing("leave", l, t) /\ Returns(TRUE)
    BY <2>1 DEF Touching
  <2> HIDE DEF t
  <2>3. Touched("leave", l) /\ target' = t /\ (Heard' => Heard /\ l.read)
    BY <1>2, <2>2
  <2>q. QED
    BY <2>3, LeaveShown DEF t
<1>q. QED
  BY <1>3, <1>4, <1>5, <1>6, <1>7, <1>8, <1>9, <1>10, <1>11

\* A step that leaves the flash, and the erasing of its pages, alone.
LEMMA QuietShown ==
  ASSUME Careful, chip' = chip, cmd' = cmd, licence' = licence, lost \subseteq lost',
         Keeps(chip, target, target'), ~cmd.mass /\ Heard' => Ready'
  PROVE  Shown
<1>1. Heard' => Heard
  BY DEF Heard, Known
<1>2. Heard' => Permitted(target, target')
  BY <1>1, KeepsPermitted
<1>3. Careful'
  BY <1>2, CarefulFrom
<1>4. target'.mem = target.mem
  BY DEF Keeps
<1>q. QED
  BY <1>3, <1>4 DEF Shown

\* Every step changes only the pages it may, and leaves the command careful.
LEMMA CarefulStep ==
  ASSUME TypeOK, Listed, Careful, Next
  PROVE  Shown
<1>1. Keeps(chip, target, target)
  BY DEF Keeps, TypeOK
<1>2. CASE \/ Wait \/ ClearErrors \/ CheckErrors \/ Unlock \/ Lock \/ UnlockOptions \/ Relock
           \/ SetPg \/ ClearPg \/ ClearPer \/ SetMer \/ ClearMer \/ UnlockPecr \/ LockPecr
           \/ RestoreDma \/ InitLoader \/ ReadRegister \/ Unmask \/ EraseOptions \/ ProgramOption
           \/ BeginOptions \/ ChangeOptions \/ ForceDebug \/ Status \/ RunCore \/ Finalize \/ StopDma
           \/ Verify
  <2>1. /\ Made /\ Step.op \notin Touching \cup Replaced \cup {"leave"}
        /\ Keeps(chip, target, target') /\ backup' \in BOOLEAN
    BY <1>2, SteadyCalls
  <2>2. Step.op \notin Checks \cup {"select", "set_PER"} /\ target' \in Controller(chip)
    BY <2>1 DEF Checks, Replaced, Keeps, Touching
  <2>3. /\ UNCHANGED <<chip, cmd, err, runs, killed, tidy, licence>> /\ lost \subseteq lost'
        /\ ~cmd.mass => Follows(todo')
    BY <2>1, <2>2, MadeIs
  <2>4. ~cmd.mass => Ready'
    BY <2>2, <2>3, ReadyFollows
  <2>q. QED
    BY <2>1, <2>3, <2>4, QuietShown
<1>3. CASE \/ SelectPageToErase \/ SetPer \/ Start \/ EraseWord \/ CommandPageErase
           \/ CommandMassErase \/ Load \/ ResetTarget \/ Leave
  BY <1>3, TouchingShown
<1>4. CASE EraseSection \/ EraseNext \/ WritePage \/ CheckRange \/ Unsupported
  <2>1. /\ todo # <<>> /\ Step.op \in Replaced /\ Step.to \in Labels
        /\ \E ok \in BOOLEAN : \E calls : Becoming(ok, calls) /\ (ok /\ ~cmd.mass => Writable)
    BY <1>4, ReplacedIs
  <2>2. PICK ok \in BOOLEAN : \E calls : Becoming(ok, calls) /\ (ok /\ ~cmd.mass => Writable)
    BY <2>1, Zenon
  <2>3. PICK calls : Becoming(ok, calls) /\ (ok /\ ~cmd.mass => Writable)
    BY <2>2, Zenon
  <2>4. /\ UNCHANGED <<chip, target, cmd, err, backup, runs, faults, lost, killed, tidy, licence>>
        /\ ~cmd.mass => Opens(todo')
    BY <2>1, <2>3, BecomingIs
  <2>5. ~cmd.mass => Ready'
    BY <2>4, ReadyOpens
  <2>q. QED
    BY <1>1, <2>4, <2>5, QuietShown
<1>5. CASE Begin
  <2>1. /\ TypeOK' /\ chip' = chip
        /\ ~cmd'.mass => Opens(todo')
        /\ licence' = Asked(cmd') \cup target.job[1] \cup target.job[2]
        /\ \A b \in Bank : target'.job[b] \subseteq target.job[1] \cup target.job[2]
        /\ \A p \in Pages(chip) :
              target'.mem[p] # target.mem[p] => p \in target.job[1] \cup target.job[2]
        /\ cmd'.mass => Asked(cmd') = Pages(chip)
    BY <1>5, BeginIs
  <2>2. (Asked(cmd))' = Asked(cmd')
    BY <2>1 DEF Asked, Covered
  <2>3. licence' \subseteq Pages(chip)
    BY <2>1 DEF TypeOK
  <2>4. ~cmd'.mass => Ready'
    BY <2>1, ReadyOpens
  <2>5. cmd'.mass => licence' = Pages(chip)
    BY <2>1, <2>3
  <2>6. (Pages(chip))' = Pages(chip)
    BY <2>1
  <2>7. Careful'
    BY <2>1, <2>2, <2>4, <2>5, <2>6 DEF Careful
  <2>q. QED
    BY <2>1, <2>7 DEF Shown
<1>6. CASE Interrupt \/ Unplugged
  <2>1. chip' = chip /\ cmd' = cmd /\ licence' = licence /\ lost' = lost /\ target' = target
    BY <1>6 DEF Interrupt, Unplugged
  <2>2. ~cmd'.mass => Opens(todo')
    BY <1>6, CutShort
  <2>3. ~cmd.mass => Ready'
    BY <2>1, <2>2, ReadyOpens
  <2>q. QED
    BY <1>1, <2>1, <2>3, QuietShown
<1>7. CASE EraseEnds
  <2>1. /\ UNCHANGED <<chip, cmd, call, runs, faults, lost, history>>
        /\ \A b \in Bank : target'.job[b] \subseteq target.job[b]
        /\ \A p \in Pages(chip) :
              target'.mem[p] # target.mem[p] => p \in target.job[1] \cup target.job[2]
        /\ target'.cr = target.cr /\ target'.sel = target.sel
    BY <1>7, EndsIs
  <2>2. chip' = chip /\ cmd' = cmd /\ todo' = todo /\ lost' = lost /\ licence' = licence
    BY <2>1 DEF call, history
  <2>3. ASSUME Heard'
        PROVE  Permitted(target, target') /\ (~cmd.mass => Ready')
    <3>1. Heard
      BY <2>2, <2>3 DEF Heard, Known
    <3>2. /\ \A b \in Bank : target.job[b] \subseteq licence
          /\ target.job[1] \subseteq licence /\ target.job[2] \subseteq licence
      BY <3>1 DEF Careful, Bank
    <3>3. Permitted(target, target')
      BY <2>1, <3>2 DEF Permitted
    <3>4. ~cmd.mass => Ready
      BY <3>1 DEF Careful
    <3>5. Ready' <=> Ready
      BY <2>1, <2>2 DEF Ready, Step, PerFirst, Chosen, Pending, BankOf, Reg
    <3>q. QED
      BY <3>3, <3>4, <3>5
  <2>4. Careful'
    BY <2>2, <2>3, CarefulFrom
  <2>5. \A p \in Pages(chip) : target'.mem[p] # target.mem[p] => p \in licence' \/ ~Heard'
    BY <2>2, <2>3 DEF Permitted
  <2>q. QED
    BY <2>2, <2>4, <2>5 DEF Shown
<1>8. CASE Result \/ Succeed
  <2>1. /\ Step.op \notin {"select", "set_PER"}
        /\ UNCHANGED <<chip, target, cmd, backup, runs, faults, lost, history>>
        /\ ~cmd.mass => Follows(todo')
    BY <1>8, ResultIs
  <2>2. chip' = chip /\ cmd' = cmd /\ licence' = licence /\ lost' = lost /\ target' = target
    BY <2>1 DEF history
  <2>3. ~cmd.mass => Ready'
    BY <2>1, <2>2, ReadyFollows
  <2>q. QED
    BY <1>1, <2>2, <2>3, QuietShown
<1>q. QED
  BY <1>2, <1>3, <1>4, <1>5, <1>6, <1>7, <1>8 DEF Next

\* A page changes only if the command may change it.
THEOREM AlwaysOnlyTheAskedPages == Spec => OnlyTheAskedPages
<1>1. Init => Careful
  <2> SUFFICES ASSUME Init  PROVE Careful
    OBVIOUS
  <2>1. /\ todo = <<>> /\ cmd = Line("none", FALSE, FALSE, <<0, 0>>) /\ target = Fresh(chip)
    BY DEF Init
  <2>2. ~cmd.mass /\ Asked(cmd) = {}
    BY <2>1 DEF Line, Asked
  <2>3. \A b \in Bank : target.job[b] = {}
    BY <2>1 DEF Fresh
  <2>q. QED
    BY <2>1, <2>2, <2>3 DEF Careful, Ready
<1>2. TypeOK /\ Listed /\ Careful /\ UNCHANGED vars => Careful'
  <2> SUFFICES ASSUME TypeOK, Careful, UNCHANGED vars  PROVE Careful'
    OBVIOUS
  <2>1. /\ chip' = chip /\ cmd' = cmd /\ todo' = todo /\ lost' = lost /\ licence' = licence
        /\ target' = target
    BY DEF vars, call, history
  <2>2. (Asked(cmd))' = Asked(cmd)
    BY <2>1 DEF Asked, Covered
  <2>3. Ready' <=> Ready
    BY <2>1 DEF Ready, Step, PerFirst, Chosen, Pending, BankOf, Reg
  <2>4. Heard' <=> Heard
    BY <2>1 DEF Heard, Known
  <2>q. QED
    BY <2>1, <2>2, <2>3, <2>4 DEF Careful
<1>3. TypeOK /\ Listed /\ Careful /\ [Next]_vars => Careful'
  BY <1>2, CarefulStep DEF Shown
<1>4. TypeOK /\ Listed /\ Careful /\ [Next]_vars =>
        [\A p \in Pages(chip) : target'.mem[p] # target.mem[p] =>
            p \in licence' \/ {"junk", "select", "set_PER"} \cap lost' # {} \/ ~Known(chip)]_vars
  <2> SUFFICES ASSUME TypeOK, Listed, Careful, Next
               PROVE  \A p \in Pages(chip) : target'.mem[p] # target.mem[p] =>
                         p \in licence' \/ {"junk", "select", "set_PER"} \cap lost' # {} \/ ~Known(chip)
    OBVIOUS
  <2>1. \A p \in Pages(chip) : target'.mem[p] # target.mem[p] => p \in licence' \/ ~Heard'
    BY CarefulStep DEF Shown
  <2>2. chip' = chip
    BY CarefulStep DEF Shown
  <2>q. QED
    BY <2>1, <2>2 DEF Heard, Known
<1>q. QED
  BY <1>1, <1>3, <1>4, CallsInOrder, PTL DEF Spec, OnlyTheAskedPages

-----------------------------------------------------------------------------
(***************************************************************************)
(* What a call does whose exchanges are all answered.                      *)
(***************************************************************************)

\* The calls that leave the controller as it is; two targets whose
\* controllers, memories and options are the same.
Idle == {"force_debug", "status", "run", "finalize", "check_errors", "init_loader",
         "read_register", "unmask", "leave", "verify", "result", "succeed"}
Alike(t, u) == /\ u.cr = t.cr /\ u.sr = t.sr /\ u.sel = t.sel /\ u.job = t.job /\ u.mem = t.mem
               /\ u.opt = t.opt /\ u.optlock = t.optlock /\ u.dma = t.dma

\* The register of the bank that a page is in, and its choice there.
BankIn(c, u) == IF TwoRegisters(c) /\ UpperHalf(c, u) THEN 2 ELSE 1
Selecting(c, t, u) ==
  CASE c.type = "L4" -> WriteFlashCrBkerPnb(c, t, u, Good)
    [] c.type \in {"F2_F4", "F7"} -> WriteFlashCrSnb(c, t, 1, SectorNumber(c, u), Good)
    [] c.type = "H7" -> WriteFlashCrSnb(c, t, BankIn(c, u), SectorH7(c, u, BankIn(c, u)), Good)
    [] c.type = "H5" -> SelectSectorH5(c, t, u, Good)
    [] c.type \in {"F0_F1_F3", "F1_XL"} -> WriteFlashAr(c, t, u, BankIn(c, u), Good)
    [] OTHER -> SelectPage(c, t, u, Good)

\* The controller as a reset leaves it, of which the options are not a part.
Restored(c, t, u) ==
  /\ u.cr = CrAtReset(c) /\ u.sr = {} /\ (\A b \in Bank : u.job[b] = {}) /\ u.optlock /\ u.dma
  /\ u.opt = t.opt
  /\ \A p \in Pages(c) : p \notin t.job[1] \cup t.job[2] => u.mem[p] = t.mem[p]

\* The call s makes the target u of t, and bk of what DMA was.
Does(c, s, t, a, u, bk) ==
  /\ bk = IF s.op = "DMA_off" /\ HasDma(c) THEN t.dma ELSE a
  /\ s.op \in Idle => Alike(t, u)
  /\ s.op = "wait" => u = t /\ ~IsFlashBusy(c, t)
  /\ s.op = "clear_errors" => u = ClearFlashError(c, t, Good)
  /\ s.op = "unlock" => u = UnlockFlashIf(c, t, Good)
  /\ s.op = "lock" => u = LockFlash(c, t, Good)
  /\ s.op = "unlock_options" => u = UnlockFlashOptionIf(c, t, Good)
  /\ s.op = "relock" => u = LockFlashOption(c, t, Good)
  /\ s.op = "select" => u = Selecting(c, t, s.at)
  /\ s.op = "start" => u = SetFlashCrStrt(c, t, s.at, Good)
  /\ s.op = "set_PG" => u = SetFlashCrPg(c, t, s.at, Good)
  /\ s.op = "clear_PG" => u = ClearFlashCrPg(c, t, s.at, Good)
  /\ s.op = "set_PER" => u = SetFlashCrPer(c, t, s.at, Good)
  /\ s.op = "clear_PER" => u = ClearFlashCrPer(c, t, s.at, Good)
  /\ s.op = "set_MER" => u = SetFlashCrMer(c, t, TRUE, s.at, Good)
  /\ s.op = "clear_MER" => u = SetFlashCrMer(c, t, FALSE, s.at, Good)
  /\ s.op = "unlock_PECR" => u = PecrUnlock(c, t, Good)
  /\ s.op = "erase_word" => u = PecrErase(c, t, s.at, Good)
  /\ s.op = "lock_PECR" => u = PecrLock(c, t, Good)
  /\ s.op = "command_erase" => u = CommandErase(c, t, {PageAt(c, s.at)}, Good)
  /\ s.op = "command_mass_erase" => u = CommandErase(c, t, Pages(c), Good)
  /\ s.op = "DMA_off" => u = DmaOff(c, t, Good)
  /\ s.op = "DMA_back" => u = DmaBack(c, t, a, Good)
  /\ s.op = "load" => u = Program(c, t, PageAt(c, s.at))
  /\ s.op = "erase_options" =>
       u = IF OptionsOpen(t) THEN [t EXCEPT !.opt = "blank", !.cr[1] = {}] ELSE t
  /\ s.op = "program_options" =>
       u = IF OptionsOpen(t) THEN [t EXCEPT !.opt = IF @ = "blank" THEN "new" ELSE "mixed"] ELSE t
  /\ s.op = "begin_options" => u = IF OptionsOpen(t) THEN [t EXCEPT !.opt = "new"] ELSE t
  /\ s.op = "change_options" =>
       u = IF OptionsOpen(t) /\ t.opt # "new" /\ ~c.refuses THEN [t EXCEPT !.opt = "new"] ELSE t
  /\ s.op = "reset" => Restored(c, t, u)

\* The call s, made for the command line k, does not fail.
Written(c, k, t) ==
  \A p \in Pages(c) :
     /\ FirstUnit(c, p) < k.addr + k.len
     /\ k.addr < FirstUnit(c, p) + Extent(c, p)
     => t.mem[p] = "new"
Passes(c, k, s, t) ==
  /\ s.op = "check_errors" => t.sr \cap Registers(c) = {}
  /\ s.op = "unlock_options" => HasOptionLock(c)
  /\ s.op = "verify" => Written(c, k, t)
  /\ s.op = "change_options" => ~c.refuses

\* With nothing lost every exchange was answered.
LEMMA NothingLost ==
  ASSUME NEW l \in Either, Link(l), lost' = {}
  PROVE  l = Good /\ lost = {} /\ faults' = faults
BY DEF Link

\* A call returns, or fails where that is looked at.
LEMMA ReturnsIs ==
  ASSUME TypeOK, NEW ok \in BOOLEAN, Returns(ok)
  PROVE  /\ \/ todo' = Tail(todo) /\ failed' = failed /\ ret' = ret
            \/ ~ok /\ Step.to # "" /\ failed' = TRUE /\ ret' = -1 /\ todo' = From(Step.to)
         /\ UNCHANGED <<chip, cmd, err, runs, killed, tidy, licence>>
<1>1. failed \in BOOLEAN
  BY DEF TypeOK
<1>2. CASE ok \/ Step.to = ""
  BY <1>1, <1>2 DEF Returns
<1>3. CASE ~(ok \/ Step.to = "")
  BY <1>1, <1>3 DEF Returns
<1> QED
  BY <1>2, <1>3

\* What the step of such a call is: what Does says, and a failure only of a
\* call that does not pass.
Succeeds == todo' = Tail(todo) /\ failed' = failed /\ ret' = ret
FailsThen == /\ ~Passes(chip, cmd, Step, target) /\ Step.to # "" /\ failed' = TRUE /\ ret' = -1
             /\ todo' = From(Step.to)
GoodCall ==
  /\ todo # <<>> /\ lost = {} /\ Does(chip, Step, target, backup, target', backup')
  /\ Succeeds \/ FailsThen
  /\ UNCHANGED <<chip, cmd, err, runs, faults, killed, tidy, licence>>

\* Put together from what the helper did and what it answered.
LEMMA GoodCallFrom ==
  ASSUME TypeOK, NEW l \in Either, NEW ok \in BOOLEAN, Link(l), lost' = {}, Returns(ok), todo # <<>>,
         Passes(chip, cmd, Step, target) => ok,
         Does(chip, Step, target, backup, target', backup')
  PROVE  GoodCall
BY NothingLost, ReturnsIs DEF GoodCall, Succeeds, FailsThen

\* stlink_reset restores the controller.
LEMMA ResetRestores ==
  ASSUME chip \in Chips, NEW t \in Controller(chip), NEW soft \in BOOLEAN
  PROVE  Restored(chip, t, Reset(t, soft))
<1> DEFINE armed == IF soft THEN {"fault"} ELSE t.catches
           halt == "reset" \in armed /\ t.debug
           v == ResetChip(chip, t)
<1>1. Reset(t, soft) = [v EXCEPT !.catches = armed, !.halted = halt]
  BY DEF Reset
<1>2. v \in Controller(chip)
  BY ResetCuts DEF Cuts
<1>3. Restored(chip, t, v)
  BY DEF Restored, ResetChip, Controller
<1> HIDE DEF armed, halt, v
<1>4. Alike(v, Reset(t, soft))
  BY <1>1, <1>2 DEF Alike, Controller
<1> QED
  BY <1>3, <1>4 DEF Alike, Restored

\* Every call is such a call, when nothing is lost.
LEMMA GoodStep ==
  ASSUME TypeOK, lost' = {},
         \/ Wait \/ ClearErrors \/ CheckErrors \/ Unlock \/ Lock \/ UnlockOptions
         \/ Relock \/ Start \/ SetPg \/ ClearPg \/ SetPer \/ ClearPer \/ SetMer
         \/ ClearMer \/ UnlockPecr \/ EraseWord \/ LockPecr \/ CommandPageErase
         \/ CommandMassErase \/ RestoreDma \/ InitLoader \/ ReadRegister \/ Unmask
         \/ EraseOptions \/ ProgramOption \/ BeginOptions \/ ChangeOptions \/ ForceDebug \/ Status
         \/ RunCore \/ Finalize \/ Leave \/ StopDma \/ Load \/ Verify \/ ResetTarget
         \/ SelectPageToErase
  PROVE  GoodCall
<1>1. chip \in Chips /\ target \in Controller(chip) /\ backup \in BOOLEAN /\ 1 \in Bank
  BY DEF TypeOK, Bank
<1>2. Good.read /\ Good.write
  BY DEF Good
<1>3. Alike(target, target)
  BY DEF Alike
<1>10. CASE Wait
  <2>1. PICK l \in Reads : /\ Link(l) /\ Returns(TRUE)
                           /\ target' = target
    BY <1>10, Zenon DEF Wait, Calls, Always
  <2>2. At("wait") /\ backup' = backup
    BY <1>10, Zenon DEF Wait, Calls
  <2>3. l \in Either /\ l = Good
    BY <2>1, ExchangesAre, NothingLost
  <2>4. faults' = faults /\ faults \in Nat
    BY <2>1, <2>3, NothingLost DEF TypeOK
  <2>5. IsFlashBusy(chip, target) => faults' > faults
    BY <1>10, Zenon DEF Wait
  <2>6. ~IsFlashBusy(chip, target)
    BY <2>4, <2>5
  <2>7. Does(chip, Step, target, backup, target', backup')
    BY <2>1, <2>2, <2>6 DEF Does, At, Idle
  <2> QED
    BY <2>1, <2>2, <2>3, <2>7, GoodCallFrom DEF At
<1>11. CASE ClearErrors
  <2>1. PICK l \in Writes : /\ Link(l) /\ Returns(TRUE)
                           /\ target' = ClearFlashError(chip, target, l)
    BY <1>11, Zenon DEF ClearErrors, Calls, Always
  <2>2. At("clear_errors") /\ backup' = backup
    BY <1>11, Zenon DEF ClearErrors, Calls
  <2>3. l \in Either /\ l = Good
    BY <2>1, ExchangesAre, NothingLost
  <2>7. Does(chip, Step, target, backup, target', backup')
    BY <1>2, <2>1, <2>2, <2>3 DEF Does, At, Idle
  <2> QED
    BY <2>1, <2>2, <2>3, <2>7, GoodCallFrom DEF At
<1>12. CASE CheckErrors
  <2>1. PICK l \in Reads : /\ Link(l) /\ Returns(CheckFlashError(chip, target, l))
                           /\ target' = target
    BY <1>12, Zenon DEF CheckErrors, Calls
  <2>2. At("check_errors") /\ backup' = backup
    BY <1>12, Zenon DEF CheckErrors, Calls
  <2>3. l \in Either /\ l = Good
    BY <2>1, ExchangesAre, NothingLost
  <2>6. Alike(target, target')
    BY <1>1, <1>2, <1>3, <2>1, <2>3 DEF Alike, Controller, Halt, Run, LetGo
  <2>7. Does(chip, Step, target, backup, target', backup')
    BY <2>2, <2>6 DEF Does, At, Idle
  <2>8. /\ CheckFlashError(chip, target, l) \in BOOLEAN
        /\ Passes(chip, cmd, Step, target) => CheckFlashError(chip, target, l)
    BY <1>2, <2>2, <2>3 DEF Passes, CheckFlashError, At
  <2> QED
    BY <2>1, <2>2, <2>3, <2>7, <2>8, GoodCallFrom DEF At
<1>13. CASE Unlock
  <2>1. PICK l \in Either : /\ Link(l) /\ Returns(IsUnlocked(chip, target, l))
                           /\ target' = UnlockFlashIf(chip, target, l)
    BY <1>13, Zenon DEF Unlock, Calls
  <2>2. At("unlock") /\ backup' = backup
    BY <1>13, Zenon DEF Unlock, Calls
  <2>3. l \in Either /\ l = Good
    BY <2>1, ExchangesAre, NothingLost
  <2>7. Does(chip, Step, target, backup, target', backup')
    BY <1>2, <2>1, <2>2, <2>3 DEF Does, At, Idle
  <2>8. IsUnlocked(chip, target, l) = TRUE
    BY <1>1, <1>2, <2>3 DEF IsUnlocked, IsFlashLocked, ReadCr, Reg, UnlockFlash, Registers,
       Controller, Bank
  <2> QED
    BY <2>1, <2>2, <2>3, <2>7, <2>8, GoodCallFrom DEF At
<1>14. CASE Lock
  <2>1. PICK l \in Either : /\ Link(l) /\ Returns(TRUE)
                           /\ target' = LockFlash(chip, target, l)
    BY <1>14, Zenon DEF Lock, Calls, Always
  <2>2. At("lock") /\ backup' = backup
    BY <1>14, Zenon DEF Lock, Calls
  <2>3. l \in Either /\ l = Good
    BY <2>1, ExchangesAre, NothingLost
  <2>7. Does(chip, Step, target, backup, target', backup')
    BY <1>2, <2>1, <2>2, <2>3 DEF Does, At, Idle
  <2> QED
    BY <2>1, <2>2, <2>3, <2>7, GoodCallFrom DEF At
<1>15. CASE UnlockOptions
  <2>1. PICK l \in Either : /\ Link(l) /\ Returns(IsOptionUnlocked(chip, target, l))
                           /\ target' = UnlockFlashOptionIf(chip, target, l)
    BY <1>15, Zenon DEF UnlockOptions, Calls
  <2>2. At("unlock_options") /\ backup' = backup
    BY <1>15, Zenon DEF UnlockOptions, Calls
  <2>3. l \in Either /\ l = Good
    BY <2>1, ExchangesAre, NothingLost
  <2>7. Does(chip, Step, target, backup, target', backup')
    BY <1>2, <2>1, <2>2, <2>3 DEF Does, At, Idle
  <2>8. /\ IsOptionUnlocked(chip, target, l) \in BOOLEAN
        /\ Passes(chip, cmd, Step, target) => IsOptionUnlocked(chip, target, l)
    BY <1>1, <1>2, <2>2, <2>3 DEF Passes, IsOptionUnlocked, IsFlashOptionLocked, UnlockFlashOption,
       At, Controller
  <2> QED
    BY <2>1, <2>2, <2>3, <2>7, <2>8, GoodCallFrom DEF At
<1>16. CASE Relock
  <2>1. PICK l \in Writes : /\ Link(l) /\ Returns(TRUE)
                           /\ target' = LockFlashOption(chip, target, l)
    BY <1>16, Zenon DEF Relock, Calls, Always
  <2>2. At("relock") /\ backup' = backup
    BY <1>16, Zenon DEF Relock, Calls
  <2>3. l \in Either /\ l = Good
    BY <2>1, ExchangesAre, NothingLost
  <2>7. Does(chip, Step, target, backup, target', backup')
    BY <1>2, <2>1, <2>2, <2>3 DEF Does, At, Idle
  <2> QED
    BY <2>1, <2>2, <2>3, <2>7, GoodCallFrom DEF At
<1>17. CASE Start
  <2>1. PICK l \in Either : /\ Link(l) /\ Returns(TRUE)
                           /\ target' = SetFlashCrStrt(chip, target, Step.at, l)
    BY <1>17, Zenon DEF Start, Calls, Always
  <2>2. At("start") /\ backup' = backup
    BY <1>17, Zenon DEF Start, Calls
  <2>3. l \in Either /\ l = Good
    BY <2>1, ExchangesAre, NothingLost
  <2>7. Does(chip, Step, target, backup, target', backup')
    BY <1>2, <2>1, <2>2, <2>3 DEF Does, At, Idle
  <2> QED
    BY <2>1, <2>2, <2>3, <2>7, GoodCallFrom DEF At
<1>18. CASE SetPg
  <2>1. PICK l \in Either : /\ Link(l) /\ Returns(TRUE)
                           /\ target' = SetFlashCrPg(chip, target, Step.at, l)
    BY <1>18, Zenon DEF SetPg, Calls, Always
  <2>2. At("set_PG") /\ backup' = backup
    BY <1>18, Zenon DEF SetPg, Calls
  <2>3. l \in Either /\ l = Good
    BY <2>1, ExchangesAre, NothingLost
  <2>7. Does(chip, Step, target, backup, target', backup')
    BY <1>2, <2>1, <2>2, <2>3 DEF Does, At, Idle
  <2> QED
    BY <2>1, <2>2, <2>3, <2>7, GoodCallFrom DEF At
<1>19. CASE ClearPg
  <2>1. PICK l \in Either : /\ Link(l) /\ Returns(TRUE)
                           /\ target' = ClearFlashCrPg(chip, target, Step.at, l)
    BY <1>19, Zenon DEF ClearPg, Calls, Always
  <2>2. At("clear_PG") /\ backup' = backup
    BY <1>19, Zenon DEF ClearPg, Calls
  <2>3. l \in Either /\ l = Good
    BY <2>1, ExchangesAre, NothingLost
  <2>7. Does(chip, Step, target, backup, target', backup')
    BY <1>2, <2>1, <2>2, <2>3 DEF Does, At, Idle
  <2> QED
    BY <2>1, <2>2, <2>3, <2>7, GoodCallFrom DEF At
<1>20. CASE SetPer
  <2>1. PICK l \in Either : /\ Link(l) /\ Returns(TRUE)
                           /\ target' = SetFlashCrPer(chip, target, Step.at, l)
    BY <1>20, Zenon DEF SetPer, Calls, Always
  <2>2. At("set_PER") /\ backup' = backup
    BY <1>20, Zenon DEF SetPer, Calls
  <2>3. l \in Either /\ l = Good
    BY <2>1, ExchangesAre, NothingLost
  <2>7. Does(chip, Step, target, backup, target', backup')
    BY <1>2, <2>1, <2>2, <2>3 DEF Does, At, Idle
  <2> QED
    BY <2>1, <2>2, <2>3, <2>7, GoodCallFrom DEF At
<1>21. CASE ClearPer
  <2>1. PICK l \in Either : /\ Link(l) /\ Returns(TRUE)
                           /\ target' = ClearFlashCrPer(chip, target, Step.at, l)
    BY <1>21, Zenon DEF ClearPer, Calls, Always
  <2>2. At("clear_PER") /\ backup' = backup
    BY <1>21, Zenon DEF ClearPer, Calls
  <2>3. l \in Either /\ l = Good
    BY <2>1, ExchangesAre, NothingLost
  <2>7. Does(chip, Step, target, backup, target', backup')
    BY <1>2, <2>1, <2>2, <2>3 DEF Does, At, Idle
  <2> QED
    BY <2>1, <2>2, <2>3, <2>7, GoodCallFrom DEF At
<1>22. CASE SetMer
  <2>1. PICK l \in Either : /\ Link(l) /\ Returns(TRUE)
                           /\ target' = SetFlashCrMer(chip, target, TRUE, Step.at, l)
    BY <1>22, Zenon DEF SetMer, Calls, Always
  <2>2. At("set_MER") /\ backup' = backup
    BY <1>22, Zenon DEF SetMer, Calls
  <2>3. l \in Either /\ l = Good
    BY <2>1, ExchangesAre, NothingLost
  <2>7. Does(chip, Step, target, backup, target', backup')
    BY <1>2, <2>1, <2>2, <2>3 DEF Does, At, Idle
  <2> QED
    BY <2>1, <2>2, <2>3, <2>7, GoodCallFrom DEF At
<1>23. CASE ClearMer
  <2>1. PICK l \in Either : /\ Link(l) /\ Returns(TRUE)
                           /\ target' = SetFlashCrMer(chip, target, FALSE, Step.at, l)
    BY <1>23, Zenon DEF ClearMer, Calls, Always
  <2>2. At("clear_MER") /\ backup' = backup
    BY <1>23, Zenon DEF ClearMer, Calls
  <2>3. l \in Either /\ l = Good
    BY <2>1, ExchangesAre, NothingLost
  <2>7. Does(chip, Step, target, backup, target', backup')
    BY <1>2, <2>1, <2>2, <2>3 DEF Does, At, Idle
  <2> QED
    BY <2>1, <2>2, <2>3, <2>7, GoodCallFrom DEF At
<1>24. CASE UnlockPecr
  <2>1. PICK l \in Either : /\ Link(l) /\ Returns(PecrUnlocked(chip, target, l))
                           /\ target' = PecrUnlock(chip, target, l)
    BY <1>24, Zenon DEF UnlockPecr, Calls
  <2>2. At("unlock_PECR") /\ backup' = backup
    BY <1>24, Zenon DEF UnlockPecr, Calls
  <2>3. l \in Either /\ l = Good
    BY <2>1, ExchangesAre, NothingLost
  <2>7. Does(chip, Step, target, backup, target', backup')
    BY <1>2, <2>1, <2>2, <2>3 DEF Does, At, Idle
  <2>8. PecrUnlocked(chip, target, l) = TRUE
    BY <1>2, <2>3 DEF PecrUnlocked
  <2> QED
    BY <2>1, <2>2, <2>3, <2>7, <2>8, GoodCallFrom DEF At
<1>25. CASE EraseWord
  <2>1. PICK l \in Writes : /\ Link(l) /\ Returns(TRUE)
                           /\ target' = PecrErase(chip, target, Step.at, l)
    BY <1>25, Zenon DEF EraseWord, Calls, Always
  <2>2. At("erase_word") /\ backup' = backup
    BY <1>25, Zenon DEF EraseWord, Calls
  <2>3. l \in Either /\ l = Good
    BY <2>1, ExchangesAre, NothingLost
  <2>7. Does(chip, Step, target, backup, target', backup')
    BY <1>2, <2>1, <2>2, <2>3 DEF Does, At, Idle
  <2> QED
    BY <2>1, <2>2, <2>3, <2>7, GoodCallFrom DEF At
<1>26. CASE LockPecr
  <2>1. PICK l \in Writes : /\ Link(l) /\ Returns(TRUE)
                           /\ target' = PecrLock(chip, target, l)
    BY <1>26, Zenon DEF LockPecr, Calls, Always
  <2>2. At("lock_PECR") /\ backup' = backup
    BY <1>26, Zenon DEF LockPecr, Calls
  <2>3. l \in Either /\ l = Good
    BY <2>1, ExchangesAre, NothingLost
  <2>7. Does(chip, Step, target, backup, target', backup')
    BY <1>2, <2>1, <2>2, <2>3 DEF Does, At, Idle
  <2> QED
    BY <2>1, <2>2, <2>3, <2>7, GoodCallFrom DEF At
<1>27. CASE CommandPageErase
  <2>1. PICK l \in Writes : /\ Link(l) /\ Returns(TRUE)
                           /\ target' = CommandErase(chip, target, {PageAt(chip, Step.at)}, l)
    BY <1>27, Zenon DEF CommandPageErase, Calls, Always
  <2>2. At("command_erase") /\ backup' = backup
    BY <1>27, Zenon DEF CommandPageErase, Calls
  <2>3. l \in Either /\ l = Good
    BY <2>1, ExchangesAre, NothingLost
  <2>7. Does(chip, Step, target, backup, target', backup')
    BY <1>2, <2>1, <2>2, <2>3 DEF Does, At, Idle
  <2> QED
    BY <2>1, <2>2, <2>3, <2>7, GoodCallFrom DEF At
<1>28. CASE CommandMassErase
  <2>1. PICK l \in Writes : /\ Link(l) /\ Returns(TRUE)
                           /\ target' = CommandErase(chip, target, Pages(chip), l)
    BY <1>28, Zenon DEF CommandMassErase, Calls, Always
  <2>2. At("command_mass_erase") /\ backup' = backup
    BY <1>28, Zenon DEF CommandMassErase, Calls
  <2>3. l \in Either /\ l = Good
    BY <2>1, ExchangesAre, NothingLost
  <2>7. Does(chip, Step, target, backup, target', backup')
    BY <1>2, <2>1, <2>2, <2>3 DEF Does, At, Idle
  <2> QED
    BY <2>1, <2>2, <2>3, <2>7, GoodCallFrom DEF At
<1>29. CASE RestoreDma
  <2>1. PICK l \in Either : /\ Link(l) /\ Returns(TRUE)
                           /\ target' = DmaBack(chip, target, backup, l)
    BY <1>29, Zenon DEF RestoreDma, Calls, Always
  <2>2. At("DMA_back") /\ backup' = backup
    BY <1>29, Zenon DEF RestoreDma, Calls
  <2>3. l \in Either /\ l = Good
    BY <2>1, ExchangesAre, NothingLost
  <2>7. Does(chip, Step, target, backup, target', backup')
    BY <1>2, <2>1, <2>2, <2>3 DEF Does, At, Idle
  <2> QED
    BY <2>1, <2>2, <2>3, <2>7, GoodCallFrom DEF At
<1>30. CASE InitLoader
  <2>1. PICK l \in Writes : /\ Link(l) /\ Returns(Answered(l))
                           /\ target' = (IF l.write THEN [target EXCEPT !.halted = TRUE, !.masked = TRUE]
                                           ELSE target)
    BY <1>30, Zenon DEF InitLoader, Calls
  <2>2. At("init_loader") /\ backup' = backup
    BY <1>30, Zenon DEF InitLoader, Calls
  <2>3. l \in Either /\ l = Good
    BY <2>1, ExchangesAre, NothingLost
  <2>6. Alike(target, target')
    BY <1>1, <1>2, <1>3, <2>1, <2>3 DEF Alike, Controller, Halt, Run, LetGo
  <2>7. Does(chip, Step, target, backup, target', backup')
    BY <2>2, <2>6 DEF Does, At, Idle
  <2>8. Answered(l) = TRUE
    BY <2>3 DEF Answered
  <2> QED
    BY <2>1, <2>2, <2>3, <2>7, <2>8, GoodCallFrom DEF At
<1>31. CASE ReadRegister
  <2>1. PICK l \in Reads : /\ Link(l) /\ Returns(Answered(l))
                           /\ target' = target
    BY <1>31, Zenon DEF ReadRegister, Calls
  <2>2. At("read_register") /\ backup' = backup
    BY <1>31, Zenon DEF ReadRegister, Calls
  <2>3. l \in Either /\ l = Good
    BY <2>1, ExchangesAre, NothingLost
  <2>6. Alike(target, target')
    BY <1>1, <1>2, <1>3, <2>1, <2>3 DEF Alike, Controller, Halt, Run, LetGo
  <2>7. Does(chip, Step, target, backup, target', backup')
    BY <2>2, <2>6 DEF Does, At, Idle
  <2>8. Answered(l) = TRUE
    BY <2>3 DEF Answered
  <2> QED
    BY <2>1, <2>2, <2>3, <2>7, <2>8, GoodCallFrom DEF At
<1>32. CASE Unmask
  <2>1. PICK l \in Either : /\ Link(l) /\ Returns(TRUE)
                           /\ target' = (IF l = Good THEN [target EXCEPT !.masked = FALSE] ELSE target)
    BY <1>32, Zenon DEF Unmask, Calls, Always
  <2>2. At("unmask") /\ backup' = backup
    BY <1>32, Zenon DEF Unmask, Calls
  <2>3. l \in Either /\ l = Good
    BY <2>1, ExchangesAre, NothingLost
  <2>6. Alike(target, target')
    BY <1>1, <1>2, <1>3, <2>1, <2>3 DEF Alike, Controller, Halt, Run, LetGo
  <2>7. Does(chip, Step, target, backup, target', backup')
    BY <2>2, <2>6 DEF Does, At, Idle
  <2> QED
    BY <2>1, <2>2, <2>3, <2>7, GoodCallFrom DEF At
<1>33. CASE EraseOptions
  <2>1. PICK l \in Writes : /\ Link(l) /\ Returns(Answered(l))
                           /\ target' = (IF l.write /\ OptionsOpen(target)
                                           THEN [target EXCEPT !.opt = "blank", !.cr[1] = {}] ELSE target)
    BY <1>33, Zenon DEF EraseOptions, Calls
  <2>2. At("erase_options") /\ backup' = backup
    BY <1>33, Zenon DEF EraseOptions, Calls
  <2>3. l \in Either /\ l = Good
    BY <2>1, ExchangesAre, NothingLost
  <2>7. Does(chip, Step, target, backup, target', backup')
    BY <1>2, <2>1, <2>2, <2>3 DEF Does, At, Idle
  <2>8. Answered(l) = TRUE
    BY <2>3 DEF Answered
  <2> QED
    BY <2>1, <2>2, <2>3, <2>7, <2>8, GoodCallFrom DEF At
<1>34. CASE ProgramOption
  <2>1. PICK l \in Writes : /\ Link(l) /\ Returns(Answered(l))
                           /\ target' = (IF l.write /\ OptionsOpen(target)
                                           THEN [target EXCEPT !.opt = IF @ = "blank" THEN "new" ELSE "mixed"]
                                           ELSE target)
    BY <1>34, Zenon DEF ProgramOption, Calls
  <2>2. At("program_options") /\ backup' = backup
    BY <1>34, Zenon DEF ProgramOption, Calls
  <2>3. l \in Either /\ l = Good
    BY <2>1, ExchangesAre, NothingLost
  <2>7. Does(chip, Step, target, backup, target', backup')
    BY <1>2, <2>1, <2>2, <2>3 DEF Does, At, Idle
  <2>8. Answered(l) = TRUE
    BY <2>3 DEF Answered
  <2> QED
    BY <2>1, <2>2, <2>3, <2>7, <2>8, GoodCallFrom DEF At
<1>35. CASE BeginOptions
  <2>1. PICK l \in Writes : /\ Link(l) /\ Returns(Answered(l))
                           /\ target' = (IF l.write /\ OptionsOpen(target)
                                           THEN [target EXCEPT !.opt = "new"] ELSE target)
    BY <1>35, Zenon DEF BeginOptions, Calls
  <2>2. At("begin_options") /\ backup' = backup
    BY <1>35, Zenon DEF BeginOptions, Calls
  <2>3. l \in Either /\ l = Good
    BY <2>1, ExchangesAre, NothingLost
  <2>7. Does(chip, Step, target, backup, target', backup')
    BY <1>2, <2>1, <2>2, <2>3 DEF Does, At, Idle
  <2>8. Answered(l) = TRUE
    BY <2>3 DEF Answered
  <2> QED
    BY <2>1, <2>2, <2>3, <2>7, <2>8, GoodCallFrom DEF At
<1>55. CASE ChangeOptions
  <2>1. PICK l \in Either : \E ok \in BOOLEAN :
              /\ Link(l) /\ Returns(ok)
              /\ target' = target \/ target' = [target EXCEPT !.opt = "new"]
              /\ l = Good => /\ ok \/ chip.refuses
                            /\ target' = IF OptionsOpen(target) /\ target.opt # "new" /\ ~chip.refuses
                                        THEN [target EXCEPT !.opt = "new"] ELSE target
    BY <1>55, ChangeIs, Zenon
  <2>2. At("change_options") /\ backup' = backup
    BY <1>55, ChangeIs
  <2>4. PICK ok \in BOOLEAN :
              /\ Link(l) /\ Returns(ok)
              /\ target' = target \/ target' = [target EXCEPT !.opt = "new"]
              /\ l = Good => /\ ok \/ chip.refuses
                            /\ target' = IF OptionsOpen(target) /\ target.opt # "new" /\ ~chip.refuses
                                        THEN [target EXCEPT !.opt = "new"] ELSE target
    BY <2>1, Zenon
  <2>3. l \in Either /\ l = Good
    BY <2>4, NothingLost
  <2>5. Passes(chip, cmd, Step, target) => ok
    BY <2>2, <2>3, <2>4 DEF Passes, At
  <2>7. Does(chip, Step, target, backup, target', backup')
    BY <2>2, <2>3, <2>4 DEF Does, At, Idle
  <2> QED
    BY <2>2, <2>3, <2>4, <2>5, <2>7, GoodCallFrom DEF At
<1>36. CASE ForceDebug
  <2>1. PICK l \in Writes : /\ Link(l) /\ Returns(Answered(l))
                           /\ target' = (IF l.write THEN Halt(target) ELSE target)
    BY <1>36, Zenon DEF ForceDebug, Calls
  <2>2. At("force_debug") /\ backup' = backup
    BY <1>36, Zenon DEF ForceDebug, Calls
  <2>3. l \in Either /\ l = Good
    BY <2>1, ExchangesAre, NothingLost
  <2>6. Alike(target, target')
    BY <1>1, <1>2, <1>3, <2>1, <2>3 DEF Alike, Controller, Halt, Run, LetGo
  <2>7. Does(chip, Step, target, backup, target', backup')
    BY <2>2, <2>6 DEF Does, At, Idle
  <2>8. Answered(l) = TRUE
    BY <2>3 DEF Answered
  <2> QED
    BY <2>1, <2>2, <2>3, <2>7, <2>8, GoodCallFrom DEF At
<1>37. CASE Status
  <2>1. PICK l \in Reads : /\ Link(l) /\ Returns(Answered(l))
                           /\ target' = target
    BY <1>37, Zenon DEF Status, Calls
  <2>2. At("status") /\ backup' = backup
    BY <1>37, Zenon DEF Status, Calls
  <2>3. l \in Either /\ l = Good
    BY <2>1, ExchangesAre, NothingLost
  <2>6. Alike(target, target')
    BY <1>1, <1>2, <1>3, <2>1, <2>3 DEF Alike, Controller, Halt, Run, LetGo
  <2>7. Does(chip, Step, target, backup, target', backup')
    BY <2>2, <2>6 DEF Does, At, Idle
  <2>8. Answered(l) = TRUE
    BY <2>3 DEF Answered
  <2> QED
    BY <2>1, <2>2, <2>3, <2>7, <2>8, GoodCallFrom DEF At
<1>38. CASE RunCore
  <2>1. PICK l \in Writes : /\ Link(l) /\ Returns(TRUE)
                           /\ target' = (IF l.write THEN Run(target) ELSE target)
    BY <1>38, Zenon DEF RunCore, Calls, Always
  <2>2. At("run") /\ backup' = backup
    BY <1>38, Zenon DEF RunCore, Calls
  <2>3. l \in Either /\ l = Good
    BY <2>1, ExchangesAre, NothingLost
  <2>6. Alike(target, target')
    BY <1>1, <1>2, <1>3, <2>1, <2>3 DEF Alike, Controller, Halt, Run, LetGo
  <2>7. Does(chip, Step, target, backup, target', backup')
    BY <2>2, <2>6 DEF Does, At, Idle
  <2> QED
    BY <2>1, <2>2, <2>3, <2>7, GoodCallFrom DEF At
<1>39. CASE Finalize
  <2>1. PICK l \in Writes : /\ Link(l) /\ Returns(TRUE)
                           /\ target' = (IF l.write THEN Run(target) ELSE target)
    BY <1>39, Zenon DEF Finalize, Calls, Always
  <2>2. At("finalize") /\ backup' = backup
    BY <1>39, Zenon DEF Finalize, Calls
  <2>3. l \in Either /\ l = Good
    BY <2>1, ExchangesAre, NothingLost
  <2>6. Alike(target, target')
    BY <1>1, <1>2, <1>3, <2>1, <2>3 DEF Alike, Controller, Halt, Run, LetGo
  <2>7. Does(chip, Step, target, backup, target', backup')
    BY <2>2, <2>6 DEF Does, At, Idle
  <2> QED
    BY <2>1, <2>2, <2>3, <2>7, GoodCallFrom DEF At
<1>40. CASE Leave
  <2>1. PICK l \in Either : /\ Link(l) /\ Returns(TRUE)
                           /\ target' = (IF l = Good /\ Step.at = 0 THEN LetGo(target) ELSE target)
    BY <1>40, Zenon DEF Leave, Calls, Always
  <2>2. At("leave") /\ backup' = backup
    BY <1>40, Zenon DEF Leave, Calls
  <2>3. l \in Either /\ l = Good
    BY <2>1, ExchangesAre, NothingLost
  <2>6. Alike(target, target')
    BY <1>1, <1>2, <1>3, <2>1, <2>3 DEF Alike, Controller, Halt, Run, LetGo
  <2>7. Does(chip, Step, target, backup, target', backup')
    BY <2>2, <2>6 DEF Does, At, Idle
  <2> QED
    BY <2>1, <2>2, <2>3, <2>7, GoodCallFrom DEF At
<1>41. CASE StopDma
  <2>1. PICK l \in Either : /\ Link(l) /\ target' = DmaOff(chip, target, l)
                            /\ backup' = IF HasDma(chip) THEN DmaBackup(chip, target, l) ELSE backup
    BY <1>41, Zenon DEF StopDma
  <2>2. At("DMA_off") /\ Returns(TRUE)
    BY <1>41, Zenon DEF StopDma
  <2>3. l \in Either /\ l = Good
    BY <2>1, NothingLost
  <2>4. backup' = IF HasDma(chip) THEN target.dma ELSE backup
    BY <1>2, <2>1, <2>3 DEF DmaBackup
  <2>7. Does(chip, Step, target, backup, target', backup')
    BY <2>1, <2>2, <2>3, <2>4 DEF Does, At, Idle
  <2> QED
    BY <2>1, <2>2, <2>3, <2>7, GoodCallFrom DEF At
<1>42. CASE Load
  <2> DEFINE F(l, soft) == IF l.write \/ soft THEN Program(chip, target, PageAt(chip, Step.at))
                           ELSE target
  <2>0. PICK soft \in BOOLEAN :
           Calls("load", Either, LAMBDA l : F(l, soft), LAMBDA l : Unchecked \/ soft \/ l = Good)
    BY <1>42, Zenon DEF Load
  <2>1. PICK l \in Either : Link(l) /\ target' = F(l, soft) /\ Returns(Unchecked \/ soft \/ l = Good)
    BY <2>0, Zenon DEF Calls
  <2>2. At("load") /\ backup' = backup
    BY <2>0, Zenon DEF Calls
  <2>3. l \in Either /\ l = Good
    BY <2>1, NothingLost
  <2>4. target' = Program(chip, target, PageAt(chip, Step.at))
    BY <1>2, <2>1, <2>3
  <2>7. Does(chip, Step, target, backup, target', backup')
    BY <2>2, <2>4 DEF Does, At, Idle
  <2>8. (Unchecked \/ soft \/ l = Good) = TRUE
    BY <2>3
  <2> QED
    BY <2>1, <2>2, <2>3, <2>7, <2>8, GoodCallFrom DEF At
<1>43. CASE Verify
  <2> DEFINE same == \A p \in Pages(chip) : Covered(cmd, p) => target.mem[p] = "new"
  <2>0. PICK l \in Reads : \E ok \in BOOLEAN : /\ l = Good => ok = same
                                              /\ Link(l)
                                              /\ Returns(ok)
    BY <1>43, Zenon DEF Verify
  <2>1. PICK ok \in BOOLEAN : (l = Good => ok = same) /\ Link(l) /\ Returns(ok)
    BY <2>0, Zenon
  <2>2. At("verify") /\ target' = target /\ backup' = backup
    BY <1>43 DEF Verify
  <2>3. l \in Either /\ l = Good
    BY <2>1, ExchangesAre, NothingLost
  <2>6. same <=> Written(chip, cmd, target)
    BY Zenon DEF Written, Covered
  <2> HIDE DEF same
  <2>7. Does(chip, Step, target, backup, target', backup')
    BY <1>3, <2>2 DEF Does, At, Idle
  <2>8. Passes(chip, cmd, Step, target) => ok
    BY <2>1, <2>2, <2>3, <2>6 DEF Passes, At
  <2> QED
    BY <2>1, <2>2, <2>3, <2>7, <2>8, GoodCallFrom DEF At
<1>44. CASE ResetTarget
  <2>0. PICK soft \in BOOLEAN :
           Calls("reset", Either, LAMBDA l : IF l.write THEN Reset(target, soft) ELSE target, Answered)
    BY <1>44, Zenon DEF ResetTarget
  <2>1. PICK l \in Either : /\ Link(l) /\ target' = (IF l.write THEN Reset(target, soft) ELSE target)
                            /\ Returns(Answered(l))
    BY <2>0, Zenon DEF Calls
  <2>2. At("reset") /\ backup' = backup
    BY <2>0, Zenon DEF Calls
  <2>3. l \in Either /\ l = Good
    BY <2>1, NothingLost
  <2>4. target' = Reset(target, soft)
    BY <1>2, <2>1, <2>3
  <2>5. Restored(chip, target, target')
    BY <1>1, <2>4, ResetRestores
  <2>7. Does(chip, Step, target, backup, target', backup')
    BY <2>2, <2>5 DEF Does, At, Idle
  <2>8. Answered(l) = TRUE
    BY <2>3 DEF Answered
  <2> QED
    BY <2>1, <2>2, <2>3, <2>7, <2>8, GoodCallFrom DEF At
<1>45. CASE SelectPageToErase
  <2> DEFINE u == Step.at
             b == IF TwoRegisters(chip) /\ UpperHalf(chip, u) THEN 2 ELSE 1
             F(l) == CASE chip.type = "L4" -> WriteFlashCrBkerPnb(chip, target, u, l)
                  [] chip.type \in {"F2_F4", "F7"} ->
                       WriteFlashCrSnb(chip, target, 1, SectorNumber(chip, u), l)
                  [] chip.type = "H7" ->
                       WriteFlashCrSnb(chip, target, b, SectorH7(chip, u, b), l)
                  [] chip.type = "H5" -> SelectSectorH5(chip, target, u, l)
                  [] chip.type \in {"F0_F1_F3", "F1_XL"} -> WriteFlashAr(chip, target, u, b, l)
                  [] OTHER -> SelectPage(chip, target, u, l)
  <2>0. Calls("select", Either, F, Always)
    BY <1>45, Zenon DEF SelectPageToErase
  <2>1. PICK l \in Either : Link(l) /\ target' = F(l) /\ Returns(TRUE)
    BY <2>0, Zenon DEF Calls, Always
  <2>2. At("select") /\ backup' = backup
    BY <2>0, Zenon DEF Calls
  <2>3. l \in Either /\ l = Good
    BY <2>1, NothingLost
  <2>4. target' = Selecting(chip, target, Step.at)
    BY <2>1, <2>3 DEF Selecting, BankIn
  <2>7. Does(chip, Step, target, backup, target', backup')
    BY <2>2, <2>4 DEF Does, At, Idle
  <2> QED
    BY <2>1, <2>2, <2>3, <2>7, GoodCallFrom DEF At
<1> QED
  BY <1>10, <1>11, <1>12, <1>13, <1>14, <1>15, <1>16, <1>17, <1>18, <1>19, <1>20, <1>21, <1>22,
     <1>23, <1>24, <1>25, <1>26, <1>27, <1>28, <1>29, <1>30, <1>31, <1>32, <1>33, <1>34, <1>35,
     <1>36, <1>37, <1>38, <1>39, <1>40, <1>41, <1>42, <1>43, <1>44, <1>45, <1>55

-----------------------------------------------------------------------------
(***************************************************************************)
(* What is opened is closed again.  The locks, the erasing of pages, the   *)
(* option lock, the option bytes and DMA are resources: some calls open    *)
(* one, later calls close it.                                              *)
(***************************************************************************)
Resources == {"lock", "pecr", "job", "optlock", "dma", "opt"}
Openers(c, r) ==
  CASE r = "lock" -> IF c.type = "WB0" THEN {} ELSE {"unlock", "unlock_PECR"}
    [] r = "pecr" -> IF c.type = "L0_L1" THEN {"unlock_PECR", "erase_options"} ELSE {}
    [] r = "job" -> {"start", "erase_word", "command_erase", "command_mass_erase"}
    [] r = "optlock" -> IF HasOptionLock(c) THEN {"unlock_options"} ELSE {}
    [] r = "dma" -> {"DMA_off"}
    [] r = "opt" -> {"erase_options"}
Closers(c, r) ==
  CASE r = "lock" -> IF c.type = "WB0" THEN {} ELSE IF c.type = "L0_L1" THEN {"lock", "lock_PECR"}
                     ELSE {"lock"}
    [] r = "pecr" -> IF c.type = "L0_L1" THEN {"lock_PECR"} ELSE {}
    [] r = "job" -> {"wait"}
    [] r = "optlock" -> IF HasOptionLock(c) THEN {"relock"} ELSE {}
    [] r = "dma" -> {"DMA_back"}
    [] r = "opt" -> {"program_options"}

\* Closed in the target t, when DMA was a.
Settled(c, t, a, r) ==
  CASE r = "lock" -> c.type # "WB0" => \A b \in Registers(c) : "LOCK" \in t.cr[b]
    [] r = "pecr" -> c.type = "L0_L1" => "PRGLOCK" \in t.cr[1]
    [] r = "job" -> \A b \in Registers(c) : t.job[b] = {}
    [] r = "optlock" -> t.optlock
    [] r = "dma" -> HasDma(c) /\ a => t.dma
    [] r = "opt" -> t.opt # "blank"

\* The option bytes are programmed with their lock open, so no call may close
\* it between their erasing and that.
Meanwhile == {"wait", "check_errors", "init_loader"}
Between(r, f) == r # "opt" \/ f \in Meanwhile

\* The calls s close r; they close r whenever one of them opens it.
Closes(c, s, r) ==
  \E j \in 1 .. Len(s) : s[j].op \in Closers(c, r) /\ \A i \in 1 .. j - 1 : Between(r, s[i].op)
Paired(c, s, r) ==
  \A i \in 1 .. Len(s) : s[i].op \in Openers(c, r) =>
    \E j \in i + 1 .. Len(s) : /\ s[j].op \in Closers(c, r)
                               /\ \A m \in i + 1 .. j - 1 : Between(r, s[m].op)

\* Closed, or about to be.
Handled(c, s, t, a, r) ==
  Settled(c, t, a, r) \/ (Closes(c, s, r) /\ (r = "opt" => OptionsOpen(t)))

\* No call opens what it closes.
LEMMA OpenOrClose ==
  ASSUME NEW c, NEW r \in Resources
  PROVE  Openers(c, r) \cap Closers(c, r) = {}
BY DEF Openers, Closers, Resources

-----------------------------------------------------------------------------
(***************************************************************************)
(* What a call whose exchanges are answered does to each resource.         *)
(***************************************************************************)
Locked(c, t) == \A b \in Registers(c) : "LOCK" \in t.cr[b]
Elsewhere(t, u) == u.opt = t.opt /\ u.optlock = t.optlock /\ u.dma = t.dma

\* The registers of a family.
LEMMA RegistersAre ==
  ASSUME NEW c
  PROVE  /\ Registers(c) \subseteq Bank /\ 1 \in Registers(c) /\ 1 \in Bank /\ 2 \in Bank
         /\ \A b \in Bank : Reg(c, b) \in Registers(c) /\ Reg(c, b) \in Bank
         /\ \A b \in Registers(c) : Reg(c, b) = b
BY DEF Registers, Reg, Bank

\* A register that is locked takes nothing.
LEMMA LockedTakes ==
  ASSUME NEW c \in Chips, NEW t \in Controller(c), Locked(c, t), NEW b \in Bank
  PROVE  /\ \A bits, l : WriteCr(c, t, b, bits, l) = t
         /\ \A bits, bk, n, l : Select(c, t, b, bits, bk, n, l) = t
         /\ \A l : SetFlashCrStrt(c, t, b, l) = t
<1>1. "LOCK" \in t.cr[Reg(c, b)]
  BY RegistersAre DEF Locked
<1>2. \A bits, l : WriteCr(c, t, b, bits, l) = t
  BY <1>1 DEF WriteCr
<1>3. BeginErase(c, t, Reg(c, b)) = t
  BY <1>1 DEF BeginErase
<1> QED
  BY <1>1, <1>2, <1>3 DEF Select, SetFlashCrStrt, StartSelected

\* A write of a control register changes that register only.
LEMMA WriteCrOnly ==
  ASSUME NEW c \in Chips, NEW t \in Controller(c), NEW b \in Bank, NEW bits \in SUBSET Bits,
         NEW u, u = WriteCr(c, t, b, bits, Good)
  PROVE  /\ u \in Controller(c) /\ Elsewhere(t, u) /\ u.job = t.job /\ u.mem = t.mem
         /\ u.sr = t.sr /\ u.sel = t.sel
         /\ \A r \in Bank : r # Reg(c, b) => u.cr[r] = t.cr[r]
         /\ "LOCK" \in t.cr[Reg(c, b)] => u = t
         /\ "LOCK" \notin t.cr[Reg(c, b)] => u.cr[Reg(c, b)] = bits
<1>1. Good.write
  BY DEF Good
<1>2. Reg(c, b) \in Bank
  BY RegistersAre
<1>3. u \in Controller(c)
  BY WriteCrType
<1>4. CASE "LOCK" \in t.cr[Reg(c, b)]
  BY <1>3, <1>4 DEF WriteCr, Elsewhere
<1>5. CASE "LOCK" \notin t.cr[Reg(c, b)]
  BY <1>1, <1>2, <1>3, <1>5 DEF WriteCr, Elsewhere, Controller
<1> QED
  BY <1>3, <1>4, <1>5
\* The calls made for a chip of this family name a register that it has.
Sound(c, s) == /\ s.op \in BankOps => s.at \in Bank
               /\ s.op = "select" => c.type \notin {"L0_L1", "WB0"}
               /\ s.op \in Ops \cup {"leave"} /\ s.at \in Nat

\* What a single write does, with what was read.
LEMMA ReadGood == \A c, t, b : ReadCr(c, t, b, Good) = t.cr[Reg(c, b)]
BY DEF ReadCr, Good

\* A write to a register, to the memory or to the flags of errors: the options
\* and DMA stay as they are, and pages are told to be erased only by a start.
Quietly(t, u) == Elsewhere(t, u) /\ \A b \in Bank : u.job[b] \subseteq t.job[b]

\* Naming the page to erase writes one register.
LEMMA SelectOnly ==
  ASSUME NEW c \in Chips, NEW t \in Controller(c), NEW u \in Nat, c.type \notin {"L0_L1", "WB0"}
  PROVE  /\ Quietly(t, Selecting(c, t, u))
         /\ Locked(c, t) => Selecting(c, t, u) = t
<1> DEFINE b == BankIn(c, u)
<1>1. b \in Bank /\ 1 \in Bank
  BY DEF BankIn, Bank
<1>2. c.type \in Families
  BY DEF Chips
<1>3. \E d \in Bank : \E bits, bk, n : Selecting(c, t, u) = Select(c, t, d, bits, bk, n, Good)
  <2> HIDE DEF b
  <2>1. CASE c.type = "L4"
    BY <1>1, <2>1 DEF Selecting, WriteFlashCrBkerPnb
  <2>2. CASE c.type \in {"F2_F4", "F7"}
    BY <1>1, <2>2 DEF Selecting, WriteFlashCrSnb
  <2>3. CASE c.type = "H7"
    BY <1>1, <2>3 DEF Selecting, WriteFlashCrSnb, b
  <2>4. CASE c.type = "H5"
    BY <1>1, <2>4 DEF Selecting, SelectSectorH5
  <2>5. CASE c.type \in {"F0_F1_F3", "F1_XL"}
    BY <1>1, <2>5 DEF Selecting, WriteFlashAr, b
  <2>6. CASE c.type \in {"G0", "G4", "L5_U5", "WB_WL", "C0", "C5"}
    <3>1. Selecting(c, t, u) = SelectPage(c, t, u, Good)
      BY <2>6 DEF Selecting
    <3>2. \E bits, bk, n : SelectPage(c, t, u, Good) = Select(c, t, 1, bits, bk, n, Good)
      BY <2>6 DEF SelectPage
    <3> QED
      BY <1>1, <3>1, <3>2
  <2> QED
    BY <1>2, <2>1, <2>2, <2>3, <2>4, <2>5, <2>6 DEF Families
<1>4. PICK d \in Bank : \E bits, bk, n : Selecting(c, t, u) = Select(c, t, d, bits, bk, n, Good)
  BY <1>3, Zenon
<1>5. PICK bits, bk, n : Selecting(c, t, u) = Select(c, t, d, bits, bk, n, Good)
  BY <1>4, Zenon
<1>6. Locked(c, t) => Selecting(c, t, u) = t
  BY <1>5, LockedTakes
<1>7. Quietly(t, Select(c, t, d, bits, bk, n, Good))
  BY DEF Select, Quietly, Elsewhere, Controller
<1> QED
  BY <1>5, <1>6, <1>7

\* A lock writes one register, or both; mass erase takes one write or two.
LEMMA WritesOnly ==
  ASSUME NEW c \in Chips, NEW t \in Controller(c), NEW b \in Bank
  PROVE  /\ Quietly(t, LockFlash(c, t, Good))
         /\ Locked(c, t) => LockFlash(c, t, Good) = t
         /\ \A on \in BOOLEAN : /\ Quietly(t, SetFlashCrMer(c, t, on, b, Good))
                                /\ Locked(c, t) => SetFlashCrMer(c, t, on, b, Good) = t
         /\ Quietly(t, SetFlashCrPg(c, t, b, Good)) /\ Quietly(t, ClearFlashCrPg(c, t, b, Good))
         /\ Quietly(t, SetFlashCrPer(c, t, b, Good)) /\ Quietly(t, ClearFlashCrPer(c, t, b, Good))
         /\ Locked(c, t) => /\ SetFlashCrPg(c, t, b, Good) = t /\ ClearFlashCrPg(c, t, b, Good) = t
                            /\ SetFlashCrPer(c, t, b, Good) = t
                            /\ ClearFlashCrPer(c, t, b, Good) = t
         /\ Elsewhere(t, SetFlashCrStrt(c, t, b, Good))
<1>1. ASSUME NEW v \in Controller(c), NEW d \in Bank, NEW bits, Quietly(t, v)
      PROVE  Quietly(t, WriteCr(c, v, d, bits, Good))
  BY <1>1 DEF WriteCr, Quietly, Elsewhere, Controller
<1>2. Quietly(t, t)
  BY DEF Quietly, Elsewhere
<1>3. 1 \in Bank /\ 2 \in Bank
  BY RegistersAre
<1>4. \A d \in Bank : t.cr[Reg(c, d)] \in SUBSET Bits /\ t.cr[d] \in SUBSET Bits
  BY RegistersAre DEF Controller
<1>5. /\ Quietly(t, SetFlashCrPg(c, t, b, Good)) /\ Quietly(t, ClearFlashCrPg(c, t, b, Good))
      /\ Quietly(t, SetFlashCrPer(c, t, b, Good)) /\ Quietly(t, ClearFlashCrPer(c, t, b, Good))
  BY <1>1, <1>2, <1>3 DEF SetFlashCrPg, ClearFlashCrPg, SetFlashCrPer, ClearFlashCrPer
<1>6. Locked(c, t) => /\ SetFlashCrPg(c, t, b, Good) = t /\ ClearFlashCrPg(c, t, b, Good) = t
                      /\ SetFlashCrPer(c, t, b, Good) = t /\ ClearFlashCrPer(c, t, b, Good) = t
  BY <1>3, LockedTakes DEF SetFlashCrPg, ClearFlashCrPg, SetFlashCrPer, ClearFlashCrPer
<1>7. ASSUME NEW on \in BOOLEAN
      PROVE  /\ Quietly(t, SetFlashCrMer(c, t, on, b, Good))
             /\ Locked(c, t) => SetFlashCrMer(c, t, on, b, Good) = t
  <2> DEFINE val == ReadCr(c, t, b, Good)
             bare == val \ {"PG"}
             one == IF "PG" \in val THEN WriteCr(c, t, b, bare, Good) ELSE t
             bits == IF on THEN bare \cup {"MER"} ELSE bare \ {"MER"}
  <2>1. SetFlashCrMer(c, t, on, b, Good) = WriteCr(c, one, b, bits, Good)
    BY DEF SetFlashCrMer
  <2>2. bare \in SUBSET Bits
    BY <1>4, ReadGood
  <2> HIDE DEF bits
  <2>3. one \in Controller(c) /\ Quietly(t, one) /\ (Locked(c, t) => one = t)
    <3> HIDE DEF val, bare
    <3>1. WriteCr(c, t, b, bare, Good) \in Controller(c)
      BY <2>2, WriteCrType
    <3> QED
      BY <1>1, <1>2, <3>1, LockedTakes
  <2> HIDE DEF one
  <2> QED
    BY <1>1, <2>1, <2>3, LockedTakes
<1>8. Quietly(t, LockFlash(c, t, Good)) /\ (Locked(c, t) => LockFlash(c, t, Good) = t)
  <2> DEFINE bits == (t.cr[1] \ (IF c.type = "H7" THEN {"PER"} ELSE {})) \cup {"LOCK"}
             one == WriteCr(c, t, 1, bits, Good)
             two == WriteCr(c, one, 2, ReadCr(c, one, 2, Good) \cup {"LOCK"}, Good)
  <2>1. LockFlash(c, t, Good) = CASE c.type = "WB0" -> t [] TwoRegisters(c) -> two [] OTHER -> one
    BY DEF LockFlash, Good
  <2>2. bits \in SUBSET Bits
    BY <1>3, <1>4, BitsAre
  <2> HIDE DEF bits
  <2>3. one \in Controller(c) /\ Quietly(t, one) /\ (Locked(c, t) => one = t)
    BY <1>1, <1>2, <1>3, <2>2, WriteCrType, LockedTakes
  <2> HIDE DEF one
  <2>4. Quietly(t, two) /\ (Locked(c, t) => two = t)
    BY <1>1, <1>3, <2>3, LockedTakes
  <2> HIDE DEF two
  <2> QED
    BY <1>2, <2>1, <2>3, <2>4
<1>9. Elsewhere(t, SetFlashCrStrt(c, t, b, Good))
  <2> DEFINE v == WriteCr(c, t, b, ReadCr(c, t, b, Good), Good)
  <2>1. v \in Controller(c) /\ Elsewhere(t, v)
    BY <1>4, ReadGood, WriteCrOnly
  <2> HIDE DEF v
  <2>2. Elsewhere(t, BeginErase(c, v, Reg(c, b)))
    BY <2>1 DEF BeginErase, Elsewhere, Controller
  <2> QED
    BY <2>2 DEF SetFlashCrStrt, StartSelected, Good, v
<1> QED
  BY <1>5, <1>6, <1>7, <1>8, <1>9

\* The other helpers.
LEMMA OthersOnly ==
  ASSUME NEW c \in Chips, NEW t \in Controller(c)
  PROVE  /\ Quietly(t, ClearFlashError(c, t, Good)) /\ ClearFlashError(c, t, Good).cr = t.cr
         /\ Quietly(t, UnlockFlashIf(c, t, Good))
         /\ Quietly(t, PecrUnlock(c, t, Good)) /\ Quietly(t, PecrLock(c, t, Good))
         /\ \A u \in Nat : Elsewhere(t, PecrErase(c, t, u, Good)) /\ PecrErase(c, t, u, Good).cr = t.cr
         /\ \A P : Elsewhere(t, CommandErase(c, t, P, Good)) /\ CommandErase(c, t, P, Good).cr = t.cr
         /\ \A p \in Pages(c) : Quietly(t, Program(c, t, p)) /\ Program(c, t, p).cr = t.cr
<1>1. /\ Quietly(t, ClearFlashError(c, t, Good)) /\ ClearFlashError(c, t, Good).cr = t.cr
  BY DEF ClearFlashError, Quietly, Elsewhere, Controller
<1>2. Quietly(t, UnlockFlashIf(c, t, Good))
  BY DEF UnlockFlashIf, UnlockFlash, Quietly, Elsewhere, Controller
<1>3. Quietly(t, PecrUnlock(c, t, Good)) /\ Quietly(t, PecrLock(c, t, Good))
  BY DEF PecrUnlock, PecrLock, Quietly, Elsewhere, Controller
<1>4. \A u \in Nat : Elsewhere(t, PecrErase(c, t, u, Good)) /\ PecrErase(c, t, u, Good).cr = t.cr
  BY DEF PecrErase, Elsewhere, Controller
<1>5. \A P : Elsewhere(t, CommandErase(c, t, P, Good)) /\ CommandErase(c, t, P, Good).cr = t.cr
  BY DEF CommandErase, Elsewhere, Controller
<1>6. \A p \in Pages(c) : Quietly(t, Program(c, t, p)) /\ Program(c, t, p).cr = t.cr
  BY DEF Program, Quietly, Elsewhere, Controller
<1> QED
  BY <1>1, <1>2, <1>3, <1>4, <1>5, <1>6

\* Which calls the options and DMA notice, and which the erasing of pages.
Outside == {"unlock_options", "relock", "DMA_off", "DMA_back", "erase_options", "program_options",
               "begin_options", "change_options", "reset"}
Starters == {"start", "erase_word", "command_erase", "command_mass_erase"}

\* No other calls do.
LEMMA DoesKeep ==
  ASSUME NEW c \in Chips, NEW t \in Controller(c), NEW s, Sound(c, s), NEW a, NEW u, NEW bk,
         Does(c, s, t, a, u, bk), s.op \notin RangeOps \ {"load"}, s.op \notin Refusals
  PROVE  /\ s.op \notin Outside => Elsewhere(t, u)
         /\ s.op \notin Starters => \A b \in Bank : u.job[b] \subseteq t.job[b]
         /\ Locked(c, t) /\ s.op \notin {"unlock", "unlock_PECR"} /\ c.type # "WB0" => Locked(c, u)
<1>1. /\ s.op \in BankOps => s.at \in Bank
      /\ s.op = "select" => c.type \notin {"L0_L1", "WB0"}
      /\ s.op \in Ops \cup {"leave"} /\ s.at \in Nat /\ 1 \in Bank
  BY RegistersAre DEF Sound
<1>2. PageAt(c, s.at) \in Pages(c)
  BY <1>1, PageIs
<1>10. CASE s.op \in Idle
  <2>1. Alike(t, u)
    BY <1>10 DEF Does
  <2> QED
    BY <2>1 DEF Alike, Elsewhere, Locked
<1>11. CASE s.op = "wait"
  <2>1. u = t
    BY <1>11 DEF Does
  <2> QED
    BY <2>1 DEF Elsewhere
<1>12. CASE s.op = "clear_errors"
  <2>1. u = ClearFlashError(c, t, Good)
    BY <1>12 DEF Does
  <2>2. Quietly(t, u) /\ u.cr = t.cr
    BY <1>2, <2>1, OthersOnly
  <2> QED
    BY <2>2 DEF Quietly, Locked
<1>13. CASE s.op = "load"
  <2>1. u = Program(c, t, PageAt(c, s.at))
    BY <1>13 DEF Does
  <2>2. Quietly(t, u) /\ u.cr = t.cr
    BY <1>2, <2>1, OthersOnly
  <2> QED
    BY <2>2 DEF Quietly, Locked
<1>14. CASE s.op = "unlock"
  <2>1. u = UnlockFlashIf(c, t, Good)
    BY <1>14 DEF Does
  <2>2. Quietly(t, u)
    BY <2>1, OthersOnly
  <2> QED
    BY <1>14, <2>2 DEF Quietly
<1>15. CASE s.op = "unlock_PECR"
  <2>1. u = PecrUnlock(c, t, Good)
    BY <1>15 DEF Does
  <2>2. Quietly(t, u)
    BY <2>1, OthersOnly
  <2> QED
    BY <1>15, <2>2 DEF Quietly
<1>16. CASE s.op = "lock_PECR"
  <2>1. u = PecrLock(c, t, Good)
    BY <1>16 DEF Does
  <2>2. Quietly(t, u)
    BY <2>1, OthersOnly
  <2>3. Locked(c, t) => Locked(c, u)
    BY <1>1, <2>1, RegistersAre DEF PecrLock, Locked, Controller
  <2> QED
    BY <2>2, <2>3 DEF Quietly
<1>17. CASE s.op = "erase_word"
  <2>1. u = PecrErase(c, t, s.at, Good)
    BY <1>17 DEF Does
  <2>2. Elsewhere(t, u) /\ u.cr = t.cr
    BY <1>1, <2>1, OthersOnly
  <2> QED
    BY <1>17, <2>2 DEF Locked, Starters
<1>18. CASE s.op = "command_erase"
  <2>1. u = CommandErase(c, t, {PageAt(c, s.at)}, Good)
    BY <1>18 DEF Does
  <2>2. Elsewhere(t, u) /\ u.cr = t.cr
    BY <1>1, <2>1, OthersOnly
  <2> QED
    BY <1>18, <2>2 DEF Locked, Starters
<1>19. CASE s.op = "command_mass_erase"
  <2>1. u = CommandErase(c, t, Pages(c), Good)
    BY <1>19 DEF Does
  <2>2. Elsewhere(t, u) /\ u.cr = t.cr
    BY <1>1, <2>1, OthersOnly
  <2> QED
    BY <1>19, <2>2 DEF Locked, Starters
<1>20. CASE s.op = "lock"
  <2>1. u = LockFlash(c, t, Good)
    BY <1>20 DEF Does
  <2> QED
    BY <1>1, <2>1, WritesOnly DEF Quietly
<1>21. CASE s.op = "select"
  <2>1. u = Selecting(c, t, s.at)
    BY <1>21 DEF Does
  <2> QED
    BY <1>21, <1>1, <2>1, SelectOnly DEF Quietly
<1>22. CASE s.op = "start"
  <2>1. u = SetFlashCrStrt(c, t, s.at, Good) /\ s.at \in Bank
    BY <1>22, <1>1 DEF Does, BankOps
  <2>2. Elsewhere(t, u)
    BY <2>1, WritesOnly
  <2>3. Locked(c, t) => u = t
    BY <2>1, LockedTakes
  <2> QED
    BY <1>22, <2>2, <2>3 DEF Starters
<1>23. CASE s.op = "set_PG"
  <2>1. u = SetFlashCrPg(c, t, s.at, Good) /\ s.at \in Bank
    BY <1>23, <1>1 DEF Does, BankOps
  <2> QED
    BY <2>1, WritesOnly DEF Quietly
<1>24. CASE s.op = "clear_PG"
  <2>1. u = ClearFlashCrPg(c, t, s.at, Good) /\ s.at \in Bank
    BY <1>24, <1>1 DEF Does, BankOps
  <2> QED
    BY <2>1, WritesOnly DEF Quietly
<1>25. CASE s.op = "set_PER"
  <2>1. u = SetFlashCrPer(c, t, s.at, Good) /\ s.at \in Bank
    BY <1>25, <1>1 DEF Does, BankOps
  <2> QED
    BY <2>1, WritesOnly DEF Quietly
<1>26. CASE s.op = "clear_PER"
  <2>1. u = ClearFlashCrPer(c, t, s.at, Good) /\ s.at \in Bank
    BY <1>26, <1>1 DEF Does, BankOps
  <2> QED
    BY <2>1, WritesOnly DEF Quietly
<1>27. CASE s.op = "set_MER"
  <2>1. u = SetFlashCrMer(c, t, TRUE, s.at, Good) /\ s.at \in Bank
    BY <1>27, <1>1 DEF Does, BankOps
  <2>2. TRUE \in BOOLEAN
    OBVIOUS
  <2>3. Quietly(t, u) /\ (Locked(c, t) => u = t)
    BY <2>1, <2>2, WritesOnly, Zenon
  <2> QED
    BY <2>3 DEF Quietly
<1>28. CASE s.op = "clear_MER"
  <2>1. u = SetFlashCrMer(c, t, FALSE, s.at, Good) /\ s.at \in Bank
    BY <1>28, <1>1 DEF Does, BankOps
  <2>2. FALSE \in BOOLEAN
    OBVIOUS
  <2>3. Quietly(t, u) /\ (Locked(c, t) => u = t)
    BY <2>1, <2>2, WritesOnly, Zenon
  <2> QED
    BY <2>3 DEF Quietly
<1>29. CASE s.op = "unlock_options"
  <2>1. u = UnlockFlashOptionIf(c, t, Good)
    BY <1>29 DEF Does
  <2>2. u.cr = t.cr /\ u.job = t.job
    BY <2>1 DEF UnlockFlashOptionIf, UnlockFlashOption, Controller
  <2> QED
    BY <1>29, <2>2 DEF Locked, Outside
<1>30. CASE s.op = "relock"
  <2>1. u = LockFlashOption(c, t, Good)
    BY <1>30 DEF Does
  <2>2. u.cr = t.cr /\ u.job = t.job
    BY <2>1 DEF LockFlashOption, Controller
  <2> QED
    BY <1>30, <2>2 DEF Locked, Outside
<1>31. CASE s.op = "DMA_off"
  <2>1. u = DmaOff(c, t, Good)
    BY <1>31 DEF Does
  <2>2. u.cr = t.cr /\ u.job = t.job
    BY <2>1 DEF DmaOff, Controller
  <2> QED
    BY <1>31, <2>2 DEF Locked, Outside
<1>32. CASE s.op = "DMA_back"
  <2>1. u = DmaBack(c, t, a, Good)
    BY <1>32 DEF Does
  <2>2. u.cr = t.cr /\ u.job = t.job
    BY <2>1 DEF DmaBack, Controller
  <2> QED
    BY <1>32, <2>2 DEF Locked, Outside
<1>33. CASE s.op = "program_options"
  <2>1. u = (IF OptionsOpen(t) THEN [t EXCEPT !.opt = IF @ = "blank" THEN "new" ELSE "mixed"] ELSE t)
    BY <1>33 DEF Does
  <2>2. u.cr = t.cr /\ u.job = t.job
    BY <2>1 DEF Controller
  <2> QED
    BY <1>33, <2>2 DEF Locked, Outside
<1>34. CASE s.op \in {"begin_options", "change_options"}
  <2>1. u = t \/ u = [t EXCEPT !.opt = "new"]
    BY <1>34 DEF Does
  <2>2. u.cr = t.cr /\ u.job = t.job
    BY <2>1 DEF Controller
  <2> QED
    BY <1>34, <2>2 DEF Locked, Outside
<1>35. CASE s.op = "erase_options"
  <2>1. u = IF OptionsOpen(t) THEN [t EXCEPT !.opt = "blank", !.cr[1] = {}] ELSE t
    BY <1>35 DEF Does
  <2>2. u.job = t.job
    BY <2>1 DEF Controller
  <2>3. Locked(c, t) => u = t
    BY <2>1, RegistersAre DEF Locked, OptionsOpen
  <2> QED
    BY <1>35, <2>2, <2>3 DEF Outside
<1>36. CASE s.op = "reset"
  <2>1. Restored(c, t, u)
    BY <1>36 DEF Does
  <2>2. c.type # "WB0" => Locked(c, u)
    BY <2>1, RegistersAre DEF Restored, Locked, CrAtReset
  <2> QED
    BY <1>36, <2>1, <2>2 DEF Outside, Restored
<1> QED
  BY <1>1, <1>10, <1>11, <1>12, <1>13, <1>14, <1>15, <1>16, <1>17, <1>18, <1>19, <1>20, <1>21,
     <1>22, <1>23, <1>24, <1>25, <1>26, <1>27, <1>28, <1>29, <1>30, <1>31, <1>32, <1>33, <1>34,
     <1>35, <1>36
     DEF Ops, BankOps, PageOps, RangeOps, LabelOps, FreeOps, Refusals, Idle

\* A family with one register has a lock of its own for programs.
LEMMA ProgramLock ==
  ASSUME NEW c \in Chips, NEW t \in Controller(c), c.type = "L0_L1", "PRGLOCK" \in t.cr[1],
         NEW s, Sound(c, s), NEW a, NEW u, NEW bk, Does(c, s, t, a, u, bk),
         s.op \notin RangeOps \ {"load"}, s.op \notin Refusals \cup {"unlock_PECR", "erase_options"}
  PROVE  "PRGLOCK" \in u.cr[1]
<1>1. /\ s.op \in BankOps => s.at \in Bank
      /\ s.op \in Ops \cup {"leave"} /\ s.at \in Nat /\ 1 \in Bank /\ s.op # "select"
  BY RegistersAre DEF Sound
<1>2. PageAt(c, s.at) \in Pages(c)
  BY <1>1, PageIs
<1>3. ~TwoRegisters(c) /\ \A b \in Bank : Reg(c, b) = 1
  BY DEF TwoRegisters, Reg
<1>4. ASSUME NEW v \in Controller(c), "PRGLOCK" \in v.cr[1], NEW b \in Bank, NEW bits, "PRGLOCK" \in bits
      PROVE  "PRGLOCK" \in WriteCr(c, v, b, bits, Good).cr[1]
  BY <1>1, <1>3, <1>4 DEF WriteCr, Controller
<1>5. \A b \in Bank : ReadCr(c, t, b, Good) = t.cr[1]
  BY <1>3, ReadGood
<1>6. t.cr[1] \in SUBSET Bits
  BY <1>1 DEF Controller
<1>10. CASE s.op \in {"set_PG", "clear_PG", "set_PER", "clear_PER", "lock"}
  <2> DEFINE bits == ((IF Good.read THEN t.cr[1] ELSE {}) \ (IF c.type = "H7" THEN {"PER"} ELSE {}))
                       \cup {"LOCK"}
  <2>1. \/ u = WriteCr(c, t, s.at, t.cr[1] \cup {"PG"}, Good) /\ s.at \in Bank
        \/ u = WriteCr(c, t, s.at, t.cr[1] \ {"PG"}, Good) /\ s.at \in Bank
        \/ u = WriteCr(c, t, s.at, t.cr[1] \cup {"PER"}, Good) /\ s.at \in Bank
        \/ u = WriteCr(c, t, s.at, t.cr[1] \ {"PER"}, Good) /\ s.at \in Bank
        \/ u = WriteCr(c, t, 1, bits, Good)
    BY <1>1, <1>3, <1>5, <1>10 DEF Does, BankOps, SetFlashCrPg, ClearFlashCrPg, SetFlashCrPer,
       ClearFlashCrPer, LockFlash
  <2>2. "PRGLOCK" \in bits
    BY DEF Good
  <2> HIDE DEF bits
  <2> QED
    BY <1>1, <1>4, <2>1, <2>2
<1>11. CASE s.op \in {"set_MER", "clear_MER"}
  <2> DEFINE bare == t.cr[1] \ {"PG"}
             one == IF "PG" \in t.cr[1] THEN WriteCr(c, t, s.at, bare, Good) ELSE t
  <2>0. s.at \in Bank
    BY <1>1, <1>11 DEF BankOps
  <2>1. \/ u = WriteCr(c, one, s.at, bare \cup {"MER"}, Good)
        \/ u = WriteCr(c, one, s.at, bare \ {"MER"}, Good)
    BY <1>5, <1>11, <2>0 DEF Does, SetFlashCrMer
  <2>2. one \in Controller(c) /\ "PRGLOCK" \in one.cr[1]
    BY <1>4, <1>6, <2>0, WriteCrType
  <2> HIDE DEF one
  <2> QED
    BY <1>4, <2>0, <2>1, <2>2
<1>12. CASE s.op = "start"
  <2> DEFINE v == WriteCr(c, t, s.at, t.cr[1], Good)
  <2>0. s.at \in Bank
    BY <1>1, <1>12 DEF BankOps
  <2>1. u = BeginErase(c, v, 1)
    BY <1>3, <1>5, <1>12, <2>0 DEF Does, SetFlashCrStrt, StartSelected, Good
  <2>2. v \in Controller(c) /\ "PRGLOCK" \in v.cr[1]
    BY <1>4, <1>6, <2>0, WriteCrType
  <2> HIDE DEF v
  <2> QED
    BY <2>1, <2>2 DEF BeginErase, Controller
<1>13. CASE s.op = "unlock"
  <2>1. u = UnlockFlashIf(c, t, Good)
    BY <1>13 DEF Does
  <2> QED
    BY <1>1, <2>1 DEF UnlockFlashIf, UnlockFlash, Controller
<1>14. CASE s.op = "lock_PECR"
  <2>1. u = PecrLock(c, t, Good)
    BY <1>14 DEF Does
  <2> QED
    BY <1>1, <2>1 DEF PecrLock, Good, Controller
<1>15. CASE s.op = "reset"
  <2>1. u.cr = CrAtReset(c)
    BY <1>15 DEF Does, Restored
  <2> QED
    BY <1>1, <2>1 DEF CrAtReset
<1>16. CASE s.op \in Idle \cup {"wait"}
  <2>1. u.cr = t.cr
    BY <1>16 DEF Does, Alike, Idle
  <2> QED
    BY <2>1
<1>17. CASE s.op \in {"clear_errors", "erase_word", "command_erase", "command_mass_erase", "load"}
  <2>1. \/ u = ClearFlashError(c, t, Good)
        \/ u = PecrErase(c, t, s.at, Good)
        \/ u = CommandErase(c, t, {PageAt(c, s.at)}, Good)
        \/ u = CommandErase(c, t, Pages(c), Good)
        \/ u = Program(c, t, PageAt(c, s.at))
    BY <1>17 DEF Does
  <2>2. u.cr = t.cr
    BY <1>1, <1>2, <2>1, OthersOnly
  <2> QED
    BY <2>2
<1>18. CASE s.op \in {"unlock_options", "relock", "DMA_off", "DMA_back"}
  <2>1. \/ u = UnlockFlashOptionIf(c, t, Good)
        \/ u = LockFlashOption(c, t, Good)
        \/ u = DmaOff(c, t, Good)
        \/ u = DmaBack(c, t, a, Good)
    BY <1>18 DEF Does
  <2>2. u.cr = t.cr
    BY <2>1 DEF UnlockFlashOptionIf, UnlockFlashOption, LockFlashOption, DmaOff, DmaBack, Controller
  <2> QED
    BY <2>2
<1>19. CASE s.op \in {"program_options", "begin_options", "change_options"}
  <2>1. u.cr = t.cr
    BY <1>19 DEF Does, Controller
  <2> QED
    BY <2>1
<1> QED
  BY <1>1, <1>10, <1>11, <1>12, <1>13, <1>14, <1>15, <1>16, <1>17, <1>18, <1>19
     DEF Ops, BankOps, PageOps, RangeOps, LabelOps, FreeOps, Refusals, Idle

\* The lock of the flash locks every register.
LEMMA LockLocks ==
  ASSUME NEW c \in Chips, NEW t \in Controller(c), c.type # "WB0"
  PROVE  Locked(c, LockFlash(c, t, Good)) /\ LockFlash(c, t, Good) \in Controller(c)
<1> DEFINE bits == (t.cr[1] \ (IF c.type = "H7" THEN {"PER"} ELSE {})) \cup {"LOCK"}
           one == WriteCr(c, t, 1, bits, Good)
           more == one.cr[2] \cup {"LOCK"}
           two == WriteCr(c, one, 2, more, Good)
<1>1. 1 \in Bank /\ 2 \in Bank
  BY RegistersAre
<1>2. bits \in SUBSET Bits /\ "LOCK" \in bits
  BY <1>1, BitsAre DEF Controller
<1> HIDE DEF bits
<1>3. /\ one \in Controller(c)
      /\ "LOCK" \in t.cr[Reg(c, 1)] => one = t
      /\ "LOCK" \notin t.cr[Reg(c, 1)] => one.cr[Reg(c, 1)] = bits
  BY <1>1, <1>2, WriteCrOnly
<1>4. Reg(c, 1) = 1
  BY DEF Reg
<1>5. "LOCK" \in one.cr[1]
  BY <1>2, <1>3, <1>4
<1>6. LockFlash(c, t, Good) = IF TwoRegisters(c) THEN WriteCr(c, one, 2, ReadCr(c, one, 2, Good)
                                                             \cup {"LOCK"}, Good) ELSE one
  BY DEF LockFlash, Good, one, bits
<1> HIDE DEF one
<1>7. CASE TwoRegisters(c)
  <2>1. Reg(c, 2) = 2 /\ Registers(c) = {1, 2}
    BY <1>7 DEF Reg, Registers, Bank
  <2>2. LockFlash(c, t, Good) = two
    BY <1>6, <1>7, <2>1, ReadGood
  <2>3. more \in SUBSET Bits /\ "LOCK" \in more
    BY <1>1, <1>3, BitsAre DEF Controller
  <2> HIDE DEF more
  <2>4. /\ two \in Controller(c)
        /\ \A r \in Bank : r # 2 => two.cr[r] = one.cr[r]
        /\ "LOCK" \in one.cr[2] => two = one
        /\ "LOCK" \notin one.cr[2] => two.cr[2] = more
    BY <1>1, <1>3, <2>1, <2>3, WriteCrOnly
  <2> HIDE DEF two
  <2>5. "LOCK" \in two.cr[1] /\ "LOCK" \in two.cr[2]
    BY <1>1, <1>5, <2>3, <2>4
  <2> QED
    BY <2>1, <2>2, <2>4, <2>5 DEF Locked
<1>8. CASE ~TwoRegisters(c)
  BY <1>3, <1>5, <1>6, <1>8 DEF Locked, Registers
<1> QED
  BY <1>7, <1>8

\* A call that is not an opener leaves a resource closed, a closer closes it,
\* and between the erasing of the options and their programming nothing closes
\* the locks they need.
LEMMA DoesMove ==
  ASSUME NEW c \in Chips, NEW t \in Controller(c), NEW s, Sound(c, s), NEW a, NEW u, NEW bk,
         Does(c, s, t, a, u, bk), s.op \notin RangeOps \ {"load"}, s.op \notin Refusals,
         NEW r \in Resources
  PROVE  /\ Settled(c, t, a, r) /\ s.op \notin Openers(c, r) => Settled(c, u, bk, r)
         /\ s.op \in Closers(c, r) /\ (r = "opt" => Settled(c, t, a, r) \/ OptionsOpen(t)) =>
              Settled(c, u, bk, r)
         /\ r = "opt" /\ s.op \in Meanwhile /\ OptionsOpen(t) => OptionsOpen(u)
         /\ r = "opt" /\ s.op \in Openers(c, r) /\ Settled(c, t, a, r) =>
              Settled(c, u, bk, r) \/ OptionsOpen(u)
<1>1. /\ s.op \notin Outside => Elsewhere(t, u)
      /\ s.op \notin Starters => \A b \in Bank : u.job[b] \subseteq t.job[b]
      /\ Locked(c, t) /\ s.op \notin {"unlock", "unlock_PECR"} /\ c.type # "WB0" => Locked(c, u)
  BY DoesKeep
<1>2. Registers(c) \subseteq Bank /\ 1 \in Bank /\ 1 \in Registers(c)
  BY RegistersAre
<1>3. /\ s.op \in BankOps => s.at \in Bank
      /\ s.op \in Ops \cup {"leave"} /\ s.at \in Nat
  BY DEF Sound
<1>4. Good.read /\ Good.write
  BY DEF Good
<1>5. CASE r = "lock"
  <2>1. Settled(c, t, a, r) <=> (c.type # "WB0" => Locked(c, t))
    BY <1>5 DEF Settled, Locked
  <2>2. Settled(c, u, bk, r) <=> (c.type # "WB0" => Locked(c, u))
    BY <1>5 DEF Settled, Locked
  <2>3. s.op \notin Openers(c, r) /\ c.type # "WB0" => s.op \notin {"unlock", "unlock_PECR"}
    BY <1>5 DEF Openers
  <2>4. ASSUME s.op \in Closers(c, r), c.type # "WB0"
        PROVE  Locked(c, u)
    <3>1. CASE s.op = "lock"
      <4>1. u = LockFlash(c, t, Good)
        BY <3>1 DEF Does
      <4> QED
        BY <2>4, <4>1, LockLocks
    <3>2. CASE s.op = "lock_PECR" /\ c.type = "L0_L1"
      <4>1. u = PecrLock(c, t, Good)
        BY <3>2 DEF Does
      <4>2. Registers(c) = {1}
        BY <3>2 DEF Registers, TwoRegisters
      <4> QED
        BY <1>2, <1>4, <4>1, <4>2 DEF PecrLock, Locked, Controller
    <3> QED
      BY <1>5, <2>4, <3>1, <3>2 DEF Closers
  <2>5. Settled(c, t, a, r) /\ s.op \notin Openers(c, r) => Settled(c, u, bk, r)
    BY <1>1, <2>1, <2>2, <2>3
  <2>6. s.op \in Closers(c, r) => Settled(c, u, bk, r)
    BY <2>2, <2>4
  <2>7. r # "opt"
    BY <1>5
  <2> QED
    BY <2>5, <2>6, <2>7
<1>6. CASE r = "pecr"
  <2>1. ASSUME c.type = "L0_L1", Settled(c, t, a, r), s.op \notin Openers(c, r)
        PROVE  "PRGLOCK" \in u.cr[1]
    BY <1>6, <2>1, ProgramLock DEF Settled, Openers
  <2>2. ASSUME s.op \in Closers(c, r)
        PROVE  "PRGLOCK" \in u.cr[1]
    <3>1. s.op = "lock_PECR"
      BY <1>6, <2>2 DEF Closers
    <3>2. u = PecrLock(c, t, Good)
      BY <3>1 DEF Does
    <3> QED
      BY <1>2, <1>4, <3>2 DEF PecrLock, Controller
  <2> QED
    BY <1>6, <2>1, <2>2 DEF Settled
<1>7. CASE r = "job"
  <2>1. s.op \notin Openers(c, r) => s.op \notin Starters
    BY <1>7 DEF Openers, Starters
  <2>2. s.op \in Closers(c, r) => \A b \in Registers(c) : u.job[b] = {}
    <3> SUFFICES ASSUME s.op \in Closers(c, r) PROVE \A b \in Registers(c) : u.job[b] = {}
      OBVIOUS
    <3>1. s.op = "wait"
      BY <1>7 DEF Closers
    <3>2. u = t /\ ~IsFlashBusy(c, t)
      BY <3>1 DEF Does
    <3> QED
      BY <3>2 DEF IsFlashBusy
  <2> QED
    BY <1>1, <1>2, <1>7, <2>1, <2>2 DEF Settled
<1>8. CASE r = "optlock"
  <2>1. ASSUME t.optlock, s.op \notin Openers(c, r)
        PROVE  u.optlock
    <3>1. CASE s.op = "unlock_options"
      <4>1. u = UnlockFlashOptionIf(c, t, Good)
        BY <3>1 DEF Does
      <4>2. ~HasOptionLock(c)
        BY <1>8, <2>1, <3>1 DEF Openers
      <4>3. u = t
        BY <4>1, <4>2 DEF UnlockFlashOptionIf, UnlockFlashOption
      <4> QED
        BY <2>1, <4>3
    <3>2. CASE s.op = "relock"
      <4>1. u = LockFlashOption(c, t, Good)
        BY <3>2 DEF Does
      <4> QED
        BY <2>1, <4>1 DEF LockFlashOption, Controller
    <3>3. CASE s.op = "reset"
      BY <3>3 DEF Does, Restored
    <3>4. CASE s.op \in {"DMA_off", "DMA_back"}
      <4>1. u = DmaOff(c, t, Good) \/ u = DmaBack(c, t, a, Good)
        BY <3>4 DEF Does
      <4> QED
        BY <2>1, <4>1 DEF DmaOff, DmaBack, Controller
    <3>5. CASE s.op \in {"erase_options", "program_options", "begin_options", "change_options"}
      BY <2>1, <3>5 DEF Does, Controller
    <3>6. CASE s.op \notin Outside
      BY <1>1, <2>1, <3>6 DEF Elsewhere
    <3> QED
      BY <3>1, <3>2, <3>3, <3>4, <3>5, <3>6 DEF Outside
  <2>2. s.op \in Closers(c, r) => u.optlock
    <3> SUFFICES ASSUME s.op \in Closers(c, r) PROVE u.optlock
      OBVIOUS
    <3>1. s.op = "relock" /\ HasOptionLock(c)
      BY <1>8 DEF Closers
    <3>2. u = LockFlashOption(c, t, Good)
      BY <3>1 DEF Does
    <3> QED
      BY <1>4, <3>1, <3>2 DEF LockFlashOption, Controller
  <2> QED
    BY <1>8, <2>1, <2>2 DEF Settled
<1>9. CASE r = "dma"
  <2>0. s.op # "DMA_off" => bk = a
    BY DEF Does
  <2>1. ASSUME s.op # "DMA_off", HasDma(c), bk, t.dma \/ ~a
        PROVE  u.dma
    <3>2. t.dma
      BY <2>0, <2>1
    <3>3. CASE s.op = "reset"
      BY <3>3 DEF Does, Restored
    <3>4. CASE s.op = "DMA_back"
      <4>1. u = DmaBack(c, t, a, Good)
        BY <3>4 DEF Does
      <4> QED
        BY <3>2, <4>1 DEF DmaBack, Controller
    <3>5. CASE s.op \in {"erase_options", "program_options", "begin_options", "change_options"}
      BY <3>2, <3>5 DEF Does, Controller
    <3>6. CASE s.op \notin Outside
      BY <1>1, <3>2, <3>6 DEF Elsewhere
    <3>7. CASE s.op \in {"unlock_options", "relock"}
      <4>1. u = UnlockFlashOptionIf(c, t, Good) \/ u = LockFlashOption(c, t, Good)
        BY <3>7 DEF Does
      <4> QED
        BY <3>2, <4>1 DEF UnlockFlashOptionIf, UnlockFlashOption, LockFlashOption, Controller
    <3> QED
      BY <2>1, <3>3, <3>4, <3>5, <3>6, <3>7 DEF Outside
  <2>2. ASSUME s.op = "DMA_back", HasDma(c), bk
        PROVE  u.dma
    <3>1. u = DmaBack(c, t, a, Good) /\ bk = a
      BY <2>2 DEF Does
    <3>2. u = [t EXCEPT !.dma = t.dma \/ a]
      BY <1>4, <2>2, <3>1 DEF DmaBack
    <3>3. u.dma = (t.dma \/ a)
      BY <3>2 DEF Controller
    <3> QED
      BY <2>2, <3>1, <3>3
  <2> QED
    BY <1>9, <2>1, <2>2 DEF Settled, Openers, Closers
<1>10. CASE r = "opt"
  <2>1. ASSUME t.opt # "blank", s.op # "erase_options"
        PROVE  u.opt # "blank"
    <3>3. CASE s.op = "reset"
      BY <2>1, <3>3 DEF Does, Restored
    <3>4. CASE s.op \in {"DMA_off", "DMA_back", "unlock_options", "relock"}
      <4>1. \/ u = DmaOff(c, t, Good) \/ u = DmaBack(c, t, a, Good)
            \/ u = UnlockFlashOptionIf(c, t, Good) \/ u = LockFlashOption(c, t, Good)
        BY <3>4 DEF Does
      <4> QED
        BY <2>1, <4>1 DEF UnlockFlashOptionIf, UnlockFlashOption, LockFlashOption, DmaOff, DmaBack,
           Controller
    <3>5. CASE s.op \in {"program_options", "begin_options", "change_options"}
      BY <2>1, <3>5 DEF Does, Controller
    <3>6. CASE s.op \notin Outside
      BY <1>1, <2>1, <3>6 DEF Elsewhere
    <3> QED
      BY <2>1, <3>3, <3>4, <3>5, <3>6 DEF Outside
  <2>2. s.op = "program_options" /\ OptionsOpen(t) => u.opt # "blank"
    BY DEF Does, Controller
  <2>3. s.op \in Meanwhile => u.cr = t.cr /\ u.optlock = t.optlock
    <3>1. s.op \in Meanwhile => s.op = "wait" \/ s.op \in Idle
      BY DEF Meanwhile, Idle
    <3> QED
      BY <3>1 DEF Does, Alike
  <2>4. s.op = "erase_options" /\ t.opt # "blank" => u.opt # "blank" \/ OptionsOpen(u)
    <3> SUFFICES ASSUME s.op = "erase_options", t.opt # "blank"
                 PROVE  u.opt # "blank" \/ OptionsOpen(u)
      OBVIOUS
    <3>1. u = IF OptionsOpen(t) THEN [t EXCEPT !.opt = "blank", !.cr[1] = {}] ELSE t
      BY DEF Does
    <3>2. CASE OptionsOpen(t)
      <4>1. u.cr[1] = {} /\ u.optlock = t.optlock
        BY <1>2, <3>1, <3>2 DEF Controller
      <4> QED
        BY <3>2, <4>1 DEF OptionsOpen
    <3> QED
      BY <3>1, <3>2
  <2> QED
    BY <1>10, <2>1, <2>2, <2>3, <2>4 DEF Settled, Openers, Closers, OptionsOpen
<1> QED
  BY <1>5, <1>6, <1>7, <1>8, <1>9, <1>10 DEF Resources

-----------------------------------------------------------------------------
(***************************************************************************)
(* Lists of calls that close what they open.                               *)
(***************************************************************************)

\* Once the first call is made, what it opened is about to be closed.
LEMMA PairedTail ==
  ASSUME NEW c, NEW s \in Seq(CallRec), s # <<>>, NEW r \in Resources, Paired(c, s, r)
  PROVE  /\ Paired(c, Tail(s), r)
         /\ s[1].op \in Openers(c, r) => Closes(c, Tail(s), r)
         /\ Closes(c, s, r) /\ s[1].op \notin Closers(c, r) =>
              Between(r, s[1].op) /\ Closes(c, Tail(s), r)
<1> DEFINE u == Tail(s)
<1>1. /\ u \in Seq(CallRec) /\ Len(s) \in Nat \ {0} /\ Len(u) = Len(s) - 1
      /\ \A i \in 1 .. Len(u) : u[i] = s[1 + i]
  BY TailRest DEF Rest
<1> HIDE DEF u
<1>2. \A i \in 1 .. Len(u) : i + 1 \in 1 .. Len(s) /\ u[i] = s[i + 1]
  BY <1>1
<1>3. \A j \in 2 .. Len(s) : j - 1 \in 1 .. Len(u) /\ u[j - 1] = s[j]
  BY <1>1
<1>4. ASSUME NEW i \in 0 .. Len(u), NEW j \in i + 2 .. Len(s), s[j].op \in Closers(c, r),
             \A m \in i + 2 .. j - 1 : Between(r, s[m].op)
      PROVE  \E k \in i + 1 .. Len(u) : /\ u[k].op \in Closers(c, r)
                                        /\ \A m \in i + 1 .. k - 1 : Between(r, u[m].op)
  <2>1. j - 1 \in i + 1 .. Len(u) /\ j \in 2 .. Len(s)
    BY <1>1, <1>4
  <2>2. u[j - 1].op \in Closers(c, r)
    BY <1>3, <1>4, <2>1
  <2>3. ASSUME NEW m \in i + 1 .. (j - 1) - 1
        PROVE  Between(r, u[m].op)
    <3>1. m \in 1 .. Len(u) /\ m + 1 \in i + 2 .. j - 1
      BY <1>1, <2>1
    <3> QED
      BY <1>2, <1>4, <3>1
  <2> QED
    BY <2>1, <2>2, <2>3
<1>5. Paired(c, u, r)
  <2> SUFFICES ASSUME NEW i \in 1 .. Len(u), u[i].op \in Openers(c, r)
               PROVE  \E k \in i + 1 .. Len(u) :
                        /\ u[k].op \in Closers(c, r)
                        /\ \A m \in i + 1 .. k - 1 : Between(r, u[m].op)
    BY DEF Paired
  <2>1. i + 1 \in 1 .. Len(s) /\ s[i + 1].op \in Openers(c, r)
    BY <1>2
  <2>2. PICK j \in (i + 1) + 1 .. Len(s) :
             s[j].op \in Closers(c, r) /\ \A m \in (i + 1) + 1 .. j - 1 : Between(r, s[m].op)
    BY <2>1 DEF Paired
  <2>3. i \in 0 .. Len(u) /\ (i + 1) + 1 = i + 2
    BY <1>1
  <2> QED
    BY <1>4, <2>2, <2>3
<1>6. ASSUME s[1].op \in Openers(c, r)
      PROVE  Closes(c, u, r)
  <2>1. 1 \in 1 .. Len(s) /\ 1 + 1 = 0 + 2 /\ 0 \in 0 .. Len(u) /\ 0 + 1 = 1
    BY <1>1
  <2>2. PICK j \in 1 + 1 .. Len(s) :
             s[j].op \in Closers(c, r) /\ \A m \in 1 + 1 .. j - 1 : Between(r, s[m].op)
    BY <1>6, <2>1 DEF Paired
  <2> QED
    BY <1>4, <2>1, <2>2 DEF Closes
<1>7. ASSUME Closes(c, s, r), s[1].op \notin Closers(c, r)
      PROVE  Between(r, s[1].op) /\ Closes(c, u, r)
  <2>1. PICK j \in 1 .. Len(s) : s[j].op \in Closers(c, r) /\ \A i \in 1 .. j - 1 : Between(r, s[i].op)
    BY <1>7 DEF Closes
  <2>2. j # 1
    BY <1>7, <2>1
  <2>3. j \in 0 + 2 .. Len(s) /\ 1 \in 1 .. j - 1 /\ 0 \in 0 .. Len(u)
        /\ \A m \in 0 + 2 .. j - 1 : m \in 1 .. j - 1
    BY <1>1, <2>1, <2>2
  <2>4. \E k \in 0 + 1 .. Len(u) : /\ u[k].op \in Closers(c, r)
                                   /\ \A m \in 0 + 1 .. k - 1 : Between(r, u[m].op)
    BY <1>4, <2>1, <2>3
  <2> QED
    BY <2>1, <2>3, <2>4 DEF Closes
<1> QED
  BY <1>5, <1>6, <1>7 DEF u

\* A call that succeeds leaves each resource closed, or about to be.
LEMMA Advance ==
  ASSUME NEW c \in Chips, NEW t \in Controller(c), NEW s \in Seq(CallRec), s # <<>>,
         Sound(c, s[1]), s[1].op \notin RangeOps \ {"load"}, s[1].op \notin Refusals,
         NEW a, NEW u, NEW bk, Does(c, s[1], t, a, u, bk), NEW r \in Resources,
         Paired(c, s, r), Handled(c, s, t, a, r)
  PROVE  Paired(c, Tail(s), r) /\ Handled(c, Tail(s), u, bk, r)
<1> DEFINE f == s[1].op
<1>1. /\ Paired(c, Tail(s), r)
      /\ f \in Openers(c, r) => Closes(c, Tail(s), r)
      /\ Closes(c, s, r) /\ f \notin Closers(c, r) => Between(r, f) /\ Closes(c, Tail(s), r)
  BY PairedTail
<1>2. /\ Settled(c, t, a, r) /\ f \notin Openers(c, r) => Settled(c, u, bk, r)
      /\ f \in Closers(c, r) /\ (r = "opt" => Settled(c, t, a, r) \/ OptionsOpen(t)) =>
           Settled(c, u, bk, r)
      /\ r = "opt" /\ f \in Meanwhile /\ OptionsOpen(t) => OptionsOpen(u)
      /\ r = "opt" /\ f \in Openers(c, r) /\ Settled(c, t, a, r) =>
           Settled(c, u, bk, r) \/ OptionsOpen(u)
  BY DoesMove
<1>3. Openers(c, r) \cap Closers(c, r) = {}
  BY OpenOrClose
<1> HIDE DEF f
<1>4. CASE Settled(c, t, a, r)
  BY <1>1, <1>2, <1>4 DEF Handled
<1>5. CASE Closes(c, s, r) /\ (r = "opt" => OptionsOpen(t))
  <2>1. CASE f \in Closers(c, r)
    BY <1>1, <1>2, <1>5, <2>1 DEF Handled
  <2>2. CASE f \notin Closers(c, r)
    BY <1>1, <1>2, <1>5, <2>2 DEF Handled, Between
  <2> QED
    BY <2>1, <2>2
<1> QED
  BY <1>1, <1>4, <1>5 DEF Handled

\* No call of a list that opens nothing needs another.
Of(O) == {x \in CallRec : x.op \in O}
\* ... whatever resource is meant.
LEMMA NoneOpens ==
  ASSUME NEW c, NEW r, NEW O, NEW s \in Seq(Of(O)), O \cap Openers(c, r) = {}
  PROVE  Paired(c, s, r) /\ s \in Seq(CallRec)
<1>1. Of(O) \subseteq CallRec
  BY DEF Of
<1>2. \A i \in 1 .. Len(s) : s[i] \in Of(O)
  BY ElementOfSeq
<1> QED
  BY <1>1, <1>2, SeqMonotonic DEF Of, Paired

\* A list whose call j closes r, which no later call opens.
LEMMA ClosedAt ==
  ASSUME NEW c, NEW r \in Resources, r # "opt", NEW s \in Seq(CallRec), NEW j \in 1 .. Len(s),
         s[j].op \in Closers(c, r), \A i \in j + 1 .. Len(s) : s[i].op \notin Openers(c, r)
  PROVE  Paired(c, s, r) /\ Closes(c, s, r)
<1>1. Closes(c, s, r)
  BY DEF Closes, Between
<1>2. ASSUME NEW i \in 1 .. Len(s), s[i].op \in Openers(c, r)
      PROVE  \E k \in i + 1 .. Len(s) : /\ s[k].op \in Closers(c, r)
                                        /\ \A m \in i + 1 .. k - 1 : Between(r, s[m].op)
  <2>1. Len(s) \in Nat
    BY LenProperties
  <2>2. i # j
    BY <1>2, OpenOrClose
  <2>3. ~(i \in j + 1 .. Len(s))
    BY <1>2
  <2>4. j \in i + 1 .. Len(s)
    BY <2>1, <2>2, <2>3
  <2> QED
    BY <2>4 DEF Between
<1> QED
  BY <1>1, <1>2 DEF Paired

\* Lists put together.
LEMMA PairedConcat ==
  ASSUME NEW c, NEW r \in Resources, NEW s \in Seq(CallRec), NEW t \in Seq(CallRec),
         Paired(c, t, r), Paired(c, s, r) \/ (r # "opt" /\ Closes(c, t, r))
  PROVE  Paired(c, s \o t, r) /\ s \o t \in Seq(CallRec)
<1> DEFINE x == s \o t
           n == Len(s)
           Closed(y, i) == \E k \in i + 1 .. Len(y) : /\ y[k].op \in Closers(c, r)
                                                      /\ \A m \in i + 1 .. k - 1 : Between(r, y[m].op)
<1>1. /\ x \in Seq(CallRec) /\ Len(x) = n + Len(t) /\ n \in Nat /\ Len(t) \in Nat
      /\ \A i \in 1 .. n : x[i] = s[i]
      /\ \A i \in 1 .. Len(t) : x[n + i] = t[i]
  BY ConcatAt
<1>2. \A i \in 1 .. Len(x) : \/ i \in 1 .. n /\ x[i] = s[i]
                             \/ i - n \in 1 .. Len(t) /\ x[i] = t[i - n]
  BY ConcatParts
<1> HIDE DEF x, n
<1>3. ASSUME NEW i \in 1 .. Len(x), x[i].op \in Openers(c, r)
      PROVE  Closed(x, i)
  <2>1. CASE i - n \in 1 .. Len(t) /\ x[i] = t[i - n]
    <3>1. PICK k \in (i - n) + 1 .. Len(t) :
               t[k].op \in Closers(c, r) /\ \A m \in (i - n) + 1 .. k - 1 : Between(r, t[m].op)
      BY <1>3, <2>1 DEF Paired
    <3>2. n + k \in i + 1 .. Len(x) /\ k \in 1 .. Len(t)
      BY <1>1, <2>1, <3>1
    <3>3. ASSUME NEW m \in i + 1 .. (n + k) - 1  PROVE Between(r, x[m].op)
      <4>0. n \in Nat /\ Len(t) \in Nat /\ i \in Int /\ k \in Int /\ m \in Int /\ i - n >= 1
            /\ k <= Len(t) /\ m >= i + 1 /\ m <= (n + k) - 1
        BY <1>1, <2>1, <3>2
      <4>1. m - n \in 1 .. Len(t) /\ m - n \in (i - n) + 1 .. k - 1 /\ n + (m - n) = m
        BY <4>0
      <4> QED
        BY <1>1, <3>1, <4>1
    <3> QED
      BY <1>1, <3>1, <3>2, <3>3
  <2>2. CASE i \in 1 .. n /\ x[i] = s[i]
    <3>1. CASE Paired(c, s, r)
      <4>1. PICK k \in i + 1 .. n :
                 s[k].op \in Closers(c, r) /\ \A m \in i + 1 .. k - 1 : Between(r, s[m].op)
        BY <1>3, <2>2, <3>1 DEF Paired, n
      <4>2. k \in i + 1 .. Len(x) /\ k \in 1 .. n
        BY <1>1, <2>2, <4>1
      <4>3. ASSUME NEW m \in i + 1 .. k - 1  PROVE Between(r, x[m].op)
        <5>1. m \in 1 .. n
          BY <1>1, <2>2, <4>2
        <5> QED
          BY <1>1, <4>1, <5>1
      <4> QED
        BY <1>1, <4>1, <4>2, <4>3
    <3>2. CASE r # "opt" /\ Closes(c, t, r)
      <4>1. PICK k \in 1 .. Len(t) : t[k].op \in Closers(c, r)
        BY <3>2 DEF Closes
      <4>2. n + k \in i + 1 .. Len(x)
        BY <1>1, <2>2, <4>1
      <4> QED
        BY <1>1, <3>2, <4>1, <4>2 DEF Between
    <3> QED
      BY <3>1, <3>2
  <2> QED
    BY <1>2, <2>1, <2>2
<1> QED
  BY <1>1, <1>3 DEF Paired, x

\* What closes a resource does so when other calls come first, or later.
LEMMA ClosesConcat ==
  ASSUME NEW c, NEW r \in Resources, NEW s \in Seq(CallRec), NEW t \in Seq(CallRec), r # "opt",
         Closes(c, s, r) \/ Closes(c, t, r)
  PROVE  Closes(c, s \o t, r)
<1>1. /\ Len(s \o t) = Len(s) + Len(t) /\ Len(s) \in Nat /\ Len(t) \in Nat
      /\ \A i \in 1 .. Len(s) : (s \o t)[i] = s[i]
      /\ \A i \in 1 .. Len(t) : (s \o t)[Len(s) + i] = t[i]
  BY ConcatAt
<1>2. CASE Closes(c, s, r)
  <2>1. PICK k \in 1 .. Len(s) : s[k].op \in Closers(c, r)
    BY <1>2 DEF Closes
  <2>2. k \in 1 .. Len(s \o t)
    BY <1>1
  <2> QED
    BY <1>1, <2>1, <2>2 DEF Closes, Between
<1>3. CASE Closes(c, t, r)
  <2>1. PICK k \in 1 .. Len(t) : t[k].op \in Closers(c, r)
    BY <1>3 DEF Closes
  <2>2. Len(s) + k \in 1 .. Len(s \o t)
    BY <1>1
  <2> QED
    BY <1>1, <2>1, <2>2 DEF Closes, Between
<1> QED
  BY <1>2, <1>3

AllPaired(c, s) == s \in Seq(CallRec) /\ \A r \in Resources : Paired(c, s, r)

\* The calls of a kind.
LEMMA OfCalls ==
  ASSUME NEW O \in SUBSET (Ops \cup {"leave"})
  PROVE  \A f \in O : /\ Call(f) \in Of(O)
                      /\ \A l \in Labels : Try(f, l) \in Of(O)
                      /\ \A n \in Nat : CallOn(f, n) \in Of(O)
                      /\ \A n, m \in Nat : \A l \in Labels : Over(f, n, m, l) \in Of(O)
BY DEF Of, CallRec, Call, CallOn, Try, TryOn, Over

\* A list whose calls open nothing at all.
Openings == {"unlock", "unlock_PECR", "start", "erase_word", "command_erase", "command_mass_erase",
             "unlock_options", "DMA_off", "erase_options"}
\* ... is paired.
LEMMA NothingOpened ==
  ASSUME NEW c, NEW O, O \cap Openings = {}, NEW s \in Seq(Of(O))
  PROVE  AllPaired(c, s)
<1>1. \A r \in Resources : Openers(c, r) \subseteq Openings
  BY DEF Resources, Openers, Openings
<1>2. \A r \in Resources : O \cap Openers(c, r) = {}
  BY <1>1
<1>3. "lock" \in Resources
  BY DEF Resources
<1>4. \A r \in Resources : Paired(c, s, r) /\ s \in Seq(CallRec)
  BY <1>2, NoneOpens
<1> QED
  BY <1>3, <1>4 DEF AllPaired

\* Functions one after the other.
LEMMA AllConcat ==
  ASSUME NEW c, NEW s, NEW t, AllPaired(c, s), AllPaired(c, t)
  PROVE  AllPaired(c, s \o t)
<1>1. s \o t \in Seq(CallRec)
  BY ConcatAt DEF AllPaired
<1>2. ASSUME NEW r \in Resources PROVE Paired(c, s \o t, r)
  BY PairedConcat DEF AllPaired
<1> QED
  BY <1>1, <1>2 DEF AllPaired

\* The one pattern of most families: what is started is waited for, and the
\* registers are locked at the end.
LEMMA ErasePattern ==
  ASSUME NEW c, c.type \notin {"L0_L1", "WB0"}, NEW s \in Seq(CallRec), NEW w \in 1 .. Len(s),
         s[w].op = "wait", Len(s) > 0, s[Len(s)].op = "lock",
         \A i \in 1 .. Len(s) : s[i].op \notin Openings \ {"unlock", "start"},
         \A i \in w + 1 .. Len(s) : s[i].op # "start"
  PROVE  AllPaired(c, s)
<1>1. Len(s) \in Nat /\ Len(s) \in 1 .. Len(s) /\ \A i \in Len(s) + 1 .. Len(s) : FALSE
  BY LenProperties
<1>2. \A i \in w + 1 .. Len(s) : i \in 1 .. Len(s)
  BY <1>1
<1>3. ASSUME NEW r \in Resources PROVE Paired(c, s, r)
  <2>1. CASE r = "lock"
    <3>1. "lock" \in Closers(c, r) /\ r # "opt"
      BY <2>1 DEF Closers
    <3> QED
      BY <1>1, <3>1, ClosedAt
  <2>2. CASE r = "job"
    <3>1. "wait" \in Closers(c, r) /\ r # "opt"
      BY <2>2 DEF Closers
    <3>2. \A i \in w + 1 .. Len(s) : s[i].op \notin Openers(c, r)
      BY <1>2, <2>2 DEF Openers, Openings
    <3> QED
      BY <3>1, <3>2, ClosedAt
  <2>3. CASE r \notin {"lock", "job"}
    <3>1. Openers(c, r) \subseteq Openings \ {"unlock", "start"}
      BY <2>3 DEF Openers, Openings, Resources
    <3> QED
      BY <3>1 DEF Paired
  <2> QED
    BY <2>1, <2>2, <2>3
<1> QED
  BY <1>3 DEF AllPaired

\* ... and of the family that does it all by a command.
LEMMA EraseByCommand ==
  ASSUME NEW c, NEW s \in Seq(CallRec), Len(s) = 2,
         s[1].op \in {"command_erase", "command_mass_erase"}, s[2].op = "wait"
  PROVE  AllPaired(c, s)
<1>1. (\A i \in 1 .. 2 : i = 1 \/ i = 2) /\ (\A i \in 2 + 1 .. 2 : FALSE) /\ 2 \in 1 .. 2
  OBVIOUS
<1>2. ASSUME NEW r \in Resources PROVE Paired(c, s, r)
  <2>1. CASE r = "job"
    <3>1. "wait" \in Closers(c, r) /\ r # "opt"
      BY <2>1 DEF Closers
    <3> QED
      BY <1>1, <3>1, ClosedAt
  <2>2. CASE r # "job"
    <3>1. \A f \in {"command_erase", "command_mass_erase", "wait"} : f \notin Openers(c, r)
      BY <2>2 DEF Openers, Resources
    <3> QED
      BY <1>1, <3>1 DEF Paired
  <2> QED
    BY <2>1, <2>2
<1> QED
  BY <1>2 DEF AllPaired

\* stlink_erase_flash_page closes what it opens, in every family.
LEMMA EraseBodyPaired ==
  ASSUME chip \in Chips, NEW u \in Nat, NEW l \in Labels
  PROVE  AllPaired(chip, EraseBody(u, l))
<1> DEFINE b == IF TwoRegisters(chip) /\ UpperHalf(chip, u) THEN 2 ELSE 1
<1>1. chip.type \in Families
  BY DEF Chips
<1>2. /\ \A f \in FreeOps : Call(f) \in CallRec /\ Try(f, l) \in CallRec
      /\ \A f \in BankOps : CallOn(f, 1) \in CallRec /\ CallOn(f, b) \in CallRec
      /\ \A f \in PageOps : CallOn(f, u) \in CallRec
      /\ "select" \in PageOps /\ "erase_word" \in PageOps /\ "command_erase" \in PageOps
      /\ "start" \in BankOps /\ "set_PER" \in BankOps /\ "clear_PER" \in BankOps
      /\ "clear_PG" \in BankOps
      /\ "unlock" \in FreeOps /\ "wait" \in FreeOps /\ "lock" \in FreeOps
      /\ "clear_errors" \in FreeOps /\ "unlock_PECR" \in FreeOps /\ "lock_PECR" \in FreeOps
  <2>1. b \in Nat /\ 1 \in Nat
    OBVIOUS
  <2>2. FreeOps \subseteq Ops /\ BankOps \subseteq Ops /\ PageOps \subseteq Ops
    BY DEF Ops
  <2> HIDE DEF b
  <2> QED
    BY <2>1, <2>2, CallsAreRecords DEF FreeOps, BankOps, PageOps
<1>3. CASE chip.type \in {"F2_F4", "F7", "L4"}
  <2> DEFINE s == <<Call("unlock"), CallOn("select", u), CallOn("start", 1),
           Call("wait"), Call("lock")>>
  <2>1. EraseBody(u, l) = s
    BY <1>3 DEF EraseBody
  <2>2. s \in Seq(CallRec)
    BY <1>2, OfMembers
  <2>3. Len(s) = 5 /\ s[1].op = "unlock" /\ s[2].op = "select" /\ s[3].op = "start" /\ s[4].op = "wait"
        /\ s[5].op = "lock"
    BY CallFields
  <2> HIDE DEF s
  <2>4. \A i \in 1 .. 5 : s[i].op \notin Openings \ {"unlock", "start"}
    <3>1. \A i \in 1 .. 5 : i = 1 \/ i = 2 \/ i = 3 \/ i = 4 \/ i = 5
      OBVIOUS
    <3> QED
      BY <2>3, <3>1 DEF Openings
  <2>5. \A i \in 4 + 1 .. 5 : s[i].op # "start"
    <3>1. \A i \in 4 + 1 .. 5 : i = 5
      OBVIOUS
    <3> QED
      BY <2>3, <3>1
  <2>6. 4 \in 1 .. Len(s) /\ Len(s) > 0
    BY <2>3
  <2> QED
    BY <1>3, <2>1, <2>2, <2>3, <2>4, <2>5, <2>6, ErasePattern
<1>4. CASE chip.type \in {"G0", "G4", "L5_U5", "WB_WL", "C5", "C0"}
  <2> DEFINE s == <<Call("unlock"), CallOn("set_PER", 1), CallOn("select", u),
           CallOn("start", 1), Call("wait"), CallOn("clear_PER", 1), Call("lock")>>
  <2>1. EraseBody(u, l) = s
    BY <1>4 DEF EraseBody
  <2>2. s \in Seq(CallRec)
    BY <1>2, OfMembers
  <2>3. Len(s) = 7 /\ s[1].op = "unlock" /\ s[2].op = "set_PER" /\ s[3].op = "select" /\ s[4].op = "start"
        /\ s[5].op = "wait" /\ s[6].op = "clear_PER" /\ s[7].op = "lock"
    BY CallFields
  <2> HIDE DEF s
  <2>4. \A i \in 1 .. 7 : s[i].op \notin Openings \ {"unlock", "start"}
    <3>1. \A i \in 1 .. 7 : i = 1 \/ i = 2 \/ i = 3 \/ i = 4 \/ i = 5 \/ i = 6 \/ i = 7
      OBVIOUS
    <3> QED
      BY <2>3, <3>1 DEF Openings
  <2>5. \A i \in 5 + 1 .. 7 : s[i].op # "start"
    <3>1. \A i \in 5 + 1 .. 7 : i = 6 \/ i = 7
      OBVIOUS
    <3> QED
      BY <2>3, <3>1
  <2>6. 5 \in 1 .. Len(s) /\ Len(s) > 0
    BY <2>3
  <2> QED
    BY <1>4, <2>1, <2>2, <2>3, <2>4, <2>5, <2>6, ErasePattern
<1>5. CASE chip.type = "H5"
  <2> DEFINE s == <<Call("unlock"), Call("clear_errors"), CallOn("select", u),
           CallOn("start", 1), Call("wait"), CallOn("clear_PER", 1), Call("lock")>>
  <2>1. EraseBody(u, l) = s
    BY <1>5 DEF EraseBody
  <2>2. s \in Seq(CallRec)
    BY <1>2, OfMembers
  <2>3. Len(s) = 7 /\ s[1].op = "unlock" /\ s[2].op = "clear_errors" /\ s[3].op = "select" /\ s[4].op = "start"
        /\ s[5].op = "wait" /\ s[6].op = "clear_PER" /\ s[7].op = "lock"
    BY CallFields
  <2> HIDE DEF s
  <2>4. \A i \in 1 .. 7 : s[i].op \notin Openings \ {"unlock", "start"}
    <3>1. \A i \in 1 .. 7 : i = 1 \/ i = 2 \/ i = 3 \/ i = 4 \/ i = 5 \/ i = 6 \/ i = 7
      OBVIOUS
    <3> QED
      BY <2>3, <3>1 DEF Openings
  <2>5. \A i \in 5 + 1 .. 7 : s[i].op # "start"
    <3>1. \A i \in 5 + 1 .. 7 : i = 6 \/ i = 7
      OBVIOUS
    <3> QED
      BY <2>3, <3>1
  <2>6. 5 \in 1 .. Len(s) /\ Len(s) > 0
    BY <2>3
  <2> QED
    BY <1>5, <2>1, <2>2, <2>3, <2>4, <2>5, <2>6, ErasePattern
<1>6. CASE chip.type \in {"F0_F1_F3", "F1_XL"}
  <2> DEFINE s == <<Call("unlock"), CallOn("clear_PG", b), CallOn("set_PER", b),
           CallOn("select", u), CallOn("start", b), Call("wait"),
           CallOn("clear_PER", b), Call("lock")>>
  <2>1. EraseBody(u, l) = s
    BY <1>6 DEF EraseBody
  <2>2. s \in Seq(CallRec)
    BY <1>2, OfMembers
  <2>3. Len(s) = 8 /\ s[1].op = "unlock" /\ s[2].op = "clear_PG" /\ s[3].op = "set_PER" /\ s[4].op = "select"
        /\ s[5].op = "start" /\ s[6].op = "wait" /\ s[7].op = "clear_PER" /\ s[8].op = "lock"
    BY CallFields
  <2> HIDE DEF s
  <2>4. \A i \in 1 .. 8 : s[i].op \notin Openings \ {"unlock", "start"}
    <3>1. \A i \in 1 .. 8 : i = 1 \/ i = 2 \/ i = 3 \/ i = 4 \/ i = 5 \/ i = 6 \/ i = 7 \/ i = 8
      OBVIOUS
    <3> QED
      BY <2>3, <3>1 DEF Openings
  <2>5. \A i \in 6 + 1 .. 8 : s[i].op # "start"
    <3>1. \A i \in 6 + 1 .. 8 : i = 7 \/ i = 8
      OBVIOUS
    <3> QED
      BY <2>3, <3>1
  <2>6. 6 \in 1 .. Len(s) /\ Len(s) > 0
    BY <2>3
  <2> QED
    BY <1>6, <2>1, <2>2, <2>3, <2>4, <2>5, <2>6, ErasePattern
<1>7. CASE chip.type = "H7"
  <2> DEFINE s == <<Call("unlock"), CallOn("select", u), CallOn("start", b),
           Call("wait"), Call("lock")>>
  <2>1. EraseBody(u, l) = s
    BY <1>7 DEF EraseBody
  <2>2. s \in Seq(CallRec)
    BY <1>2, OfMembers
  <2>3. Len(s) = 5 /\ s[1].op = "unlock" /\ s[2].op = "select" /\ s[3].op = "start" /\ s[4].op = "wait"
        /\ s[5].op = "lock"
    BY CallFields
  <2> HIDE DEF s
  <2>4. \A i \in 1 .. 5 : s[i].op \notin Openings \ {"unlock", "start"}
    <3>1. \A i \in 1 .. 5 : i = 1 \/ i = 2 \/ i = 3 \/ i = 4 \/ i = 5
      OBVIOUS
    <3> QED
      BY <2>3, <3>1 DEF Openings
  <2>5. \A i \in 4 + 1 .. 5 : s[i].op # "start"
    <3>1. \A i \in 4 + 1 .. 5 : i = 5
      OBVIOUS
    <3> QED
      BY <2>3, <3>1
  <2>6. 4 \in 1 .. Len(s) /\ Len(s) > 0
    BY <2>3
  <2> QED
    BY <1>7, <2>1, <2>2, <2>3, <2>4, <2>5, <2>6, ErasePattern
<1>8. CASE chip.type = "L0_L1"
  <2> DEFINE s == <<Try("unlock_PECR", l), CallOn("erase_word", u), Call("wait"), Call("lock_PECR")>>
  <2>1. EraseBody(u, l) = s
    BY <1>8 DEF EraseBody
  <2>2. s \in Seq(CallRec)
    BY <1>2, OfMembers
  <2>3. Len(s) = 4 /\ s[1].op = "unlock_PECR" /\ s[2].op = "erase_word" /\ s[3].op = "wait"
        /\ s[4].op = "lock_PECR"
    BY CallFields
  <2> HIDE DEF s
  <2>4. \A i \in 1 .. 4 : i = 1 \/ i = 2 \/ i = 3 \/ i = 4
    OBVIOUS
  <2>5. /\ (\A i \in 4 + 1 .. 4 : FALSE) /\ (\A i \in 3 + 1 .. 4 : i = 4)
        /\ 4 \in 1 .. 4 /\ 3 \in 1 .. 4
    OBVIOUS
  <2>6. ASSUME NEW r \in Resources PROVE Paired(chip, s, r)
    <3>1. CASE r \in {"lock", "pecr"}
      <4>1. "lock_PECR" \in Closers(chip, r) /\ r # "opt"
        BY <1>8, <3>1 DEF Closers
      <4> QED
        BY <2>2, <2>3, <2>5, <4>1, ClosedAt
    <3>2. CASE r = "job"
      <4>1. "wait" \in Closers(chip, r) /\ r # "opt" /\ "lock_PECR" \notin Openers(chip, r)
        BY <3>2 DEF Closers, Openers
      <4> QED
        BY <2>2, <2>3, <2>5, <4>1, ClosedAt
    <3>3. CASE r \notin {"lock", "pecr", "job"}
      <4>1. \A f \in {"unlock_PECR", "erase_word", "wait", "lock_PECR"} : f \notin Openers(chip, r)
        BY <3>3 DEF Openers, Resources
      <4> QED
        BY <2>3, <2>4, <4>1 DEF Paired
    <3> QED
      BY <3>1, <3>2, <3>3
  <2> QED
    BY <2>1, <2>2, <2>6 DEF AllPaired
<1>9. CASE chip.type = "WB0"
  <2> DEFINE s == <<CallOn("command_erase", u), Call("wait")>>
  <2>1. EraseBody(u, l) = s
    BY <1>9 DEF EraseBody
  <2>2. s \in Seq(CallRec) /\ Len(s) = 2 /\ s[1].op = "command_erase" /\ s[2].op = "wait"
    BY <1>2, OfMembers, CallFields
  <2> HIDE DEF s
  <2> QED
    BY <2>1, <2>2, EraseByCommand
<1> QED
  BY <1>1, <1>3, <1>4, <1>5, <1>6, <1>7, <1>8, <1>9 DEF Families

\* With the wait before it and the check after it.
LEMMA ErasePagePaired ==
  ASSUME chip \in Chips, NEW u \in Nat, NEW l \in Labels
  PROVE  AllPaired(chip, EraseFlashPage(u, l))
<1> DEFINE O == {"wait", "clear_errors", "check_errors"}
<1>1. O \in SUBSET (Ops \cup {"leave"}) /\ O \cap Openings = {}
  BY DEF Ops, FreeOps, Openings
<1>2. Call("wait") \in Of(O) /\ Call("clear_errors") \in Of(O) /\ Try("check_errors", l) \in Of(O)
  <2>1. "wait" \in O /\ "clear_errors" \in O /\ "check_errors" \in O
    OBVIOUS
  <2> QED
    BY <1>1, <2>1, OfCalls
<1> HIDE DEF O
<1>3. /\ <<Call("wait"), Call("clear_errors")>> \in Seq(Of(O))
      /\ <<Try("check_errors", l)>> \in Seq(Of(O))
  BY <1>2, OfMembers
<1>4. /\ AllPaired(chip, <<Call("wait"), Call("clear_errors")>>)
      /\ AllPaired(chip, <<Try("check_errors", l)>>)
  BY <1>1, <1>3, NothingOpened
<1> QED
  BY <1>4, EraseBodyPaired, AllConcat DEF EraseFlashPage

\* What some calls open is closed by those that come after them.
LEMMA ClosedAfter ==
  ASSUME NEW c, NEW O, NEW s \in Seq(Of(O)), NEW t, AllPaired(c, t),
         \A r \in Resources : O \cap Openers(c, r) = {} \/ (r # "opt" /\ Closes(c, t, r))
  PROVE  AllPaired(c, s \o t)
<1>1. s \in Seq(CallRec) /\ t \in Seq(CallRec)
  <2>1. Of(O) \subseteq CallRec
    BY DEF Of
  <2> QED
    BY <2>1, SeqMonotonic DEF AllPaired
<1>2. ASSUME NEW r \in Resources PROVE Paired(c, s \o t, r)
  <2>1. Paired(c, s, r) \/ (r # "opt" /\ Closes(c, t, r))
    BY NoneOpens
  <2> QED
    BY <1>1, <2>1, PairedConcat DEF AllPaired
<1> QED
  BY <1>1, <1>2, ConcatAt DEF AllPaired

\* Calls to both registers.
LEMMA BothOf ==
  ASSUME NEW O, NEW f, CallOn(f, 1) \in Of(O), CallOn(f, 2) \in Of(O)
  PROVE  BothBanks(f) \in Seq(Of(O))
BY OfMembers DEF BothBanks

\* Two calls of which the last locks the registers.
LEMMA WaitAndLock ==
  ASSUME NEW c, NEW s \in Seq(CallRec), Len(s) = 2, s[1].op = "wait", s[2].op = "lock"
  PROVE  /\ AllPaired(c, s) /\ Closes(c, s, "job")
         /\ c.type # "WB0" => Closes(c, s, "lock")
<1>1. /\ (\A i \in 1 .. 2 : i = 1 \/ i = 2) /\ (\A i \in 1 + 1 .. 2 : i = 2)
      /\ (\A i \in 2 + 1 .. 2 : FALSE) /\ 1 \in 1 .. 2 /\ 2 \in 1 .. 2
  OBVIOUS
<1>2. \A r \in Resources : "wait" \notin Openers(c, r) /\ "lock" \notin Openers(c, r)
  BY DEF Resources, Openers
<1>3. \A r \in Resources : Paired(c, s, r)
  BY <1>1, <1>2 DEF Paired
<1>4. "job" \in Resources /\ "lock" \in Resources /\ "wait" \in Closers(c, "job")
      /\ (c.type # "WB0" => "lock" \in Closers(c, "lock"))
  BY DEF Resources, Closers
<1>5. Closes(c, s, "job")
  BY <1>1, <1>2, <1>4, ClosedAt
<1>6. c.type # "WB0" => Closes(c, s, "lock")
  BY <1>1, <1>2, <1>4, ClosedAt
<1> QED
  BY <1>3, <1>5, <1>6 DEF AllPaired

\* stlink_erase_flash_mass closes what it opens.
LEMMA EraseMassPaired ==
  ASSUME chip \in Chips, NEW l \in Labels
  PROVE  AllPaired(chip, EraseFlashMass(l))
<1>1. CASE chip.type \in {"L0_L1", "WB_WL"} \/ (chip.type = "WB0" /\ ~chip.listed)
  <2> DEFINE O == {"erase_section"}
  <2>1. O \in SUBSET (Ops \cup {"leave"}) /\ O \cap Openings = {} /\ "erase_section" \in O
    BY DEF Ops, RangeOps, Openings
  <2> HIDE DEF O
  <2>2. Over("erase_section", 0, FlashSize(chip), l) \in Of(O)
    BY <2>1, OfCalls, FlashSizeNat
  <2>3. EraseFlashMass(l) = <<Over("erase_section", 0, FlashSize(chip), l)>>
    BY <1>1 DEF EraseFlashMass
  <2> QED
    BY <2>1, <2>2, <2>3, OfMembers, NothingOpened
<1>2. CASE chip.type = "WB0" /\ chip.listed
  <2> DEFINE s == <<Call("command_mass_erase"), Call("wait")>>
  <2>1. Call("command_mass_erase") \in CallRec /\ Call("wait") \in CallRec
    BY CallsAreRecords DEF Ops, FreeOps
  <2>2. s \in Seq(CallRec) /\ Len(s) = 2 /\ s[1].op = "command_mass_erase" /\ s[2].op = "wait"
    BY <2>1, OfMembers, CallFields
  <2>3. EraseFlashMass(l) = s
    BY <1>2 DEF EraseFlashMass
  <2> HIDE DEF s
  <2> QED
    BY <2>2, <2>3, EraseByCommand
<1>3. CASE chip.type \notin {"L0_L1", "WB_WL", "WB0"}
  <2> DEFINE O == {"wait", "clear_errors", "unlock", "set_MER", "start"}
             N == {"clear_MER", "check_errors"}
             A == <<Call("wait"), Call("clear_errors"), Call("unlock")>>
             B == IF TwoRegisters(chip)
                  THEN <<CallOn("set_MER", 1), CallOn("start", 1),
                         CallOn("set_MER", 2), CallOn("start", 2)>>
                  ELSE <<CallOn("set_MER", 1), CallOn("start", 1)>>
             C == <<Call("wait"), Call("lock")>>
             D == BothBanks("clear_MER")
             E == <<Try("check_errors", l)>>
  <2>1. EraseFlashMass(l) = (((A \o B) \o C) \o D) \o E
    BY <1>3 DEF EraseFlashMass
  <2>2. /\ O \in SUBSET (Ops \cup {"leave"}) /\ N \in SUBSET (Ops \cup {"leave"})
        /\ N \cap Openings = {}
        /\ \A r \in Resources : r \notin {"lock", "job"} => O \cap Openers(chip, r) = {}
        /\ "lock" # "opt" /\ "job" # "opt"
    BY DEF Ops, BankOps, FreeOps, Openings, Resources, Openers
  <2>3. /\ Call("wait") \in Of(O) /\ Call("clear_errors") \in Of(O) /\ Call("unlock") \in Of(O)
        /\ \A n \in {1, 2} : CallOn("set_MER", n) \in Of(O) /\ CallOn("start", n) \in Of(O)
        /\ \A n \in {1, 2} : CallOn("clear_MER", n) \in Of(N)
        /\ Try("check_errors", l) \in Of(N)
    <3>1. /\ "wait" \in O /\ "clear_errors" \in O /\ "unlock" \in O /\ "set_MER" \in O
          /\ "start" \in O /\ "clear_MER" \in N /\ "check_errors" \in N /\ {1, 2} \subseteq Nat
      OBVIOUS
    <3> HIDE DEF O, N
    <3> QED
      BY <2>2, <3>1, OfCalls
  <2>4. Call("wait") \in CallRec /\ Call("lock") \in CallRec
    BY CallsAreRecords DEF Ops, FreeOps
  <2> HIDE DEF O, N
  <2>5. A \in Seq(Of(O)) /\ B \in Seq(Of(O))
    BY <2>3, OfMembers
  <2>6. D \in Seq(Of(N)) /\ E \in Seq(Of(N))
    BY <2>3, OfMembers, BothOf
  <2>7. C \in Seq(CallRec) /\ Len(C) = 2 /\ C[1].op = "wait" /\ C[2].op = "lock"
    BY <2>4, OfMembers, CallFields
  <2> HIDE DEF A, B, C, D, E
  <2>8. AllPaired(chip, C) /\ Closes(chip, C, "job") /\ Closes(chip, C, "lock")
    BY <1>3, <2>7, WaitAndLock
  <2>9. AllPaired(chip, (A \o B) \o C)
    <3>1. A \o B \in Seq(Of(O))
      BY <2>5, SeqConcat
    <3> QED
      BY <2>2, <2>8, <3>1, ClosedAfter
  <2>10. AllPaired(chip, D) /\ AllPaired(chip, E)
    BY <2>2, <2>6, NothingOpened
  <2> QED
    BY <2>1, <2>9, <2>10, AllConcat
<1> QED
  BY <1>1, <1>2, <1>3

\* What the start of the loader and the calls around it may open.
Loaders == {"DMA_off", "wait", "clear_errors", "init_loader", "unlock", "read_register", "set_PG",
            "unlock_PECR"}
Loading == Loaders \cup {"check_range", "erase_section", "write", "check_errors"}
\* ... no locks but the flash's, and no option bytes.
LEMMA LoadingOpens ==
  /\ Loaders \in SUBSET (Ops \cup {"leave"}) /\ Of(Loaders) \subseteq Of(Loading)
  /\ Loading \in SUBSET (Ops \cup {"leave"})
  /\ \A c : \A r \in Resources : r \notin {"lock", "pecr", "dma"} => Loading \cap Openers(c, r) = {}
BY DEF Loaders, Loading, Of, Ops, FreeOps, BankOps, Refusals, RangeOps, Resources, Openers

\* The start is made of these calls, and begins with three of them.
LEMMA LoaderStartOf ==
  ASSUME chip \in Chips, NEW l \in Labels
  PROVE  /\ FlashloaderStart(l) \in Seq(Of(Loading))
         /\ \E t \in Seq(Of(Loaders)) :
              FlashloaderStart(l) = <<Call("DMA_off"), Call("wait"), Call("clear_errors")>> \o t
<1> DEFINE S == Of(Loaders)
<1>1. /\ Call("DMA_off") \in S /\ Call("wait") \in S /\ Call("clear_errors") \in S
      /\ Try("init_loader", l) \in S /\ Call("init_loader") \in S /\ Call("unlock") \in S
      /\ Try("read_register", l) \in S /\ Try("unlock_PECR", l) \in S
      /\ CallOn("set_PG", 1) \in S /\ CallOn("set_PG", 2) \in S
  <2>1. /\ "DMA_off" \in Loaders /\ "wait" \in Loaders /\ "clear_errors" \in Loaders
        /\ "init_loader" \in Loaders /\ "unlock" \in Loaders /\ "read_register" \in Loaders
        /\ "unlock_PECR" \in Loaders /\ "set_PG" \in Loaders /\ 1 \in Nat /\ 2 \in Nat
    BY DEF Loaders
  <2> QED
    BY <2>1, LoadingOpens, OfCalls
<1>2. BothBanks("set_PG") \in Seq(S)
  BY <1>1, BothOf
<1>3. chip.type \in Families
  BY DEF Chips
<1> HIDE DEF S
<1> DEFINE A == <<Call("DMA_off"), Call("wait"), Call("clear_errors")>>
<1>4. A \in Seq(S)
  BY <1>1, OfMembers
<1>5. /\ <<Try("init_loader", l), Call("unlock"), Try("read_register", l), CallOn("set_PG", 1)>> \in Seq(S)
      /\ <<Try("init_loader", l), Call("unlock"), CallOn("set_PG", 1)>> \in Seq(S)
      /\ <<Call("unlock"), CallOn("set_PG", 1)>> \in Seq(S)
      /\ <<Try("unlock_PECR", l), Call("init_loader")>> \in Seq(S)
      /\ <<Try("init_loader", l)>> \in Seq(S)
      /\ <<Try("init_loader", l), Call("unlock")>> \in Seq(S)
      /\ <<Call("unlock")>> \in Seq(S)
  BY <1>1, OfMembers
<1>6. \E t \in Seq(S) : FlashloaderStart(l) = A \o t
  <2>1. CASE chip.type \in {"F2_F4", "F7", "L4"}
    BY <1>5, <2>1 DEF FlashloaderStart
  <2>2. CASE chip.type = "H5"
    BY <1>5, <2>2 DEF FlashloaderStart
  <2>3. CASE chip.type \in {"WB_WL", "G0", "G4", "L5_U5", "C5", "C0"}
    BY <1>5, <2>3 DEF FlashloaderStart
  <2>4. CASE chip.type = "L0_L1"
    BY <1>5, <2>4 DEF FlashloaderStart
  <2>5. CASE chip.type = "WB0"
    BY <1>5, <2>5 DEF FlashloaderStart
  <2>6. CASE chip.type \in {"F0_F1_F3", "F1_XL"}
    <3>1. <<Try("init_loader", l), Call("unlock")>> \o BothBanks("set_PG") \in Seq(S)
      BY <1>2, <1>5, SeqConcat
    <3>2. FlashloaderStart(l) = A \o (<<Try("init_loader", l), Call("unlock")>> \o BothBanks("set_PG"))
      BY <2>6 DEF FlashloaderStart
    <3> QED
      BY <3>1, <3>2
  <2>7. CASE chip.type = "H7"
    <3>1. <<Call("unlock")>> \o BothBanks("set_PG") \in Seq(S)
      BY <1>2, <1>5, SeqConcat
    <3>2. FlashloaderStart(l) = A \o (<<Call("unlock")>> \o BothBanks("set_PG"))
      BY <2>7 DEF FlashloaderStart
    <3> QED
      BY <3>1, <3>2
  <2> QED
    BY <1>3, <2>1, <2>2, <2>3, <2>4, <2>5, <2>6, <2>7 DEF Families
<1>7. FlashloaderStart(l) \in Seq(S)
  BY <1>4, <1>6, SeqConcat
<1> QED
  BY <1>6, <1>7, LoadingOpens, SeqMonotonic DEF S, A

\* ... the stop closes.
LoaderStops == {"lock_PECR", "clear_PG", "lock", "unmask", "DMA_back"}
\* ... the registers and DMA, whatever the start opened.
LEMMA LoaderStopCloses ==
  ASSUME chip \in Chips
  PROVE  /\ FlashloaderStop \in Seq(Of(LoaderStops))
         /\ AllPaired(chip, FlashloaderStop)
         /\ Closes(chip, FlashloaderStop, "dma")
         /\ chip.type # "WB0" => Closes(chip, FlashloaderStop, "lock")
         /\ chip.type = "L0_L1" => Closes(chip, FlashloaderStop, "pecr")
<1> DEFINE O == LoaderStops
           Z == <<Call("unmask"), Call("DMA_back")>>
<1>1. O \in SUBSET (Ops \cup {"leave"}) /\ O \cap Openings = {}
  BY DEF LoaderStops, Ops, FreeOps, BankOps, Openings
<1>2. /\ Call("lock_PECR") \in Of(O) /\ Call("lock") \in Of(O) /\ Call("unmask") \in Of(O)
      /\ Call("DMA_back") \in Of(O) /\ CallOn("clear_PG", 1) \in Of(O)
      /\ CallOn("clear_PG", 2) \in Of(O)
  <2>1. /\ "lock_PECR" \in O /\ "lock" \in O /\ "unmask" \in O /\ "DMA_back" \in O
        /\ "clear_PG" \in O /\ 1 \in Nat /\ 2 \in Nat
    BY DEF LoaderStops
  <2> HIDE DEF O
  <2> QED
    BY <1>1, <2>1, OfCalls
<1> HIDE DEF O
<1>3. /\ BothBanks("clear_PG") \in Seq(Of(O)) /\ Z \in Seq(Of(O)) /\ <<Call("lock")>> \in Seq(Of(O))
      /\ <<Call("lock_PECR")>> \in Seq(Of(O)) /\ <<>> \in Seq(Of(O))
  BY <1>2, BothOf, OfMembers, EmptyIn
<1>4. /\ Len(Z) = 2 /\ Z[2].op = "DMA_back"
      /\ Len(<<Call("lock")>>) = 1 /\ <<Call("lock")>>[1].op = "lock"
      /\ Len(<<Call("lock_PECR")>>) = 1 /\ <<Call("lock_PECR")>>[1].op = "lock_PECR"
  BY CallFields
<1>5. /\ "dma" \in Resources /\ "dma" # "opt" /\ "lock" \in Resources /\ "lock" # "opt"
      /\ "pecr" \in Resources /\ "pecr" # "opt"
      /\ "DMA_back" \in Closers(chip, "dma")
      /\ (chip.type \notin {"WB0", "L0_L1"} => "lock" \in Closers(chip, "lock"))
      /\ (chip.type = "L0_L1" => "lock_PECR" \in Closers(chip, "lock")
                                   /\ "lock_PECR" \in Closers(chip, "pecr"))
  BY DEF Resources, Closers
<1>6. Of(O) \subseteq CallRec
  BY DEF Of
<1>7. \A s \in Seq(Of(O)) : s \in Seq(CallRec)
  BY <1>6, SeqMonotonic
<1>8. /\ (\A i \in 2 + 1 .. 2 : FALSE) /\ 2 \in 1 .. 2 /\ 1 \in 1 .. 1 /\ (\A i \in 1 + 1 .. 1 : FALSE)
  OBVIOUS
<1>9. Closes(chip, Z, "dma")
  <2> HIDE DEF Z
  <2> QED
    BY <1>3, <1>4, <1>5, <1>7, <1>8, ClosedAt
<1>10. /\ chip.type \notin {"WB0", "L0_L1"} => Closes(chip, <<Call("lock")>>, "lock")
       /\ chip.type = "L0_L1" => /\ Closes(chip, <<Call("lock_PECR")>>, "lock")
                                 /\ Closes(chip, <<Call("lock_PECR")>>, "pecr")
  BY <1>3, <1>4, <1>5, <1>7, <1>8, ClosedAt
<1> HIDE DEF Z
<1>11. CASE chip.type = "L0_L1"
  <2>1. FlashloaderStop = <<Call("lock_PECR")>> \o Z
    BY <1>11 DEF FlashloaderStop, Z
  <2>2. FlashloaderStop \in Seq(Of(O))
    BY <1>3, <2>1, SeqConcat
  <2>3. /\ Closes(chip, FlashloaderStop, "lock") /\ Closes(chip, FlashloaderStop, "pecr")
        /\ Closes(chip, FlashloaderStop, "dma")
    BY <1>3, <1>5, <1>7, <1>9, <1>10, <1>11, <2>1, ClosesConcat
  <2> QED
    BY <1>1, <2>2, <2>3, NothingOpened DEF O
<1>12. CASE chip.type = "WB0"
  <2>1. FlashloaderStop = <<>> \o Z
    BY <1>12 DEF FlashloaderStop, Z
  <2>2. FlashloaderStop \in Seq(Of(O))
    BY <1>3, <2>1, SeqConcat
  <2>3. Closes(chip, FlashloaderStop, "dma")
    BY <1>3, <1>5, <1>7, <1>9, <2>1, ClosesConcat
  <2> QED
    BY <1>1, <1>12, <2>2, <2>3, NothingOpened DEF O
<1>13. CASE chip.type \notin {"WB0", "L0_L1"}
  <2> DEFINE Y == BothBanks("clear_PG") \o <<Call("lock")>>
  <2>1. FlashloaderStop = Y \o Z
    BY <1>13 DEF FlashloaderStop, Z
  <2>2. Y \in Seq(Of(O))
    BY <1>3, SeqConcat
  <2>3. Closes(chip, Y, "lock")
    BY <1>3, <1>5, <1>7, <1>10, <1>13, ClosesConcat
  <2> HIDE DEF Y
  <2>4. FlashloaderStop \in Seq(Of(O))
    BY <1>3, <2>1, <2>2, SeqConcat
  <2>5. Closes(chip, FlashloaderStop, "lock") /\ Closes(chip, FlashloaderStop, "dma")
    BY <1>3, <1>5, <1>7, <1>9, <2>1, <2>2, <2>3, ClosesConcat
  <2> QED
    BY <1>1, <1>13, <2>4, <2>5, NothingOpened DEF O
<1> QED
  BY <1>11, <1>12, <1>13

\* stlink_write_flash: whatever the start of the loader opens its stop closes.
LEMMA WriteFlashPaired ==
  ASSUME chip \in Chips, NEW k, k \in CommandLine, NEW l \in Labels
  PROVE  AllPaired(chip, WriteFlash(k, l))
<1> DEFINE end == k.addr + k.len
           A == <<Over("check_range", k.addr, end, l)>>
           B == IF k.mass THEN <<>> ELSE <<Over("erase_section", k.addr, end, l)>>
           C == FlashloaderStart(l)
           D == <<Over("write", k.addr, end, l), Try("check_errors", l)>>
           E == FlashloaderStop
           F == <<Over("verify", k.addr, end, l)>>
           N == {"verify"}
<1>1. WriteFlash(k, l) = ((((A \o B) \o C) \o D) \o E) \o F
  BY DEF WriteFlash
<1>2. k.addr \in Nat /\ end \in Nat
  BY DEF CommandLine
<1>3. /\ Over("check_range", k.addr, end, l) \in Of(Loading)
      /\ Over("erase_section", k.addr, end, l) \in Of(Loading)
      /\ Over("write", k.addr, end, l) \in Of(Loading) /\ Try("check_errors", l) \in Of(Loading)
  <2>1. /\ "check_range" \in Loading /\ "erase_section" \in Loading /\ "write" \in Loading
        /\ "check_errors" \in Loading
    BY DEF Loading, Loaders
  <2> HIDE DEF end
  <2> QED
    BY <1>2, <2>1, LoadingOpens, OfCalls
<1>4. N \in SUBSET (Ops \cup {"leave"}) /\ N \cap Openings = {} /\ "verify" \in N
  BY DEF Ops, FreeOps, Openings
<1> HIDE DEF N, end
<1>5. Over("verify", k.addr, end, l) \in Of(N)
  BY <1>2, <1>4, OfCalls
<1>6. A \in Seq(Of(Loading)) /\ B \in Seq(Of(Loading)) /\ D \in Seq(Of(Loading)) /\ F \in Seq(Of(N))
  BY <1>3, <1>5, OfMembers, EmptyIn
<1>7. C \in Seq(Of(Loading))
  BY LoaderStartOf
<1>8. /\ AllPaired(chip, E) /\ Closes(chip, E, "dma")
      /\ chip.type # "WB0" => Closes(chip, E, "lock")
      /\ chip.type = "L0_L1" => Closes(chip, E, "pecr")
  BY LoaderStopCloses
<1> HIDE DEF A, B, C, D, E, F
<1>9. ((A \o B) \o C) \o D \in Seq(Of(Loading))
  BY <1>6, <1>7, SeqConcat
<1>10. \A r \in Resources : \/ Loading \cap Openers(chip, r) = {}
                            \/ r # "opt" /\ Closes(chip, E, r)
  <2>1. chip.type = "WB0" => Openers(chip, "lock") = {}
    BY DEF Openers
  <2>2. chip.type # "L0_L1" => Openers(chip, "pecr") = {}
    BY DEF Openers
  <2>3. "lock" # "opt" /\ "pecr" # "opt" /\ "dma" # "opt"
    OBVIOUS
  <2> QED
    BY <1>8, <2>1, <2>2, <2>3, LoadingOpens
<1>11. AllPaired(chip, (((A \o B) \o C) \o D) \o E)
  BY <1>8, <1>9, <1>10, ClosedAfter
<1>12. AllPaired(chip, F)
  BY <1>4, <1>6, NothingOpened
<1> QED
  BY <1>1, <1>11, <1>12, AllConcat

\* The writers of option bytes program what they erase.
LEMMA ProgramOptionsPaired ==
  ASSUME chip \in Chips, NEW do \in OptionCommands
  PROVE  AllPaired(chip, ProgramOptions(do))
<1> DEFINE O == {"clear_errors", "wait", "check_errors", "begin_options", "change_options",
                  "read_register", "unsupported"}
<1>1. O \in SUBSET (Ops \cup {"leave"}) /\ O \cap Openings = {} /\ "relock" \in Labels
  BY DEF Ops, FreeOps, Refusals, Openings, Labels
<1>2. /\ Call("clear_errors") \in Of(O) /\ Call("wait") \in Of(O) /\ Call("check_errors") \in Of(O)
      /\ Call("begin_options") \in Of(O) /\ Try("begin_options", "relock") \in Of(O)
      /\ Try("check_errors", "relock") \in Of(O) /\ Try("unsupported", "relock") \in Of(O)
      /\ Try("change_options", "relock") \in Of(O) /\ Try("read_register", "relock") \in Of(O)
  <2>1. /\ "clear_errors" \in O /\ "wait" \in O /\ "check_errors" \in O /\ "begin_options" \in O
        /\ "unsupported" \in O /\ "change_options" \in O /\ "read_register" \in O
    OBVIOUS
  <2> HIDE DEF O
  <2> QED
    BY <1>1, <2>1, OfCalls
<1> HIDE DEF O
<1>3. /\ Checked \in Seq(Of(O))
      /\ <<Call("clear_errors"), Call("begin_options")>> \in Seq(Of(O))
      /\ <<Call("clear_errors"), Call("wait"), Call("check_errors"), Call("begin_options")>>
           \in Seq(Of(O))
      /\ <<Call("clear_errors"), Call("wait"), Try("begin_options", "relock")>> \in Seq(Of(O))
      /\ <<Call("wait"), Try("change_options", "relock")>> \in Seq(Of(O))
      /\ <<Call("clear_errors"), Try("read_register", "relock"), Try("read_register", "relock")>>
           \in Seq(Of(O))
      /\ <<Try("unsupported", "relock")>> \in Seq(Of(O))
      /\ <<Try("check_errors", "relock")>> \in Seq(Of(O))
  BY <1>2, OfMembers DEF Checked
<1>4. /\ BeginAndCheck \in Seq(Of(O)) /\ WordsThenBegin \in Seq(Of(O))
      /\ OptionRegisterC0 \in Seq(Of(O)) /\ OptionBytesH7 \in Seq(Of(O))
  BY <1>3, SeqConcat DEF BeginAndCheck, WordsThenBegin, OptionRegisterC0, OptionBytesH7
<1>5. /\ AllPaired(chip, BeginAndCheck) /\ AllPaired(chip, WordsThenBegin)
      /\ AllPaired(chip, OptionRegisterC0) /\ AllPaired(chip, OptionBytesH7)
      /\ AllPaired(chip, <<Try("unsupported", "relock")>>)
      /\ AllPaired(chip, <<Try("check_errors", "relock")>>)
      /\ AllPaired(chip, <<Call("clear_errors"), Try("read_register", "relock"),
                           Try("read_register", "relock")>>)
  BY <1>1, <1>3, <1>4, NothingOpened
<1>6. ASSUME chip.type \in {"F0_F1_F3", "F1_XL"}
      PROVE  AllPaired(chip, OptionBytesF0) /\ AllPaired(chip, OptionRegisterF0)
  <2> DEFINE A == <<Call("clear_errors"), Try("erase_options", "relock")>>
             B == <<Try("init_loader", "relock"), Try("program_options", "relock"),
                    Try("check_errors", "relock")>>
             s == (A \o Checked) \o B
  <2>1. OptionBytesF0 = s
    BY DEF OptionBytesF0
  <2>2. A \in Seq(CallRec) /\ B \in Seq(CallRec) /\ Checked \in Seq(CallRec)
    <3>1. /\ Call("clear_errors") \in CallRec /\ Try("erase_options", "relock") \in CallRec
          /\ Call("wait") \in CallRec /\ Try("check_errors", "relock") \in CallRec
          /\ Try("init_loader", "relock") \in CallRec /\ Try("program_options", "relock") \in CallRec
      BY <1>1, CallsAreRecords DEF Ops, FreeOps
    <3> QED
      BY <3>1, OfMembers DEF Checked
  <2>3. /\ Len(A) = 2 /\ A[1].op = "clear_errors" /\ A[2].op = "erase_options"
        /\ Len(Checked) = 2 /\ Checked[1].op = "wait" /\ Checked[2].op = "check_errors"
        /\ Len(B) = 3 /\ B[1].op = "init_loader" /\ B[2].op = "program_options"
        /\ B[3].op = "check_errors"
    BY CallFields DEF Checked
  <2> HIDE DEF A, B
  <2>4. /\ A \o Checked \in Seq(CallRec) /\ Len(A \o Checked) = Len(A) + Len(Checked)
        /\ \A i \in 1 .. Len(A) : (A \o Checked)[i] = A[i]
        /\ \A i \in 1 .. Len(Checked) : (A \o Checked)[Len(A) + i] = Checked[i]
    BY <2>2, ConcatAt
  <2>5. /\ s \in Seq(CallRec) /\ Len(s) = Len(A \o Checked) + Len(B)
        /\ \A i \in 1 .. Len(A \o Checked) : s[i] = (A \o Checked)[i]
        /\ \A i \in 1 .. Len(B) : s[Len(A \o Checked) + i] = B[i]
    BY <2>2, <2>4, ConcatAt
  <2>6. /\ 1 \in 1 .. 2 /\ 2 \in 1 .. 2 /\ 1 \in 1 .. 3 /\ 2 \in 1 .. 3 /\ 3 \in 1 .. 3
        /\ 1 \in 1 .. 4 /\ 2 \in 1 .. 4 /\ 3 \in 1 .. 4 /\ 4 \in 1 .. 4
        /\ 2 + 1 = 3 /\ 2 + 2 = 4 /\ 4 + 1 = 5 /\ 4 + 2 = 6 /\ 4 + 3 = 7
    OBVIOUS
  <2>7. /\ Len(s) = 7 /\ s[1] = A[1] /\ s[2] = A[2] /\ s[3] = Checked[1] /\ s[4] = Checked[2]
        /\ s[5] = B[1] /\ s[6] = B[2] /\ s[7] = B[3]
    <3> HIDE DEF s
    <3>1. Len(A) = 2 /\ Len(Checked) = 2 /\ Len(B) = 3
      BY <2>3
    <3>2. Len(A \o Checked) = 4
      BY <2>4, <3>1, <2>6
    <3>3. /\ (A \o Checked)[1] = A[1] /\ (A \o Checked)[2] = A[2]
          /\ (A \o Checked)[3] = Checked[1] /\ (A \o Checked)[4] = Checked[2]
      BY <2>4, <2>6, <3>1
    <3>4. Len(s) = 7
      BY <2>5, <2>6, <3>1, <3>2
    <3>5. s[5] = B[1] /\ s[6] = B[2] /\ s[7] = B[3]
      BY <2>5, <2>6, <3>1, <3>2
    <3> QED
      BY <2>5, <2>6, <3>2, <3>3, <3>4, <3>5
  <2> HIDE DEF s
  <2>8. /\ Len(s) = 7 /\ s[1].op = "clear_errors" /\ s[2].op = "erase_options" /\ s[3].op = "wait"
        /\ s[4].op = "check_errors" /\ s[5].op = "init_loader" /\ s[6].op = "program_options"
        /\ s[7].op = "check_errors"
    BY <2>3, <2>7
  <2>9. \A i \in 1 .. 7 : i = 1 \/ i = 2 \/ i = 3 \/ i = 4 \/ i = 5 \/ i = 6 \/ i = 7
    OBVIOUS
  <2>10. ASSUME NEW r \in Resources  PROVE Paired(chip, s, r)
    <3>1. CASE r # "opt"
      <4>1. \A f \in {"clear_errors", "erase_options", "wait", "check_errors", "init_loader",
                      "program_options"} : f \notin Openers(chip, r)
        BY <1>6, <3>1 DEF Openers, Resources
      <4>2. \A i \in 1 .. 7 : s[i].op \notin Openers(chip, r)
        BY <2>8, <2>9, <4>1
      <4> QED
        BY <2>8, <4>2 DEF Paired
    <3>2. CASE r = "opt"
      <4>1. /\ Openers(chip, r) = {"erase_options"} /\ "program_options" \in Closers(chip, r)
            /\ \A f \in {"wait", "check_errors", "init_loader"} : Between(r, f)
        BY <3>2 DEF Openers, Closers, Between, Meanwhile
      <4>2. 6 \in 2 + 1 .. 7 /\ \A m \in 2 + 1 .. 6 - 1 : m = 3 \/ m = 4 \/ m = 5
        OBVIOUS
      <4>3. \A i \in 1 .. 7 : s[i].op \in Openers(chip, r) => i = 2
        BY <2>8, <2>9, <4>1
      <4>4. \A m \in 2 + 1 .. 6 - 1 : Between(r, s[m].op)
        BY <2>8, <4>1, <4>2
      <4> QED
        BY <2>8, <4>1, <4>2, <4>3, <4>4 DEF Paired
    <3> QED
      BY <3>1, <3>2
  <2>11. AllPaired(chip, OptionBytesF0)
    BY <2>1, <2>5, <2>10 DEF AllPaired
  <2> QED
    BY <1>5, <2>11, AllConcat DEF OptionRegisterF0
<1>7. /\ OptionBytesF4 = BeginAndCheck /\ OptionBytesF7 = BeginAndCheck
      /\ OptionRegisterF7 = BeginAndCheck /\ OptionRegister1F7 = BeginAndCheck
      /\ OptionBytesGx = BeginAndCheck /\ OptionBytesL0 = BeginAndCheck
      /\ OptionBytesL4 = BeginAndCheck /\ OptionRegisterWb = BeginAndCheck
      /\ OptionBytesWb = WordsThenBegin /\ OptionBytesL5 = WordsThenBegin
  BY DEF OptionBytesF4, OptionBytesF7, OptionRegisterF7, OptionRegister1F7, OptionBytesGx,
         OptionBytesL0, OptionBytesL4, OptionRegisterWb, OptionBytesWb, OptionBytesL5
<1>8. chip.type \in Families
  BY DEF Chips
<1>9. CASE ~Implements(do)
  BY <1>5, <1>9 DEF ProgramOptions
<1>10. CASE Implements(do)
  <2>1. chip.type \notin {"H5", "C5", "WB0"}
    BY <1>10 DEF OptionCommands, Implements, HasOptionLock
  <2>2. CASE chip.type \in {"F0_F1_F3", "F1_XL"}
    BY <1>6, <1>10, <2>2 DEF ProgramOptions
  <2>3. CASE chip.type \notin {"F0_F1_F3", "F1_XL"}
    BY <1>5, <1>7, <1>8, <1>10, <2>1, <2>3 DEF ProgramOptions, Families
  <2> QED
    BY <2>2, <2>3
<1> QED
  BY <1>9, <1>10

\* The writers close both locks they open.
LEMMA WriteOptionsPaired ==
  ASSUME chip \in Chips, NEW do \in OptionCommands, NEW l \in Labels
  PROVE  AllPaired(chip, WriteOptions(do, l))
<1> DEFINE O == {"wait", "unlock", "unlock_options"}
           N == {"relock", "lock"}
           A == <<Call("wait"), Try("unlock", l), Try("unlock_options", l)>>
           B == ProgramOptions(do)
           C == <<Call("relock"), Call("lock")>>
<1>1. /\ O \in SUBSET (Ops \cup {"leave"}) /\ N \in SUBSET (Ops \cup {"leave"})
      /\ N \cap Openings = {}
      /\ \A r \in Resources : r \notin {"lock", "optlock"} => O \cap Openers(chip, r) = {}
      /\ "lock" # "opt" /\ "optlock" # "opt" /\ "lock" \in Resources /\ "optlock" \in Resources
  BY DEF Ops, FreeOps, LabelOps, Resources, Openers, Openings
<1>2. /\ Call("wait") \in Of(O) /\ Try("unlock", l) \in Of(O) /\ Try("unlock_options", l) \in Of(O)
      /\ Call("relock") \in Of(N) /\ Call("lock") \in Of(N)
  <2>1. "wait" \in O /\ "unlock" \in O /\ "unlock_options" \in O /\ "relock" \in N /\ "lock" \in N
    OBVIOUS
  <2> HIDE DEF O, N
  <2> QED
    BY <1>1, <2>1, OfCalls
<1> HIDE DEF O, N
<1>3. A \in Seq(Of(O)) /\ C \in Seq(Of(N))
  BY <1>2, OfMembers
<1>4. AllPaired(chip, B)
  BY ProgramOptionsPaired
<1>5. AllPaired(chip, C)
  BY <1>1, <1>3, NothingOpened
<1>6. Len(C) = 2 /\ C[1].op = "relock" /\ C[2].op = "lock"
  BY CallFields
<1>7. WriteOptions(do, l) = (A \o B) \o C
  BY DEF WriteOptions
<1> HIDE DEF A, B, C
<1>8. A \in Seq(CallRec) /\ B \in Seq(CallRec) /\ C \in Seq(CallRec) /\ A \o B \in Seq(CallRec)
  <2>1. Of(O) \subseteq CallRec
    BY DEF Of
  <2>2. A \in Seq(CallRec) /\ B \in Seq(CallRec) /\ C \in Seq(CallRec)
    BY <1>3, <1>4, <1>5, <2>1, SeqMonotonic DEF AllPaired
  <2> QED
    BY <2>2, ConcatAt
<1>9. ASSUME NEW r \in Resources  PROVE Paired(chip, (A \o B) \o C, r)
  <2>1. CASE r \notin {"lock", "optlock"}
    <3>1. Paired(chip, A, r)
      BY <1>1, <1>3, <2>1, NoneOpens
    <3>2. Paired(chip, A \o B, r)
      BY <1>4, <1>8, <3>1, PairedConcat DEF AllPaired
    <3> QED
      BY <1>5, <1>8, <3>2, PairedConcat DEF AllPaired
  <2>2. CASE Openers(chip, r) = {}
    BY <2>2 DEF Paired
  <2>3. CASE r \in {"lock", "optlock"} /\ Openers(chip, r) # {}
    <3>1. \E j \in 1 .. 2 : C[j].op \in Closers(chip, r) /\ r # "opt"
      <4>1. 1 \in 1 .. 2 /\ 2 \in 1 .. 2
        OBVIOUS
      <4> QED
        BY <1>6, <2>3, <4>1 DEF Openers, Closers
    <3>2. Closes(chip, C, r) /\ r # "opt"
      BY <1>6, <3>1 DEF Closes, Between
    <3> QED
      BY <1>5, <1>8, <3>2, PairedConcat DEF AllPaired
  <2> QED
    BY <2>1, <2>2, <2>3
<1> QED
  BY <1>7, <1>8, <1>9, ConcatAt DEF AllPaired

\* Every branch of main closes what it opens, and so does main.
MainOps == {"force_debug", "status", "finalize", "result", "erase_section", "reset", "run", "succeed",
            "leave"}
\* The calls that main adds to those of its branches open nothing.
LEMMA MainCalls ==
  /\ \A f \in MainOps : Call(f) \in Of(MainOps) /\ \A l \in Labels : Try(f, l) \in Of(MainOps)
  /\ \A n, m \in Nat : \A l \in Labels : Over("erase_section", n, m, l) \in Of(MainOps)
  /\ \A c : \A s \in Seq(Of(MainOps)) : AllPaired(c, s)
  /\ "result" \in Labels /\ "leave" \in Labels /\ "finalize" \in Labels
<1>1. MainOps \in SUBSET (Ops \cup {"leave"}) /\ MainOps \cap Openings = {} /\ "erase_section" \in MainOps
  BY DEF MainOps, Ops, FreeOps, LabelOps, RangeOps, Openings
<1> QED
  BY <1>1, OfCalls, NothingOpened DEF Labels

\* ... whatever the command line.
LEMMA MainPaired ==
  ASSUME chip \in Chips, NEW k, Asking(k), NEW again \in BOOLEAN
  PROVE  AllPaired(chip, Main(k, again))
<1> DEFINE S == Of(MainOps)
<1>1. /\ k.do \in {"write", "erase", "reset", "option_file", "option_bytes", "optcr", "optcr1"}
      /\ k \in CommandLine /\ k.addr \in Nat /\ k.addr + k.len \in Nat
  BY DEF Asking, CommandLine
<1>2. /\ Try("force_debug", "leave") \in S /\ Try("status", "leave") \in S /\ Call("reset") \in S
      /\ Call("run") \in S /\ Call("succeed") \in S /\ Call("leave") \in S
      /\ Try("result", "leave") \in S /\ Call("finalize") \in S /\ Try("reset", "leave") \in S
      /\ Call("result") \in S /\ Over("erase_section", k.addr, k.addr + k.len, "result") \in S
  <2>1. /\ "force_debug" \in MainOps /\ "status" \in MainOps /\ "finalize" \in MainOps
        /\ "result" \in MainOps /\ "reset" \in MainOps /\ "run" \in MainOps
        /\ "succeed" \in MainOps /\ "leave" \in MainOps
    BY DEF MainOps
  <2> QED
    BY <1>1, <2>1, MainCalls
<1> HIDE DEF S
<1>3. /\ <<Try("force_debug", "leave"), Try("status", "leave")>> \in Seq(S)
      /\ <<Call("reset")>> \in Seq(S) /\ <<>> \in Seq(S)
      /\ <<Call("run"), Call("succeed"), Call("leave")>> \in Seq(S)
      /\ <<Try("result", "leave")>> \in Seq(S) /\ <<Call("result")>> \in Seq(S)
      /\ <<Call("finalize"), Try("result", "leave")>> \in Seq(S)
      /\ <<Try("result", "leave"), Try("reset", "leave")>> \in Seq(S)
      /\ <<Try("reset", "leave"), Call("run")>> \in Seq(S)
      /\ <<Over("erase_section", k.addr, k.addr + k.len, "result")>> \in Seq(S)
  BY <1>2, OfMembers, EmptyIn
<1>4. \A s \in Seq(S) : AllPaired(chip, s)
  BY MainCalls DEF S
<1>5. "result" \in Labels /\ "leave" \in Labels /\ "finalize" \in Labels
  BY MainCalls
<1>6. AllPaired(chip, EraseFlashMass("result"))
  BY <1>5, EraseMassPaired
<1>7. AllPaired(chip, Command(k))
  <2>1. CASE k.do = "write"
    <3> DEFINE X == IF k.mass THEN EraseFlashMass("result") \o <<Try("result", "leave")>> ELSE <<>>
               Y == WriteFlash(k, "finalize")
               Z == <<Call("finalize"), Try("result", "leave")>>
    <3>1. AllPaired(chip, X)
      BY <1>3, <1>4, <1>6, AllConcat
    <3>2. AllPaired(chip, Y)
      BY <1>1, <1>5, WriteFlashPaired
    <3>3. AllPaired(chip, Z)
      BY <1>3, <1>4
    <3>4. Command(k) = (X \o Y) \o Z
      BY <2>1 DEF Command
    <3> HIDE DEF X, Y, Z
    <3> QED
      BY <3>1, <3>2, <3>3, <3>4, AllConcat
  <2>2. CASE k.do = "erase"
    <3> DEFINE X == IF k.mass THEN EraseFlashMass("result")
                    ELSE <<Over("erase_section", k.addr, k.addr + k.len, "result")>>
               Z == <<Try("result", "leave"), Try("reset", "leave")>>
    <3>1. AllPaired(chip, X)
      BY <1>3, <1>4, <1>6
    <3>2. AllPaired(chip, Z)
      BY <1>3, <1>4
    <3>3. Command(k) = X \o Z
      BY <2>2 DEF Command
    <3> HIDE DEF X, Z
    <3> QED
      BY <3>1, <3>2, <3>3, AllConcat
  <2>3. CASE k.do = "reset"
    <3>1. Command(k) = <<Try("reset", "leave"), Call("run")>>
      BY <2>3 DEF Command
    <3> QED
      BY <1>3, <1>4, <3>1
  <2>4. CASE k.do \in OptionCommands
    <3>1. AllPaired(chip, WriteOptions(k.do, "finalize")) /\ AllPaired(chip, WriteOptions(k.do, "result"))
      BY <1>5, <2>4, WriteOptionsPaired
    <3>2. \/ Command(k) = WriteOptions(k.do, "finalize") \o <<Call("finalize"), Try("result", "leave")>>
          \/ Command(k) = WriteOptions(k.do, "result") \o <<Try("result", "leave")>>
          \/ Command(k) = WriteOptions(k.do, "result") \o <<Call("result")>>
      BY <2>4 DEF Command, OptionCommands
    <3> QED
      BY <1>3, <1>4, <3>1, <3>2, AllConcat
  <2> QED
    BY <1>1, <2>1, <2>2, <2>3, <2>4 DEF OptionCommands
<1> DEFINE A == <<Try("force_debug", "leave"), Try("status", "leave")>>
           B == Command(k)
           C == IF again THEN <<Call("reset")>> ELSE <<>>
           D == <<Call("run"), Call("succeed"), Call("leave")>>
<1>8. AllPaired(chip, A) /\ AllPaired(chip, C) /\ AllPaired(chip, D)
  BY <1>3, <1>4
<1>9. Main(k, again) = ((A \o B) \o C) \o D
  BY DEF Main
<1> HIDE DEF A, B, C, D
<1> QED
  BY <1>7, <1>8, <1>9, AllConcat DEF B
=============================================================================
