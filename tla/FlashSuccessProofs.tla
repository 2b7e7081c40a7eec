------------------------- MODULE FlashSuccessProofs -------------------------
(***************************************************************************)
(* Proofs about FlashTool: what it means that a command succeeds, and why  *)
(* one fails.  One with nothing lost closes whatever it opened             *)
(* (AlwaysTidyAfterSuccess); no write succeeds one of whose calls failed   *)
(* (AlwaysFailureIsTold), or whose pages are not as the file has them      *)
(* (AlwaysWrittenAfterSuccess), and no erase whose pages are not blank     *)
(* (AlwaysSuccessMeansWritten).  With nothing lost and a controller that was*)
(* in order, no command fails that the chip can do (AlwaysFailsForAReason).*)
(*                                                                         *)
(* The last two share an argument: a list of calls leads from one set of   *)
(* controllers to another, whatever is made of them in between.            *)
(***************************************************************************)
EXTENDS FlashToolProofs

-----------------------------------------------------------------------------
(***************************************************************************)
(* While nothing is lost and nothing fails, what is open is about to be    *)
(* closed.                                                                 *)
(***************************************************************************)
Smooth == killed = "" /\ ~failed /\ lost = {} /\ tidy
Orderly ==
  /\ ~failed => ret = 0
  /\ Smooth => \A r \in Resources :
                 Paired(chip, todo, r) /\ Handled(chip, todo, target, backup, r)

\* What a call becomes closes what it opens.
LEMMA BecomesPaired ==
  ASSUME TypeOK, EraseSection \/ EraseNext \/ WritePage \/ CheckRange \/ Unsupported
  PROVE  /\ todo # <<>> /\ Step.op \in Replaced
         /\ \E ok \in BOOLEAN : \E calls : AllPaired(chip, calls) /\ Becomes(ok, calls)
<1> DEFINE N == RangeOps \cup {"leave"}
           O == {"unlock", "load"}
<1>1. todo # <<>> /\ Step.op \in Replaced
  BY DEF EraseSection, EraseNext, WritePage, CheckRange, Unsupported, At, Replaced
<1>2. Step \in CallRec /\ chip \in Chips /\ Step.at \in Nat /\ Fits(cmd, Step)
  BY <1>1, HeadIs DEF TypeOK
<1>3. Step.op \in RangeOps => Step.to \in Labels
  BY <1>2 DEF Fits
<1>4. N \cap Openings = {} /\ N \in SUBSET (Ops \cup {"leave"})
  BY DEF RangeOps, Openings, Ops
<1>5. ASSUME NEW f \in RangeOps, NEW n \in Nat
      PROVE  [Step EXCEPT !.op = f, !.at = n] \in Of(N)
  BY <1>2, <1>4, <1>5 DEF Of, CallRec, Ops
<1>6. AllPaired(chip, <<>>)
  BY <1>4, EmptyIn, NothingOpened
<1>7. ASSUME NEW f \in RangeOps, NEW n \in Nat
      PROVE  AllPaired(chip, <<[Step EXCEPT !.op = f, !.at = n]>>)
  BY <1>4, <1>5, OfMembers, NothingOpened
<1>8. ASSUME NEW f \in RangeOps
      PROVE  [Step EXCEPT !.op = f] = [Step EXCEPT !.op = f, !.at = Step.at]
  BY <1>2 DEF CallRec
<1>9. ASSUME NEW n \in Nat
      PROVE  [Step EXCEPT !.at = n] = [Step EXCEPT !.op = Step.op, !.at = n]
  BY <1>2 DEF CallRec
<1>10. /\ PageSize(chip, Step.at) \in Nat
       /\ FirstUnit(chip, PageAt(chip, Step.at)) + Extent(chip, PageAt(chip, Step.at)) \in Nat
  BY <1>2, PageSizes, PageIs, PagesJoin
<1>11. CASE EraseSection
  <2> DEFINE ok == InFlash(Step.at, Step.end) /\ Aligned(Step.at)
             calls == <<[Step EXCEPT !.op = "erase_next"]>>
  <2>1. Becomes(ok, calls) /\ ok \in BOOLEAN
    BY <1>11 DEF EraseSection
  <2>2. "erase_next" \in RangeOps
    BY DEF RangeOps
  <2>3. AllPaired(chip, calls)
    BY <1>2, <1>7, <1>8, <2>2
  <2> HIDE DEF ok, calls
  <2> QED
    BY <1>1, <2>1, <2>3
<1>12. CASE EraseNext
  <2> DEFINE next == Step.at + PageSize(chip, Step.at)
             rest == IF next < Step.end THEN <<[Step EXCEPT !.at = next]>> ELSE <<>>
             ok == next <= Step.end \/ cmd.do = "write"
             body == EraseFlashPage(Step.at, Step.to)
  <2>1. Becomes(ok, body \o rest) /\ ok \in BOOLEAN /\ Step.op = "erase_next"
    BY <1>12 DEF EraseNext, At
  <2>2. next \in Nat /\ Step.op \in RangeOps
    BY <1>2, <1>10, <2>1 DEF RangeOps
  <2>3. AllPaired(chip, body)
    BY <1>2, <1>3, <2>2, ErasePagePaired
  <2> HIDE DEF ok, body, next
  <2>4. AllPaired(chip, rest)
    <3>1. AllPaired(chip, <<[Step EXCEPT !.at = next]>>)
      BY <1>7, <1>9, <2>2
    <3> QED
      BY <1>6, <3>1
  <2> HIDE DEF rest
  <2>5. AllPaired(chip, body \o rest)
    BY <2>3, <2>4, AllConcat
  <2> QED
    BY <1>1, <2>1, <2>5
<1>13. CASE WritePage
  <2> DEFINE next == FirstUnit(chip, PageAt(chip, Step.at)) + Extent(chip, PageAt(chip, Step.at))
             load == <<[Step EXCEPT !.op = "load"]>>
             page == IF chip.type \in {"F0_F1_F3", "F1_XL"}
                     THEN <<Call("unlock")>> \o load \o <<Call("lock")>> ELSE load
             rest == IF next < Step.end THEN <<[Step EXCEPT !.at = next]>> ELSE <<>>
  <2>1. Becomes(TRUE, page \o rest) /\ Step.op = "write"
    BY <1>13 DEF WritePage, At
  <2>2. next \in Nat /\ Step.op \in RangeOps /\ "load" \in RangeOps
    BY <1>10, <2>1 DEF RangeOps
  <2>3. AllPaired(chip, load)
    BY <1>2, <1>7, <1>8, <2>2
  <2>4. [Step EXCEPT !.op = "load"] \in CallRec
    BY <1>2, <2>2 DEF CallRec, Ops
  <2> HIDE DEF next
  <2>5. AllPaired(chip, rest)
    <3>1. AllPaired(chip, <<[Step EXCEPT !.at = next]>>)
      BY <1>7, <1>9, <2>2
    <3> QED
      BY <1>6, <3>1
  <2>6. ASSUME chip.type \in {"F0_F1_F3", "F1_XL"}
        PROVE  AllPaired(chip, <<Call("unlock")>> \o load \o <<Call("lock")>>)
    <3> DEFINE A == <<Call("unlock")>> \o load
               Z == <<Call("lock")>>
    <3>1. O \in SUBSET (Ops \cup {"leave"}) /\ {"lock"} \in SUBSET (Ops \cup {"leave"})
          /\ {"lock"} \cap Openings = {}
      BY DEF Ops, FreeOps, RangeOps, Openings
    <3>2. Call("unlock") \in Of(O) /\ Call("lock") \in Of({"lock"})
      BY <3>1, OfCalls
    <3>3. [Step EXCEPT !.op = "load"] \in Of(O)
      BY <1>2, <2>4 DEF Of, CallRec
    <3>4. <<Call("unlock")>> \in Seq(Of(O)) /\ load \in Seq(Of(O)) /\ Z \in Seq(Of({"lock"}))
      BY <3>2, <3>3, OfMembers
    <3>5. AllPaired(chip, Z)
      BY <3>1, <3>4, NothingOpened
    <3>6. Len(Z) = 1 /\ Z[1].op = "lock"
      BY CallFields
    <3> HIDE DEF Z, load
    <3>7. A \in Seq(Of(O))
      BY <3>4, SeqConcat
    <3> HIDE DEF A
    <3>8. Closes(chip, Z, "lock")
      <4>1. 1 \in 1 .. 1 /\ "lock" # "opt"
        OBVIOUS
      <4>2. "lock" \in Closers(chip, "lock")
        BY <2>6 DEF Closers
      <4> QED
        BY <3>6, <4>1, <4>2 DEF Closes, Between
    <3>9. \A r \in Resources : O \cap Openers(chip, r) = {} \/ (r # "opt" /\ Closes(chip, Z, r))
      <4>1. \A r \in Resources : r # "lock" => O \cap Openers(chip, r) = {}
        BY DEF Openers, Resources
      <4> QED
        BY <3>8, <4>1
    <3>10. AllPaired(chip, A \o Z)
      BY <3>5, <3>7, <3>9, ClosedAfter
    <3> QED
      BY <3>10 DEF A, Z
  <2> HIDE DEF load, rest
  <2>7. AllPaired(chip, page)
    BY <2>3, <2>6
  <2> HIDE DEF page
  <2>8. AllPaired(chip, page \o rest)
    BY <2>5, <2>7, AllConcat
  <2> QED
    BY <1>1, <2>1, <2>8
<1>14. CASE CheckRange
  <2> DEFINE ok == InFlash(Step.at, Step.end) /\ (Padded(cmd) \/ Aligned(Step.at))
  <2>1. Becomes(ok, <<>>) /\ ok \in BOOLEAN
    BY <1>14 DEF CheckRange
  <2> HIDE DEF ok
  <2> QED
    BY <1>1, <1>6, <2>1
<1>15. CASE Unsupported
  <2>1. Becomes(FALSE, <<>>)
    BY <1>15 DEF Unsupported
  <2> QED
    BY <1>1, <1>6, <2>1
<1> QED
  BY <1>11, <1>12, <1>13, <1>14, <1>15

\* A call that becomes others leaves each resource closed, or about to be.
LEMMA ReplaceHandles ==
  ASSUME NEW c, NEW s \in Seq(CallRec), s # <<>>, s[1].op \in Replaced, NEW calls,
         AllPaired(c, calls), NEW t, NEW a, NEW r \in Resources,
         Paired(c, s, r), Handled(c, s, t, a, r)
  PROVE  Paired(c, calls \o Tail(s), r) /\ Handled(c, calls \o Tail(s), t, a, r)
<1> DEFINE f == s[1].op
<1>1. f \notin Closers(c, r) /\ f \notin Meanwhile
  BY DEF Replaced, Closers, Meanwhile, Resources
<1>2. /\ Paired(c, Tail(s), r)
      /\ Closes(c, s, r) => Between(r, f) /\ Closes(c, Tail(s), r)
  BY <1>1, PairedTail
<1>3. Tail(s) \in Seq(CallRec) /\ calls \in Seq(CallRec)
  BY TailRest DEF AllPaired
<1> HIDE DEF f
<1>4. Paired(c, calls \o Tail(s), r)
  BY <1>2, <1>3, PairedConcat DEF AllPaired
<1>5. CASE Settled(c, t, a, r)
  BY <1>4, <1>5 DEF Handled
<1>6. CASE ~Settled(c, t, a, r)
  <2>1. Between(r, f) /\ Closes(c, Tail(s), r)
    BY <1>2, <1>6 DEF Handled
  <2>2. r # "opt"
    BY <1>1, <2>1 DEF Between
  <2>3. Closes(c, calls \o Tail(s), r)
    BY <1>3, <2>1, <2>2, ClosesConcat
  <2> QED
    BY <1>4, <2>2, <2>3 DEF Handled
<1> QED
  BY <1>5, <1>6

\* A controller in order has everything closed.
LEMMA InOrderSettles ==
  ASSUME chip \in Chips, NEW t \in Controller(chip), InOrder(t), NEW r \in Resources
  PROVE  Settled(chip, t, FALSE, r)
<1>1. /\ \A b \in Registers(chip) : t.cr[b] = CrAtReset(chip)[b] /\ t.job[b] = {}
      /\ t.optlock /\ t.opt # "blank"
  BY DEF InOrder
<1>2. Registers(chip) \subseteq Bank /\ 1 \in Registers(chip)
  BY RegistersAre
<1>3. /\ chip.type # "WB0" => \A b \in Registers(chip) : "LOCK" \in t.cr[b]
      /\ chip.type = "L0_L1" => "PRGLOCK" \in t.cr[1]
  BY <1>1, <1>2 DEF CrAtReset
<1> QED
  BY <1>1, <1>3 DEF Settled, Resources

\* The end of an erase closes nothing else.
LEMMA FinishSettles ==
  ASSUME NEW c \in Chips, NEW t \in Controller(c), NEW b \in Bank, NEW a, NEW r \in Resources
  PROVE  /\ Settled(c, t, a, r) => Settled(c, Finish(t, b), a, r)
         /\ OptionsOpen(t) => OptionsOpen(Finish(t, b))
<1> DEFINE u == Finish(t, b)
<1>1. /\ u.cr = t.cr /\ u.opt = t.opt /\ u.optlock = t.optlock /\ u.dma = t.dma
      /\ \A d \in Bank : u.job[d] \subseteq t.job[d]
  BY FinishIs DEF Finish, Controller
<1>2. Registers(c) \subseteq Bank
  BY RegistersAre
<1> HIDE DEF u
<1>3. \A d \in Registers(c) : t.job[d] = {} => u.job[d] = {}
  BY <1>1, <1>2
<1>4. Settled(c, t, a, r) => Settled(c, u, a, r)
  BY <1>1, <1>3 DEF Settled, Resources
<1>5. OptionsOpen(t) => OptionsOpen(u)
  BY <1>1 DEF OptionsOpen
<1> QED
  BY <1>4, <1>5 DEF u

\* A call that is made and does not fail leaves the result as it is.
LEMMA MadeReturns ==
  ASSUME TypeOK, Made
  PROVE  ~failed' => ~failed /\ ret' = ret
<1>1. PICK l \in Either : \E ok : Link(l) /\ Returns(ok)
  BY DEF Made
<1>2. PICK ok : Link(l) /\ Returns(ok)
  BY <1>1
<1> QED
  BY <1>2 DEF Returns

\* Orderly after a call that succeeded.
LEMMA OrderlyAdvance ==
  ASSUME TypeOK, Orderly, Smooth, todo # <<>>, Step.op \notin Replaced,
         Does(chip, Step, target, backup, target', backup'), todo' = Tail(todo), chip' = chip
  PROVE  \A r \in Resources :
           Paired(chip', todo', r) /\ Handled(chip', todo', target', backup', r)
<1>1. chip \in Chips /\ target \in Controller(chip)
  BY DEF TypeOK
<1>2. todo \in Seq(CallRec) /\ Step \in CallRec /\ Fits(cmd, Step) /\ Step.at \in Nat
  BY HeadIs
<1>3. Sound(chip, Step)
  BY <1>2 DEF Sound, Fits, CallRec
<1>4. Step.op \notin RangeOps \ {"load"} /\ Step.op \notin Refusals
  BY DEF Replaced, RangeOps, Refusals
<1>5. Step = todo[1]
  BY DEF Step
<1>6. ASSUME NEW r \in Resources
      PROVE  Paired(chip, Tail(todo), r) /\ Handled(chip, Tail(todo), target', backup', r)
  <2>1. Paired(chip, todo, r) /\ Handled(chip, todo, target, backup, r)
    BY DEF Orderly
  <2> QED
    BY <1>1, <1>2, <1>3, <1>4, <1>5, <2>1, Advance
<1> QED
  BY <1>6

\* Orderly is kept by every step.
LEMMA OrderlyStep ==
  ASSUME TypeOK, Orderly, Next, TypeOK'
  PROVE  Orderly'
<1>0. chip \in Chips /\ target \in Controller(chip)
  BY DEF TypeOK
<1>1. ASSUME Made, Step.op \notin Replaced, lost' = {} => GoodCall
      PROVE  Orderly'
  <2>1. ~failed' => ret' = 0
    BY <1>1, MadeReturns DEF Orderly
  <2>2. ASSUME Smooth'
        PROVE  \A r \in Resources :
                 Paired(chip', todo', r) /\ Handled(chip', todo', target', backup', r)
    <3>1. lost' = {} /\ ~failed' /\ killed' = "" /\ tidy'
      BY <2>2 DEF Smooth
    <3>2. GoodCall
      BY <1>1, <3>1
    <3>3. /\ todo # <<>> /\ Does(chip, Step, target, backup, target', backup') /\ lost = {}
          /\ chip' = chip /\ killed' = killed /\ tidy' = tidy
      BY <3>2 DEF GoodCall
    <3>4. todo' = Tail(todo) /\ failed' = failed
      BY <3>1, <3>2 DEF GoodCall, Succeeds, FailsThen
    <3>5. Smooth
      BY <3>1, <3>3, <3>4 DEF Smooth
    <3> QED
      BY <1>1, <3>3, <3>4, <3>5, OrderlyAdvance
  <2> QED
    BY <2>1, <2>2 DEF Orderly
<1>2. CASE \/ Wait \/ ClearErrors \/ CheckErrors \/ Unlock \/ Lock \/ UnlockOptions \/ Relock
           \/ SetPg \/ ClearPg \/ ClearPer \/ SetMer \/ ClearMer \/ UnlockPecr \/ LockPecr
           \/ RestoreDma \/ InitLoader \/ ReadRegister \/ Unmask \/ EraseOptions \/ ProgramOption
           \/ BeginOptions \/ ChangeOptions \/ ForceDebug \/ Status \/ RunCore \/ Finalize \/ StopDma
           \/ Verify
  <2>1. Made /\ Step.op \notin Replaced
    BY <1>2, SteadyCalls
  <2>2. lost' = {} => GoodCall
    BY <1>2, GoodStep
  <2> QED
    BY <1>1, <2>1, <2>2
<1>3. CASE \/ SelectPageToErase \/ SetPer \/ Start \/ EraseWord \/ CommandPageErase
           \/ CommandMassErase \/ Load \/ ResetTarget \/ Leave
  <2>1. Made /\ Step.op \in Touching \cup {"leave"}
    BY <1>3, TouchingType
  <2>2. Step.op \notin Replaced
    BY <2>1 DEF Touching, Replaced
  <2>3. lost' = {} => GoodCall
    BY <1>3, GoodStep
  <2> QED
    BY <1>1, <2>1, <2>2, <2>3
<1>4. CASE EraseSection \/ EraseNext \/ WritePage \/ CheckRange \/ Unsupported
  <2>1. /\ todo # <<>> /\ Step.op \in Replaced
        /\ \E ok \in BOOLEAN : \E calls : AllPaired(chip, calls) /\ Becomes(ok, calls)
    BY <1>4, BecomesPaired
  <2>2. PICK ok \in BOOLEAN : \E calls : AllPaired(chip, calls) /\ Becomes(ok, calls)
    BY <2>1, Zenon
  <2>3. PICK calls : AllPaired(chip, calls) /\ Becomes(ok, calls)
    BY <2>2, Zenon
  <2>4. /\ chip' = chip /\ target' = target /\ backup' = backup /\ lost' = lost
        /\ killed' = killed /\ tidy' = tidy
    BY <2>3 DEF Becomes
  <2>5. ~failed' => ~failed /\ ok /\ ret' = ret /\ todo' = calls \o Tail(todo)
    BY <2>3 DEF Becomes
  <2>6. todo \in Seq(CallRec) /\ Step = todo[1]
    BY <2>1, HeadIs DEF Step
  <2>7. ASSUME Smooth', NEW r \in Resources
        PROVE  Paired(chip', todo', r) /\ Handled(chip', todo', target', backup', r)
    <3>1. Smooth /\ todo' = calls \o Tail(todo)
      BY <2>4, <2>5, <2>7 DEF Smooth
    <3>2. Paired(chip, todo, r) /\ Handled(chip, todo, target, backup, r)
      BY <3>1 DEF Orderly
    <3>3. /\ Paired(chip, calls \o Tail(todo), r)
          /\ Handled(chip, calls \o Tail(todo), target, backup, r)
      BY <2>1, <2>3, <2>6, <3>2, ReplaceHandles
    <3> QED
      BY <2>4, <3>1, <3>3
  <2> QED
    BY <2>5, <2>7 DEF Orderly
<1>5. CASE Begin
  <2>1. PICK k \in Lines(chip), how \in Connects, soft \in BOOLEAN, again \in BOOLEAN,
             known \in BOOLEAN :
          /\ todo' = IF known THEN Main(k, again) ELSE <<CallOn("leave", 1)>>
          /\ lost' = IF known THEN {} ELSE {"identify"}
          /\ tidy' = InOrder(target')
    BY <1>5, ZenonT(40) DEF Begin
  <2>2. ret' = 0 /\ backup' = FALSE /\ chip' = chip
    BY <1>5, ZenonT(40) DEF Begin
  <2>3. target' \in Controller(chip)
    <3>1. target' \in Controller(chip')
      BY DEF TypeOK
    <3> QED
      BY <2>2, <3>1
  <2>4. ASSUME Smooth', NEW r \in Resources
        PROVE  Paired(chip, todo', r) /\ Handled(chip, todo', target', backup', r)
    <3>1. known /\ InOrder(target')
      BY <2>1, <2>4 DEF Smooth
    <3>2. Asking(k)
      BY <1>0, LinesAre
    <3>3. AllPaired(chip, todo')
      BY <1>0, <2>1, <3>1, <3>2, MainPaired
    <3>4. Settled(chip, target', backup', r)
      BY <1>0, <2>2, <2>3, <3>1, InOrderSettles
    <3> QED
      BY <3>3, <3>4 DEF AllPaired, Handled
  <2> QED
    BY <2>2, <2>4 DEF Orderly
<1>6. CASE Interrupt \/ Unplugged
  <2>1. killed' # "" /\ ret' = ret /\ failed' = failed
    BY <1>6 DEF Interrupt, Unplugged
  <2> QED
    BY <2>1 DEF Orderly, Smooth
<1>7. CASE EraseEnds
  <2>1. PICK b \in Bank : target' = Finish(target, b)
    BY <1>7 DEF EraseEnds
  <2>2. /\ chip' = chip /\ todo' = todo /\ ret' = ret /\ backup' = backup /\ lost' = lost
        /\ failed' = failed /\ killed' = killed /\ tidy' = tidy
    BY <1>7 DEF EraseEnds, call, history
  <2>3. ASSUME Smooth', NEW r \in Resources
        PROVE  Paired(chip, todo, r) /\ Handled(chip, todo, target', backup, r)
    <3>1. Smooth
      BY <2>2, <2>3 DEF Smooth
    <3>2. Paired(chip, todo, r) /\ Handled(chip, todo, target, backup, r)
      BY <3>1 DEF Orderly
    <3>3. /\ Settled(chip, target, backup, r) => Settled(chip, target', backup, r)
          /\ OptionsOpen(target) => OptionsOpen(target')
      BY <1>0, <2>1, FinishSettles
    <3> QED
      BY <3>2, <3>3 DEF Handled
  <2> QED
    BY <2>2, <2>3 DEF Orderly
<1>8. CASE Result \/ Succeed
  <2>1. /\ todo # <<>> /\ Step.op \in {"result", "succeed"}
        /\ chip' = chip /\ target' = target /\ backup' = backup /\ lost' = lost
        /\ failed' = failed /\ killed' = killed /\ tidy' = tidy
    BY <1>8 DEF Result, Succeed, At, history
  <2>2. ~failed => ret' = 0
    BY <1>8 DEF Result, Succeed, Orderly
  <2>3. ~failed => todo' = Tail(todo)
    BY <1>8 DEF Result, Succeed, Orderly
  <2>4. Does(chip, Step, target, backup, target', backup')
    BY <2>1 DEF Does, Alike, Idle
  <2>5. Step.op \notin Replaced
    BY <2>1 DEF Replaced
  <2>6. ASSUME Smooth'
        PROVE  \A r \in Resources :
                 Paired(chip', todo', r) /\ Handled(chip', todo', target', backup', r)
    <3>1. Smooth
      BY <2>1, <2>6 DEF Smooth
    <3>2. todo' = Tail(todo)
      BY <2>3, <3>1 DEF Smooth
    <3> QED
      BY <2>1, <2>4, <2>5, <3>1, <3>2, OrderlyAdvance
  <2> QED
    BY <2>1, <2>2, <2>6 DEF Orderly
<1> QED
  BY <1>2, <1>3, <1>4, <1>5, <1>6, <1>7, <1>8 DEF Next

\* What an orderly command has left when it is over.
LEMMA OrderlyEnds ==
  ASSUME TypeOK, Orderly, DetachedClean
  PROVE  TidyAfterSuccess
<1> SUFFICES ASSUME Finished, err = 0, ~failed, lost = {}, tidy
             PROVE  /\ \A b \in Registers(chip) :
                         CrAtReset(chip)[b] \subseteq target.cr[b] /\ target.job[b] = {}
                    /\ target.optlock /\ target.opt # "blank"
                    /\ HasDma(chip) /\ backup => target.dma
                    /\ ~target.masked
  BY DEF TidyAfterSuccess
<1>1. todo = <<>> /\ runs > 0 /\ killed = ""
  BY Zenon DEF Finished
<1>2. Smooth
  BY <1>1 DEF Smooth
<1>3. \A r \in Resources : Settled(chip, target, backup, r)
  <2>1. \A r : ~Closes(chip, <<>>, r)
    BY DEF Closes
  <2> QED
    BY <1>1, <1>2, <2>1 DEF Orderly, Handled
<1>4. /\ chip.type # "WB0" => \A b \in Registers(chip) : "LOCK" \in target.cr[b]
      /\ chip.type = "L0_L1" => "PRGLOCK" \in target.cr[1]
      /\ \A b \in Registers(chip) : target.job[b] = {}
      /\ target.optlock /\ target.opt # "blank"
      /\ HasDma(chip) /\ backup => target.dma
  <2>1. /\ Settled(chip, target, backup, "lock") /\ Settled(chip, target, backup, "pecr")
        /\ Settled(chip, target, backup, "job") /\ Settled(chip, target, backup, "optlock")
        /\ Settled(chip, target, backup, "opt") /\ Settled(chip, target, backup, "dma")
    BY <1>3 DEF Resources
  <2> QED
    BY <2>1 DEF Settled
<1>5. \A b \in Registers(chip) : CrAtReset(chip)[b] \subseteq target.cr[b]
  <2>1. Registers(chip) \subseteq Bank
    BY RegistersAre
  <2>2. chip.type = "L0_L1" => Registers(chip) = {1}
    BY DEF Registers, TwoRegisters
  <2> QED
    BY <1>4, <2>1, <2>2 DEF CrAtReset
<1>6. ~target.masked
  <2>1. killed # "unplugged" /\ lost \cap {"leave", "identify"} = {}
    BY <1>1
  <2> QED
    BY <1>1, <2>1, Zenon DEF DetachedClean
<1> QED
  BY <1>4, <1>5, <1>6

\* While nothing is lost and nothing fails, what is open is about to be closed,
\* whatever the chip and whatever came before.
THEOREM AlwaysOrderly == Spec => []Orderly
<1>1. Init => Orderly
  <2> SUFFICES ASSUME Init  PROVE Orderly
    OBVIOUS
  <2>1. ret = 0 /\ todo = <<>> /\ target = Fresh(chip) /\ backup = FALSE /\ chip \in Chips
    BY DEF Init
  <2>2. InOrder(target)
    BY <2>1, RegistersAre DEF InOrder, Fresh, CrAtReset
  <2>3. target \in Controller(chip)
    BY <2>1, FreshType
  <2>4. \A r \in Resources : Settled(chip, target, backup, r)
    BY <2>1, <2>2, <2>3, InOrderSettles
  <2>5. \A r \in Resources : Paired(chip, <<>>, r)
    BY DEF Paired
  <2> QED
    BY <2>1, <2>4, <2>5 DEF Orderly, Handled
<1>2. TypeOK /\ Listed /\ Orderly /\ UNCHANGED vars => Orderly'
  <2> SUFFICES ASSUME Orderly, UNCHANGED vars  PROVE Orderly'
    OBVIOUS
  <2>1. /\ chip' = chip /\ todo' = todo /\ ret' = ret /\ backup' = backup /\ lost' = lost
        /\ failed' = failed /\ killed' = killed /\ tidy' = tidy /\ target' = target
    BY DEF vars, history, call
  <2>2. Smooth' <=> Smooth
    BY <2>1 DEF Smooth
  <2> QED
    BY <2>1, <2>2 DEF Orderly
<1>3. TypeOK /\ Listed /\ Orderly /\ TypeOK' /\ [Next]_vars => Orderly'
  BY <1>2, OrderlyStep
<1> QED
  BY <1>1, <1>3, CallsInOrder, PTL DEF Spec

\* A command that succeeded with every exchange answered, on a controller that
\* was in order, leaves the locks closed, nothing being erased, the option bytes
\* programmed, DMA on and interrupts unmasked: whatever a call opened, a later
\* call closed.
THEOREM AlwaysTidyAfterSuccess == Spec => []TidyAfterSuccess
<1>1. TypeOK /\ Orderly /\ DetachedClean => TidyAfterSuccess
  BY OrderlyEnds
<1> QED
  BY <1>1, CallsInOrder, AlwaysOrderly, AlwaysDetachedClean, PTL

-----------------------------------------------------------------------------
(***************************************************************************)
(* Success and failure of a write or an erase: a call that fails makes     *)
(* main look at a result that is not 0, and leave.                         *)
(***************************************************************************)

\* The calls before main's branch, whose failure leads straight to on_error.
Early(x) == x.op \in {"force_debug", "status"} /\ x.to = "leave"

\* Whatever fails in a command that does do leads to a look at the result, and
\* nothing comes between the run of the core that ends a function and that look.
Answers(do, x) ==
  /\ x.op = "result" => x.to = "leave"
  /\ x.op = "finalize" => x.to = ""
  /\ \/ x.to \in {"", "finalize", "result"} \/ x.op = "result" \/ Early(x)
     \/ do = "erase" /\ x.op = "reset"
Closing(x) == x.op = "finalize"
Looking(x) == x.op = "result"
Looks(do, s) ==
  \A i \in 1 .. Len(s) :
    /\ Answers(do, s[i])
    /\ Closing(s[i]) => i + 1 \in 1 .. Len(s) /\ Looking(s[i + 1])
    /\ Early(s[i]) => \A j \in 1 .. i : Early(s[j])
Late(s) == \A i \in 1 .. Len(s) : ~Early(s[i])

\* What is left of such a list is one.
LEMMA LooksRest ==
  ASSUME NEW do, NEW s \in Seq(CallRec), NEW u \in Seq(CallRec), NEW n, Rest(u, s, n), Looks(do, s)
  PROVE  Looks(do, u) /\ (u # <<>> /\ n > 0 /\ ~Early(s[1]) => ~Early(u[1]))
<1>1. n \in Nat /\ Len(s) \in Nat /\ Len(u) \in Nat /\ Len(u) = Len(s) - n
  BY LenProperties DEF Rest
<1>2. \A i \in 1 .. Len(u) : n + i \in 1 .. Len(s) /\ u[i] = s[n + i]
  BY <1>1 DEF Rest
<1>3. ASSUME NEW i \in 1 .. Len(u)
      PROVE  Answers(do, u[i])
  BY <1>2 DEF Looks
<1>4. ASSUME NEW i \in 1 .. Len(u), Closing(u[i])
      PROVE  i + 1 \in 1 .. Len(u) /\ Looking(u[i + 1])
  <2>1. Closing(s[n + i]) /\ n + i \in 1 .. Len(s)
    BY <1>2, <1>4
  <2>2. (n + i) + 1 \in 1 .. Len(s) /\ Looking(s[(n + i) + 1])
    BY <1>2, <2>1 DEF Looks
  <2>3. i + 1 \in 1 .. Len(u) /\ n + (i + 1) = (n + i) + 1
    BY <1>1, <2>2
  <2> QED
    BY <1>2, <2>2, <2>3
<1>5. ASSUME NEW i \in 1 .. Len(u), Early(u[i]), NEW j \in 1 .. i
      PROVE  Early(u[j])
  <2>1. Early(s[n + i]) /\ n + i \in 1 .. Len(s)
    BY <1>2, <1>5
  <2>2. n + j \in 1 .. n + i /\ j \in 1 .. Len(u)
    BY <1>1
  <2>3. Early(s[n + j])
    BY <2>1, <2>2 DEF Looks
  <2> QED
    BY <1>2, <2>2, <2>3
<1>6. ASSUME u # <<>>, n > 0, Early(u[1])
      PROVE  Early(s[1])
  <2>1. 1 \in 1 .. Len(u) /\ 1 \in 1 .. n + 1
    BY <1>1, <1>6, EmptySeq
  <2>2. Early(s[n + 1]) /\ n + 1 \in 1 .. Len(s)
    BY <1>2, <1>6, <2>1
  <2> QED
    BY <2>1, <2>2 DEF Looks
<1> QED
  BY <1>3, <1>4, <1>5, <1>6 DEF Looks

\* Two such lists make one, if the second has none of the first calls of main.
LEMMA LooksConcat ==
  ASSUME NEW do, NEW s \in Seq(CallRec), NEW t \in Seq(CallRec), Looks(do, s), Looks(do, t), Late(t)
  PROVE  Looks(do, s \o t) /\ (Late(s) => Late(s \o t))
<1> DEFINE u == s \o t
           n == Len(s)
<1>1. /\ u \in Seq(CallRec) /\ Len(u) = n + Len(t) /\ n \in Nat /\ Len(t) \in Nat
      /\ \A i \in 1 .. n : u[i] = s[i]
      /\ \A i \in 1 .. Len(t) : u[n + i] = t[i]
      /\ \A i \in 1 .. Len(u) : i \in 1 .. n \/ i - n \in 1 .. Len(t)
  BY ConcatAt
<1> HIDE DEF u, n
<1>2. ASSUME NEW i \in 1 .. Len(u)
      PROVE  \/ i \in 1 .. n /\ u[i] = s[i]
             \/ i - n \in 1 .. Len(t) /\ u[i] = t[i - n] /\ n + (i - n) = i
  BY <1>1
<1>3. ASSUME NEW i \in 1 .. Len(u)
      PROVE  Answers(do, u[i])
  BY <1>2 DEF Looks, n
<1>4. ASSUME NEW i \in 1 .. Len(u), Closing(u[i])
      PROVE  i + 1 \in 1 .. Len(u) /\ Looking(u[i + 1])
  <2>1. CASE i \in 1 .. n /\ u[i] = s[i]
    <3>1. i + 1 \in 1 .. n /\ Looking(s[i + 1])
      BY <1>4, <2>1 DEF Looks, n
    <3>2. i + 1 \in 1 .. Len(u)
      BY <1>1, <3>1
    <3> QED
      BY <1>1, <3>1, <3>2
  <2>2. CASE i - n \in 1 .. Len(t) /\ u[i] = t[i - n]
    <3>1. (i - n) + 1 \in 1 .. Len(t) /\ Looking(t[(i - n) + 1])
      BY <1>4, <2>2 DEF Looks
    <3>2. n + ((i - n) + 1) = i + 1 /\ i + 1 \in 1 .. Len(u)
      BY <1>1, <3>1
    <3> QED
      BY <1>1, <3>1, <3>2
  <2> QED
    BY <1>2, <2>1, <2>2
<1>5. ASSUME NEW i \in 1 .. Len(u), Early(u[i]), NEW j \in 1 .. i
      PROVE  Early(u[j])
  <2>1. i \in 1 .. n /\ Early(s[i])
    BY <1>2, <1>5 DEF Late
  <2>2. j \in 1 .. n
    BY <1>1, <2>1
  <2>3. Early(s[j])
    BY <2>1 DEF Looks, n
  <2> QED
    BY <1>1, <2>2, <2>3
<1>6. ASSUME Late(s), NEW i \in 1 .. Len(u)
      PROVE  ~Early(u[i])
  BY <1>2, <1>6 DEF Late, n
<1> QED
  BY <1>3, <1>4, <1>5, <1>6 DEF Looks, Late, u

\* Calls that are none of the labels, and whose failures lead to one of two.
LEMMA LooksInner ==
  ASSUME NEW do, NEW k, NEW l \in {"finalize", "result"}, NEW s \in Seq(Inner(k, {l}, Labels))
  PROVE  s \in Seq(CallRec) /\ Looks(do, s) /\ Late(s)
<1>1. s \in Seq(CallRec)
  BY InnerPart DEF Part, Open
<1>2. ASSUME NEW i \in 1 .. Len(s)
      PROVE  s[i].op \notin Labels /\ s[i].to \in {l, ""}
  <2>1. s[i] \in Inner(k, {l}, Labels)
    BY ElementOfSeq
  <2> QED
    BY <2>1 DEF Inner
<1> QED
  <2>1. ASSUME NEW i \in 1 .. Len(s)
        PROVE  Answers(do, s[i]) /\ ~Closing(s[i]) /\ ~Early(s[i])
    BY <1>2 DEF Answers, Closing, Early, Labels
  <2> QED
    BY <1>1, <2>1 DEF Looks, Late

\* Lists of a few calls.
LEMMA LooksFew ==
  /\ \A do : Looks(do, <<>>) /\ Late(<<>>)
  /\ \A do, x : Answers(do, x) /\ ~Closing(x) /\ ~Early(x) => Looks(do, <<x>>) /\ Late(<<x>>)
  /\ \A do, x, y : Answers(do, x) /\ Answers(do, y) /\ Early(x) /\ Early(y) /\ ~Closing(x)
                      /\ ~Closing(y) => Looks(do, <<x, y>>)
  /\ \A do, x, y : Answers(do, x) /\ Answers(do, y) /\ ~Early(x) /\ ~Early(y) /\ Looking(y)
                      /\ ~Closing(y) => Looks(do, <<x, y>>) /\ Late(<<x, y>>)
  /\ \A do, x, y : Answers(do, x) /\ Answers(do, y) /\ ~Early(x) /\ ~Early(y) /\ ~Closing(x)
                      /\ ~Closing(y) => Looks(do, <<x, y>>) /\ Late(<<x, y>>)
  /\ \A do, x, y, z : Answers(do, x) /\ Answers(do, y) /\ Answers(do, z) /\ ~Early(x) /\ ~Early(y)
                         /\ ~Early(z) /\ ~Closing(x) /\ ~Closing(y) /\ ~Closing(z)
                         => Looks(do, <<x, y, z>>) /\ Late(<<x, y, z>>)
BY DEF Looks, Late

\* The calls of main itself.
LEMMA LooksMain ==
  ASSUME NEW do \in {"write", "erase"}
  PROVE  /\ <<Try("force_debug", "leave"), Try("status", "leave")>> \in Seq(CallRec)
         /\ Looks(do, <<Try("force_debug", "leave"), Try("status", "leave")>>)
         /\ <<Try("result", "leave")>> \in Seq(CallRec)
         /\ Looks(do, <<Try("result", "leave")>>) /\ Late(<<Try("result", "leave")>>)
         /\ <<Call("finalize"), Try("result", "leave")>> \in Seq(CallRec)
         /\ Looks(do, <<Call("finalize"), Try("result", "leave")>>)
         /\ Late(<<Call("finalize"), Try("result", "leave")>>)
         /\ <<Try("result", "leave"), Try("reset", "leave")>> \in Seq(CallRec)
         /\ Looks("erase", <<Try("result", "leave"), Try("reset", "leave")>>)
         /\ Late(<<Try("result", "leave"), Try("reset", "leave")>>)
         /\ <<Call("reset")>> \in Seq(CallRec)
         /\ Looks(do, <<Call("reset")>>) /\ Late(<<Call("reset")>>)
         /\ <<Call("run"), Call("succeed"), Call("leave")>> \in Seq(CallRec)
         /\ Looks(do, <<Call("run"), Call("succeed"), Call("leave")>>)
         /\ Late(<<Call("run"), Call("succeed"), Call("leave")>>)
         /\ <<>> \in Seq(CallRec) /\ Looks(do, <<>>) /\ Late(<<>>)
<1> DEFINE a == Try("force_debug", "leave")
           b == Try("status", "leave")
           c == Try("result", "leave")
           d == Call("finalize")
           e == Try("reset", "leave")
           f == Call("reset")
           g == Call("run")
           h == Call("succeed")
           i == Call("leave")
<1>1. /\ a \in CallRec /\ b \in CallRec /\ c \in CallRec /\ d \in CallRec /\ e \in CallRec
      /\ f \in CallRec /\ g \in CallRec /\ h \in CallRec /\ i \in CallRec
  BY CallsAreRecords DEF Ops, FreeOps, LabelOps, Labels
<1>2. /\ a.op = "force_debug" /\ b.op = "status" /\ a.to = "leave" /\ b.to = "leave"
      /\ c.op = "result" /\ c.to = "leave" /\ d.op = "finalize" /\ d.to = ""
      /\ e.op = "reset" /\ f.op = "reset" /\ f.to = "" /\ g.op = "run" /\ g.to = ""
      /\ h.op = "succeed" /\ h.to = "" /\ i.op = "leave" /\ i.to = ""
  BY DEF Call, Try, TryOn, Over
<1> HIDE DEF a, b, c, d, e, f, g, h, i
<1>3. /\ Early(a) /\ Early(b)
      /\ ~Early(c) /\ ~Early(d) /\ ~Early(e) /\ ~Early(f) /\ ~Early(g) /\ ~Early(h) /\ ~Early(i)
      /\ Looking(c) /\ ~Closing(a) /\ ~Closing(b) /\ ~Closing(c) /\ ~Closing(e) /\ ~Closing(f)
      /\ ~Closing(g) /\ ~Closing(h) /\ ~Closing(i)
      /\ Answers(do, a) /\ Answers(do, b) /\ Answers(do, c) /\ Answers(do, d) /\ Answers(do, f)
      /\ Answers(do, g) /\ Answers(do, h) /\ Answers(do, i)
      /\ Answers("erase", c) /\ Answers("erase", e)
  BY <1>2 DEF Early, Looking, Closing, Answers
<1>4. Looks(do, <<a, b>>)
  BY <1>3, LooksFew
<1>5. Looks(do, <<c>>) /\ Late(<<c>>) /\ Looks(do, <<f>>) /\ Late(<<f>>)
  BY <1>3, LooksFew
<1>6. Looks(do, <<d, c>>) /\ Late(<<d, c>>)
  BY <1>3, LooksFew
<1>7. Looks("erase", <<c, e>>) /\ Late(<<c, e>>)
  BY <1>3, LooksFew
<1>8. Looks(do, <<g, h, i>>) /\ Late(<<g, h, i>>)
  BY <1>3, LooksFew
<1>9. Looks(do, <<>>) /\ Late(<<>>)
  BY LooksFew
<1>10. /\ <<a, b>> \in Seq(CallRec) /\ <<c>> \in Seq(CallRec) /\ <<d, c>> \in Seq(CallRec)
       /\ <<c, e>> \in Seq(CallRec) /\ <<f>> \in Seq(CallRec) /\ <<g, h, i>> \in Seq(CallRec)
       /\ <<>> \in Seq(CallRec)
  BY <1>1, OfMembers, EmptyIn
<1> QED
  BY <1>4, <1>5, <1>6, <1>7, <1>8, <1>9, <1>10 DEF a, b, c, d, e, f, g, h, i

\* The commands that write and those that erase.
LEMMA MainLooks ==
  ASSUME chip \in Chips, NEW k, Asking(k), k.do \in {"write", "erase"}, NEW again \in BOOLEAN
  PROVE  Looks(k.do, Main(k, again))
<1>1. k \in CommandLine /\ k.addr \in Nat /\ k.addr + k.len \in Nat
  BY DEF Asking, CommandLine
<1>2. "result" \in Labels /\ "finalize" \in Labels
  BY DEF Labels
<1>3. ASSUME NEW s, NEW l \in {"finalize", "result"}, s \in Seq(Inner(k, {l}, Labels))
      PROVE  s \in Seq(CallRec) /\ Looks(k.do, s) /\ Late(s)
  BY <1>3, LooksInner
<1>4. ASSUME NEW s \in Seq(CallRec), NEW t \in Seq(CallRec), Looks(k.do, s), Looks(k.do, t), Late(t)
      PROVE  s \o t \in Seq(CallRec) /\ Looks(k.do, s \o t) /\ (Late(s) => Late(s \o t))
  BY <1>4, LooksConcat, ConcatAt
<1>5. k.mass => EraseFlashMass("result") \in Seq(Inner(k, {"result"}, Labels))
  BY <1>1, <1>2, EraseFlashMassIn
<1>6. Command(k) \in Seq(CallRec) /\ Looks(k.do, Command(k)) /\ Late(Command(k))
  <2>1. CASE k.do = "write"
    <3> DEFINE X == IF k.mass THEN EraseFlashMass("result") \o <<Try("result", "leave")>> ELSE <<>>
               Y == WriteFlash(k, "finalize")
               Z == <<Call("finalize"), Try("result", "leave")>>
    <3>1. X \in Seq(CallRec) /\ Looks(k.do, X) /\ Late(X)
      <4>1. CASE k.mass
        BY <1>3, <1>4, <1>5, <4>1, LooksMain
      <4>2. CASE ~k.mass
        BY <4>2, LooksMain
      <4> QED
        BY <4>1, <4>2
    <3>2. Y \in Seq(CallRec) /\ Looks(k.do, Y) /\ Late(Y)
      <4>1. Y \in Seq(Inner(k, {"finalize"}, Quiet))
        BY <1>1, <1>2, <2>1, WriteFlashIn DEF Asking
      <4>2. Y \in Seq(Inner(k, {"finalize"}, Labels))
        BY <4>1, InnerMore
      <4> QED
        BY <1>3, <4>2
    <3>3. Z \in Seq(CallRec) /\ Looks(k.do, Z) /\ Late(Z)
      BY LooksMain
    <3>4. Command(k) = (X \o Y) \o Z
      BY <2>1 DEF Command
    <3> HIDE DEF X, Y, Z
    <3>5. X \o Y \in Seq(CallRec) /\ Looks(k.do, X \o Y) /\ Late(X \o Y)
      BY <1>4, <3>1, <3>2
    <3> QED
      BY <1>4, <3>3, <3>4, <3>5
  <2>2. CASE k.do = "erase"
    <3> DEFINE c == Over("erase_section", k.addr, k.addr + k.len, "result")
               X == IF k.mass THEN EraseFlashMass("result") ELSE <<c>>
               Z == <<Try("result", "leave"), Try("reset", "leave")>>
    <3>1. X \in Seq(CallRec) /\ Looks(k.do, X) /\ Late(X)
      <4>1. CASE k.mass
        BY <1>3, <1>5, <4>1
      <4>2. CASE ~k.mass
        <5>1. c.op = "erase_section" /\ c.to = "result"
          BY DEF Call, Try, TryOn, Over
        <5>3. "erase_section" \in Ops
          BY DEF Ops, RangeOps
        <5>4. c \in CallRec
          BY <1>1, <1>2, <5>3, CallsAreRecords
        <5> HIDE DEF c
        <5>2. <<c>> \in Seq(CallRec)
          BY <5>4, OfMembers
        <5>5. Answers(k.do, c) /\ ~Closing(c) /\ ~Early(c)
          BY <5>1 DEF Answers, Closing, Early
        <5> QED
          BY <4>2, <5>2, <5>5, LooksFew
      <4> QED
        BY <4>1, <4>2
    <3>2. Z \in Seq(CallRec) /\ Looks(k.do, Z) /\ Late(Z)
      BY <2>2, LooksMain
    <3>3. Command(k) = X \o Z
      BY <2>2 DEF Command
    <3> HIDE DEF X, Z
    <3> QED
      BY <1>4, <3>1, <3>2, <3>3
  <2> QED
    BY <2>1, <2>2
<1> DEFINE A == <<Try("force_debug", "leave"), Try("status", "leave")>>
           B == Command(k)
           C == IF again THEN <<Call("reset")>> ELSE <<>>
           D == <<Call("run"), Call("succeed"), Call("leave")>>
<1>7. /\ A \in Seq(CallRec) /\ Looks(k.do, A) /\ C \in Seq(CallRec) /\ Looks(k.do, C) /\ Late(C)
      /\ D \in Seq(CallRec) /\ Looks(k.do, D) /\ Late(D)
  BY LooksMain
<1>8. Main(k, again) = ((A \o B) \o C) \o D
  BY DEF Main
<1> HIDE DEF A, B, C, D
<1>9. A \o B \in Seq(CallRec) /\ Looks(k.do, A \o B)
  BY <1>4, <1>6, <1>7 DEF B
<1>10. (A \o B) \o C \in Seq(CallRec) /\ Looks(k.do, (A \o B) \o C)
  BY <1>4, <1>7, <1>9
<1> QED
  BY <1>4, <1>7, <1>8, <1>10

\* The first call of a list, and of what is left of one.
LEMMA FirstOf ==
  ASSUME NEW s \in Seq(CallRec), s # <<>>
  PROVE  Len(s) \in Nat /\ Len(s) > 0 /\ 1 \in 1 .. Len(s)
BY EmptySeq, LenProperties
\* ... it is the next call of the list.
LEMMA FirstOfRest ==
  ASSUME NEW s \in Seq(CallRec), NEW u \in Seq(CallRec), NEW n, Rest(u, s, n), n < Len(s)
  PROVE  u # <<>> /\ 1 \in 1 .. Len(u) /\ u[1] = s[n + 1] /\ n + 1 \in 1 .. Len(s)
<1>1. Len(s) \in Nat /\ Len(u) \in Nat /\ n \in Nat /\ Len(u) = Len(s) - n /\ Len(u) > 0
  BY LenProperties DEF Rest
<1>2. u # <<>> /\ 1 \in 1 .. Len(u) /\ n + 1 \in 1 .. Len(s)
  BY <1>1
<1> QED
  BY <1>2 DEF Rest

\* A command that failed is about to have its result looked at, or is over but
\* for the leaving of the chip and not a success.
Doomed ==
  \/ ret = -1 /\ todo # <<>> /\ (Looking(Step) \/ Closing(Step))
  \/ err # 0 /\ \A i \in 1 .. Len(todo) : todo[i].op = "leave"
Judging == cmd.do \in {"write", "erase"} /\ killed = "" /\ "identify" \notin lost
Judged ==
  /\ killed = "" /\ "identify" \in lost => err = -1
  /\ Judging => /\ Looks(cmd.do, todo)
                /\ todo # <<>> /\ Early(Step) => err = -1
                /\ failed /\ (cmd.do = "write" \/ lost = {}) => Doomed

\* A call fails, and its callers go on where it says; this is not the reset
\* after an erase, if all its exchanges were answered.
Jumps == Step.to # "" /\ todo' = From(Step.to) /\ ret' = -1
Excused == cmd.do = "erase" /\ lost' = {} => Step.op # "reset"

\* Judged in the next state.
LEMMA JudgedFrom ==
  ASSUME killed' = "" /\ "identify" \in lost' => err' = -1,
         Judging' => /\ Looks(cmd'.do, todo')
                     /\ todo' # <<>> /\ Early(todo'[1]) => err' = -1
                     /\ failed' /\ (cmd'.do = "write" \/ lost' = {}) =>
                          \/ ret' = -1 /\ todo' # <<>> /\ (Looking(todo'[1]) \/ Closing(todo'[1]))
                          \/ err' # 0 /\ \A i \in 1 .. Len(todo') : todo'[i].op = "leave"
  PROVE  Judged'
<1>1. Looks(cmd.do, todo)' <=> Looks(cmd'.do, todo')
  BY DEF Looks, Answers, Closing, Looking, Early
<1>2. Step' = todo'[1]
  BY DEF Step
<1>3. /\ Early(Step)' <=> Early(todo'[1])
      /\ Looking(Step)' <=> Looking(todo'[1])
      /\ Closing(Step)' <=> Closing(todo'[1])
  BY <1>2 DEF Early, Looking, Closing
<1>4. Judging' => (failed' /\ (cmd'.do = "write" \/ lost' = {}) => Doomed')
  BY <1>3 DEF Doomed
<1> QED
  BY <1>1, <1>3, <1>4, Zenon DEF Judged

\* Where the leaving is all there is to do.
LEMMA OnlyLeaving ==
  ASSUME NEW s \in Seq(CallRec), s # <<>>, LeaveLast(s), s[1].op = "leave"
  PROVE  \A i \in 1 .. Len(s) : s[i].op = "leave"
<1>1. Len(s) = 1
  BY LeaveIsLast
<1> QED
  BY <1>1

\* A command that failed has a look at its result ahead, whatever it calls.
LEMMA DoomedCalls ==
  ASSUME TypeOK, Judged, Judging, todo # <<>>, ~Looking(Step), Doomed
  PROVE  /\ Closing(Step) \/ Step.op = "leave"
         /\ \/ /\ ret = -1 /\ Tail(todo) # <<>> /\ Looking(Tail(todo)[1])
            \/ err # 0 /\ \A i \in 1 .. Len(Tail(todo)) : Tail(todo)[i].op = "leave"
<1>1. /\ todo \in Seq(CallRec) /\ Len(todo) \in Nat \ {0} /\ Tail(todo) \in Seq(CallRec)
      /\ Rest(Tail(todo), todo, 1)
  BY HeadIs, TailRest
<1>2. /\ Len(Tail(todo)) = Len(todo) - 1
      /\ \A i \in 1 .. Len(Tail(todo)) : Tail(todo)[i] = todo[1 + i]
  BY <1>1 DEF Rest
<1>3. 1 \in 1 .. Len(todo) /\ \A i \in 1 .. Len(Tail(todo)) : 1 + i \in 1 .. Len(todo)
  BY <1>1, <1>2
<1>4. CASE ret = -1 /\ Closing(Step)
  <2>1. 1 + 1 \in 1 .. Len(todo) /\ Looking(todo[1 + 1])
    BY <1>3, <1>4 DEF Judged, Looks, Step
  <2>2. 1 < Len(todo)
    <3>1. 1 + 1 \in 1 .. Len(todo)
      BY <2>1
    <3> QED
      BY <1>1, <3>1
  <2>3. Tail(todo)[1] = todo[1 + 1] /\ Tail(todo) # <<>>
    BY <1>1, <2>2, FirstOfRest
  <2> QED
    BY <1>4, <2>1, <2>3
<1>5. CASE err # 0 /\ \A i \in 1 .. Len(todo) : todo[i].op = "leave"
  <2>1. Step.op = "leave"
    BY <1>3, <1>5 DEF Step
  <2>2. \A i \in 1 .. Len(Tail(todo)) : Tail(todo)[i].op = "leave"
    BY <1>2, <1>3, <1>5
  <2> QED
    BY <1>5, <2>1, <2>2
<1> QED
  BY <1>4, <1>5 DEF Doomed

\* A call that is made.
LEMMA JudgedOnward ==
  ASSUME TypeOK, Attended, Judged, todo # <<>>, ~Looking(Step), cmd' = cmd, err' = err, killed' = killed,
         lost \subseteq lost', "identify" \in lost' => "identify" \in lost,
         Succeeds \/ (Jumps /\ Excused)
  PROVE  Judged'
<1>1. ASSUME Judging'
      PROVE  Judging /\ LeaveLast(todo) /\ todo \in Seq(CallRec)
  <2>1. "identify" \notin lost /\ Judging
    BY <1>1 DEF Judging
  <2> QED
    BY <2>1, HeadIs DEF Attended
<1>2. PICK n \in 0 .. Len(todo) :
        /\ todo' \in Seq(CallRec) /\ Rest(todo', todo, n)
        /\ \/ n = 1 /\ todo' = Tail(todo)
           \/ n < Len(todo) /\ Step.to # "" /\ todo[n + 1].op = Step.to
  <2>1. todo' = Tail(todo) \/ (Step.to # "" /\ todo' = From(Step.to))
    BY DEF Succeeds, Jumps
  <2> QED
    BY <2>1, Onward, Zenon
<1>3. ASSUME Judging'
      PROVE  Looks(cmd.do, todo')
  BY <1>1, <1>2, <1>3, LooksRest DEF Judged
<1>4. ASSUME Judging', todo' # <<>>, Early(todo'[1])
      PROVE  err = -1
  <2>1. todo # <<>> /\ todo[1] = Step
    BY DEF Step
  <2>2. CASE n > 0
    <3>1. Early(Step)
      BY <1>1, <1>2, <1>4, <2>1, <2>2, LooksRest DEF Judged
    <3> QED
      BY <1>1, <1>4, <3>1 DEF Judged
  <2>3. CASE ~(n > 0)
    <3>0. Len(todo) \in Nat /\ Len(todo) > 0
      BY <1>1, <2>1, FirstOf
    <3>1. n < Len(todo) /\ n + 1 = 1
      BY <2>3, <3>0
    <3>2. todo'[1] = todo[n + 1]
      BY <1>1, <1>2, <1>4, <3>1, FirstOfRest
    <3>3. todo'[1] = Step
      BY <2>1, <3>1, <3>2
    <3> QED
      BY <1>1, <1>4, <2>1, <3>3 DEF Judged
  <2> QED
    BY <2>2, <2>3
<1>5. ASSUME Judging', failed', cmd.do = "write" \/ lost' = {}
      PROVE  \/ ret' = -1 /\ todo' # <<>> /\ (Looking(todo'[1]) \/ Closing(todo'[1]))
             \/ err # 0 /\ \A i \in 1 .. Len(todo') : todo'[i].op = "leave"
  <2>1. Judging /\ LeaveLast(todo) /\ todo \in Seq(CallRec)
    BY <1>1, <1>5
  <2>2. CASE Succeeds
    <3>1. Doomed
      BY <1>5, <2>1, <2>2 DEF Judged, Succeeds
    <3> QED
      BY <2>1, <2>2, <3>1, DoomedCalls DEF Succeeds
  <2>3. CASE Jumps /\ Excused
    <3>1. Has(todo, Step.to)
      BY <2>3, TargetAhead DEF Jumps
    <3>2. PICK m \in 0 .. Len(todo) - 1 :
            /\ From(Step.to) \in Seq(CallRec) /\ Rest(From(Step.to), todo, m)
            /\ todo[m + 1].op = Step.to /\ \A i \in 1 .. m : todo[i].op # Step.to
      BY <2>1, <3>1, FromRest, Zenon
    <3>3. m < Len(todo) /\ 1 \in 1 .. Len(todo)
      <4>1. Len(todo) \in Nat /\ Len(todo) > 0
        BY <2>1, FirstOf
      <4> QED
        BY <4>1
    <3>4. todo' # <<>> /\ LeaveLast(todo')
      BY <2>1, <2>3, <3>2, <3>3, RestLeaves DEF Jumps
    <3>7. todo'[1].op = Step.to
      BY <2>1, <2>3, <3>2, <3>3, FirstOfRest DEF Jumps
    <3>8. Answers(cmd.do, Step)
      BY <2>1, <3>3 DEF Judged, Looks, Step
    <3>9. Step.to \in {"finalize", "result"} \/ Early(Step)
      BY <1>5, <2>1, <2>3, <3>8 DEF Answers, Looking, Judging, Jumps, Excused
    <3>10. CASE Step.to \in {"finalize", "result"}
      BY <2>3, <3>4, <3>7, <3>10 DEF Looking, Closing, Jumps
    <3>11. CASE Early(Step)
      <4>1. err = -1
        BY <2>1, <3>11 DEF Judged
      <4>2. todo'[1].op = "leave"
        BY <3>7, <3>11 DEF Early
      <4>3. \A i \in 1 .. Len(todo') : todo'[i].op = "leave"
        BY <2>3, <3>2, <3>4, <4>2, OnlyLeaving DEF Jumps
      <4>4. err # 0
        <5>1. -1 # 0
          OBVIOUS
        <5> QED
          BY <4>1, <5>1, Zenon
      <4> QED
        BY <4>3, <4>4
    <3> QED
      BY <3>9, <3>10, <3>11
  <2> QED
    BY <2>2, <2>3
<1>6. killed' = "" /\ "identify" \in lost' => err' = -1
  BY DEF Judged
<1> QED
  BY <1>3, <1>4, <1>5, <1>6, JudgedFrom

\* A call that is made succeeds, or the callers go on further down.
LEMMA MadeOutcome ==
  ASSUME TypeOK, Made, lost' = {} => GoodCall
  PROVE  /\ Succeeds \/ (Jumps /\ Excused)
         /\ cmd' = cmd /\ err' = err /\ killed' = killed /\ lost \subseteq lost'
         /\ "identify" \in lost' => "identify" \in lost
<1>1. PICK l \in Either : \E ok : Link(l) /\ Returns(ok)
  BY DEF Made
<1>2. PICK ok : Link(l) /\ Returns(ok)
  BY <1>1
<1>3. cmd' = cmd /\ err' = err /\ lost \subseteq lost'
  BY <1>2 DEF Returns, Link
<1>4. killed' = killed /\ ("identify" \in lost' => "identify" \in lost)
  BY MadeIsNotIdentifying
<1>5. Succeeds \/ Jumps
  <2>1. CASE ok \/ Step.to = ""
    <3>1. failed \in BOOLEAN
      BY DEF TypeOK
    <3> QED
      BY <1>2, <2>1, <3>1 DEF Returns, Succeeds
  <2>2. CASE ~(ok \/ Step.to = "")
    BY <1>2, <2>2 DEF Returns, Jumps
  <2> QED
    BY <2>1, <2>2
<1>6. ASSUME Jumps, ~Succeeds
      PROVE  Excused
  <2>1. SUFFICES ASSUME lost' = {}, Step.op = "reset"  PROVE FALSE
    BY DEF Excused
  <2>2. FailsThen
    BY <1>6, <2>1 DEF GoodCall
  <2>3. Passes(chip, cmd, Step, target)
    BY <2>1 DEF Passes
  <2> QED
    BY <2>2, <2>3 DEF FailsThen
<1> QED
  BY <1>3, <1>4, <1>5, <1>6

\* What follows a call that is not one of main's first is none of them.
LEMMA LateTail ==
  ASSUME NEW do, NEW s \in Seq(CallRec), s # <<>>, Looks(do, s), ~Early(s[1])
  PROVE  /\ Tail(s) \in Seq(CallRec) /\ Looks(do, Tail(s)) /\ Late(Tail(s))
         /\ Answers(do, s[1])
<1>1. Tail(s) \in Seq(CallRec) /\ Rest(Tail(s), s, 1) /\ Len(s) \in Nat \ {0}
  BY TailRest
<1>2. Looks(do, Tail(s))
  BY <1>1, LooksRest
<1>3. 1 \in 1 .. Len(s)
  BY <1>1
<1>4. ASSUME NEW i \in 1 .. Len(Tail(s)), Early(Tail(s)[i])
      PROVE  FALSE
  <2>1. Tail(s)[i] = s[1 + i]
    BY <1>1 DEF Rest
  <2>2. 1 + i \in 1 .. Len(s) /\ 1 \in 1 .. (1 + i)
    BY <1>1 DEF Rest
  <2>3. Early(s[1 + i])
    BY <1>4, <2>1
  <2> QED
    BY <2>2, <2>3 DEF Looks
<1> QED
  BY <1>1, <1>2, <1>3, <1>4 DEF Late, Looks

\* Nothing that failed goes on to a call that is not made for that.
LEMMA NotDoomed ==
  ASSUME TypeOK, todo # <<>>, Step.op # "leave", ~Looking(Step), ~Closing(Step)
  PROVE  ~Doomed
<1>1. 1 \in 1 .. Len(todo)
  BY HeadIs, FirstOf
<1> QED
  BY <1>1 DEF Doomed, Step

\* A call that becomes others, or fails.
LEMMA JudgedReplaced ==
  ASSUME TypeOK, Listed, Attended, Judged,
         EraseSection \/ EraseNext \/ WritePage \/ CheckRange \/ Unsupported
  PROVE  Judged'
<1>1. todo # <<>> /\ Step.op \in Replaced /\ Step.to \in Labels
  BY ReplacedIs
<1>2. PICK ok \in BOOLEAN : \E calls : Becoming(ok, calls)
  BY ReplacedIs, Zenon
<1>3. PICK calls : Becoming(ok, calls)
  BY <1>2, Zenon
<1>4. /\ cmd' = cmd /\ err' = err /\ killed' = killed /\ lost' = lost
      /\ ok => todo' = calls \o Tail(todo) /\ ret' = ret
      /\ failed' = (failed \/ ~ok)
      /\ ~ok => todo' = From(Step.to) /\ ret' = -1
  BY <1>3 DEF Becoming, Becomes
<1>5. ~Looking(Step) /\ ~Closing(Step) /\ ~Early(Step) /\ Step.op \notin {"leave", "reset"}
  BY <1>1 DEF Replaced, Looking, Closing, Early
<1>6. CASE ~ok
  <2>1. Jumps /\ Excused
    <3>1. Step.to # ""
      BY <1>1 DEF Labels
    <3> QED
      BY <1>4, <1>5, <1>6, <3>1 DEF Jumps, Excused
  <2> QED
    BY <1>1, <1>4, <1>5, <2>1, JudgedOnward
<1>7. CASE ok
  <2>1. killed' = "" /\ "identify" \in lost' => err' = -1
    BY <1>4 DEF Judged
  <2>2. ASSUME Judging'
        PROVE  /\ Looks(cmd'.do, todo')
               /\ todo' # <<>> => ~Early(todo'[1])
               /\ ~(failed' /\ (cmd'.do = "write" \/ lost' = {}))
    <3>1. Judging
      BY <1>4, <2>2 DEF Judging
    <3>2. todo \in Seq(CallRec) /\ todo[1] = Step
      BY <1>1, HeadIs DEF Step
    <3>3. Looks(cmd.do, todo)
      BY <3>1 DEF Judged
    <3>4. /\ Tail(todo) \in Seq(CallRec) /\ Looks(cmd.do, Tail(todo)) /\ Late(Tail(todo))
          /\ Answers(cmd.do, Step)
      BY <1>1, <1>5, <3>2, <3>3, LateTail
    <3>5. Step.to \in {"finalize", "result"}
      BY <1>1, <1>5, <3>4 DEF Answers, Looking, Labels
    <3>6. calls \in Seq(Inner(cmd, {Step.to}, Labels))
      BY <1>3 DEF Becoming
    <3>7. calls \in Seq(CallRec) /\ Looks(cmd.do, calls) /\ Late(calls)
      BY <3>5, <3>6, LooksInner
    <3>8. Looks(cmd.do, calls \o Tail(todo)) /\ Late(calls \o Tail(todo))
      BY <3>4, <3>7, LooksConcat
    <3>9. calls \o Tail(todo) \in Seq(CallRec)
      BY <3>4, <3>7, ConcatAt
    <3>10. todo' # <<>> => ~Early(todo'[1])
      BY <1>4, <1>7, <3>8, <3>9, FirstOf DEF Late
    <3>11. ~Doomed
      BY <1>1, <1>5, NotDoomed
    <3> QED
      BY <1>4, <1>7, <3>1, <3>8, <3>10, <3>11 DEF Judged
  <2> QED
    BY <2>1, <2>2, JudgedFrom
<1> QED
  BY <1>6, <1>7

\* A call that is made is no look at the result.
LEMMA MadeLooksNowhere ==
  ASSUME \/ Wait \/ ClearErrors \/ CheckErrors \/ Unlock \/ Lock \/ UnlockOptions \/ Relock
         \/ SetPg \/ ClearPg \/ ClearPer \/ SetMer \/ ClearMer \/ UnlockPecr \/ LockPecr
         \/ RestoreDma \/ InitLoader \/ ReadRegister \/ Unmask \/ EraseOptions \/ ProgramOption
         \/ BeginOptions \/ ChangeOptions \/ ForceDebug \/ Status \/ RunCore \/ Finalize \/ StopDma
         \/ Verify \/ SelectPageToErase \/ SetPer \/ Start \/ EraseWord \/ CommandPageErase
         \/ CommandMassErase \/ Load \/ ResetTarget \/ Leave
  PROVE  ~Looking(Step)
<1>1. CASE \/ Wait \/ ClearErrors \/ CheckErrors \/ Unlock \/ Lock \/ UnlockOptions \/ Relock
           \/ SetPg \/ ClearPg \/ ClearPer \/ SetMer \/ ClearMer \/ UnlockPecr \/ LockPecr
           \/ RestoreDma \/ InitLoader \/ ReadRegister
  BY <1>1, Zenon DEF Wait, ClearErrors, CheckErrors, Unlock, Lock, UnlockOptions, Relock, SetPg,
     ClearPg, ClearPer, SetMer, ClearMer, UnlockPecr, LockPecr, RestoreDma, InitLoader,
     ReadRegister, Calls, At, Looking
<1>2. CASE \/ Unmask \/ EraseOptions \/ ProgramOption
           \/ BeginOptions \/ ChangeOptions \/ ForceDebug \/ Status \/ RunCore \/ Finalize \/ StopDma
           \/ Verify \/ SelectPageToErase \/ SetPer \/ Start \/ EraseWord \/ CommandPageErase
           \/ CommandMassErase \/ Load \/ ResetTarget \/ Leave
  BY <1>2, Zenon DEF Unmask, EraseOptions, ProgramOption, BeginOptions, ChangeOptions, ForceDebug, Status, RunCore,
     Finalize, StopDma, Verify, SelectPageToErase, SetPer, Start, EraseWord, CommandPageErase,
     CommandMassErase, Load, ResetTarget, Leave, Calls, At, Looking
<1> QED
  BY <1>1, <1>2

\* Judged is kept by every step.
LEMMA JudgedStep ==
  ASSUME TypeOK, Listed, Attended, Judged, Next
  PROVE  Judged'
<1>0. chip \in Chips
  BY DEF TypeOK
<1>1. ASSUME Made, ~Looking(Step), lost' = {} => GoodCall
      PROVE  Judged'
  BY <1>1, MadeOutcome, JudgedOnward DEF Made
<1>2. CASE \/ Wait \/ ClearErrors \/ CheckErrors \/ Unlock \/ Lock \/ UnlockOptions \/ Relock
           \/ SetPg \/ ClearPg \/ ClearPer \/ SetMer \/ ClearMer \/ UnlockPecr \/ LockPecr
           \/ RestoreDma \/ InitLoader \/ ReadRegister \/ Unmask \/ EraseOptions \/ ProgramOption
           \/ BeginOptions \/ ChangeOptions \/ ForceDebug \/ Status \/ RunCore \/ Finalize \/ StopDma
           \/ Verify
  <2>1. Made
    BY <1>2, SteadyCalls
  <2>2. lost' = {} => GoodCall
    BY <1>2, GoodStep
  <2>3. ~Looking(Step)
    BY <1>2, MadeLooksNowhere
  <2> QED
    BY <1>1, <2>1, <2>2, <2>3
<1>3. CASE \/ SelectPageToErase \/ SetPer \/ Start \/ EraseWord \/ CommandPageErase
           \/ CommandMassErase \/ Load \/ ResetTarget \/ Leave
  <2>1. Made
    BY <1>3, TouchingType
  <2>2. lost' = {} => GoodCall
    BY <1>3, GoodStep
  <2>3. ~Looking(Step)
    BY <1>3, MadeLooksNowhere
  <2> QED
    BY <1>1, <2>1, <2>2, <2>3
<1>4. CASE EraseSection \/ EraseNext \/ WritePage \/ CheckRange \/ Unsupported
  BY <1>4, JudgedReplaced
<1>5. CASE Begin
  <2>1. PICK k \in Lines(chip), how \in Connects, soft \in BOOLEAN, again \in BOOLEAN,
             known \in BOOLEAN :
          /\ cmd' = k
          /\ todo' = IF known THEN Main(k, again) ELSE <<CallOn("leave", 1)>>
          /\ lost' = IF known THEN {} ELSE {"identify"}
    BY <1>5, ZenonT(40) DEF Begin
  <2>2. err' = -1 /\ failed' = FALSE
    BY <1>5, ZenonT(40) DEF Begin
  <2>3. ASSUME Judging'
        PROVE  Looks(cmd'.do, todo')
    <3>1. k.do \in {"write", "erase"} /\ known
      BY <2>1, <2>3 DEF Judging
    <3>2. Asking(k)
      BY <1>0, LinesAre
    <3>3. Looks(k.do, Main(k, again))
      BY <1>0, <3>1, <3>2, MainLooks
    <3> QED
      BY <2>1, <3>1, <3>3
  <2> QED
    BY <2>2, <2>3, JudgedFrom
<1>6. CASE Interrupt \/ Unplugged
  <2>1. killed' # ""
    BY <1>6 DEF Interrupt, Unplugged
  <2> QED
    BY <2>1 DEF Judged, Judging
<1>7. CASE EraseEnds
  <2>1. /\ todo' = todo /\ ret' = ret /\ err' = err /\ cmd' = cmd /\ lost' = lost
        /\ failed' = failed /\ killed' = killed
    BY <1>7 DEF EraseEnds, call, history
  <2> QED
    BY <2>1 DEF Judged, Judging, Doomed, Step
<1>8. CASE Result \/ Succeed
  <2>1. /\ todo # <<>> /\ Step.op \in {"result", "succeed"}
        /\ cmd' = cmd /\ lost' = lost /\ failed' = failed /\ killed' = killed
    BY <1>8 DEF Result, Succeed, At, history
  <2>2. todo \in Seq(CallRec) /\ Step = todo[1] /\ 1 \in 1 .. Len(todo)
    BY <2>1, HeadIs, FirstOf DEF Step
  <2>3. "identify" \notin lost
    <3>1. SUFFICES ASSUME "identify" \in lost  PROVE FALSE
      OBVIOUS
    <3>2. todo = <<CallOn("leave", 1)>>
      BY <2>1, <3>1 DEF Attended
    <3>3. Step.op = "leave"
      BY <3>2 DEF Step, CallOn, Call
    <3> QED
      BY <2>1, <3>3
  <2>4. ~Early(Step) /\ ~Closing(Step) /\ Step.op # "leave"
    BY <2>1 DEF Early, Closing
  <2>5. ASSUME Judging'
        PROVE  Judging /\ Looks(cmd.do, todo) /\ LeaveLast(todo)
    <3>1. Judging
      BY <2>1, <2>5 DEF Judging
    <3> QED
      BY <2>1, <2>3, <3>1 DEF Judged, Attended
  <2>6. ASSUME Judging'
        PROVE  /\ Tail(todo) \in Seq(CallRec) /\ Looks(cmd.do, Tail(todo)) /\ Late(Tail(todo))
               /\ Answers(cmd.do, Step)
    BY <2>1, <2>2, <2>4, <2>5, <2>6, LateTail
  <2>7. Step.op = "succeed" => Succeed
    BY <1>8 DEF Result, At
  <2>8. CASE Step.op = "succeed"
    <3>1. todo' = Tail(todo)
      BY <2>7, <2>8 DEF Succeed
    <3>2. Judging' => ~Early(todo'[1]) \/ todo' = <<>>
      BY <2>6, <3>1, FirstOf DEF Late
    <3>3. ~Doomed
      BY <2>1, <2>4, <2>8, NotDoomed DEF Looking
    <3>4. Judging' => ~(failed' /\ (cmd'.do = "write" \/ lost' = {}))
      BY <2>1, <2>5, <3>3 DEF Judged
    <3> QED
      BY <2>1, <2>3, <2>6, <3>1, <3>2, <3>4, JudgedFrom
  <2>9. CASE Step.op = "result"
    <3>1. /\ err' = ret
          /\ todo' = IF ret = -1 /\ Step.to = "leave" THEN From("leave") ELSE Tail(todo)
      BY <1>8, <2>9 DEF Result, Succeed, At
    <3>2. ASSUME Judging'  PROVE Step.to = "leave"
      BY <2>6, <2>9, <3>2 DEF Answers
    <3>3. CASE ret = -1
      <4>1. ASSUME Judging'
            PROVE  /\ todo' \in Seq(CallRec) /\ Looks(cmd.do, todo')
                   /\ \A i \in 1 .. Len(todo') : todo'[i].op = "leave"
        <5>1. todo' = From("leave") /\ LeaveLast(todo) /\ Looks(cmd.do, todo)
          BY <2>5, <3>1, <3>2, <3>3, <4>1
        <5>2. Has(todo, "leave")
          BY <2>1, <3>2, <4>1, TargetAhead
        <5>3. PICK m \in 0 .. Len(todo) - 1 :
                /\ From("leave") \in Seq(CallRec) /\ Rest(From("leave"), todo, m)
                /\ todo[m + 1].op = "leave" /\ \A i \in 1 .. m : todo[i].op # "leave"
          BY <2>2, <5>2, FromRest, Zenon
        <5>4. m < Len(todo)
          BY <2>2, FirstOf
        <5>5. todo' # <<>> /\ LeaveLast(todo')
          BY <2>2, <5>1, <5>3, <5>4, RestLeaves
        <5>6. todo'[1].op = "leave"
          BY <2>2, <5>1, <5>3, <5>4, FirstOfRest
        <5>7. \A i \in 1 .. Len(todo') : todo'[i].op = "leave"
          BY <5>1, <5>3, <5>5, <5>6, OnlyLeaving
        <5>8. Looks(cmd.do, todo')
          BY <2>2, <5>1, <5>3, LooksRest
        <5> QED
          BY <5>1, <5>3, <5>7, <5>8
      <4>2. err' = -1 /\ err' # 0
        <5>1. -1 # 0
          OBVIOUS
        <5> QED
          BY <3>1, <3>3, <5>1, Zenon
      <4> QED
        BY <2>1, <4>1, <4>2, JudgedFrom
    <3>4. CASE ret # -1
      <4>1. todo' = Tail(todo)
        BY <3>1, <3>4
      <4>2. Judging' => ~Early(todo'[1]) \/ todo' = <<>>
        BY <2>6, <4>1, FirstOf DEF Late
      <4>3. ~Doomed
        <5>1. todo[1].op # "leave"
          BY <2>2, <2>4
        <5> QED
          BY <2>2, <3>4, <5>1 DEF Doomed
      <4>4. Judging' => ~(failed' /\ (cmd'.do = "write" \/ lost' = {}))
        BY <2>1, <2>5, <4>3 DEF Judged
      <4> QED
        BY <2>1, <2>3, <2>6, <4>1, <4>2, <4>4, JudgedFrom
    <3> QED
      BY <3>3, <3>4
  <2> QED
    BY <2>1, <2>8, <2>9
<1> QED
  BY <1>2, <1>3, <1>4, <1>5, <1>6, <1>7, <1>8 DEF Next

\* A write whose call failed does not end as a success, nor does an erase whose
\* exchanges were all answered.
FailureIsTold ==
  Finished /\ err = 0 =>
    /\ cmd.do = "write" => ~failed
    /\ cmd.do = "erase" /\ lost = {} => ~failed

\* At the end no call is ahead that could tell of the failure.
LEMMA JudgedEnds ==
  ASSUME Judged
  PROVE  FailureIsTold
<1> SUFFICES ASSUME Finished, err = 0, failed, cmd.do = "write" \/ (cmd.do = "erase" /\ lost = {})
             PROVE  FALSE
  BY DEF FailureIsTold
<1>1. todo = <<>> /\ killed = ""
  BY Zenon DEF Finished
<1>2. -1 # 0
  OBVIOUS
<1>3. "identify" \notin lost
  BY <1>1, <1>2, Zenon DEF Judged
<1>4. Judging
  BY <1>1, <1>3 DEF Judging
<1>5. Doomed
  BY <1>4 DEF Judged
<1> QED
  BY <1>1, <1>5 DEF Doomed

\* Once a call of a write fails, what is left of the command sets err to -1 or
\* refuses, however many functions the failure passes through, so st-flash does
\* not end with status 0; nor does an erase, unless an exchange was lost.
THEOREM AlwaysFailureIsTold == Spec => [](Judged /\ FailureIsTold)
<1>1. Init => Judged
  <2> SUFFICES ASSUME Init  PROVE Judged
    OBVIOUS
  <2>1. cmd.do = "none" /\ lost = {}
    BY DEF Init, Line
  <2> QED
    BY <2>1 DEF Judged, Judging
<1>2. Judged /\ UNCHANGED vars => Judged'
  <2> SUFFICES ASSUME Judged, UNCHANGED vars  PROVE Judged'
    OBVIOUS
  <2>1. /\ todo' = todo /\ ret' = ret /\ err' = err /\ cmd' = cmd /\ lost' = lost
        /\ failed' = failed /\ killed' = killed
    BY DEF vars, call, history
  <2> QED
    BY <2>1 DEF Judged, Judging, Doomed, Step
<1>3. TypeOK /\ Listed /\ Attended /\ Judged /\ [Next]_vars => Judged'
  BY <1>2, JudgedStep
<1>4. Judged => FailureIsTold
  BY JudgedEnds
<1> QED
  BY <1>1, <1>3, <1>4, CallsInOrder, AlwaysAttended, PTL DEF Spec

-----------------------------------------------------------------------------
(***************************************************************************)
(* What a write promises: the flash is compared with the file after the    *)
(* last erase has ended.                                                   *)
(***************************************************************************)

\* The calls that begin an erase, or become such calls; the wait for erases to
\* end; the comparison; the calls that come after it.
Starts(x) == x.op \in Starters \cup {"erase_section", "erase_next"}
Waits(x) == x.op = "wait"
Verifies(x) == x.op = "verify" /\ x.to # ""
Ends(x) == x.op \in {"finalize", "result", "reset", "run", "succeed", "leave"}

\* Lists without the first; of the last.
Calm(s) == \A i \in 1 .. Len(s) : ~Starts(s[i])
Final(s) == \A i \in 1 .. Len(s) : Ends(s[i])

\* The comparison is call v, no erase begins between call j and it, and little
\* comes after it; it is ahead; it is ahead and so is a wait for erases to end.
Compares(s, j, v) ==
  /\ Verifies(s[v])
  /\ \A i \in 1 .. Len(s) : /\ i >= j /\ i < v => ~Starts(s[i])
                            /\ i > v => Ends(s[i])
Reading(s) == \E v \in 1 .. Len(s) : Compares(s, 1, v)
Coming(s) == \E j, v \in 1 .. Len(s) : j < v /\ Waits(s[j]) /\ Compares(s, j, v)

\* A wait for erases to end is in the list, and none begins after it.
Awaits(s) == \E j \in 1 .. Len(s) :
               Waits(s[j]) /\ \A i \in 1 .. Len(s) : i >= j => ~Starts(s[i])

\* What is left of such lists when the first call is made.
LEMMA ComparesTail ==
  ASSUME NEW s \in Seq(CallRec), s # <<>>
  PROVE  /\ Coming(s) => Coming(Tail(s)) \/ (Waits(s[1]) /\ Reading(Tail(s)))
         /\ Reading(s) => \/ ~Starts(s[1]) /\ Reading(Tail(s))
                          \/ Verifies(s[1]) /\ Final(Tail(s))
         /\ Final(s) => Ends(s[1]) /\ Final(Tail(s))
         /\ Calm(s) => Calm(Tail(s))
<1> DEFINE u == Tail(s)
<1>1. /\ Len(s) \in Nat /\ Len(u) \in Nat /\ Len(u) = Len(s) - 1
      /\ \A i \in 1 .. Len(u) : 1 + i \in 1 .. Len(s) /\ u[i] = s[1 + i]
  <2>1. Tail(s) \in Seq(CallRec) /\ Rest(Tail(s), s, 1) /\ Len(s) \in Nat \ {0}
    BY TailRest
  <2>2. Len(u) = Len(s) - 1 /\ \A i \in 1 .. Len(u) : u[i] = s[1 + i]
    BY <2>1 DEF Rest
  <2>3. \A i \in 1 .. Len(u) : 1 + i \in 1 .. Len(s)
    BY <2>1, <2>2
  <2> QED
    BY <2>1, <2>2, <2>3
<1>2. 1 \in 1 .. Len(s)
  BY FirstOf
<1> HIDE DEF u
<1>3. ASSUME NEW j \in 1 .. Len(s), NEW v \in 1 .. Len(s), Compares(s, j, v), v > 1
      PROVE  /\ v - 1 \in 1 .. Len(u) /\ Compares(u, IF j > 1 THEN j - 1 ELSE 1, v - 1)
  <2> DEFINE h == IF j > 1 THEN j - 1 ELSE 1
  <2>1. v - 1 \in 1 .. Len(u) /\ 1 + (v - 1) = v
    BY <1>1, <1>3
  <2>2. ASSUME NEW i \in 1 .. Len(u)
        PROVE  /\ i >= h /\ i < v - 1 => ~Starts(u[i])
               /\ i > v - 1 => Ends(u[i])
    <3>1. /\ i >= h /\ i < v - 1 => 1 + i >= j /\ 1 + i < v
          /\ i > v - 1 => 1 + i > v
      OBVIOUS
    <3>2. 1 + i \in 1 .. Len(s) /\ u[i] = s[1 + i]
      BY <1>1
    <3> HIDE DEF h
    <3> QED
      BY <1>3, <3>1, <3>2 DEF Compares
  <2>3. u[v - 1] = s[v]
    BY <1>1, <2>1
  <2> HIDE DEF h
  <2>4. Compares(u, h, v - 1)
    BY <1>3, <2>2, <2>3 DEF Compares
  <2> QED
    BY <2>1, <2>4 DEF h
<1>4. ASSUME Coming(s)
      PROVE  Coming(u) \/ (Waits(s[1]) /\ Reading(u))
  <2>1. PICK j, v \in 1 .. Len(s) : j < v /\ Waits(s[j]) /\ Compares(s, j, v)
    BY <1>4 DEF Coming
  <2>2. v > 1
    BY <2>1
  <2>3. v - 1 \in 1 .. Len(u) /\ Compares(u, IF j > 1 THEN j - 1 ELSE 1, v - 1)
    BY <1>3, <2>1, <2>2
  <2>4. CASE j > 1
    <3>1. j - 1 \in 1 .. Len(u) /\ j - 1 < v - 1 /\ 1 + (j - 1) = j
      BY <1>1, <2>1, <2>4
    <3>2. u[j - 1] = s[j]
      BY <1>1, <3>1
    <3> QED
      BY <2>1, <2>3, <2>4, <3>1, <3>2 DEF Coming
  <2>5. CASE ~(j > 1)
    <3>1. j = 1
      BY <2>5
    <3> QED
      BY <2>1, <2>3, <2>5, <3>1 DEF Reading
  <2> QED
    BY <2>4, <2>5
<1>5. ASSUME Reading(s)
      PROVE  \/ ~Starts(s[1]) /\ Reading(u)
             \/ Verifies(s[1]) /\ Final(u)
  <2>1. PICK v \in 1 .. Len(s) : Compares(s, 1, v)
    BY <1>5 DEF Reading
  <2>2. CASE v > 1
    <3>1. v - 1 \in 1 .. Len(u) /\ Compares(u, IF 1 > 1 THEN 1 - 1 ELSE 1, v - 1)
      BY <1>2, <1>3, <2>1, <2>2
    <3>2. Compares(u, 1, v - 1)
      <4>1. (IF 1 > 1 THEN 1 - 1 ELSE 1) = 1
        OBVIOUS
      <4> QED
        BY <3>1, <4>1
    <3>3. 1 >= 1 /\ 1 < v
      BY <2>2
    <3>4. ~Starts(s[1])
      BY <1>2, <2>1, <3>3 DEF Compares
    <3> QED
      BY <3>1, <3>2, <3>4 DEF Reading
  <2>3. CASE ~(v > 1)
    <3>1. v = 1
      BY <2>3
    <3>2. Verifies(s[1])
      BY <2>1, <3>1 DEF Compares
    <3>3. ASSUME NEW i \in 1 .. Len(u)
          PROVE  Ends(u[i])
      <4>1. 1 + i \in 1 .. Len(s) /\ u[i] = s[1 + i] /\ 1 + i > 1
        BY <1>1
      <4> QED
        BY <2>1, <3>1, <4>1 DEF Compares
    <3> QED
      BY <3>2, <3>3 DEF Final
  <2> QED
    BY <2>2, <2>3
<1>6. Final(s) => Ends(s[1]) /\ Final(u)
  BY <1>1, <1>2 DEF Final
<1>7. Calm(s) => Calm(u)
  BY <1>1 DEF Calm
<1> QED
  BY <1>4, <1>5, <1>6, <1>7 DEF u

\* Lists put together.
LEMMA ComparesConcat ==
  ASSUME NEW s \in Seq(CallRec), NEW t \in Seq(CallRec)
  PROVE  /\ s \o t \in Seq(CallRec)
         /\ Coming(t) => Coming(s \o t)
         /\ Coming(s) /\ Final(t) => Coming(s \o t)
         /\ Calm(s) /\ Reading(t) => Reading(s \o t)
         /\ Awaits(t) => Awaits(s \o t)
         /\ Awaits(s) /\ Calm(t) => Awaits(s \o t)
         /\ Awaits(s) /\ Reading(t) => Coming(s \o t)
         /\ Calm(s) /\ Calm(t) => Calm(s \o t)
         /\ Final(s) /\ Final(t) => Final(s \o t)
<1> DEFINE x == s \o t
           n == Len(s)
<1>1. /\ x \in Seq(CallRec) /\ Len(x) = n + Len(t) /\ n \in Nat /\ Len(t) \in Nat
      /\ \A i \in 1 .. n : x[i] = s[i]
      /\ \A i \in 1 .. Len(t) : x[n + i] = t[i]
  BY ConcatAt
<1>2. \A i \in 1 .. Len(x) : \/ i \in 1 .. n /\ x[i] = s[i]
                             \/ i - n \in 1 .. Len(t) /\ x[i] = t[i - n]
  BY ConcatParts
<1> HIDE DEF x, n
<1>3. /\ \A i \in 1 .. n : i \in 1 .. Len(x)
      /\ \A i \in 1 .. Len(t) : n + i \in 1 .. Len(x)
  BY <1>1
\* the comparison is in t
<1>4. ASSUME NEW j \in Nat, NEW v \in 1 .. Len(t), NEW h \in Nat,
             /\ Verifies(t[v])
             /\ \A i \in 1 .. Len(t) : /\ i >= j /\ i < v => ~Starts(t[i])
                                       /\ i > v => Ends(t[i]),
             \/ h = n + j
             \/ j <= 1 /\ \A i \in 1 .. n : i >= h => ~Starts(s[i]),
             j >= 1
      PROVE  Compares(x, h, n + v)
  <2>1. ASSUME NEW i \in 1 .. Len(x), i >= h, i < n + v
        PROVE  ~Starts(x[i])
    <3>1. CASE i \in 1 .. n /\ x[i] = s[i]
      <4>1. ~(h = n + j)
        BY <1>1, <1>4, <2>1, <3>1
      <4> QED
        BY <1>4, <2>1, <3>1, <4>1
    <3>2. CASE i - n \in 1 .. Len(t) /\ x[i] = t[i - n]
      <4>1. i - n >= j /\ i - n < v
        BY <1>1, <1>4, <2>1, <3>2
      <4> QED
        BY <1>4, <3>2, <4>1
    <3> QED
      BY <1>2, <3>1, <3>2
  <2>2. ASSUME NEW i \in 1 .. Len(x), i > n + v
        PROVE  Ends(x[i])
    <3>1. i - n \in 1 .. Len(t) /\ x[i] = t[i - n] /\ i - n > v
      <4>1. ~(i \in 1 .. n)
        BY <1>1, <2>2
      <4>2. i - n > v
        BY <1>1, <2>2
      <4> QED
        BY <1>2, <4>1, <4>2
    <3> QED
      BY <1>4, <3>1
  <2>3. x[n + v] = t[v]
    BY <1>1
  <2> QED
    BY <1>4, <2>1, <2>2, <2>3 DEF Compares
<1>5. ASSUME Coming(t)
      PROVE  Coming(x)
  <2>1. PICK j, v \in 1 .. Len(t) : j < v /\ Waits(t[j]) /\ Compares(t, j, v)
    BY <1>5 DEF Coming
  <2>2. j \in Nat /\ n + j \in Nat /\ j >= 1 /\ n + j < n + v
    BY <1>1, <2>1
  <2>3. Compares(x, n + j, n + v)
    BY <1>4, <2>1, <2>2 DEF Compares
  <2>4. x[n + j] = t[j] /\ n + j \in 1 .. Len(x) /\ n + v \in 1 .. Len(x)
    BY <1>1, <1>3
  <2> QED
    BY <2>1, <2>2, <2>3, <2>4 DEF Coming
<1>6. ASSUME Coming(s), Final(t)
      PROVE  Coming(x)
  <2>1. PICK j, v \in 1 .. Len(s) : j < v /\ Waits(s[j]) /\ Compares(s, j, v)
    BY <1>6 DEF Coming
  <2>2. ASSUME NEW i \in 1 .. Len(x)
        PROVE  /\ i >= j /\ i < v => ~Starts(x[i])
               /\ i > v => Ends(x[i])
    <3>1. CASE i \in 1 .. n /\ x[i] = s[i]
      BY <2>1, <3>1 DEF Compares, n
    <3>2. CASE i - n \in 1 .. Len(t) /\ x[i] = t[i - n]
      <4>1. ~(i < v)
        BY <1>1, <3>2 DEF n
      <4> QED
        BY <1>6, <3>2, <4>1 DEF Final
    <3> QED
      BY <1>2, <3>1, <3>2
  <2>3. /\ x[j] = s[j] /\ x[v] = s[v] /\ j \in 1 .. Len(x) /\ v \in 1 .. Len(x)
    BY <1>1, <1>3 DEF n
  <2> QED
    BY <2>1, <2>2, <2>3 DEF Compares, Coming
<1>7. ASSUME Calm(s), Reading(t)
      PROVE  Reading(x)
  <2>1. PICK v \in 1 .. Len(t) : Compares(t, 1, v)
    BY <1>7 DEF Reading
  <2>2. 1 \in Nat /\ 1 <= 1 /\ 1 >= 1
    OBVIOUS
  <2>3. Compares(x, 1, n + v)
    BY <1>4, <1>7, <2>1, <2>2 DEF Compares, Calm, n
  <2> QED
    BY <1>3, <2>3 DEF Reading
<1>8. ASSUME Awaits(t)
      PROVE  Awaits(x)
  <2>1. PICK j \in 1 .. Len(t) : Waits(t[j]) /\ \A i \in 1 .. Len(t) : i >= j => ~Starts(t[i])
    BY <1>8 DEF Awaits
  <2>2. ASSUME NEW i \in 1 .. Len(x), i >= n + j
        PROVE  ~Starts(x[i])
    <3>1. ~(i \in 1 .. n) /\ i - n >= j
      BY <1>1, <2>2
    <3> QED
      BY <1>2, <2>1, <3>1
  <2> QED
    BY <1>1, <1>3, <2>1, <2>2 DEF Awaits
<1>9. ASSUME Awaits(s), Calm(t)
      PROVE  Awaits(x)
  <2>1. PICK j \in 1 .. Len(s) : Waits(s[j]) /\ \A i \in 1 .. Len(s) : i >= j => ~Starts(s[i])
    BY <1>9 DEF Awaits
  <2>2. ASSUME NEW i \in 1 .. Len(x), i >= j
        PROVE  ~Starts(x[i])
    BY <1>2, <1>9, <2>1, <2>2 DEF Calm, n
  <2> QED
    BY <1>1, <1>3, <2>1, <2>2 DEF Awaits, n
<1>10. ASSUME Awaits(s), Reading(t)
       PROVE  Coming(x)
  <2>1. PICK j \in 1 .. Len(s) : Waits(s[j]) /\ \A i \in 1 .. Len(s) : i >= j => ~Starts(s[i])
    BY <1>10 DEF Awaits
  <2>2. PICK v \in 1 .. Len(t) : Compares(t, 1, v)
    BY <1>10 DEF Reading
  <2>3. 1 \in Nat /\ 1 <= 1 /\ 1 >= 1 /\ j \in Nat /\ j < n + v
    BY <1>1 DEF n
  <2>4. Compares(x, j, n + v)
    BY <1>4, <2>1, <2>2, <2>3 DEF Compares, n
  <2>5. x[j] = s[j] /\ j \in 1 .. Len(x) /\ n + v \in 1 .. Len(x)
    BY <1>1, <1>3 DEF n
  <2> QED
    BY <2>1, <2>3, <2>4, <2>5 DEF Coming
<1>11. /\ Calm(s) /\ Calm(t) => Calm(x)
       /\ Final(s) /\ Final(t) => Final(x)
  BY <1>2 DEF Calm, Final, n
<1> QED
  BY <1>1, <1>5, <1>6, <1>7, <1>8, <1>9, <1>10, <1>11 DEF x

\* Lists of a few calls.
LEMMA ComparesFew ==
  /\ Calm(<<>>) /\ Final(<<>>)
  /\ \A x : /\ ~Starts(x) => Calm(<<x>>)
            /\ Ends(x) => Final(<<x>>)
            /\ Verifies(x) => Reading(<<x>>)
  /\ \A x, y : /\ ~Starts(x) /\ ~Starts(y) => Calm(<<x, y>>)
               /\ Ends(x) /\ Ends(y) => Final(<<x, y>>)
  /\ \A x, y, z : /\ ~Starts(x) /\ ~Starts(y) /\ ~Starts(z) => Calm(<<x, y, z>>)
                  /\ Ends(x) /\ Ends(y) /\ Ends(z) => Final(<<x, y, z>>)
                  /\ Waits(y) /\ ~Starts(y) /\ ~Starts(z) => Awaits(<<x, y, z>>)
<1>1. /\ Calm(<<>>) /\ Final(<<>>)
      /\ \A x : /\ ~Starts(x) => Calm(<<x>>)
                /\ Ends(x) => Final(<<x>>)
      /\ \A x, y : /\ ~Starts(x) /\ ~Starts(y) => Calm(<<x, y>>)
                   /\ Ends(x) /\ Ends(y) => Final(<<x, y>>)
      /\ \A x, y, z : /\ ~Starts(x) /\ ~Starts(y) /\ ~Starts(z) => Calm(<<x, y, z>>)
                      /\ Ends(x) /\ Ends(y) /\ Ends(z) => Final(<<x, y, z>>)
  BY DEF Calm, Final
<1>2. ASSUME NEW x, Verifies(x)
      PROVE  Reading(<<x>>)
  <2>1. 1 \in 1 .. Len(<<x>>) /\ \A i \in 1 .. Len(<<x>>) : ~(i < 1) /\ ~(i > 1)
    OBVIOUS
  <2>2. Compares(<<x>>, 1, 1)
    BY <1>2, <2>1 DEF Compares
  <2> QED
    BY <2>1, <2>2 DEF Reading
<1>3. ASSUME NEW x, NEW y, NEW z, Waits(y), ~Starts(y), ~Starts(z)
      PROVE  Awaits(<<x, y, z>>)
  <2>1. 2 \in 1 .. Len(<<x, y, z>>) /\ <<x, y, z>>[2] = y
    OBVIOUS
  <2>2. ASSUME NEW i \in 1 .. Len(<<x, y, z>>), i >= 2
        PROVE  ~Starts(<<x, y, z>>[i])
    <3>1. i = 2 \/ i = 3
      BY <2>2
    <3> QED
      BY <1>3, <3>1
  <2> QED
    BY <1>3, <2>1, <2>2 DEF Awaits
<1> QED
  BY <1>1, <1>2, <1>3

\* Lists of calls of kinds that begin no erase.
LEMMA CalmOf ==
  ASSUME NEW O, O \cap (Starters \cup {"erase_section", "erase_next"}) = {}, NEW s \in Seq(Of(O))
  PROVE  Calm(s) /\ s \in Seq(CallRec)
<1>1. Of(O) \subseteq CallRec
  BY DEF Of
<1>2. \A i \in 1 .. Len(s) : s[i] \in Of(O)
  BY ElementOfSeq
<1> QED
  BY <1>1, <1>2, SeqMonotonic DEF Of, Calm, Starts

\* stlink_write_flash ends with the comparison, and waits before it writes.
LEMMA WriteFlashCompares ==
  ASSUME chip \in Chips, NEW k, k \in CommandLine, NEW l \in Labels
  PROVE  Coming(WriteFlash(k, l))
<1> DEFINE end == k.addr + k.len
           A == <<Over("check_range", k.addr, end, l)>>
           B == IF k.mass THEN <<>> ELSE <<Over("erase_section", k.addr, end, l)>>
           C == FlashloaderStart(l)
           D == <<Over("write", k.addr, end, l), Try("check_errors", l)>>
           E == FlashloaderStop
           F == <<Over("verify", k.addr, end, l)>>
<1>1. WriteFlash(k, l) = ((((A \o B) \o C) \o D) \o E) \o F
  BY DEF WriteFlash
<1>2. k.addr \in Nat /\ end \in Nat
  BY DEF CommandLine
<1>3. /\ A \in Seq(CallRec) /\ B \in Seq(CallRec) /\ D \in Seq(CallRec) /\ F \in Seq(CallRec)
      /\ Calm(D) /\ Reading(F)
  <2> DEFINE a == Over("check_range", k.addr, end, l)
             b == Over("erase_section", k.addr, end, l)
             c == Over("write", k.addr, end, l)
             d == Try("check_errors", l)
             e == Over("verify", k.addr, end, l)
  <2>1. /\ "check_range" \in Ops /\ "erase_section" \in Ops /\ "write" \in Ops
        /\ "check_errors" \in Ops /\ "verify" \in Ops
    BY DEF Ops, FreeOps, RangeOps, Refusals
  <2>2. c.op = "write" /\ d.op = "check_errors" /\ e.op = "verify" /\ e.to = l /\ l # ""
    BY DEF Call, Try, TryOn, Over, Labels
  <2> HIDE DEF end
  <2>3. a \in CallRec /\ b \in CallRec /\ c \in CallRec /\ d \in CallRec /\ e \in CallRec
    BY <1>2, <2>1, CallsAreRecords
  <2>4. ~Starts(c) /\ ~Starts(d) /\ Verifies(e)
    BY <2>2 DEF Starts, Verifies, Starters
  <2> HIDE DEF a, b, c, d, e
  <2>5. Calm(<<c, d>>) /\ Reading(<<e>>)
    BY <2>4, ComparesFew
  <2>6. /\ <<a>> \in Seq(CallRec) /\ <<b>> \in Seq(CallRec) /\ <<c, d>> \in Seq(CallRec)
        /\ <<e>> \in Seq(CallRec) /\ <<>> \in Seq(CallRec)
    BY <2>3, OfMembers, EmptyIn
  <2>7. B = <<>> \/ B = <<b>>
    BY DEF b
  <2> HIDE DEF B
  <2>8. B \in Seq(CallRec)
    BY <2>6, <2>7
  <2> QED
    BY <2>5, <2>6, <2>8 DEF a, c, d, e
<1>4. C \in Seq(CallRec) /\ Awaits(C)
  <2> DEFINE x == Call("DMA_off")
             y == Call("wait")
             z == Call("clear_errors")
  <2>1. PICK t \in Seq(Of(Loaders)) : C = <<x, y, z>> \o t
    BY LoaderStartOf
  <2>2. x \in CallRec /\ y \in CallRec /\ z \in CallRec
    BY CallsAreRecords DEF Ops, FreeOps
  <2>3. Waits(y) /\ ~Starts(y) /\ ~Starts(z)
    BY DEF Waits, Starts, Starters, Call
  <2> HIDE DEF x, y, z, C
  <2>4. <<x, y, z>> \in Seq(CallRec) /\ Awaits(<<x, y, z>>)
    BY <2>2, <2>3, OfMembers, ComparesFew
  <2>5. Calm(t) /\ t \in Seq(CallRec)
    <3>1. Loaders \cap (Starters \cup {"erase_section", "erase_next"}) = {}
      BY DEF Loaders, Starters
    <3> QED
      BY <3>1, CalmOf
  <2> QED
    BY <2>1, <2>4, <2>5, ComparesConcat
<1>5. E \in Seq(CallRec) /\ Calm(E)
  <2>1. LoaderStops \cap (Starters \cup {"erase_section", "erase_next"}) = {}
    BY DEF LoaderStops, Starters
  <2>2. E \in Seq(Of(LoaderStops))
    BY LoaderStopCloses
  <2> QED
    BY <2>1, <2>2, CalmOf
<1> HIDE DEF A, B, C, D, E, F
<1>6. A \o B \in Seq(CallRec)
  BY <1>3, ComparesConcat
<1>7. (A \o B) \o C \in Seq(CallRec) /\ Awaits((A \o B) \o C)
  BY <1>4, <1>6, ComparesConcat
<1>8. ((A \o B) \o C) \o D \in Seq(CallRec) /\ Awaits(((A \o B) \o C) \o D)
  BY <1>3, <1>7, ComparesConcat
<1>9. (((A \o B) \o C) \o D) \o E \in Seq(CallRec) /\ Awaits((((A \o B) \o C) \o D) \o E)
  BY <1>5, <1>8, ComparesConcat
<1> QED
  BY <1>1, <1>3, <1>9, ComparesConcat

\* So does the command that writes, but for the calls main makes at the end.
LEMMA MainCompares ==
  ASSUME chip \in Chips, NEW k, Asking(k), k.do = "write", NEW again \in BOOLEAN
  PROVE  Coming(Main(k, again))
<1> DEFINE X == IF k.mass THEN EraseFlashMass("result") \o <<Try("result", "leave")>> ELSE <<>>
           Y == WriteFlash(k, "finalize")
           Z == <<Call("finalize"), Try("result", "leave")>>
           A == <<Try("force_debug", "leave"), Try("status", "leave")>>
           C == IF again THEN <<Call("reset")>> ELSE <<>>
           D == <<Call("run"), Call("succeed"), Call("leave")>>
<1>1. k \in CommandLine /\ "finalize" \in Labels /\ "result" \in Labels /\ k.len > 0
  BY DEF Asking, CommandLine, Labels
<1>2. Main(k, again) = ((A \o ((X \o Y) \o Z)) \o C) \o D
  BY DEF Main, Command
<1>3. /\ A \in Seq(CallRec) /\ Z \in Seq(CallRec) /\ C \in Seq(CallRec) /\ D \in Seq(CallRec)
      /\ <<Try("result", "leave")>> \in Seq(CallRec) /\ <<>> \in Seq(CallRec)
  BY LooksMain
<1>4. Y \in Seq(CallRec) /\ Coming(Y)
  <2>1. AllPaired(chip, Y)
    BY <1>1, WriteFlashPaired
  <2> QED
    BY <1>1, <2>1, WriteFlashCompares DEF AllPaired
<1>5. Final(Z) /\ Final(C) /\ Final(D)
  <2>1. /\ Ends(Call("finalize")) /\ Ends(Try("result", "leave")) /\ Ends(Call("reset"))
        /\ Ends(Call("run")) /\ Ends(Call("succeed")) /\ Ends(Call("leave"))
    BY DEF Ends, Call, Try, TryOn, Over
  <2> QED
    BY <2>1, ComparesFew
<1>6. X \in Seq(CallRec)
  <2>1. ASSUME k.mass
        PROVE  EraseFlashMass("result") \in Seq(CallRec)
    <3>1. AllPaired(chip, EraseFlashMass("result"))
      BY <1>1, EraseMassPaired
    <3> QED
      BY <3>1 DEF AllPaired
  <2> QED
    BY <1>3, <2>1, ConcatAt
<1> HIDE DEF X, Y, Z, A, C, D
<1>7. X \o Y \in Seq(CallRec) /\ Coming(X \o Y)
  BY <1>4, <1>6, ComparesConcat
<1>8. (X \o Y) \o Z \in Seq(CallRec) /\ Coming((X \o Y) \o Z)
  BY <1>3, <1>5, <1>7, ComparesConcat
<1>9. A \o ((X \o Y) \o Z) \in Seq(CallRec) /\ Coming(A \o ((X \o Y) \o Z))
  BY <1>3, <1>8, ComparesConcat
<1>10. (A \o ((X \o Y) \o Z)) \o C \in Seq(CallRec) /\ Coming((A \o ((X \o Y) \o Z)) \o C)
  BY <1>3, <1>5, <1>9, ComparesConcat
<1> QED
  BY <1>2, <1>3, <1>5, <1>10, ComparesConcat

\* No bank is being erased; the second is not where there is one register.
Still(t) == \A b \in Bank : t.job[b] = {}
Lone(c, t) == ~TwoRegisters(c) => t.job[2] = {}

\* What a call leaves of the erases under way, and of the flash.
Calming(t, u) ==
  /\ \A b \in Bank : u.job[b] = t.job[b] \/ u.job[b] = {}
Undone(t, u) == Still(t) => u.mem = t.mem

\* The start bit of the one register that there is starts no erase in another.
LEMMA StartsLone ==
  ASSUME NEW c \in Chips, NEW t \in Controller(c), NEW b \in Bank, NEW l \in Exchange, Lone(c, t)
  PROVE  /\ Lone(c, SetFlashCrStrt(c, t, b, l))
         /\ \A u : Lone(c, PecrErase(c, t, u, l))
         /\ \A pages : Lone(c, CommandErase(c, t, pages, l))
<1> DEFINE r == Reg(c, b)
           one == WriteCr(c, t, b, ReadCr(c, t, b, l), l)
           u == SetFlashCrStrt(c, t, b, l)
<1>1. SUFFICES ASSUME ~TwoRegisters(c)
               PROVE  /\ u.job[2] = {}
                      /\ \A v : PecrErase(c, t, v, l).job[2] = {}
                      /\ \A pages : CommandErase(c, t, pages, l).job[2] = {}
  BY DEF Lone
<1>2. t.job[2] = {} /\ 1 \in Bank /\ 2 \in Bank /\ 1 # 2
  BY <1>1 DEF Lone, Bank
<1>3. r = 1
  BY <1>1 DEF Reg
<1>4. one \in Controller(c) /\ one.job = t.job
  BY ReadCrType, WriteCrType, WriteCrKeeps
<1>5. u = IF ~l.write THEN t ELSE BeginErase(c, one, r)
  BY DEF SetFlashCrStrt, StartSelected
<1> HIDE DEF one, r, u
<1>6. u.job[2] = {}
  BY <1>2, <1>3, <1>4, <1>5 DEF BeginErase, Controller
<1>7. \A v : PecrErase(c, t, v, l).job[2] = {}
  BY <1>2 DEF PecrErase, Controller
<1>8. \A pages : CommandErase(c, t, pages, l).job[2] = {}
  BY <1>2 DEF CommandErase, Controller
<1> QED
  BY <1>6, <1>7, <1>8 DEF u

\* What calms leaves the second bank alone.
LEMMA CalmingLone ==
  ASSUME NEW c, NEW t, NEW u, Lone(c, t), Calming(t, u)
  PROVE  Lone(c, u) /\ (Still(t) => Still(u))
<1>1. 2 \in Bank
  BY DEF Bank
<1> QED
  BY <1>1 DEF Lone, Calming, Still

\* The calls that touch the flash.
LEMMA TouchingCalms ==
  ASSUME TypeOK, Lone(chip, target),
         \/ SelectPageToErase \/ SetPer \/ Start \/ EraseWord \/ CommandPageErase
         \/ CommandMassErase \/ Load \/ ResetTarget \/ Leave
  PROVE  /\ Lone(chip, target')
         /\ ~Starts(Step) => Calming(target, target')
         /\ Step.op # "load" => Undone(target, target')
<1>0. chip \in Chips /\ target \in Controller(chip)
  BY DEF TypeOK
<1>1. ASSUME NEW f, NEW l, NEW t, Doing(f, l, t)
      PROVE  /\ l \in Exchange /\ todo # <<>> /\ Step.op = f /\ target' = t
             /\ Step \in CallRec /\ Fits(cmd, Step) /\ Step.at \in Nat
  <2>1. l \in Exchange /\ todo # <<>> /\ Step.op = f /\ target' = t
    BY <1>1, ExchangesAre DEF Doing, At
  <2> QED
    BY <2>1, HeadIs
<1>2. ASSUME NEW u, u.job = target.job
      PROVE  Calming(target, u)
  BY <1>2 DEF Calming
<1>3. ASSUME Calming(target, target')
      PROVE  Lone(chip, target')
  BY <1>3, CalmingLone
<1>4. ASSUME Keeps(chip, target, target')
      PROVE  Calming(target, target') /\ Lone(chip, target') /\ Undone(target, target')
  BY <1>2, <1>3, <1>4 DEF Keeps, Undone
<1>5. CASE SelectPageToErase
  <2>1. PICK l : Doing("select", l, Selected(target, Step.at, l))
    BY <1>5, TouchingAre
  <2>2. l \in Exchange /\ Step.at \in Nat /\ chip.type \notin {"L0_L1", "WB0"}
        /\ target' = Selected(target, Step.at, l)
    BY <1>1, <2>1 DEF Fits
  <2> QED
    BY <1>0, <1>4, <2>2, SelectedKeeps
<1>6. CASE SetPer
  <2>1. PICK l : Doing("set_PER", l, SetFlashCrPer(chip, target, Step.at, l))
    BY <1>6, TouchingAre
  <2>2. l \in Exchange /\ Step.at \in Bank /\ target' = SetFlashCrPer(chip, target, Step.at, l)
    BY <1>1, <2>1 DEF Fits, BankOps
  <2> QED
    BY <1>0, <1>4, <2>2, HelpersKeep
<1>7. CASE Start
  <2>1. PICK l : Doing("start", l, SetFlashCrStrt(chip, target, Step.at, l))
    BY <1>7, TouchingAre
  <2>2. l \in Exchange /\ Step.at \in Bank /\ target' = SetFlashCrStrt(chip, target, Step.at, l)
        /\ Step.op = "start"
    BY <1>1, <2>1 DEF Fits, BankOps
  <2>3. target'.mem = target.mem
    BY <1>0, <2>2, StartIs DEF Begun
  <2>4. Starts(Step)
    BY <2>2 DEF Starts, Starters
  <2> QED
    BY <1>0, <2>2, <2>3, <2>4, StartsLone DEF Undone
<1>8. CASE EraseWord
  <2>1. PICK l : Doing("erase_word", l, PecrErase(chip, target, Step.at, l))
    BY <1>8, TouchingAre
  <2>2. l \in Exchange /\ target' = PecrErase(chip, target, Step.at, l) /\ Step.op = "erase_word"
        /\ Step.at \in Nat
    BY <1>1, <2>1
  <2>3. target'.mem = target.mem
    BY <1>0, <2>2, CommandsBegin DEF Begun
  <2>4. Starts(Step) /\ 1 \in Bank
    BY <2>2 DEF Starts, Starters, Bank
  <2> QED
    BY <1>0, <2>2, <2>3, <2>4, StartsLone DEF Undone
<1>9. CASE CommandPageErase
  <2>1. PICK l : Doing("command_erase", l, CommandErase(chip, target, {PageAt(chip, Step.at)}, l))
    BY <1>9, TouchingAre
  <2>2. l \in Exchange /\ target' = CommandErase(chip, target, {PageAt(chip, Step.at)}, l)
        /\ Step.op = "command_erase" /\ Step.at \in Nat
    BY <1>1, <2>1
  <2>3. target'.mem = target.mem
    BY <1>0, <2>2 DEF CommandErase, Controller
  <2>4. Starts(Step) /\ 1 \in Bank
    BY <2>2 DEF Starts, Starters, Bank
  <2> QED
    BY <1>0, <2>2, <2>3, <2>4, StartsLone DEF Undone
<1>10. CASE CommandMassErase
  <2>1. PICK l : Doing("command_mass_erase", l, CommandErase(chip, target, Pages(chip), l))
    BY <1>10, TouchingAre
  <2>2. l \in Exchange /\ target' = CommandErase(chip, target, Pages(chip), l)
        /\ Step.op = "command_mass_erase"
    BY <1>1, <2>1
  <2>3. target'.mem = target.mem
    BY <1>0, <2>2 DEF CommandErase, Controller
  <2>4. Starts(Step) /\ 1 \in Bank
    BY <2>2 DEF Starts, Starters, Bank
  <2> QED
    BY <1>0, <2>2, <2>3, <2>4, StartsLone DEF Undone
<1>11. CASE Load
  <2>1. PICK l : \E soft \in BOOLEAN :
           Doing("load", l, IF l.write \/ soft THEN Program(chip, target, PageAt(chip, Step.at))
                            ELSE target)
    BY <1>11, TouchingAre
  <2>2. PICK soft \in BOOLEAN :
           Doing("load", l, IF l.write \/ soft THEN Program(chip, target, PageAt(chip, Step.at))
                            ELSE target)
    BY <2>1
  <2>3. Step.op = "load" /\ Step.at \in Nat
        /\ target' = IF l.write \/ soft THEN Program(chip, target, PageAt(chip, Step.at)) ELSE target
    BY <1>1, <2>2
  <2>4. PageAt(chip, Step.at) \in Pages(chip)
    BY <1>0, <2>3, PageIs
  <2>5. target'.job = target.job
    BY <1>0, <2>3, <2>4, ProgramIs
  <2> QED
    BY <1>2, <1>3, <2>3, <2>5
<1>12. CASE ResetTarget
  <2>1. PICK l : \E soft \in BOOLEAN :
           Doing("reset", l, IF l.write THEN Reset(target, soft) ELSE target)
    BY <1>12, TouchingAre
  <2>2. PICK soft \in BOOLEAN : Doing("reset", l, IF l.write THEN Reset(target, soft) ELSE target)
    BY <2>1
  <2>3. target' = target \/ target' = Reset(target, soft)
    BY <1>1, <2>2
  <2>4. Cuts(chip, target, Reset(target, soft))
    BY <1>0, ResetsCut
  <2>5. CASE target' = target
    BY <1>2, <1>3, <2>5 DEF Undone
  <2>6. CASE target' = Reset(target, soft)
    <3>1. Cuts(chip, target, target')
      BY <2>4, <2>6
    <3>2. Calming(target, target')
      BY <3>1 DEF Cuts, Calming
    <3>3. Still(target) => target'.mem = target.mem
      <4>1. SUFFICES ASSUME Still(target)  PROVE target'.mem = target.mem
        OBVIOUS
      <4>2. target.job[1] = {} /\ target.job[2] = {}
        BY <4>1 DEF Still, Bank
      <4>3. \A p \in Pages(chip) : target'.mem[p] = target.mem[p]
        BY <3>1, <4>2 DEF Cuts
      <4> QED
        BY <1>0, <3>1, <4>3 DEF Cuts, Controller
    <3> QED
      BY <1>3, <3>2, <3>3 DEF Undone
  <2> QED
    BY <2>3, <2>5, <2>6
<1>13. CASE Leave
  <2>1. PICK l : Doing("leave", l, IF l = Good /\ Step.at = 0 THEN LetGo(target) ELSE target)
    BY <1>13, TouchingAre
  <2>2. target' = target \/ target' = LetGo(target)
    BY <1>1, <2>1
  <2>3. target'.job = target.job /\ target'.mem = target.mem
    BY <1>0, <2>2 DEF LetGo, Controller
  <2> QED
    BY <1>2, <1>3, <2>3 DEF Undone
<1> QED
  BY <1>5, <1>6, <1>7, <1>8, <1>9, <1>10, <1>11, <1>12, <1>13

\* A write that goes well, so far: the comparison is ahead, with a wait for
\* erases before it or none under way; or it found what it should.
WellWritten == /\ cmd.do = "write" /\ killed = "" /\ ~failed
               /\ "verify" \notin lost /\ "wait" \notin lost /\ "identify" \notin lost
Comparing(s, t) == \/ Coming(s)
                   \/ Still(t) /\ Reading(s)
                   \/ Still(t) /\ Written(chip, cmd, t) /\ Final(s)
Compared == Lone(chip, target) /\ (WellWritten => Comparing(todo, target))

\* The comparison goes by the contents of the flash.
LEMMA WrittenIs ==
  ASSUME NEW t, NEW u, u.mem = t.mem, Written(chip, cmd, t)
  PROVE  Written(chip, cmd, u)
BY DEF Written

\* A call is made that succeeds.
LEMMA ComparingOn ==
  ASSUME NEW s \in Seq(CallRec), s # <<>>, NEW t, NEW u, Comparing(s, t),
         ~Starts(s[1]) => Calming(t, u), Ends(s[1]) => Undone(t, u), Waits(s[1]) => Still(u),
         Verifies(s[1]) => Written(chip, cmd, u)
  PROVE  Comparing(Tail(s), u)
<1>1. CASE Coming(s)
  BY <1>1, ComparesTail DEF Comparing
<1>2. CASE Still(t) /\ Reading(s)
  <2>1. ~Starts(s[1]) => Still(u)
    BY <1>2, CalmingLone DEF Calming, Still
  <2>2. Verifies(s[1]) => ~Starts(s[1])
    BY DEF Verifies, Starts, Starters
  <2>3. \/ ~Starts(s[1]) /\ Reading(Tail(s))
        \/ Verifies(s[1]) /\ Final(Tail(s))
    BY <1>2, ComparesTail
  <2> QED
    BY <2>1, <2>2, <2>3 DEF Comparing
<1>3. CASE Still(t) /\ Written(chip, cmd, t) /\ Final(s)
  <2>1. Ends(s[1]) /\ Final(Tail(s))
    BY <1>3, ComparesTail
  <2>2. ~Starts(s[1])
    BY <2>1 DEF Ends, Starts, Starters
  <2>3. Still(u)
    BY <1>3, <2>2 DEF Calming, Still
  <2>4. u.mem = t.mem
    BY <1>3, <2>1 DEF Undone
  <2>5. Written(chip, cmd, u)
    BY <1>3, <2>4, WrittenIs
  <2> QED
    BY <2>1, <2>3, <2>5 DEF Comparing
<1> QED
  BY <1>1, <1>2, <1>3 DEF Comparing

\* A call is replaced by others.
LEMMA ComparingMore ==
  ASSUME NEW s \in Seq(CallRec), s # <<>>, NEW t, Comparing(s, t), s[1].op \in Replaced,
         NEW calls \in Seq(CallRec), Starts(s[1]) \/ Calm(calls)
  PROVE  Comparing(calls \o Tail(s), t)
<1>0. Tail(s) \in Seq(CallRec)
  BY TailRest
<1>1. ~Waits(s[1]) /\ ~Verifies(s[1]) /\ ~Ends(s[1])
  BY DEF Waits, Verifies, Ends, Replaced
<1>2. CASE Coming(s)
  BY <1>0, <1>1, <1>2, ComparesTail, ComparesConcat DEF Comparing
<1>3. CASE Still(t) /\ Reading(s)
  <2>1. ~Starts(s[1]) /\ Reading(Tail(s))
    BY <1>1, <1>3, ComparesTail
  <2> QED
    BY <1>0, <1>3, <2>1, ComparesConcat DEF Comparing
<1>4. CASE Final(s)
  BY <1>1, <1>4, ComparesTail
<1> QED
  BY <1>2, <1>3, <1>4 DEF Comparing

\* A call that does not fail is followed by the next one.
LEMMA MadeTail ==
  ASSUME TypeOK, Made, WellWritten'
  PROVE  /\ WellWritten /\ todo' = Tail(todo) /\ chip' = chip /\ cmd' = cmd
         /\ todo # <<>> /\ todo \in Seq(CallRec) /\ Step = todo[1]
<1>1. PICK l \in Either : \E ok : Link(l) /\ Returns(ok)
  BY DEF Made
<1>2. PICK ok : Link(l) /\ Returns(ok)
  BY <1>1
<1>3. chip' = chip /\ cmd' = cmd /\ killed' = killed /\ lost \subseteq lost'
  BY <1>2 DEF Returns, Link
<1>4. ~failed' => ~failed /\ todo' = Tail(todo)
  BY <1>2 DEF Returns
<1>5. todo # <<>> /\ todo \in Seq(CallRec) /\ Step = todo[1]
  BY HeadIs DEF Made, Step
<1> QED
  BY <1>3, <1>4, <1>5 DEF WellWritten

\* Compared after a call.
LEMMA ComparedMade ==
  ASSUME TypeOK, Compared, Made, chip' = chip => Lone(chip, target'),
         ~Starts(Step) => Calming(target, target'), Ends(Step) => Undone(target, target'),
         WellWritten' /\ Waits(Step) => Still(target'),
         WellWritten' /\ Verifies(Step) => Written(chip, cmd, target')
  PROVE  Compared'
<1>1. chip' = chip
  BY MadeType DEF Made, Returns
<1>2. Lone(chip, target)'
  BY <1>1 DEF Lone
<1>3. ASSUME WellWritten'
      PROVE  Comparing(todo, target)'
  <2>1. /\ WellWritten /\ todo' = Tail(todo) /\ chip' = chip /\ cmd' = cmd
        /\ todo # <<>> /\ todo \in Seq(CallRec) /\ Step = todo[1]
    BY <1>3, MadeTail
  <2>2. Comparing(Tail(todo), target')
    BY <1>3, <2>1, ComparingOn DEF Compared
  <2>3. Written(chip, cmd, target)' <=> Written(chip, cmd, target')
    BY <2>1 DEF Written
  <2> QED
    BY <2>1, <2>2, <2>3 DEF Comparing, Still, Reading, Coming, Final, Compares, Starts, Ends,
       Waits, Verifies
<1> QED
  BY <1>2, <1>3 DEF Compared

\* A page of a range is loaded by calls that begin no erase.
LEMMA WritePageCalm ==
  ASSUME TypeOK, WritePage
  PROVE  \E calls \in Seq(CallRec) : Calm(calls) /\ Becomes(TRUE, calls)
<1> DEFINE next == FirstUnit(chip, PageAt(chip, Step.at)) + Extent(chip, PageAt(chip, Step.at))
           load == <<[Step EXCEPT !.op = "load"]>>
           page == IF chip.type \in {"F0_F1_F3", "F1_XL"}
                   THEN <<Call("unlock")>> \o load \o <<Call("lock")>> ELSE load
           rest == IF next < Step.end THEN <<[Step EXCEPT !.at = next]>> ELSE <<>>
           O == {"unlock", "load", "lock", "write"}
<1>1. todo # <<>> /\ Step.op = "write" /\ Becomes(TRUE, page \o rest)
  BY DEF WritePage, At
<1>2. Step \in CallRec /\ chip \in Chips /\ Step.at \in Nat
  BY <1>1, HeadIs DEF TypeOK
<1>3. next \in Nat
  BY <1>2, PageIs, PagesJoin
<1>4. O \in SUBSET (Ops \cup {"leave"}) /\ O \cap (Starters \cup {"erase_section", "erase_next"}) = {}
  BY DEF Ops, FreeOps, RangeOps, Starters
<1>5. [Step EXCEPT !.op = "load"] \in Of(O)
  BY <1>2, <1>4 DEF Of, CallRec
<1>6. ASSUME NEW n \in Nat  PROVE [Step EXCEPT !.at = n] \in Of(O)
  BY <1>1, <1>2, <1>4 DEF Of, CallRec
<1>7. Call("unlock") \in Of(O) /\ Call("lock") \in Of(O)
  BY <1>4, OfCalls
<1> HIDE DEF O, next
<1>8. load \in Seq(Of(O)) /\ <<Call("unlock")>> \in Seq(Of(O)) /\ <<Call("lock")>> \in Seq(Of(O))
      /\ <<>> \in Seq(Of(O))
  BY <1>5, <1>7, OfMembers, EmptyIn
<1>9. rest \in Seq(Of(O))
  <2>1. <<[Step EXCEPT !.at = next]>> \in Seq(Of(O))
    BY <1>3, <1>6, OfMembers
  <2> QED
    BY <1>8, <2>1
<1> HIDE DEF load, rest
<1>10. page \o rest \in Seq(Of(O))
  BY <1>8, <1>9, SeqConcat
<1> HIDE DEF page
<1>11. Calm(page \o rest) /\ page \o rest \in Seq(CallRec)
  BY <1>4, <1>10, CalmOf
<1> QED
  BY <1>1, <1>11

\* A wait that is answered ends when no bank is being erased.
LEMMA WaitStills ==
  ASSUME TypeOK, Compared, Wait
  PROVE  "wait" \notin lost' => Still(target')
<1> SUFFICES ASSUME "wait" \notin lost'  PROVE Still(target')
  OBVIOUS
<1>1. Step.op = "wait"
  BY DEF Wait, Calls, At
<1>2. PICK l \in Reads : Link(l) /\ target' = target
  BY DEF Wait, Calls
<1>3. l = Good
  BY <1>1, <1>2 DEF Link
<1>4. faults' = faults /\ faults \in Nat
  BY <1>2, <1>3 DEF Link, TypeOK
<1>5. IsFlashBusy(chip, target) => faults' > faults
  BY DEF Wait
<1>6. ~IsFlashBusy(chip, target)
  BY <1>4, <1>5
<1>7. \A b \in Registers(chip) : target.job[b] = {}
  BY <1>6 DEF IsFlashBusy
<1>8. ~TwoRegisters(chip) => target.job[2] = {}
  BY DEF Compared, Lone
<1>9. \A b \in Bank : target.job[b] = {}
  BY <1>7, <1>8 DEF Registers, Bank
<1> QED
  BY <1>2, <1>9 DEF Still

\* A comparison that is answered and does not fail found what was written.
LEMMA VerifyFinds ==
  ASSUME TypeOK, Verify
  PROVE  "verify" \notin lost' /\ ~failed' /\ Verifies(Step) => Written(chip, cmd, target')
<1> SUFFICES ASSUME "verify" \notin lost', ~failed', Verifies(Step)
             PROVE  Written(chip, cmd, target')
  OBVIOUS
<1> DEFINE same == \A p \in Pages(chip) : Covered(cmd, p) => target.mem[p] = "new"
<1>1. Step.op = "verify" /\ target' = target
  BY DEF Verify, At
<1>2. PICK l \in Reads : \E ok \in BOOLEAN : (l = Good => ok = same) /\ Link(l) /\ Returns(ok)
  BY DEF Verify
<1>3. PICK ok \in BOOLEAN : (l = Good => ok = same) /\ Link(l) /\ Returns(ok)
  BY <1>2
<1>4. l = Good
  BY <1>1, <1>3 DEF Link
<1>5. Step.to # ""
  BY DEF Verifies
<1>6. ok
  BY <1>3, <1>5 DEF Returns
<1>7. same
  BY <1>3, <1>4, <1>6
<1> QED
  BY <1>1, <1>7 DEF Written, Covered

\* The other calls that are made neither wait nor compare.
LEMMA MadeNeither ==
  ASSUME \/ ClearErrors \/ CheckErrors \/ Unlock \/ Lock \/ UnlockOptions \/ Relock
         \/ SetPg \/ ClearPg \/ ClearPer \/ SetMer \/ ClearMer \/ UnlockPecr \/ LockPecr
         \/ RestoreDma \/ InitLoader \/ ReadRegister \/ Unmask \/ EraseOptions \/ ProgramOption
         \/ BeginOptions \/ ChangeOptions \/ ForceDebug \/ Status \/ RunCore \/ Finalize \/ StopDma
         \/ SelectPageToErase \/ SetPer \/ Start \/ EraseWord \/ CommandPageErase
         \/ CommandMassErase \/ Load \/ ResetTarget \/ Leave
  PROVE  ~Waits(Step) /\ ~Verifies(Step)
<1>1. CASE \/ ClearErrors \/ CheckErrors \/ Unlock \/ Lock \/ UnlockOptions \/ Relock
           \/ SetPg \/ ClearPg \/ ClearPer \/ SetMer \/ ClearMer \/ UnlockPecr \/ LockPecr
           \/ RestoreDma \/ InitLoader \/ ReadRegister
  BY <1>1, Zenon DEF ClearErrors, CheckErrors, Unlock, Lock, UnlockOptions, Relock, SetPg,
     ClearPg, ClearPer, SetMer, ClearMer, UnlockPecr, LockPecr, RestoreDma, InitLoader,
     ReadRegister, Calls, At, Waits, Verifies
<1>2. CASE \/ Unmask \/ EraseOptions \/ ProgramOption
           \/ BeginOptions \/ ChangeOptions \/ ForceDebug \/ Status \/ RunCore \/ Finalize \/ StopDma
           \/ SelectPageToErase \/ SetPer \/ Start \/ EraseWord \/ CommandPageErase
           \/ CommandMassErase \/ Load \/ ResetTarget \/ Leave
  BY <1>2, Zenon DEF Unmask, EraseOptions, ProgramOption, BeginOptions, ChangeOptions, ForceDebug, Status, RunCore,
     Finalize, StopDma, SelectPageToErase, SetPer, Start, EraseWord, CommandPageErase,
     CommandMassErase, Load, ResetTarget, Leave, Calls, At, Waits, Verifies
<1> QED
  BY <1>1, <1>2

\* A call becomes others, or fails.
LEMMA ComparedReplaced ==
  ASSUME TypeOK, Listed, Compared, EraseSection \/ EraseNext \/ WritePage \/ CheckRange \/ Unsupported
  PROVE  Compared'
<1>1. todo # <<>> /\ Step.op \in Replaced /\ todo \in Seq(CallRec) /\ Step = todo[1]
  BY ReplacedIs, HeadIs DEF Step
<1>2. \E ok \in BOOLEAN : \E calls \in Seq(CallRec) :
         Becomes(ok, calls) /\ (ok => Starts(Step) \/ Calm(calls))
  <2>1. CASE WritePage
    <3>1. TRUE \in BOOLEAN
      OBVIOUS
    <3> QED
      BY <2>1, <3>1, WritePageCalm
  <2>2. CASE CheckRange
    <3> DEFINE ok == InFlash(Step.at, Step.end) /\ (Padded(cmd) \/ Aligned(Step.at))
    <3>1. Becomes(ok, <<>>) /\ ok \in BOOLEAN
      BY <2>2 DEF CheckRange
    <3>2. <<>> \in Seq(CallRec) /\ Calm(<<>>)
      BY EmptyIn, ComparesFew
    <3> HIDE DEF ok
    <3> QED
      BY <3>1, <3>2
  <2>3. CASE Unsupported
    <3>1. Becomes(FALSE, <<>>) /\ FALSE \in BOOLEAN /\ <<>> \in Seq(CallRec)
      BY <2>3, EmptyIn DEF Unsupported
    <3> QED
      BY <3>1
  <2>4. CASE EraseSection \/ EraseNext
    <3>1. PICK ok \in BOOLEAN : \E calls : Becoming(ok, calls)
      BY ReplacedIs, Zenon
    <3>2. PICK calls : Becoming(ok, calls)
      BY <3>1, Zenon
    <3>3. Becomes(ok, calls) /\ calls \in Seq(CallRec)
      BY <3>2, InnerPart DEF Becoming, Part, Open
    <3>4. Starts(Step)
      BY <2>4 DEF EraseSection, EraseNext, At, Starts
    <3> QED
      BY <3>3, <3>4
  <2> QED
    BY <2>1, <2>2, <2>3, <2>4
<1>3. PICK ok \in BOOLEAN : \E calls \in Seq(CallRec) :
         Becomes(ok, calls) /\ (ok => Starts(Step) \/ Calm(calls))
  BY <1>2, Zenon
<1>4. PICK calls \in Seq(CallRec) : Becomes(ok, calls) /\ (ok => Starts(Step) \/ Calm(calls))
  BY <1>3, Zenon
<1>5. /\ chip' = chip /\ target' = target /\ cmd' = cmd /\ killed' = killed /\ lost' = lost
      /\ ok => todo' = calls \o Tail(todo)
      /\ failed' = (failed \/ ~ok)
  BY <1>4 DEF Becomes
<1>6. Lone(chip, target)'
  BY <1>5 DEF Compared, Lone
<1>7. ASSUME WellWritten'
      PROVE  Comparing(todo, target)'
  <2>1. WellWritten /\ ok
    BY <1>5, <1>7 DEF WellWritten
  <2>2. Comparing(todo, target)
    BY <2>1 DEF Compared
  <2>3. Comparing(calls \o Tail(todo), target)
    BY <1>1, <1>4, <2>1, <2>2, ComparingMore
  <2>4. todo' = calls \o Tail(todo)
    BY <1>5, <2>1
  <2>5. Comparing(todo', target')
    BY <1>5, <2>3, <2>4
  <2>6. Written(chip, cmd, target)' <=> Written(chip, cmd, target')
    BY <1>5 DEF Written
  <2> QED
    BY <2>5, <2>6 DEF Comparing, Still, Reading, Coming, Final, Compares, Starts, Ends, Waits,
       Verifies
<1> QED
  BY <1>6, <1>7 DEF Compared

\* Compared is kept by every step.
LEMMA ComparedStep ==
  ASSUME TypeOK, Listed, Orderly, Compared, Next
  PROVE  Compared'
<1>0. chip \in Chips /\ target \in Controller(chip)
  BY DEF TypeOK
<1>1. Lone(chip, target)
  BY DEF Compared
<1>2. CASE \/ Wait \/ ClearErrors \/ CheckErrors \/ Unlock \/ Lock \/ UnlockOptions \/ Relock
           \/ SetPg \/ ClearPg \/ ClearPer \/ SetMer \/ ClearMer \/ UnlockPecr \/ LockPecr
           \/ RestoreDma \/ InitLoader \/ ReadRegister \/ Unmask \/ EraseOptions \/ ProgramOption
           \/ BeginOptions \/ ChangeOptions \/ ForceDebug \/ Status \/ RunCore \/ Finalize \/ StopDma
           \/ Verify
  <2>1. Made /\ Keeps(chip, target, target')
    BY <1>2, SteadyCalls
  <2>2. Calming(target, target') /\ Undone(target, target')
    BY <2>1 DEF Keeps, Calming, Undone
  <2>3. Lone(chip, target')
    BY <1>1, <2>2, CalmingLone
  <2>4. WellWritten' => "wait" \notin lost' /\ "verify" \notin lost' /\ ~failed'
    BY DEF WellWritten
  <2>5. CASE Wait
    <3>1. ~Verifies(Step)
      BY <2>5 DEF Wait, Calls, At, Verifies
    <3>2. WellWritten' => Still(target')
      BY <2>4, <2>5, WaitStills
    <3> QED
      BY <2>1, <2>2, <2>3, <3>1, <3>2, ComparedMade
  <2>6. CASE Verify
    <3>1. ~Waits(Step)
      BY <2>6 DEF Verify, At, Waits
    <3>2. WellWritten' /\ Verifies(Step) => Written(chip, cmd, target')
      BY <2>4, <2>6, VerifyFinds
    <3> QED
      BY <2>1, <2>2, <2>3, <3>1, <3>2, ComparedMade
  <2>7. CASE ~Wait /\ ~Verify
    <3>1. ~Waits(Step) /\ ~Verifies(Step)
      BY <1>2, <2>7, MadeNeither
    <3> QED
      BY <2>1, <2>2, <2>3, <3>1, ComparedMade
  <2> QED
    BY <2>5, <2>6, <2>7
<1>3. CASE \/ SelectPageToErase \/ SetPer \/ Start \/ EraseWord \/ CommandPageErase
           \/ CommandMassErase \/ Load \/ ResetTarget \/ Leave
  <2>1. Made
    BY <1>3, TouchingType
  <2>2. /\ Lone(chip, target')
        /\ ~Starts(Step) => Calming(target, target')
        /\ Step.op # "load" => Undone(target, target')
    BY <1>1, <1>3, TouchingCalms
  <2>3. ~Waits(Step) /\ ~Verifies(Step)
    BY <1>3, MadeNeither
  <2>4. Ends(Step) => Undone(target, target')
    BY <2>2 DEF Ends
  <2> QED
    BY <2>1, <2>2, <2>3, <2>4, ComparedMade
<1>4. CASE EraseSection \/ EraseNext \/ WritePage \/ CheckRange \/ Unsupported
  BY <1>4, ComparedReplaced
<1>5. CASE Begin
  <2>1. PICK k \in Lines(chip), how \in Connects, soft \in BOOLEAN, again \in BOOLEAN,
             known \in BOOLEAN :
          /\ cmd' = k /\ target' = Connected(how, soft)
          /\ todo' = IF known THEN Main(k, again) ELSE <<CallOn("leave", 1)>>
          /\ lost' = IF known THEN {} ELSE {"identify"}
    BY <1>5, ZenonT(40) DEF Begin
  <2>2. chip' = chip
    BY <1>5 DEF Begin
  <2>3. Lone(chip, target')
    <3>1. 1 \in Bank /\ 2 \in Bank
      BY DEF Bank
    <3>2. how \in {"normal", "under_reset", "hot-plug"}
      BY ConnectsAreKinds
    <3>3. CASE how \in {"normal", "under_reset"}
      <4>1. Cuts(chip, target, [Reset(target, soft) EXCEPT !.debug = TRUE])
        BY <1>0, ResetsCut, CutsMore
      <4>2. Cuts(chip, target, [ResetIntoVector(target) EXCEPT !.debug = TRUE])
        BY <1>0, ResetsCut, CutsMore
      <4>3. Cuts(chip, target, target')
        BY <2>1, <3>3, <4>1, <4>2 DEF Connected
      <4> QED
        BY <3>1, <4>3 DEF Cuts, Lone
    <3>4. CASE how = "hot-plug"
      <4>1. target' = [target EXCEPT !.debug = TRUE]
        BY <2>1, <3>4 DEF Connected
      <4>2. target'.job = target.job
        BY <1>0, <4>1 DEF Controller
      <4> QED
        BY <1>1, <4>2 DEF Lone
    <3> QED
      BY <3>2, <3>3, <3>4
  <2>4. ASSUME WellWritten'
        PROVE  Coming(todo')
    <3>1. k.do = "write" /\ known
      BY <2>1, <2>4 DEF WellWritten
    <3>2. Asking(k)
      BY <1>0, LinesAre
    <3>3. Coming(Main(k, again))
      BY <1>0, <3>1, <3>2, MainCompares
    <3> QED
      BY <2>1, <3>1, <3>3
  <2>5. Lone(chip, target)'
    BY <2>2, <2>3 DEF Lone
  <2>6. WellWritten' => Comparing(todo, target)'
    BY <2>4 DEF Comparing, Coming, Compares, Starts, Ends, Waits, Verifies
  <2> QED
    BY <2>5, <2>6 DEF Compared
<1>6. CASE Interrupt \/ Unplugged
  <2>1. killed' # "" /\ chip' = chip /\ target' = target
    BY <1>6 DEF Interrupt, Unplugged
  <2> QED
    BY <1>1, <2>1 DEF Compared, WellWritten, Lone
<1>7. CASE EraseEnds
  <2>1. PICK b \in Bank : target.job[b] # {} /\ target' = Finish(target, b)
    BY <1>7 DEF EraseEnds
  <2>2. /\ todo' = todo /\ cmd' = cmd /\ lost' = lost /\ chip' = chip
        /\ failed' = failed /\ killed' = killed
    BY <1>7 DEF EraseEnds, call, history
  <2>3. \A a \in Bank : target'.job[a] = target.job[a] \/ target'.job[a] = {}
    BY <1>0, <2>1 DEF Finish, Controller
  <2>4. Lone(chip, target')
    BY <1>1, <2>3, CalmingLone DEF Calming
  <2>5. ~Still(target)
    BY <2>1 DEF Still
  <2>6. ASSUME WellWritten'
        PROVE  Coming(todo')
    <3>1. WellWritten
      BY <2>2, <2>6 DEF WellWritten
    <3>2. Coming(todo)
      BY <2>5, <3>1 DEF Compared, Comparing
    <3> QED
      BY <2>2, <3>2
  <2>7. Lone(chip, target)'
    BY <2>2, <2>4 DEF Lone
  <2>8. WellWritten' => Comparing(todo, target)'
    BY <2>6 DEF Comparing, Coming, Compares, Starts, Ends, Waits, Verifies
  <2> QED
    BY <2>7, <2>8 DEF Compared
<1>8. CASE Result \/ Succeed
  <2>1. /\ todo # <<>> /\ Step.op \in {"result", "succeed"}
        /\ cmd' = cmd /\ lost' = lost /\ failed' = failed /\ killed' = killed
        /\ chip' = chip /\ target' = target
    BY <1>8 DEF Result, Succeed, At, history
  <2>2. todo \in Seq(CallRec) /\ Step = todo[1]
    BY <2>1, HeadIs DEF Step
  <2>3. ~failed' => todo' = Tail(todo)
    <3>1. Succeed => todo' = Tail(todo)
      BY DEF Succeed
    <3>2. ASSUME Result, ~failed'  PROVE todo' = Tail(todo)
      <4>1. ret = 0
        BY <2>1, <3>2 DEF Orderly
      <4>2. todo' = IF ret = -1 /\ Step.to = "leave" THEN From("leave") ELSE Tail(todo)
        BY <3>2 DEF Result
      <4>3. 0 # -1
        OBVIOUS
      <4> QED
        BY <4>1, <4>2, <4>3, Zenon
    <3> QED
      BY <1>8, <3>1, <3>2
  <2>4. Lone(chip, target)'
    BY <1>1, <2>1 DEF Lone
  <2>5. ASSUME WellWritten'
        PROVE  Comparing(todo, target)'
    <3>1. WellWritten /\ todo' = Tail(todo)
      BY <2>1, <2>3, <2>5 DEF WellWritten
    <3>2. Comparing(todo, target)
      BY <3>1 DEF Compared
    <3>3. ~Waits(todo[1]) /\ ~Verifies(todo[1]) /\ Calming(target, target) /\ Undone(target, target)
      BY <2>1, <2>2 DEF Waits, Verifies, Calming, Undone
    <3>4. Comparing(Tail(todo), target)
      BY <2>1, <2>2, <3>2, <3>3, ComparingOn
    <3>5. Comparing(todo', target')
      BY <2>1, <3>1, <3>4
    <3>6. Written(chip, cmd, target)' <=> Written(chip, cmd, target')
      BY <2>1 DEF Written
    <3> QED
      BY <3>5, <3>6 DEF Comparing, Still, Reading, Coming, Final, Compares, Starts, Ends, Waits,
         Verifies
  <2> QED
    BY <2>4, <2>5 DEF Compared
<1> QED
  BY <1>2, <1>3, <1>4, <1>5, <1>6, <1>7, <1>8 DEF Next

\* The half of SuccessMeansWritten that is about writing.
WrittenAfterSuccess ==
  Finished /\ err = 0 /\ cmd.do = "write" /\ {"verify", "wait"} \cap lost = {} =>
    \A p \in Pages(chip) : Covered(cmd, p) => target.mem[p] = "new"

\* At the end every page that was to be compared has been.
LEMMA ComparedEnds ==
  ASSUME Compared, Judged, FailureIsTold
  PROVE  WrittenAfterSuccess
<1> SUFFICES ASSUME Finished, err = 0, cmd.do = "write", {"verify", "wait"} \cap lost = {}
             PROVE  \A p \in Pages(chip) : Covered(cmd, p) => target.mem[p] = "new"
  BY DEF WrittenAfterSuccess
<1>1. todo = <<>> /\ killed = ""
  BY Zenon DEF Finished
<1>2. -1 # 0
  OBVIOUS
<1>3. "identify" \notin lost
  BY <1>1, <1>2, Zenon DEF Judged
<1>4. ~failed
  BY DEF FailureIsTold
<1>5. WellWritten
  BY <1>1, <1>3, <1>4 DEF WellWritten
<1>6. Comparing(todo, target)
  BY <1>5 DEF Compared
<1>7. ~Coming(todo) /\ ~Reading(todo)
  <2>1. Len(<<>>) = 0 /\ 1 .. 0 = {}
    BY EmptySeq
  <2>2. 1 .. Len(todo) = {}
    BY <1>1, <2>1
  <2> QED
    BY <2>2 DEF Coming, Reading
<1>8. Written(chip, cmd, target)
  BY <1>6, <1>7 DEF Comparing
<1> QED
  BY <1>8 DEF Written, Covered

\* A write that ends with status 0 has left in every page it covers what the file
\* holds: each page was read back after the last call that could change it, and
\* nothing ran on since, unless a lost exchange of a wait or of the verification
\* itself hid it.
THEOREM AlwaysWrittenAfterSuccess == Spec => [](Compared /\ WrittenAfterSuccess)
<1>1. Init => Compared
  <2> SUFFICES ASSUME Init  PROVE Compared
    OBVIOUS
  <2>1. cmd.do = "none" /\ target = Fresh(chip)
    BY DEF Init, Line
  <2>2. target.job[2] = {}
    BY <2>1 DEF Fresh, Bank
  <2> QED
    BY <2>1, <2>2 DEF Compared, WellWritten, Lone
<1>2. Compared /\ UNCHANGED vars => Compared'
  <2> SUFFICES ASSUME Compared, UNCHANGED vars  PROVE Compared'
    OBVIOUS
  <2>1. /\ todo' = todo /\ cmd' = cmd /\ lost' = lost /\ chip' = chip /\ target' = target
        /\ failed' = failed /\ killed' = killed
    BY DEF vars, call, history
  <2>2. WellWritten' => WellWritten
    BY <2>1 DEF WellWritten
  <2>3. Written(chip, cmd, target)' <=> Written(chip, cmd, target)
    BY <2>1 DEF Written
  <2>4. Comparing(todo, target) => Comparing(todo, target)'
    BY <2>1, <2>3 DEF Comparing, Still, Reading, Coming, Final, Compares, Starts, Ends, Waits,
       Verifies
  <2> QED
    BY <2>1, <2>2, <2>4 DEF Compared, Lone
<1>3. TypeOK /\ Listed /\ Orderly /\ Compared /\ [Next]_vars => Compared'
  BY <1>2, ComparedStep
<1>4. Compared /\ Judged /\ FailureIsTold => WrittenAfterSuccess
  BY ComparedEnds
<1> QED
  BY <1>1, <1>3, <1>4, CallsInOrder, AlwaysOrderly, AlwaysFailureIsTold, PTL DEF Spec

-----------------------------------------------------------------------------
(***************************************************************************)
(* What lists of calls make of the controller when every exchange is       *)
(* answered: before each call it is in a known set.                        *)
(***************************************************************************)

\* A set of controllers that the end of an erase does not leave.
Fixed(c, P) ==
  P \subseteq Controller(c) /\ \A t \in P : \A b \in Bank : t.job[b] # {} => Finish(t, b) \in P

\* The pages of a range that is to be erased.
PagesOf(c, n, e) ==
  {p \in Pages(c) : FirstUnit(c, p) < e /\ n < FirstUnit(c, p) + Extent(c, p)}

\* The second bank is not erased where there is one register, and where there
\* are two they agree on being locked.
Held(c, t) ==
  Lone(c, t) /\ (TwoRegisters(c) => ("LOCK" \in t.cr[1] <=> "LOCK" \in t.cr[2]))

\* Controllers with the pages T blank; of those, the ones that erase nothing.
Kept(c, T) == {t \in Controller(c) : Held(c, t) /\ \A p \in T : t.mem[p] = "blank"}
Resting(c, T) == {t \in Kept(c, T) : Still(t)}

\* A status register shows an error.
Erred(c, t) == t.sr \cap Registers(c) # {}

\* A range becomes the erasing of its pages.  Once begun it goes from page to
\* page, and ends in the flash.
Unfolds(c, x, P, Q) ==
  /\ x.op \in {"erase_section", "erase_next"}
  /\ x.op = "erase_next" => x.end <= FlashSize(c) /\ \E p \in Pages(c) : FirstUnit(c, p) = x.at
  /\ \E T : /\ T \subseteq Pages(c) /\ P \subseteq Kept(c, T)
            /\ Resting(c, T \cup PagesOf(c, x.at, x.end)) \subseteq Q

\* Controllers that show no error and have none of the bits B set; that erase a
\* page when they are told to; and that program any page, where each is unlocked
\* for the purpose once it is, with the pages R to be programmed and N done.
Free(c, B) == {t \in Controller(c) : t.sr = {} /\ \A b \in Registers(c) : B \cap t.cr[b] = {}}
Trim(c, T) == Resting(c, T) \cap Free(c, {"PG", "MER"})
Unlocking(c, t) == IF c.type \in {"F0_F1_F3", "F1_XL"} THEN UnlockFlash(c, t, Good) ELSE t
Primed(c, R, N) ==
  {t \in Resting(c, R) : /\ t.sr = {} /\ \A p \in N : t.mem[p] = "new"
                         /\ \A p \in Pages(c) : Programmable(c, Unlocking(c, t), p)}

\* A call that becomes others is one that the command k may make, and so are
\* those, of a chip that lets its flash be changed.
Willing(c) == ~(c.type = "WB0" /\ c.refuses)
PageBegins(c, u) == \E p \in Pages(c) : FirstUnit(c, p) = u
Turns(c, k, x, P, Q) ==
  /\ x.at < FlashSize(c) /\ x.end <= FlashSize(c) /\ Known(c) /\ Willing(c)
  /\ \/ /\ x.op = "check_range" /\ P \subseteq Q
        /\ (k.odd /\ c.type # "C5") \/ PageBegins(c, x.at)
     \/ /\ x.op \in {"erase_section", "erase_next"} /\ x.at < x.end /\ PageBegins(c, x.at)
        /\ k.do = "write" \/ x.end = FlashSize(c) \/ PageBegins(c, x.end)
        /\ \E T : /\ T \subseteq Pages(c) /\ P \subseteq Trim(c, T)
                  /\ Trim(c, T \cup PagesOf(c, x.at, x.end)) \subseteq Q
     \/ /\ x.op = "write" /\ x.at < x.end
        /\ \E N : /\ N \subseteq Pages(c) /\ P \subseteq Primed(c, PagesOf(c, x.at, x.end), N)
                  /\ Primed(c, {}, N \cup PagesOf(c, x.at, x.end)) \subseteq Q

\* The call x takes the controllers P to Q: for AnyLine, unless it finds an
\* error; for the command k, without fail.
AnyLine == [do |-> "any"]
Takes(c, k, x, P, Q) ==
  IF x.op \in Replaced THEN IF k = AnyLine THEN Unfolds(c, x, P, Q) ELSE Turns(c, k, x, P, Q)
  ELSE \A t \in P :
         /\ k # AnyLine /\ x.to # "" => Passes(c, k, x, t)
         /\ (x.op = "check_errors" /\ x.to # "" => ~Erred(c, t)) =>
              \A a, u, bk : u \in Controller(c) /\ Does(c, x, t, a, u, bk) => u \in Q

\* The sets A of controllers, before each of the calls s and after the last.
Outline(c, k, s, A) ==
  /\ \A i \in 1 .. Len(s) + 1 : Fixed(c, A[i])
  /\ \A i \in 1 .. Len(s) : Takes(c, k, s[i], A[i], A[i + 1])
Leads(c, k, s, P, Q) ==
  \E A : Outline(c, k, s, A) /\ P \subseteq A[1] /\ A[Len(s) + 1] \subseteq Q

\* From less, or to more.
LEMMA TakesMore ==
  ASSUME NEW c, NEW k, NEW x, NEW P, NEW Q, NEW R, NEW V,
         Takes(c, k, x, P, Q), R \subseteq P, Q \subseteq V
  PROVE  Takes(c, k, x, R, V)
<1>1. CASE x.op \in Replaced /\ k = AnyLine
  <2>1. Unfolds(c, x, P, Q)
    BY <1>1 DEF Takes
  <2>2. PICK T : /\ T \subseteq Pages(c) /\ P \subseteq Kept(c, T)
                 /\ Resting(c, T \cup PagesOf(c, x.at, x.end)) \subseteq Q
    BY <2>1, Zenon DEF Unfolds
  <2>3. R \subseteq Kept(c, T) /\ Resting(c, T \cup PagesOf(c, x.at, x.end)) \subseteq V
    BY <2>2
  <2>4. Unfolds(c, x, R, V)
    BY <2>1, <2>2, <2>3, Zenon DEF Unfolds
  <2> QED
    BY <1>1, <2>4 DEF Takes
<1>3. CASE x.op \in Replaced /\ k # AnyLine
  <2>1. Turns(c, k, x, P, Q)
    BY <1>3 DEF Takes
  <2>2. ASSUME NEW A, NEW B, P \subseteq A, B \subseteq Q
        PROVE  R \subseteq A /\ B \subseteq V
    BY <2>2
  <2>3. Turns(c, k, x, R, V)
    BY <2>1, <2>2, Zenon DEF Turns
  <2> QED
    BY <1>3, <2>3 DEF Takes
<1>2. CASE x.op \notin Replaced
  BY <1>2, Zenon DEF Takes
<1> QED
  BY <1>1, <1>2, <1>3

\* No calls.
LEMMA LeadsNone ==
  ASSUME NEW c, NEW k, NEW P, NEW Q, P \subseteq Q, Fixed(c, Q)
  PROVE  Leads(c, k, <<>>, P, Q)
<1> DEFINE A == [i \in 1 .. 1 |-> Q]
<1>1. Len(<<>>) = 0 /\ Len(<<>>) + 1 = 1 /\ 1 \in 1 .. 1
  BY EmptySeq
<1>2. A[1] = Q /\ \A i \in 1 .. 1 : A[i] = Q
  BY <1>1
<1> HIDE DEF A
<1>3. Outline(c, k, <<>>, A)
  BY <1>1, <1>2 DEF Outline
<1> QED
  BY <1>1, <1>2, <1>3 DEF Leads

\* One.
LEMMA LeadsOne ==
  ASSUME NEW c, NEW k, NEW x, NEW P, NEW Q,
         Takes(c, k, x, P, Q), Fixed(c, P), Fixed(c, Q)
  PROVE  Leads(c, k, <<x>>, P, Q)
<1> DEFINE A == <<P, Q>>
           s == <<x>>
<1>1. Len(s) = 1 /\ s[1] = x /\ A[1] = P /\ A[2] = Q
  OBVIOUS
<1> HIDE DEF A, s
<1>2. \A i \in 1 .. 2 : i = 1 \/ i = 2
  OBVIOUS
<1>3. \A i \in 1 .. 1 : i = 1 /\ i + 1 = 2
  OBVIOUS
<1>4. Len(s) + 1 = 2
  BY <1>1
<1>5. \A i \in 1 .. Len(s) + 1 : Fixed(c, A[i])
  BY <1>1, <1>2, <1>4
<1>6. \A i \in 1 .. Len(s) : Takes(c, k, s[i], A[i], A[i + 1])
  BY <1>1, <1>3
<1>7. Outline(c, k, s, A)
  BY <1>5, <1>6 DEF Outline
<1>8. Leads(c, k, s, P, Q)
  BY <1>1, <1>4, <1>7 DEF Leads
<1> QED
  BY <1>8 DEF s

\* One list after another.
LEMMA LeadsConcat ==
  ASSUME NEW c, NEW k, NEW s \in Seq(CallRec), NEW t \in Seq(CallRec),
         NEW P, NEW Q, NEW R, Leads(c, k, s, P, Q), Leads(c, k, t, Q, R)
  PROVE  s \o t \in Seq(CallRec) /\ Leads(c, k, s \o t, P, R)
<1> DEFINE n == Len(s)
           m == Len(t)
<1>1. PICK A : Outline(c, k, s, A) /\ P \subseteq A[1] /\ A[Len(s) + 1] \subseteq Q
  BY DEF Leads
<1>2. PICK B : Outline(c, k, t, B) /\ Q \subseteq B[1] /\ B[Len(t) + 1] \subseteq R
  BY DEF Leads
<1> DEFINE C == [i \in 1 .. n + m + 1 |-> IF i <= n THEN A[i] ELSE B[i - n]]
<1>3. /\ s \o t \in Seq(CallRec) /\ Len(s \o t) = n + m
      /\ n \in Nat /\ m \in Nat
      /\ \A i \in 1 .. n : (s \o t)[i] = s[i]
      /\ \A i \in 1 .. m : (s \o t)[n + i] = t[i]
  BY ConcatAt
<1>4. /\ \A i \in 1 .. n + m + 1 : C[i] = IF i <= n THEN A[i] ELSE B[i - n]
  OBVIOUS
<1> HIDE DEF n, m, C
<1>5. ASSUME NEW i \in 1 .. n + m + 1
      PROVE  Fixed(c, C[i])
  <2>1. CASE i <= n
    <3>1. i \in 1 .. Len(s) + 1
      BY <1>3, <2>1 DEF n
    <3> QED
      BY <1>1, <1>4, <2>1, <3>1 DEF Outline
  <2>2. CASE ~(i <= n)
    <3>1. i - n \in 1 .. Len(t) + 1
      BY <1>3, <2>2 DEF m
    <3> QED
      BY <1>2, <1>4, <2>2, <3>1 DEF Outline
  <2> QED
    BY <2>1, <2>2
<1>6. ASSUME NEW i \in 1 .. n + m
      PROVE  Takes(c, k, (s \o t)[i], C[i], C[i + 1])
  <2>0. i \in 1 .. n + m + 1 /\ i + 1 \in 1 .. n + m + 1 /\ i \in Nat
    BY <1>3
  <2>1. CASE i <= n
    <3>1. i \in 1 .. n /\ i \in 1 .. Len(s)
      BY <1>3, <2>1 DEF n
    <3>2. Takes(c, k, s[i], A[i], A[i + 1])
      BY <1>1, <3>1 DEF Outline
    <3>3. A[i + 1] \subseteq C[i + 1]
      <4>1. CASE i + 1 <= n
        BY <1>4, <2>0, <4>1
      <4>2. CASE ~(i + 1 <= n)
        <5>1. i + 1 = Len(s) + 1 /\ (i + 1) - n = 1
          BY <1>3, <2>1, <4>2 DEF n
        <5>2. C[i + 1] = B[1]
          BY <1>4, <2>0, <4>2, <5>1
        <5> QED
          BY <1>1, <1>2, <5>1, <5>2
      <4> QED
        BY <4>1, <4>2
    <3>4. C[i] = A[i] /\ (s \o t)[i] = s[i]
      BY <1>3, <1>4, <2>0, <2>1, <3>1
    <3>5. Takes(c, k, s[i], A[i], C[i + 1])
      BY <3>2, <3>3, TakesMore
    <3> QED
      BY <3>4, <3>5
  <2>2. CASE ~(i <= n)
    <3>1. i - n \in 1 .. m /\ i - n \in 1 .. Len(t) /\ n + (i - n) = i /\ (i + 1) - n = (i - n) + 1
          /\ ~(i + 1 <= n)
      BY <1>3, <2>2 DEF m
    <3>2. Takes(c, k, t[i - n], B[i - n], B[(i - n) + 1])
      BY <1>2, <3>1 DEF Outline
    <3>3. C[i] = B[i - n] /\ C[i + 1] = B[(i - n) + 1] /\ (s \o t)[i] = t[i - n]
      BY <1>3, <1>4, <2>0, <2>2, <3>1
    <3> QED
      BY <3>2, <3>3
  <2> QED
    BY <2>1, <2>2
<1>7. Outline(c, k, s \o t, C)
  BY <1>3, <1>5, <1>6 DEF Outline
<1>8. P \subseteq C[1]
  <2>1. 1 \in 1 .. n + m + 1 /\ (n >= 1 \/ (n = 0 /\ 1 - n = 1))
    BY <1>3
  <2>2. CASE n >= 1
    BY <1>1, <1>4, <2>1, <2>2
  <2>3. CASE n = 0
    <3>1. C[1] = B[1]
      BY <1>4, <2>1, <2>3
    <3>2. P \subseteq A[1] /\ A[1] \subseteq Q
      BY <1>1, <2>3 DEF n
    <3> QED
      BY <1>2, <3>1, <3>2
  <2> QED
    BY <2>1, <2>2, <2>3
<1>9. C[Len(s \o t) + 1] \subseteq R
  <2>1. n + m + 1 \in 1 .. n + m + 1 /\ ~(n + m + 1 <= n) /\ (n + m + 1) - n = m + 1
    BY <1>3
  <2>2. C[n + m + 1] = B[m + 1]
    BY <1>4, <2>1
  <2> QED
    BY <1>2, <1>3, <2>2 DEF m
<1> QED
  BY <1>3, <1>7, <1>8, <1>9 DEF Leads

\* Between the same controllers, all through.
LEMMA LeadsAll ==
  ASSUME NEW c, NEW k, NEW S, NEW s \in Seq(S), NEW P, Fixed(c, P),
         \A x \in S : Takes(c, k, x, P, P)
  PROVE  Leads(c, k, s, P, P)
<1> DEFINE A == [i \in 1 .. Len(s) + 1 |-> P]
<1>1. Len(s) \in Nat /\ \A i \in 1 .. Len(s) : s[i] \in S
  BY LenProperties, ElementOfSeq
<1>2. /\ \A i \in 1 .. Len(s) + 1 : A[i] = P
  OBVIOUS
<1>3. 1 \in 1 .. Len(s) + 1 /\ Len(s) + 1 \in 1 .. Len(s) + 1
      /\ \A i \in 1 .. Len(s) : i \in 1 .. Len(s) + 1 /\ i + 1 \in 1 .. Len(s) + 1
  BY <1>1
<1> HIDE DEF A
<1>4. Outline(c, k, s, A)
  BY <1>1, <1>2, <1>3 DEF Outline
<1>5. P \subseteq A[1] /\ A[Len(s) + 1] \subseteq P
  BY <1>2, <1>3
<1> QED
  BY <1>4, <1>5 DEF Leads

\* The first call is made.
LEMMA LeadsTail ==
  ASSUME NEW c, NEW k, NEW s \in Seq(CallRec), s # <<>>, NEW P, NEW Q,
         Leads(c, k, s, P, Q)
  PROVE  \E R : /\ Takes(c, k, s[1], P, R)
                /\ Leads(c, k, Tail(s), R, Q)
<1> DEFINE u == Tail(s)
<1>1. PICK A : Outline(c, k, s, A) /\ P \subseteq A[1] /\ A[Len(s) + 1] \subseteq Q
  BY DEF Leads
<1> DEFINE B == [i \in 1 .. Len(s) |-> A[i + 1]]
<1>2. Tail(s) \in Seq(CallRec) /\ Rest(Tail(s), s, 1) /\ Len(s) \in Nat \ {0}
  BY TailRest
<1>3. Len(u) = Len(s) - 1 /\ (\A i \in 1 .. Len(u) : u[i] = s[1 + i]) /\ Len(u) \in Nat
  BY <1>2 DEF Rest
<1>4. Len(u) + 1 = Len(s)
  BY <1>2, <1>3
<1>5. \A i \in 1 .. Len(s) : B[i] = A[i + 1]
  OBVIOUS
<1>6. 1 \in 1 .. Len(s) /\ Len(s) \in 1 .. Len(s) /\ 1 + 1 = 2
      /\ \A i \in 1 .. Len(s) : i + 1 \in 1 .. Len(s) + 1
  BY <1>2
<1> HIDE DEF B, u
<1>7. ASSUME NEW i \in 1 .. Len(u)
      PROVE  Takes(c, k, u[i], B[i], B[i + 1])
  <2>1. i \in 1 .. Len(s) /\ i + 1 \in 1 .. Len(s) /\ 1 + i = i + 1
    BY <1>3, <1>4
  <2>2. Takes(c, k, s[i + 1], A[i + 1], A[(i + 1) + 1])
    BY <1>1, <2>1 DEF Outline
  <2> QED
    BY <1>3, <1>5, <2>1, <2>2
<1>8. Outline(c, k, u, B)
  BY <1>1, <1>4, <1>5, <1>6, <1>7 DEF Outline
<1>9. Leads(c, k, u, B[1], Q)
  BY <1>1, <1>4, <1>5, <1>6, <1>8 DEF Leads
<1>10. Takes(c, k, s[1], A[1], B[1])
  BY <1>1, <1>5, <1>6 DEF Outline
<1>11. Takes(c, k, s[1], P, B[1])
  BY <1>1, <1>10, TakesMore
<1> QED
  BY <1>9, <1>11 DEF u

\* An erase may end before the first call.
LEMMA LeadsFixed ==
  ASSUME NEW c, NEW k, NEW s \in Seq(CallRec), NEW P, NEW Q,
         Leads(c, k, s, P, Q)
  PROVE  \E R : P \subseteq R /\ Fixed(c, R) /\ Leads(c, k, s, R, Q)
<1>1. PICK A : Outline(c, k, s, A) /\ P \subseteq A[1] /\ A[Len(s) + 1] \subseteq Q
  BY DEF Leads
<1>2. Len(s) \in Nat
  BY LenProperties
<1>3. 1 \in 1 .. Len(s) + 1
  BY <1>2
<1>4. Fixed(c, A[1])
  BY <1>1, <1>3 DEF Outline
<1>5. Leads(c, k, s, A[1], Q)
  BY <1>1 DEF Leads
<1> QED
  BY <1>1, <1>4, <1>5

\* From less, or to more.
LEMMA LeadsMore ==
  ASSUME NEW c, NEW k, NEW s, NEW P, NEW Q, NEW R, NEW V,
         Leads(c, k, s, P, Q), R \subseteq P, Q \subseteq V
  PROVE  Leads(c, k, s, R, V)
BY Zenon DEF Leads

\* The pages N are being erased, or blank, unless an error was found, if the
\* calls ask for one (e).
Erasing(c, T, N, e) ==
  {t \in Kept(c, T) :
     (e /\ Erred(c, t)) \/ \A p \in N : p \in t.job[1] \cup t.job[2] \/ t.mem[p] = "blank"}
Ended(c, T, N, e) ==
  {t \in Resting(c, T) : (e /\ Erred(c, t)) \/ \A p \in N : t.mem[p] = "blank"}

\* Unlocked, and from bank b on nothing is being erased; with a bit set there;
\* with the pages M to be erased next, or with bits that are an error together.
Partway(c, T, N, b) ==
  {t \in Erasing(c, T, N, TRUE) : /\ \A r \in Registers(c) : "LOCK" \notin t.cr[r]
                                  /\ \A d \in Bank : d >= b => t.job[d] = {}}
Marked(c, T, b) == {t \in Partway(c, T, {}, b) : "PER" \in t.cr[b]}
Aimed(c, T, N, b, M) ==
  {t \in Partway(c, T, N, b) : {"PER", "MER"} \subseteq t.cr[b] \/ Erases(c, t, b) = M}
PecrOpened(c, T) == {t \in Resting(c, T) : {"LOCK", "PRGLOCK"} \cap t.cr[1] = {}}

\* The same pages, erases and errors, and locks.
SameFlash(t, u) == u.job = t.job /\ u.mem = t.mem
SameErrors(c, t, u) == u.sr = t.sr
SameLocks(c, t, u) == \A r \in Registers(c) : "LOCK" \in u.cr[r] <=> "LOCK" \in t.cr[r]

\* The end of an erase.
LEMMA FinishDoes ==
  ASSUME NEW c \in Chips, NEW t \in Controller(c), NEW b \in Bank
  PROVE  /\ Finish(t, b) \in Controller(c) /\ Finish(t, b).cr = t.cr /\ Finish(t, b).sr = t.sr
         /\ Finish(t, b).sel = t.sel
         /\ \A d \in Bank : Finish(t, b).job[d] = IF d = b THEN {} ELSE t.job[d]
         /\ \A p \in Pages(c) : Finish(t, b).mem[p] = IF p \in t.job[b] THEN "blank" ELSE t.mem[p]
<1> DEFINE u == Finish(t, b)
<1>1. u = [t EXCEPT !.job[b] = {},
                    !.mem = [p \in DOMAIN t.mem |-> IF p \in t.job[b] THEN "blank" ELSE t.mem[p]]]
  BY DEF Finish
<1>2. DOMAIN t.mem = Pages(c)
  BY DEF Controller
<1>3. u.sr = t.sr
  BY <1>1 DEF Controller
<1>4. u.job = [t.job EXCEPT ![b] = {}]
  BY <1>1 DEF Controller
<1>5. u.mem = [p \in Pages(c) |-> IF p \in t.job[b] THEN "blank" ELSE t.mem[p]]
  BY <1>1, <1>2 DEF Controller
<1>6. \A d \in Bank : u.job[d] = IF d = b THEN {} ELSE t.job[d]
  BY <1>4 DEF Controller
<1>7. \A p \in Pages(c) : u.mem[p] = IF p \in t.job[b] THEN "blank" ELSE t.mem[p]
  BY <1>5
<1> HIDE DEF u
<1>8. QED
  BY <1>3, <1>6, <1>7, FinishIs DEF u

\* These sets are not left when an erase ends.
LEMMA KeptFixed ==
  ASSUME NEW c \in Chips, NEW T \in SUBSET Pages(c)
  PROVE  /\ Fixed(c, Kept(c, T))
         /\ \A P \in SUBSET Resting(c, T) : Fixed(c, P)
<1>1. ASSUME NEW t \in Kept(c, T), NEW b \in Bank
      PROVE  Finish(t, b) \in Kept(c, T)
  <2>1. t \in Controller(c) /\ 1 \in Bank /\ 2 \in Bank
    BY RegistersAre DEF Kept
  <2>2. Held(c, Finish(t, b))
    <3>1. Held(c, t)
      BY DEF Kept
    <3>2. /\ Finish(t, b).cr = t.cr
          /\ \A d \in Bank : Finish(t, b).job[d] = IF d = b THEN {} ELSE t.job[d]
      BY <2>1, FinishDoes
    <3> QED
      BY <2>1, <3>1, <3>2 DEF Held, Lone
  <2>3. ASSUME NEW p \in T  PROVE Finish(t, b).mem[p] = "blank"
    <3>1. t.mem[p] = "blank" /\ p \in Pages(c)
      BY DEF Kept
    <3> QED
      BY <2>1, <3>1, FinishDoes
  <2> QED
    BY <2>1, <2>2, <2>3, FinishDoes DEF Kept
<1>2. Kept(c, T) \subseteq Controller(c)
  BY DEF Kept
<1>3. Fixed(c, Kept(c, T))
  BY <1>1, <1>2 DEF Fixed
<1>4. ASSUME NEW P \in SUBSET Resting(c, T)
      PROVE  Fixed(c, P)
  BY <1>2 DEF Resting, Still, Fixed
<1> QED
  BY <1>3, <1>4

\* So are those in which pages are being erased, or have been.
LEMMA ErasingFixed ==
  ASSUME NEW c \in Chips, NEW T \in SUBSET Pages(c), NEW N \in SUBSET Pages(c)
  PROVE  /\ \A e \in BOOLEAN : Fixed(c, Erasing(c, T, N, e)) /\ Fixed(c, Ended(c, T, N, e))
         /\ \A b \in Bank : Fixed(c, Partway(c, T, N, b)) /\ Fixed(c, Marked(c, T, b))
         /\ \A b \in Bank : \A M : Fixed(c, Aimed(c, T, N, b, M))
<1>0. 1 \in Bank /\ 2 \in Bank /\ (\A b \in Bank : b = 1 \/ b = 2)
  BY DEF Bank
<1>1. ASSUME NEW K \in SUBSET Pages(c), NEW e \in BOOLEAN, NEW t \in Erasing(c, T, K, e),
             NEW b \in Bank, t.job[b] # {}
      PROVE  Finish(t, b) \in Erasing(c, T, K, e)
  <2>1. t \in Controller(c) /\ t \in Kept(c, T)
    BY DEF Erasing, Kept
  <2>2. Finish(t, b) \in Kept(c, T)
    BY <1>1, <2>1, KeptFixed DEF Fixed
  <2>3. Erred(c, t) => Erred(c, Finish(t, b))
    BY <2>1, FinishDoes DEF Erred
  <2>4. ASSUME NEW p \in K, p \in t.job[1] \cup t.job[2] \/ t.mem[p] = "blank"
        PROVE  p \in Finish(t, b).job[1] \cup Finish(t, b).job[2] \/ Finish(t, b).mem[p] = "blank"
    <3>1. p \in Pages(c)
      OBVIOUS
    <3>2. /\ \A d \in Bank : Finish(t, b).job[d] = IF d = b THEN {} ELSE t.job[d]
          /\ Finish(t, b).mem[p] = IF p \in t.job[b] THEN "blank" ELSE t.mem[p]
      BY <2>1, <3>1, FinishDoes
    <3> QED
      BY <1>0, <2>4, <3>2
  <2> QED
    BY <2>2, <2>3, <2>4 DEF Erasing
<1>2. ASSUME NEW e \in BOOLEAN
      PROVE  Fixed(c, Erasing(c, T, N, e)) /\ Fixed(c, Ended(c, T, N, e))
  <2>1. Erasing(c, T, N, e) \subseteq Controller(c)
    BY DEF Erasing, Kept
  <2>2. Fixed(c, Erasing(c, T, N, e))
    BY <1>1, <2>1 DEF Fixed
  <2>3. Ended(c, T, N, e) \subseteq Resting(c, T)
    BY DEF Ended
  <2> QED
    BY <2>2, <2>3, KeptFixed
<1>3. ASSUME NEW K \in SUBSET Pages(c), NEW b \in Bank, NEW t \in Partway(c, T, K, b),
             NEW d \in Bank, t.job[d] # {}
      PROVE  Finish(t, d) \in Partway(c, T, K, b) /\ Finish(t, d).cr = t.cr
             /\ Finish(t, d).sel = t.sel
  <2>1. t \in Controller(c) /\ t \in Erasing(c, T, K, TRUE) /\ TRUE \in BOOLEAN
    BY DEF Partway, Erasing, Kept
  <2>2. Finish(t, d) \in Erasing(c, T, K, TRUE)
    BY <1>1, <1>3, <2>1
  <2>3. /\ Finish(t, d).cr = t.cr /\ Finish(t, d).sel = t.sel
        /\ \A r \in Bank : t.job[r] = {} => Finish(t, d).job[r] = {}
    <3>1. \A r \in Bank : Finish(t, d).job[r] = IF r = d THEN {} ELSE t.job[r]
      BY <2>1, FinishDoes
    <3>2. \A r \in Bank : t.job[r] = {} => Finish(t, d).job[r] = {}
      BY <3>1
    <3> QED
      BY <2>1, <3>2, FinishDoes
  <2>4. /\ \A r \in Registers(c) : "LOCK" \notin t.cr[r]
        /\ \A r \in Bank : r >= b => t.job[r] = {}
    BY DEF Partway
  <2> QED
    BY <2>2, <2>3, <2>4 DEF Partway
<1>4. ASSUME NEW b \in Bank
      PROVE  /\ Fixed(c, Partway(c, T, N, b)) /\ Fixed(c, Marked(c, T, b))
             /\ \A M : Fixed(c, Aimed(c, T, N, b, M))
  <2>1. \A K : Partway(c, T, K, b) \subseteq Controller(c)
    BY DEF Partway, Erasing, Kept
  <2>2. Fixed(c, Partway(c, T, N, b))
    BY <1>3, <2>1 DEF Fixed
  <2>3. {} \in SUBSET Pages(c)
    OBVIOUS
  <2>4. Fixed(c, Marked(c, T, b))
    BY <1>3, <2>1, <2>3 DEF Fixed, Marked
  <2>5. ASSUME NEW M  PROVE Fixed(c, Aimed(c, T, N, b, M))
    <3>1. ASSUME NEW t \in Aimed(c, T, N, b, M), NEW d \in Bank, t.job[d] # {}
          PROVE  Finish(t, d) \in Aimed(c, T, N, b, M)
      <4>1. t \in Partway(c, T, N, b)
        BY DEF Aimed
      <4>2. Finish(t, d) \in Partway(c, T, N, b) /\ Finish(t, d).cr = t.cr /\ Finish(t, d).sel = t.sel
        BY <1>3, <3>1, <4>1
      <4>3. Erases(c, Finish(t, d), b) = Erases(c, t, b)
        BY <4>2 DEF Erases
      <4> QED
        BY <3>1, <4>2, <4>3 DEF Aimed
    <3>2. Aimed(c, T, N, b, M) \subseteq Controller(c)
      BY <2>1 DEF Aimed
    <3> QED
      BY <3>1, <3>2 DEF Fixed
  <2> QED
    BY <2>2, <2>4, <2>5
<1> QED
  BY <1>2, <1>4

\* The two registers still agree when neither lock is touched, or both are.
LEMMA StillHeld ==
  ASSUME NEW c, NEW T, NEW t \in Kept(c, T), NEW u, SameFlash(t, u),
         \/ SameLocks(c, t, u)
         \/ Locked(c, u)
         \/ \A r \in Registers(c) : "LOCK" \notin u.cr[r]
  PROVE  Held(c, u)
<1>1. Held(c, t)
  BY DEF Kept
<1>2. Lone(c, u)
  BY <1>1 DEF Held, Lone, SameFlash
<1>3. ASSUME TwoRegisters(c)
      PROVE  "LOCK" \in u.cr[1] <=> "LOCK" \in u.cr[2]
  <2>1. 1 \in Registers(c) /\ 2 \in Registers(c)
    BY <1>3 DEF Registers, Bank
  <2>2. "LOCK" \in t.cr[1] <=> "LOCK" \in t.cr[2]
    BY <1>1, <1>3 DEF Held
  <2>3. CASE SameLocks(c, t, u)
    <3>1. ("LOCK" \in u.cr[1] <=> "LOCK" \in t.cr[1]) /\ ("LOCK" \in u.cr[2] <=> "LOCK" \in t.cr[2])
      BY <2>1, <2>3 DEF SameLocks
    <3> QED
      BY <2>2, <3>1
  <2>4. CASE Locked(c, u)
    BY <2>1, <2>4 DEF Locked
  <2>5. CASE \A r \in Registers(c) : "LOCK" \notin u.cr[r]
    BY <2>1, <2>5
  <2> QED
    BY <2>3, <2>4, <2>5
<1> QED
  BY <1>2, <1>3 DEF Held

\* What is about pages and erases is so of a target with the same.
LEMMA SamePages ==
  ASSUME NEW c, NEW T, NEW N, NEW t, NEW u \in Controller(c), SameFlash(t, u), Held(c, u)
  PROVE  /\ t \in Kept(c, T) => u \in Kept(c, T)
         /\ t \in Resting(c, T) => u \in Resting(c, T)
         /\ SameErrors(c, t, u) =>
              \A e \in BOOLEAN : /\ t \in Erasing(c, T, N, e) => u \in Erasing(c, T, N, e)
                                 /\ t \in Ended(c, T, N, e) => u \in Ended(c, T, N, e)
<1>1. t \in Kept(c, T) => u \in Kept(c, T)
  BY DEF Kept, SameFlash
<1>2. t \in Resting(c, T) => u \in Resting(c, T)
  BY <1>1 DEF Resting, Still, SameFlash
<1>3. ASSUME SameErrors(c, t, u), NEW e \in BOOLEAN
      PROVE  /\ t \in Erasing(c, T, N, e) => u \in Erasing(c, T, N, e)
             /\ t \in Ended(c, T, N, e) => u \in Ended(c, T, N, e)
  <2>1. Erred(c, t) => Erred(c, u)
    BY <1>3 DEF SameErrors, Erred
  <2>2. t \in Erasing(c, T, N, e) => u \in Erasing(c, T, N, e)
    BY <1>1, <2>1 DEF Erasing, SameFlash
  <2>3. t \in Ended(c, T, N, e) => u \in Ended(c, T, N, e)
    BY <1>2, <2>1 DEF Ended, SameFlash
  <2> QED
    BY <2>2, <2>3
<1> QED
  BY <1>1, <1>2, <1>3

\* ... and with the same locks, of one that is unlocked.
LEMMA SamePartway ==
  ASSUME NEW c, NEW T, NEW N, NEW b, NEW t \in Partway(c, T, N, b), NEW u \in Controller(c),
         SameFlash(t, u), SameLocks(c, t, u), N = {} \/ SameErrors(c, t, u)
  PROVE  u \in Partway(c, T, N, b)
<1>1. t \in Erasing(c, T, N, TRUE) /\ t \in Kept(c, T)
  BY DEF Partway, Erasing
<1>2. Held(c, u)
  BY <1>1, StillHeld
<1>3. u \in Erasing(c, T, N, TRUE)
  <2>1. CASE SameErrors(c, t, u)
    BY <1>1, <1>2, <2>1, SamePages
  <2>2. CASE N = {}
    <3>1. u \in Kept(c, T)
      BY <1>1, <1>2, SamePages
    <3> QED
      BY <2>2, <3>1 DEF Erasing
  <2> QED
    BY <2>1, <2>2
<1> QED
  BY <1>3 DEF Partway, SameFlash, SameLocks

\* A control register is written with bits of one of them.
LEMMA RegisterWritten ==
  ASSUME NEW c \in Chips, NEW T, NEW t \in Kept(c, T),
         NEW b \in Bank, NEW d \in Bank, NEW bits \in SUBSET Bits,
         "LOCK" \in bits => "LOCK" \in t.cr[Reg(c, d)],
         NEW u, u = WriteCr(c, t, b, bits, Good)
  PROVE  /\ u \in Controller(c) /\ SameFlash(t, u) /\ SameErrors(c, t, u) /\ SameLocks(c, t, u)
         /\ u.sel = t.sel
         /\ "LOCK" \notin t.cr[Reg(c, b)] => u.cr[Reg(c, b)] = bits
<1>1. t \in Controller(c) /\ Held(c, t)
  BY DEF Kept
<1>2. /\ u \in Controller(c) /\ u.job = t.job /\ u.mem = t.mem /\ u.sr = t.sr /\ u.sel = t.sel
      /\ \A r \in Bank : r # Reg(c, b) => u.cr[r] = t.cr[r]
      /\ "LOCK" \in t.cr[Reg(c, b)] => u = t
      /\ "LOCK" \notin t.cr[Reg(c, b)] => u.cr[Reg(c, b)] = bits
  BY <1>1, WriteCrOnly
<1>3. Registers(c) \subseteq Bank
  BY RegistersAre
<1>4. SameLocks(c, t, u)
  <2>1. CASE "LOCK" \in t.cr[Reg(c, b)]
    BY <1>2, <2>1 DEF SameLocks
  <2>2. CASE "LOCK" \notin t.cr[Reg(c, b)]
    <3>1. "LOCK" \notin t.cr[Reg(c, d)]
      <4>1. CASE TwoRegisters(c)
        <5>1. Reg(c, b) = b /\ Reg(c, d) = d /\ b \in {1, 2} /\ d \in {1, 2}
          BY <4>1 DEF Reg, Bank
        <5> QED
          BY <1>1, <2>2, <4>1, <5>1 DEF Held
      <4>2. CASE ~TwoRegisters(c)
        BY <2>2, <4>2 DEF Reg
      <4> QED
        BY <4>1, <4>2
    <3>2. "LOCK" \notin bits
      BY <3>1
    <3> QED
      BY <1>2, <1>3, <2>2, <3>2 DEF SameLocks
  <2> QED
    BY <2>1, <2>2
<1> QED
  BY <1>2, <1>4 DEF SameFlash, SameErrors

\* A call that does not fail takes controllers to others.
LEMMA TakesBy ==
  ASSUME NEW c, NEW x, NEW P, NEW Q, x.op \notin Replaced,
         \A t \in P : \A a, u, bk : u \in Controller(c) /\ Does(c, x, t, a, u, bk) => u \in Q
  PROVE  Takes(c, AnyLine, x, P, Q)
BY Zenon DEF Takes

\* Waiting for erases to end, and the calls that leave the controller as it is.
LEMMA WaitTakes ==
  ASSUME NEW c \in Chips, NEW T, NEW x, x.op = "wait"
  PROVE  /\ Takes(c, AnyLine, x, Kept(c, T), Resting(c, T))
         /\ \A N : \A e \in BOOLEAN : Takes(c, AnyLine, x, Erasing(c, T, N, e), Ended(c, T, N, e))
<1>1. x.op \notin Replaced
  BY DEF Replaced
<1>2. ASSUME NEW t \in Kept(c, T), NEW a, NEW u, NEW bk, Does(c, x, t, a, u, bk)
      PROVE  u = t /\ Still(t) /\ u \in Resting(c, T)
  <2>1. u = t /\ ~IsFlashBusy(c, t)
    BY <1>2 DEF Does
  <2>2. \A b \in Registers(c) : t.job[b] = {}
    BY <2>1 DEF IsFlashBusy
  <2>3. Lone(c, t)
    BY DEF Kept, Held
  <2>4. Still(t)
    BY <2>2, <2>3 DEF Lone, Still, Registers, Bank
  <2> QED
    BY <2>1, <2>4 DEF Resting
<1>3. Takes(c, AnyLine, x, Kept(c, T), Resting(c, T))
  BY <1>1, <1>2, TakesBy
<1>4. ASSUME NEW N, NEW e \in BOOLEAN
      PROVE  Takes(c, AnyLine, x, Erasing(c, T, N, e), Ended(c, T, N, e))
  <2>1. ASSUME NEW t \in Erasing(c, T, N, e), NEW a, NEW u, NEW bk, Does(c, x, t, a, u, bk)
        PROVE  u \in Ended(c, T, N, e)
    <3>1. t \in Kept(c, T)
      BY DEF Erasing
    <3>2. u = t /\ Still(t) /\ u \in Resting(c, T)
      BY <1>2, <2>1, <3>1
    <3>3. t.job[1] = {} /\ t.job[2] = {}
      BY <3>2, RegistersAre DEF Still
    <3> QED
      BY <3>2, <3>3 DEF Erasing, Ended
  <2> QED
    BY <1>1, <2>1, TakesBy
<1> QED
  BY <1>3, <1>4

\* A call that leaves the controller alone keeps it there.
LEMMA IdleTakes ==
  ASSUME NEW c \in Chips, NEW T, NEW x, x.op \in Idle
  PROVE  /\ Takes(c, AnyLine, x, Kept(c, T), Kept(c, T))
         /\ Takes(c, AnyLine, x, Resting(c, T), Resting(c, T))
<1>1. x.op \notin Replaced
  BY DEF Replaced, Idle
<1>2. ASSUME NEW t \in Kept(c, T), NEW a, NEW u \in Controller(c), NEW bk, Does(c, x, t, a, u, bk)
      PROVE  u \in Kept(c, T) /\ (t \in Resting(c, T) => u \in Resting(c, T))
  <2>1. Alike(t, u)
    BY <1>2 DEF Does
  <2>2. SameFlash(t, u) /\ SameLocks(c, t, u)
    BY <2>1 DEF Alike, SameFlash, SameLocks
  <2> QED
    BY <2>2, StillHeld, SamePages
<1>3. Resting(c, T) \subseteq Kept(c, T)
  BY DEF Resting
<1> QED
  BY <1>1, <1>2, <1>3, TakesBy

-----------------------------------------------------------------------------
(***************************************************************************)
(* What the calls of an erase do to a controller in such a set.            *)
(***************************************************************************)

\* stlink_reset, when nothing is being erased.
LEMMA ResetTakes ==
  ASSUME NEW c \in Chips, NEW T \in SUBSET Pages(c), NEW x, x.op = "reset"
  PROVE  Takes(c, AnyLine, x, Resting(c, T), Resting(c, T))
<1>1. x.op \notin Replaced
  BY DEF Replaced
<1>2. ASSUME NEW t \in Resting(c, T), NEW a, NEW u \in Controller(c), NEW bk, Does(c, x, t, a, u, bk)
      PROVE  u \in Resting(c, T)
  <2>1. Restored(c, t, u)
    BY <1>2 DEF Does
  <2>2. 1 \in Bank /\ 2 \in Bank
    BY RegistersAre
  <2>3. Still(u) /\ Still(t)
    BY <2>1 DEF Restored, Still, Resting
  <2>4. \A p \in Pages(c) : u.mem[p] = t.mem[p]
    BY <2>1, <2>2, <2>3 DEF Restored, Still
  <2>5. \A p \in T : u.mem[p] = "blank"
    BY <2>4 DEF Resting, Kept
  <2>6. Held(c, u)
    <3>1. "LOCK" \in u.cr[1] <=> "LOCK" \in u.cr[2]
      BY <2>1, <2>2 DEF Restored, CrAtReset
    <3> QED
      BY <2>2, <2>3, <3>1 DEF Held, Lone, Still
  <2> QED
    BY <2>3, <2>5, <2>6 DEF Resting, Kept
<1> QED
  BY <1>1, <1>2, TakesBy

\* clear_flash_error
LEMMA ClearErrorsTakes ==
  ASSUME NEW c \in Chips, NEW T, NEW x, x.op = "clear_errors"
  PROVE  /\ Takes(c, AnyLine, x, Resting(c, T), Resting(c, T))
         /\ \A b : Takes(c, AnyLine, x, Partway(c, T, {}, b), Partway(c, T, {}, b))
<1>1. x.op \notin Replaced
  BY DEF Replaced
<1>2. ASSUME NEW t \in Kept(c, T), NEW a, NEW u \in Controller(c), NEW bk, Does(c, x, t, a, u, bk)
      PROVE  SameFlash(t, u) /\ SameLocks(c, t, u) /\ Held(c, u)
  <2>1. u = ClearFlashError(c, t, Good)
    BY <1>2 DEF Does
  <2>2. t \in Controller(c)
    BY DEF Kept
  <2>3. SameFlash(t, u) /\ SameLocks(c, t, u)
    BY <2>1, <2>2 DEF ClearFlashError, SameFlash, SameLocks, Controller
  <2> QED
    BY <2>3, StillHeld
<1>3. Takes(c, AnyLine, x, Resting(c, T), Resting(c, T))
  <2>1. Resting(c, T) \subseteq Kept(c, T)
    BY DEF Resting
  <2> QED
    BY <1>1, <1>2, <2>1, SamePages, TakesBy
<1>4. ASSUME NEW b
      PROVE  Takes(c, AnyLine, x, Partway(c, T, {}, b), Partway(c, T, {}, b))
  <2>1. Partway(c, T, {}, b) \subseteq Kept(c, T)
    BY DEF Partway, Erasing
  <2> QED
    BY <1>1, <1>2, <2>1, SamePartway, TakesBy
<1> QED
  BY <1>3, <1>4

\* unlock_flash_if, and the keys of L0 and L1.
LEMMA UnlockTakes ==
  ASSUME NEW c \in Chips, NEW T, NEW x, x.op = "unlock", c.type # "WB0", NEW b \in Bank
  PROVE  Takes(c, AnyLine, x, Resting(c, T), Partway(c, T, {}, b))
<1>1. x.op \notin Replaced
  BY DEF Replaced
<1>2. ASSUME NEW t \in Resting(c, T), NEW a, NEW u \in Controller(c), NEW bk, Does(c, x, t, a, u, bk)
      PROVE  u \in Partway(c, T, {}, b)
  <2>1. u = UnlockFlashIf(c, t, Good) /\ t \in Kept(c, T)
    BY <1>2 DEF Does, Resting
  <2>2. t \in Controller(c) /\ Held(c, t)
    BY <2>1 DEF Kept
  <2>3. Registers(c) \subseteq Bank /\ Reg(c, 1) = 1 /\ 1 \in Bank /\ 2 \in Bank
    BY RegistersAre DEF Reg
  <2>4. IsFlashLocked(c, t, Good) <=> "LOCK" \in t.cr[1]
    BY <2>3, ReadGood DEF IsFlashLocked
  <2>5. SameFlash(t, u) /\ \A r \in Registers(c) : "LOCK" \notin u.cr[r]
    <3>1. CASE "LOCK" \in t.cr[1]
      <4>1. u = UnlockFlash(c, t, Good)
        BY <2>1, <2>4, <3>1 DEF UnlockFlashIf
      <4>2. /\ u.job = t.job /\ u.mem = t.mem
            /\ \A r \in Bank : r \in Registers(c) => u.cr[r] = t.cr[r] \ {"LOCK"}
        BY <2>2, <4>1 DEF UnlockFlash, Good, Controller
      <4> QED
        BY <2>3, <4>2 DEF SameFlash
    <3>2. CASE "LOCK" \notin t.cr[1]
      <4>1. u = t
        BY <2>1, <2>4, <3>2 DEF UnlockFlashIf
      <4>2. \A r \in Registers(c) : "LOCK" \notin t.cr[r]
        BY <2>2, <3>2 DEF Held, Registers, Bank
      <4> QED
        BY <4>1, <4>2 DEF SameFlash
    <3> QED
      BY <3>1, <3>2
  <2>6. Held(c, u)
    BY <2>1, <2>5, StillHeld
  <2>7. u \in Resting(c, T)
    BY <2>5, <2>6, SamePages
  <2> QED
    BY <2>5, <2>7 DEF Partway, Erasing, Resting, Still
<1> QED
  BY <1>1, <1>2, TakesBy

\* Opening the locks of L0 and L1.
LEMMA PecrUnlockTakes ==
  ASSUME NEW c \in Chips, NEW T, NEW x, x.op = "unlock_PECR", c.type = "L0_L1"
  PROVE  Takes(c, AnyLine, x, Resting(c, T), PecrOpened(c, T))
<1>1. x.op \notin Replaced
  BY DEF Replaced
<1>2. ASSUME NEW t \in Resting(c, T), NEW a, NEW u \in Controller(c), NEW bk, Does(c, x, t, a, u, bk)
      PROVE  u \in PecrOpened(c, T)
  <2>1. u = PecrUnlock(c, t, Good) /\ t \in Kept(c, T)
    BY <1>2 DEF Does, Resting
  <2>2. t \in Controller(c) /\ 1 \in Bank
    BY <2>1, RegistersAre DEF Kept
  <2>3. SameFlash(t, u) /\ u.cr[1] = t.cr[1] \ {"LOCK", "PRGLOCK"}
    BY <2>1, <2>2 DEF PecrUnlock, Good, SameFlash, Controller
  <2>4. Registers(c) = {1}
    BY DEF Registers, TwoRegisters
  <2>5. Held(c, u)
    BY <2>1, <2>3, <2>4, StillHeld
  <2> QED
    BY <2>3, <2>5, SamePages DEF PecrOpened
<1> QED
  BY <1>1, <1>2, TakesBy

\* lock_flash, and its counterpart for L0 and L1.
LEMMA LockSame ==
  ASSUME NEW c \in Chips, NEW t \in Controller(c)
  PROVE  SameFlash(t, LockFlash(c, t, Good)) /\ SameErrors(c, t, LockFlash(c, t, Good))
<1> DEFINE bits == (t.cr[1] \ (IF c.type = "H7" THEN {"PER"} ELSE {})) \cup {"LOCK"}
           one == WriteCr(c, t, 1, bits, Good)
           more == ReadCr(c, one, 2, Good) \cup {"LOCK"}
           two == WriteCr(c, one, 2, more, Good)
<1>1. LockFlash(c, t, Good) = CASE c.type = "WB0" -> t [] TwoRegisters(c) -> two [] OTHER -> one
  BY DEF LockFlash, Good
<1>2. 1 \in Bank /\ 2 \in Bank
  BY RegistersAre
<1>3. bits \in SUBSET Bits
  BY <1>2, BitsAre DEF Controller
<1> HIDE DEF bits
<1>4. one \in Controller(c) /\ one.job = t.job /\ one.mem = t.mem /\ one.sr = t.sr
  BY <1>2, <1>3, WriteCrOnly
<1> HIDE DEF one
<1>5. more \in SUBSET Bits
  <2>1. Reg(c, 2) \in Bank
    BY <1>2, RegistersAre
  <2> QED
    BY <1>4, <2>1, ReadGood, BitsAre DEF Controller
<1> HIDE DEF more
<1>6. two.job = t.job /\ two.mem = t.mem /\ two.sr = t.sr
  BY <1>2, <1>4, <1>5, WriteCrOnly
<1> HIDE DEF two
<1> QED
  BY <1>1, <1>4, <1>6 DEF SameFlash, SameErrors

\* Locking, which is what an erase ends with.
LEMMA LockTakes ==
  ASSUME NEW c \in Chips, NEW T, NEW N, NEW e \in BOOLEAN, NEW x,
         \/ x.op = "lock" /\ c.type # "WB0"
         \/ x.op = "lock_PECR" /\ c.type = "L0_L1"
  PROVE  Takes(c, AnyLine, x, Ended(c, T, N, e), Ended(c, T, N, e))
<1>1. x.op \notin Replaced
  BY DEF Replaced
<1>2. ASSUME NEW t \in Ended(c, T, N, e), NEW a, NEW u \in Controller(c), NEW bk,
             Does(c, x, t, a, u, bk)
      PROVE  u \in Ended(c, T, N, e)
  <2>1. t \in Kept(c, T)
    BY DEF Ended, Resting
  <2>2. t \in Controller(c)
    BY <2>1 DEF Kept
  <2>3. SameFlash(t, u) /\ SameErrors(c, t, u) /\ Locked(c, u)
    <3>1. CASE x.op = "lock" /\ c.type # "WB0"
      <4>1. u = LockFlash(c, t, Good)
        BY <1>2, <3>1 DEF Does
      <4> QED
        BY <2>2, <3>1, <4>1, LockSame, LockLocks
    <3>2. CASE x.op = "lock_PECR" /\ c.type = "L0_L1"
      <4>1. u = PecrLock(c, t, Good)
        BY <1>2, <3>2 DEF Does
      <4>2. Registers(c) = {1} /\ 1 \in Bank
        BY <3>2 DEF Registers, TwoRegisters, Bank
      <4>3. SameFlash(t, u) /\ SameErrors(c, t, u) /\ u.cr[1] = t.cr[1] \cup {"LOCK", "PRGLOCK"}
        BY <2>2, <4>1, <4>2 DEF PecrLock, Good, SameFlash, SameErrors, Controller
      <4> QED
        BY <4>2, <4>3 DEF Locked
    <3> QED
      BY <3>1, <3>2
  <2>4. Held(c, u)
    BY <2>1, <2>3, StillHeld
  <2> QED
    BY <2>3, <2>4, SamePages
<1> QED
  BY <1>1, <1>2, TakesBy

\* The registers of a controller hold bits; each bank's is its own or the first.
LEMMA RegistersHold ==
  ASSUME NEW c, NEW T, NEW t \in Kept(c, T), NEW b \in Bank
  PROVE  /\ t.cr[Reg(c, b)] \in SUBSET Bits /\ ReadCr(c, t, b, Good) = t.cr[Reg(c, b)]
         /\ t \in Controller(c)
<1>1. t \in Controller(c) /\ Reg(c, b) \in Bank
  BY RegistersAre DEF Kept
<1> QED
  BY <1>1, ReadGood DEF Controller

\* clear_flash_cr_pg and set_flash_cr_per, once unlocked.
LEMMA ClearPgTakes ==
  ASSUME NEW c \in Chips, NEW T, NEW x, x.op = "clear_PG", x.at \in Bank, NEW b
  PROVE  Takes(c, AnyLine, x, Partway(c, T, {}, b), Partway(c, T, {}, b))
<1>1. x.op \notin Replaced
  BY DEF Replaced
<1>2. ASSUME NEW t \in Partway(c, T, {}, b), NEW a, NEW u \in Controller(c), NEW bk,
             Does(c, x, t, a, u, bk)
      PROVE  u \in Partway(c, T, {}, b)
  <2> DEFINE d == IF c.type = "F1_XL" THEN 1 ELSE x.at
             bits == t.cr[Reg(c, x.at)] \ {"PG"}
  <2>1. u = ClearFlashCrPg(c, t, x.at, Good) /\ t \in Kept(c, T)
    BY <1>2 DEF Does, Partway, Erasing
  <2>2. u = WriteCr(c, t, d, bits, Good)
    BY <2>1, ReadGood DEF ClearFlashCrPg
  <2>3. d \in Bank /\ bits \in SUBSET Bits
    BY <2>1, RegistersHold, RegistersAre
  <2>4. "LOCK" \in bits => "LOCK" \in t.cr[Reg(c, x.at)]
    OBVIOUS
  <2> HIDE DEF d, bits
  <2>5. SameFlash(t, u) /\ SameLocks(c, t, u)
    BY <2>1, <2>2, <2>3, <2>4, RegisterWritten
  <2> QED
    BY <1>2, <2>5, SamePartway
<1> QED
  BY <1>1, <1>2, TakesBy

\* Asking for the erase of a page.
LEMMA SetPerTakes ==
  ASSUME NEW c \in Chips, NEW T, NEW x, x.op = "set_PER", x.at \in Registers(c)
  PROVE  Takes(c, AnyLine, x, Partway(c, T, {}, x.at), Marked(c, T, x.at))
<1>1. x.op \notin Replaced
  BY DEF Replaced
<1>2. ASSUME NEW t \in Partway(c, T, {}, x.at), NEW a, NEW u \in Controller(c), NEW bk,
             Does(c, x, t, a, u, bk)
      PROVE  u \in Marked(c, T, x.at)
  <2> DEFINE bits == t.cr[x.at] \cup {"PER"}
  <2>0. x.at \in Bank /\ Reg(c, x.at) = x.at
    BY RegistersAre
  <2>1. u = SetFlashCrPer(c, t, x.at, Good) /\ t \in Kept(c, T) /\ "LOCK" \notin t.cr[x.at]
    BY <1>2 DEF Does, Partway, Erasing
  <2>2. u = WriteCr(c, t, x.at, bits, Good)
    BY <2>0, <2>1, ReadGood DEF SetFlashCrPer
  <2>3. bits \in SUBSET Bits
    BY <2>0, <2>1, RegistersHold, BitsAre
  <2>4. "LOCK" \notin bits
    BY <2>1
  <2>5. "PER" \in bits
    OBVIOUS
  <2> HIDE DEF bits
  <2>6. SameFlash(t, u) /\ SameLocks(c, t, u) /\ u.cr[x.at] = bits
    BY <2>0, <2>1, <2>2, <2>3, <2>4, RegisterWritten
  <2> QED
    BY <1>2, <2>5, <2>6, SamePartway DEF Marked
<1> QED
  BY <1>1, <1>2, TakesBy

\* set_flash_cr_mer
LEMMA MerWritten ==
  ASSUME NEW c \in Chips, NEW T, NEW t \in Kept(c, T), NEW b \in Bank, NEW on \in BOOLEAN,
         NEW u, u = SetFlashCrMer(c, t, on, b, Good)
  PROVE  /\ SameFlash(t, u) /\ SameErrors(c, t, u) /\ SameLocks(c, t, u)
         /\ "LOCK" \notin t.cr[Reg(c, b)] /\ on => "MER" \in u.cr[Reg(c, b)]
<1> DEFINE val == t.cr[Reg(c, b)]
           bare == val \ {"PG"}
           one == IF "PG" \in val THEN WriteCr(c, t, b, bare, Good) ELSE t
           bits == IF on THEN bare \cup {"MER"} ELSE bare \ {"MER"}
<1>1. u = WriteCr(c, one, b, bits, Good)
  BY ReadGood DEF SetFlashCrMer
<1>2. val \in SUBSET Bits /\ t \in Controller(c) /\ Reg(c, b) \in Registers(c)
  BY RegistersHold, RegistersAre
<1>3. bare \in SUBSET Bits /\ bits \in SUBSET Bits
  BY <1>2, BitsAre
<1>4. ("LOCK" \in bits => "LOCK" \in val) /\ ("LOCK" \in bare => "LOCK" \in val)
  OBVIOUS
<1>5. on => "MER" \in bits
  OBVIOUS
<1> HIDE DEF bits, bare
<1>6. one \in Controller(c) /\ SameFlash(t, one) /\ SameErrors(c, t, one) /\ SameLocks(c, t, one)
  <2>1. CASE "PG" \in val
    <3>1. one = WriteCr(c, t, b, bare, Good)
      BY <2>1
    <3> QED
      BY <1>3, <1>4, <3>1, RegisterWritten
  <2>2. CASE "PG" \notin val
    <3>1. one = t
      BY <2>2
    <3> QED
      BY <1>2, <3>1 DEF SameFlash, SameErrors, SameLocks
  <2> QED
    BY <2>1, <2>2
<1> HIDE DEF one
<1>7. one \in Kept(c, T)
  BY <1>6, StillHeld, SamePages
<1>8. "LOCK" \in one.cr[Reg(c, b)] <=> "LOCK" \in val
  BY <1>2, <1>6 DEF SameLocks
<1>9. /\ SameFlash(one, u) /\ SameErrors(c, one, u) /\ SameLocks(c, one, u)
      /\ "LOCK" \notin one.cr[Reg(c, b)] => u.cr[Reg(c, b)] = bits
  BY <1>1, <1>3, <1>4, <1>7, <1>8, RegisterWritten
<1> QED
  BY <1>5, <1>6, <1>8, <1>9 DEF SameFlash, SameErrors, SameLocks

\* Asking for the erase of a bank.
LEMMA SetMerTakes ==
  ASSUME NEW c \in Chips, NEW T, NEW N, NEW x, x.op = "set_MER", x.at \in Registers(c)
  PROVE  Takes(c, AnyLine, x, Partway(c, T, N, x.at), Aimed(c, T, N, x.at, MassErases(c, x.at)))
<1>1. x.op \notin Replaced
  BY DEF Replaced
<1>2. ASSUME NEW t \in Partway(c, T, N, x.at), NEW a, NEW u \in Controller(c), NEW bk,
             Does(c, x, t, a, u, bk)
      PROVE  u \in Aimed(c, T, N, x.at, MassErases(c, x.at))
  <2>0. x.at \in Bank /\ Reg(c, x.at) = x.at
    BY RegistersAre
  <2>1. /\ u = SetFlashCrMer(c, t, TRUE, x.at, Good) /\ t \in Kept(c, T) /\ "LOCK" \notin t.cr[x.at]
    BY <1>2 DEF Does, Partway, Erasing
  <2>2. SameFlash(t, u) /\ SameErrors(c, t, u) /\ SameLocks(c, t, u) /\ "MER" \in u.cr[x.at]
    BY <2>0, <2>1, MerWritten
  <2>3. u \in Partway(c, T, N, x.at)
    BY <1>2, <2>2, SamePartway
  <2>4. {"PER", "MER"} \subseteq u.cr[x.at] \/ Erases(c, u, x.at) = MassErases(c, x.at)
    BY <2>2 DEF Erases
  <2> QED
    BY <2>3, <2>4 DEF Aimed
<1> QED
  BY <1>1, <1>2, TakesBy

\* The bits that are cleared when all is over.
LEMMA ClearTakes ==
  ASSUME NEW c \in Chips, NEW T, NEW N, NEW e \in BOOLEAN, NEW x, x.at \in Bank,
         x.op = "clear_PER" \/ x.op = "clear_MER"
  PROVE  Takes(c, AnyLine, x, Ended(c, T, N, e), Ended(c, T, N, e))
<1>1. x.op \notin Replaced
  BY DEF Replaced
<1>2. ASSUME NEW t \in Ended(c, T, N, e), NEW a, NEW u \in Controller(c), NEW bk,
             Does(c, x, t, a, u, bk)
      PROVE  u \in Ended(c, T, N, e)
  <2>1. t \in Kept(c, T) /\ FALSE \in BOOLEAN
    BY DEF Ended, Resting
  <2>2. SameFlash(t, u) /\ SameErrors(c, t, u) /\ SameLocks(c, t, u)
    <3>1. CASE x.op = "clear_PER"
      <4> DEFINE bits == t.cr[Reg(c, x.at)] \ {"PER"}
      <4>1. u = WriteCr(c, t, x.at, bits, Good)
        BY <1>2, <3>1, ReadGood DEF Does, ClearFlashCrPer
      <4>2. bits \in SUBSET Bits /\ ("LOCK" \in bits => "LOCK" \in t.cr[Reg(c, x.at)])
        BY <2>1, RegistersHold
      <4> HIDE DEF bits
      <4> QED
        BY <2>1, <4>1, <4>2, RegisterWritten
    <3>2. CASE x.op = "clear_MER"
      <4>1. u = SetFlashCrMer(c, t, FALSE, x.at, Good)
        BY <1>2, <3>2 DEF Does
      <4> QED
        BY <2>1, <4>1, MerWritten
    <3> QED
      BY <3>1, <3>2
  <2>3. Held(c, u)
    BY <2>1, <2>2, StillHeld
  <2> QED
    BY <2>2, <2>3, SamePages
<1> QED
  BY <1>1, <1>2, TakesBy

\* set_flash_cr_strt: the pages are erased, or an error is shown.
LEMMA StartTakes ==
  ASSUME NEW c \in Chips, NEW T, NEW N, NEW M, NEW x, x.op = "start", x.at \in Registers(c)
  PROVE  /\ Takes(c, AnyLine, x, Aimed(c, T, N, x.at, M), Erasing(c, T, N \cup M, TRUE))
         /\ x.at = 1 => Takes(c, AnyLine, x, Aimed(c, T, N, 1, M), Partway(c, T, N \cup M, 2))
<1>1. x.op \notin Replaced
  BY DEF Replaced
<1> DEFINE b == x.at
<1>2. ASSUME NEW t \in Aimed(c, T, N, b, M), NEW a, NEW u \in Controller(c), NEW bk,
             Does(c, x, t, a, u, bk)
      PROVE  /\ u \in Erasing(c, T, N \cup M, TRUE)
             /\ b = 1 => u \in Partway(c, T, N \cup M, 2)
  <2> DEFINE v == WriteCr(c, t, b, t.cr[b], Good)
  <2>1. b \in Bank /\ Reg(c, b) = b /\ Registers(c) \subseteq Bank /\ 1 \in Bank /\ 2 \in Bank
    BY RegistersAre
  <2>2. t \in Partway(c, T, N, b) /\ t \in Kept(c, T) /\ t \in Controller(c)
    BY DEF Aimed, Partway, Erasing, Kept
  <2>3. (\A r \in Registers(c) : "LOCK" \notin t.cr[r]) /\ \A d \in Bank : d >= b => t.job[d] = {}
    BY <2>2 DEF Partway
  <2>4. u = BeginErase(c, v, b)
    BY <1>2, <2>1, ReadGood DEF Does, SetFlashCrStrt, StartSelected, Good
  <2>5. t.cr[b] \in SUBSET Bits
    BY <2>1, <2>2 DEF Controller
  <2>6. /\ v \in Controller(c) /\ SameFlash(t, v) /\ SameErrors(c, t, v) /\ v.sel = t.sel
        /\ SameLocks(c, t, v) /\ v.cr[b] = t.cr[b]
    BY <2>1, <2>2, <2>3, <2>5, RegisterWritten
  <2> HIDE DEF v, b
  <2>7. "LOCK" \notin v.cr[b] /\ v.job[b] = {}
    <3>1. b >= b
      BY <2>1 DEF Bank
    <3> QED
      BY <2>1, <2>3, <2>6, <3>1 DEF SameFlash, b
  <2>8. Erases(c, v, b) = Erases(c, t, b)
    BY <2>6 DEF Erases
  <2>9. v \in Partway(c, T, N, b)
    BY <2>2, <2>6, SamePartway
  <2>10. v \in Kept(c, T) /\ Held(c, v)
    BY <2>9 DEF Partway, Erasing, Kept
  <2>11. CASE "PG" \in v.cr[b] \/ {"PER", "MER"} \subseteq v.cr[b]
    <3>1. u = [v EXCEPT !.sr = @ \cup {b}]
      BY <2>4, <2>7, <2>11 DEF BeginErase
    <3>2. SameFlash(v, u) /\ u.cr = v.cr /\ b \in u.sr
      BY <2>6, <3>1 DEF SameFlash, Controller
    <3>3. SameLocks(c, v, u) /\ Erred(c, u)
      BY <2>1, <3>2 DEF SameLocks, Erred, b
    <3>4. u \in Kept(c, T)
      BY <2>10, <3>2, <3>3, StillHeld, SamePages
    <3>5. u \in Erasing(c, T, N \cup M, TRUE)
      BY <3>3, <3>4 DEF Erasing
    <3>6. b = 1 => \A d \in Bank : d >= 2 => u.job[d] = {}
      BY <2>3, <2>6, <3>2 DEF SameFlash, Bank
    <3> QED
      BY <2>9, <3>2, <3>5, <3>6 DEF Partway
  <2>12. CASE ~("PG" \in v.cr[b] \/ {"PER", "MER"} \subseteq v.cr[b])
    <3>1. Erases(c, t, b) = M
      BY <2>6, <2>12 DEF Aimed, b
    <3>2. u = [v EXCEPT !.job[b] = M]
      BY <2>4, <2>7, <2>8, <2>12, <3>1 DEF BeginErase
    <3>3. /\ u.cr = v.cr /\ u.mem = v.mem /\ u.sr = v.sr /\ u.job[b] = M
          /\ \A d \in Bank : d # b => u.job[d] = v.job[d]
      BY <2>1, <2>6, <3>2 DEF Controller, b
    <3>4. Held(c, u)
      <4>1. ~TwoRegisters(c) => b = 1
        BY DEF Registers, b
      <4> QED
        BY <2>1, <2>10, <3>3, <4>1 DEF Held, Lone
    <3>5. u \in Kept(c, T)
      BY <2>10, <3>3, <3>4 DEF Kept
    <3>6. Erred(c, v) => Erred(c, u)
      BY <3>3 DEF Erred
    <3>7. ASSUME NEW p \in N, p \in v.job[1] \cup v.job[2] \/ v.mem[p] = "blank"
          PROVE  p \in u.job[1] \cup u.job[2] \/ u.mem[p] = "blank"
      BY <2>1, <2>7, <3>3, <3>7
    <3>8. \A p \in M : p \in u.job[1] \cup u.job[2]
      <4>1. b = 1 \/ b = 2
        BY <2>1 DEF Bank, b
      <4> QED
        BY <3>3, <4>1
    <3>9. v \in Erasing(c, T, N, TRUE)
      BY <2>9 DEF Partway
    <3>10. u \in Erasing(c, T, N \cup M, TRUE)
      BY <3>5, <3>6, <3>7, <3>8, <3>9 DEF Erasing
    <3>11. b = 1 => \A d \in Bank : d >= 2 => u.job[d] = {}
      BY <2>3, <2>6, <3>3 DEF SameFlash, Bank
    <3> QED
      BY <2>9, <3>3, <3>10, <3>11 DEF Partway
  <2> QED
    BY <2>11, <2>12
<1>3. Takes(c, AnyLine, x, Aimed(c, T, N, b, M), Erasing(c, T, N \cup M, TRUE))
  BY <1>1, <1>2, TakesBy
<1>4. b = 1 => Takes(c, AnyLine, x, Aimed(c, T, N, 1, M), Partway(c, T, N \cup M, 2))
  BY <1>1, <1>2, TakesBy
<1> QED
  BY <1>3, <1>4

\* Naming the page to erase, with the erase bit set before or set by it.
LEMMA SelectTakes ==
  ASSUME chip \in Chips, Known(chip), chip.type \notin {"L0_L1", "WB0"}, NEW T, NEW x,
         x.op = "select", x.at \in Nat, x.at < FlashSize(chip), NEW b, b = BankOf(x.at)
  PROVE  Takes(chip, AnyLine, x,
               IF chip.type \in PerFirst THEN Marked(chip, T, b) ELSE Partway(chip, T, {}, b),
               Aimed(chip, T, {}, b, {PageAt(chip, x.at)}))
<1> DEFINE P == IF chip.type \in PerFirst THEN Marked(chip, T, b) ELSE Partway(chip, T, {}, b)
           page == PageAt(chip, x.at)
<1>1. x.op \notin Replaced
  BY DEF Replaced
<1>2. b \in Registers(chip) /\ b \in Bank /\ Reg(chip, b) = b
  <2>1. b \in Registers(chip)
    BY DEF BankOf, Registers, Bank
  <2> QED
    BY <2>1, RegistersAre
<1>3. Good \in Exchange /\ Good.read /\ Good.write
  BY ExchangesAre DEF Good, Exchange
<1>4. ASSUME NEW t \in P, NEW a, NEW u \in Controller(chip), NEW bk, Does(chip, x, t, a, u, bk)
      PROVE  u \in Aimed(chip, T, {}, b, {page})
  <2>1. t \in Partway(chip, T, {}, b) /\ (chip.type \in PerFirst => "PER" \in t.cr[b])
    BY DEF Marked
  <2>2. t \in Controller(chip) /\ "LOCK" \notin t.cr[b]
    BY <1>2, <2>1 DEF Partway, Erasing, Kept
  <2>3. u = Selected(t, x.at, Good)
    BY <1>4 DEF Does, Selecting, Selected, BankIn, BankOf
  <2>4. PICK bits \in SUBSET Bits, bk1 \in {0, 1}, n \in Nat :
           /\ Selected(t, x.at, Good) = Select(chip, t, BankOf(x.at), bits, bk1, n, Good)
           /\ Good.read /\ Known(chip) => Names(x.at, bk1, n)
           /\ Good.read => "PER" \in bits \/ (chip.type \in PerFirst /\ bits = t.cr[BankOf(x.at)])
           /\ Good.read => bits \subseteq t.cr[BankOf(x.at)] \cup {"PER"}
    BY <1>3, <2>2, SelectedIs, ZenonT(40)
  <2>5. u = [t EXCEPT !.cr[b] = bits, !.sel[b] = [bk |-> bk1, n |-> n]]
    BY <1>2, <1>3, <2>2, <2>3, <2>4 DEF Select
  <2>6. "PER" \in bits /\ "LOCK" \notin bits
    BY <1>3, <2>1, <2>2, <2>4
  <2>7. Named(chip, b, [bk |-> bk1, n |-> n]) = {page}
    BY <1>3, <2>4 DEF Names
  <2>8. /\ u.job = t.job /\ u.mem = t.mem /\ u.cr = [t.cr EXCEPT ![b] = bits]
        /\ u.sel = [t.sel EXCEPT ![b] = [bk |-> bk1, n |-> n]]
    BY <2>2, <2>5 DEF Controller
  <2>9. u.cr[b] = bits /\ u.sel[b] = [bk |-> bk1, n |-> n]
        /\ \A r \in Registers(chip) : r # b => u.cr[r] = t.cr[r]
    BY <1>2, <2>2, <2>8, RegistersAre DEF Controller
  <2>10. SameFlash(t, u) /\ SameLocks(chip, t, u)
    BY <1>2, <2>2, <2>6, <2>8, <2>9 DEF SameFlash, SameLocks
  <2>11. u \in Partway(chip, T, {}, b)
    BY <2>1, <2>10, SamePartway
  <2>12. {"PER", "MER"} \subseteq u.cr[b] \/ Erases(chip, u, b) = {page}
    <3>1. "PER" \in u.cr[b]
      BY <2>6, <2>9
    <3>2. CASE "MER" \notin u.cr[b]
      <4>1. Erases(chip, u, b) = Named(chip, b, u.sel[b])
        BY <3>1, <3>2 DEF Erases
      <4> QED
        BY <2>7, <2>9, <4>1
    <3> QED
      BY <3>1, <3>2
  <2> QED
    BY <2>11, <2>12 DEF Aimed
<1> QED
  BY <1>1, <1>4, TakesBy

\* The families whose pages are erased by a command.
LEMMA CommandTakes ==
  ASSUME NEW c \in Chips, c.type \in {"L0_L1", "WB0"}, NEW T, NEW x, x.at \in Nat
  PROVE  /\ x.op = "erase_word" =>
              Takes(c, AnyLine, x, PecrOpened(c, T), Erasing(c, T, {PageAt(c, x.at)}, TRUE))
         /\ x.op = "command_erase" =>
              Takes(c, AnyLine, x, Resting(c, T), Erasing(c, T, {PageAt(c, x.at)}, TRUE))
         /\ x.op = "command_mass_erase" /\ ~c.refuses =>
              Takes(c, AnyLine, x, Kept(c, T), Erasing(c, T, Pages(c), FALSE))
<1>1. x.op \in {"erase_word", "command_erase", "command_mass_erase"} => x.op \notin Replaced
  BY DEF Replaced
<1>2. ASSUME NEW t \in Kept(c, T), NEW u \in Controller(c), NEW N, NEW e \in BOOLEAN,
             u.cr = t.cr, u.mem = t.mem, u.job[2] = t.job[2], u.job[1] = N \/ (e /\ u.sr = {1})
      PROVE  u \in Erasing(c, T, N, e)
  <2>1. ~TwoRegisters(c)
    BY DEF TwoRegisters
  <2>2. Held(c, u)
    BY <1>2, <2>1 DEF Kept, Held, Lone
  <2>3. u \in Kept(c, T)
    BY <1>2, <2>2 DEF Kept
  <2>4. u.sr = {1} => Erred(c, u)
    BY DEF Erred, Registers, Bank
  <2> QED
    BY <1>2, <2>3, <2>4 DEF Erasing
<1>3. (\A t \in Kept(c, T) : t \in Controller(c)) /\ Resting(c, T) \subseteq Kept(c, T)
  BY DEF Resting, Kept
<1>4. 1 \in Bank /\ 2 \in Bank /\ 1 # 2
  BY DEF Bank
<1>5. ASSUME x.op = "erase_word", NEW t \in PecrOpened(c, T), NEW a, NEW u \in Controller(c), NEW bk,
             Does(c, x, t, a, u, bk)
      PROVE  u \in Erasing(c, T, {PageAt(c, x.at)}, TRUE)
  <2>1. t \in Kept(c, T) /\ t \in Controller(c) /\ {"LOCK", "PRGLOCK"} \cap t.cr[1] = {}
    BY <1>3 DEF PecrOpened
  <2>2. u = [t EXCEPT !.job[1] = {PageAt(c, x.at)}]
    BY <1>5, <2>1 DEF Does, PecrErase, Good
  <2>3. u.cr = t.cr /\ u.mem = t.mem /\ u.job[1] = {PageAt(c, x.at)} /\ u.job[2] = t.job[2]
    BY <1>4, <2>1, <2>2 DEF Controller
  <2> QED
    BY <1>2, <2>1, <2>3
<1>6. ASSUME NEW pages, NEW e \in BOOLEAN, e \/ ~c.refuses, NEW t \in Kept(c, T),
             NEW u \in Controller(c), u = CommandErase(c, t, pages, Good)
      PROVE  u \in Erasing(c, T, pages, e)
  <2>1. CASE ~c.refuses
    <3>1. u = [t EXCEPT !.sr = {}, !.job[1] = pages]
      BY <1>6, <2>1 DEF CommandErase, Good
    <3>2. u.cr = t.cr /\ u.mem = t.mem /\ u.job[1] = pages /\ u.job[2] = t.job[2]
      BY <1>3, <1>4, <3>1 DEF Controller
    <3> QED
      BY <1>2, <3>2
  <2>2. CASE c.refuses
    <3>1. u = [t EXCEPT !.sr = {1}]
      BY <1>6, <2>2 DEF CommandErase, Good
    <3>2. u.cr = t.cr /\ u.mem = t.mem /\ u.job = t.job /\ u.sr = {1}
      BY <1>3, <3>1 DEF Controller
    <3> QED
      BY <1>2, <1>6, <2>2, <3>2
  <2> QED
    BY <2>1, <2>2
<1>7. x.op = "erase_word" =>
        Takes(c, AnyLine, x, PecrOpened(c, T), Erasing(c, T, {PageAt(c, x.at)}, TRUE))
  BY <1>1, <1>5, TakesBy
<1>8. x.op = "command_erase" =>
        Takes(c, AnyLine, x, Resting(c, T), Erasing(c, T, {PageAt(c, x.at)}, TRUE))
  <2>1. ASSUME x.op = "command_erase", NEW t \in Resting(c, T), NEW a, NEW u \in Controller(c), NEW bk,
               Does(c, x, t, a, u, bk)
        PROVE  u \in Erasing(c, T, {PageAt(c, x.at)}, TRUE)
    <3>1. u = CommandErase(c, t, {PageAt(c, x.at)}, Good)
      BY <2>1 DEF Does
    <3> QED
      BY <1>3, <1>6, <3>1
  <2> QED
    BY <1>1, <2>1, TakesBy
<1>9. x.op = "command_mass_erase" /\ ~c.refuses =>
        Takes(c, AnyLine, x, Kept(c, T), Erasing(c, T, Pages(c), FALSE))
  <2>1. ASSUME x.op = "command_mass_erase", ~c.refuses, NEW t \in Kept(c, T), NEW a,
               NEW u \in Controller(c), NEW bk, Does(c, x, t, a, u, bk)
        PROVE  u \in Erasing(c, T, Pages(c), FALSE)
    <3>1. u = CommandErase(c, t, Pages(c), Good)
      BY <2>1 DEF Does
    <3> QED
      BY <1>6, <2>1, <3>1
  <2> QED
    BY <1>1, <2>1, TakesBy
<1> QED
  BY <1>7, <1>8, <1>9

\* Looking for errors, with a way out.
LEMMA CheckErrorsTakes ==
  ASSUME NEW c, NEW T, NEW N, NEW x, x.op = "check_errors", x.to # ""
  PROVE  Takes(c, AnyLine, x, Ended(c, T, N, TRUE), Resting(c, T \cup N))
<1>1. x.op \notin Replaced
  BY DEF Replaced
<1>2. ASSUME NEW t \in Ended(c, T, N, TRUE), ~Erred(c, t), NEW a, NEW u \in Controller(c), NEW bk,
             Does(c, x, t, a, u, bk)
      PROVE  u \in Resting(c, T \cup N)
  <2>1. t \in Resting(c, T) /\ \A p \in N : t.mem[p] = "blank"
    BY <1>2 DEF Ended
  <2>2. t \in Resting(c, T \cup N)
    BY <2>1 DEF Resting, Kept
  <2>3. x.op \in Idle
    BY DEF Idle
  <2>4. Alike(t, u)
    BY <1>2, <2>3 DEF Does
  <2>5. SameFlash(t, u) /\ SameLocks(c, t, u) /\ t \in Kept(c, T \cup N)
    BY <2>2, <2>4 DEF Alike, SameFlash, SameLocks, Resting
  <2> QED
    BY <2>2, <2>5, StillHeld, SamePages
<1> QED
  BY <1>1, <1>2, Zenon DEF Takes

-----------------------------------------------------------------------------
(***************************************************************************)
(* The functions that erase, from the parts they are built from.           *)
(***************************************************************************)

\* One call, and others after it.
LEMMA LeadsFirst ==
  ASSUME NEW c, NEW k, NEW x \in CallRec, NEW s \in Seq(CallRec), NEW P, NEW Q, NEW R,
         Takes(c, k, x, P, Q), Fixed(c, P), Fixed(c, Q), Leads(c, k, s, Q, R)
  PROVE  <<x>> \o s \in Seq(CallRec) /\ Leads(c, k, <<x>> \o s, P, R)
<1>1. <<x>> \in Seq(CallRec)
  BY OfMembers
<1>2. Leads(c, k, <<x>>, P, Q)
  BY LeadsOne
<1> QED
  BY <1>1, <1>2, LeadsConcat

\* Two calls.
LEMMA LeadsTwo ==
  ASSUME NEW c, NEW k, NEW x \in CallRec, NEW y \in CallRec, NEW P, NEW Q, NEW R,
         Takes(c, k, x, P, Q), Takes(c, k, y, Q, R), Fixed(c, P), Fixed(c, Q), Fixed(c, R)
  PROVE  <<x, y>> \in Seq(CallRec) /\ Leads(c, k, <<x, y>>, P, R)
<1> DEFINE A == <<P, Q, R>>
           s == <<x, y>>
<1>1. Len(s) = 2 /\ s[1] = x /\ s[2] = y /\ A[1] = P /\ A[2] = Q /\ A[3] = R
  OBVIOUS
<1>2. s \in Seq(CallRec)
  BY OfMembers
<1> HIDE DEF A, s
<1>3. /\ \A i \in 1 .. 2 + 1 : i = 1 \/ i = 2 \/ i = 3
      /\ \A i \in 1 .. 2 : (i = 1 /\ i + 1 = 2) \/ (i = 2 /\ i + 1 = 3)
      /\ 2 + 1 = 3
  OBVIOUS
<1>4. \A i \in 1 .. Len(s) + 1 : Fixed(c, A[i])
  BY <1>1, <1>3
<1>5. \A i \in 1 .. Len(s) : Takes(c, k, s[i], A[i], A[i + 1])
  BY <1>1, <1>3
<1>6. Outline(c, k, s, A)
  BY <1>4, <1>5 DEF Outline
<1>7. Leads(c, k, s, P, R)
  BY <1>1, <1>3, <1>6 DEF Leads
<1> QED
  BY <1>2, <1>7 DEF s

\* stlink_erase_flash_page erases its page, unless it finds an error, in every
\* family.
LEMMA EraseBodyLeads ==
  ASSUME chip \in Chips, Known(chip), NEW T \in SUBSET Pages(chip), NEW u \in Nat, u < FlashSize(chip),
         NEW l \in Labels
  PROVE  Leads(chip, AnyLine, EraseBody(u, l), Resting(chip, T), Ended(chip, T, {PageAt(chip, u)}, TRUE))
<1> DEFINE b == BankOf(u)
           N == {PageAt(chip, u)}
           A == Resting(chip, T)
           W == Partway(chip, T, {}, b)
           M == Marked(chip, T, b)
           R == Aimed(chip, T, {}, b, N)
           E == Erasing(chip, T, N, TRUE)
           D == Ended(chip, T, N, TRUE)
           unlock == Call("unlock")
           clearErrors == Call("clear_errors")
           wait == Call("wait")
           lock == Call("lock")
           clearPg == CallOn("clear_PG", b)
           setPer == CallOn("set_PER", b)
           select == CallOn("select", u)
           start == CallOn("start", b)
           clearPer == CallOn("clear_PER", b)
<1>1. /\ b \in Bank /\ b \in Registers(chip) /\ b \in Nat /\ (~TwoRegisters(chip) => b = 1)
      /\ N \in SUBSET Pages(chip) /\ {} \in SUBSET Pages(chip) /\ {} \cup N = N
  <2>1. PageAt(chip, u) \in Pages(chip)
    BY PageIs
  <2> QED
    BY <2>1 DEF BankOf, Bank, Registers
<1>2. /\ Fixed(chip, A) /\ Fixed(chip, W) /\ Fixed(chip, M) /\ Fixed(chip, R) /\ Fixed(chip, E)
      /\ Fixed(chip, D)
  BY <1>1, KeptFixed, ErasingFixed
<1>3. /\ unlock \in CallRec /\ clearErrors \in CallRec /\ wait \in CallRec /\ lock \in CallRec
      /\ clearPg \in CallRec /\ setPer \in CallRec /\ select \in CallRec /\ start \in CallRec
      /\ clearPer \in CallRec
  BY <1>1, CallsAreRecords DEF Ops, FreeOps, BankOps, PageOps
<1>4. /\ unlock.op = "unlock" /\ clearErrors.op = "clear_errors" /\ wait.op = "wait" /\ lock.op = "lock"
      /\ clearPg.op = "clear_PG" /\ clearPg.at = b /\ setPer.op = "set_PER" /\ setPer.at = b
      /\ select.op = "select" /\ select.at = u /\ start.op = "start" /\ start.at = b
      /\ clearPer.op = "clear_PER" /\ clearPer.at = b
  <2> HIDE DEF b
  <2>1. /\ unlock.op = "unlock" /\ clearErrors.op = "clear_errors" /\ wait.op = "wait"
        /\ lock.op = "lock"
    BY DEF Call
  <2>2. clearPg.op = "clear_PG" /\ clearPg.at = b /\ setPer.op = "set_PER" /\ setPer.at = b
    BY DEF Call, CallOn
  <2>3. /\ select.op = "select" /\ select.at = u /\ start.op = "start" /\ start.at = b
        /\ clearPer.op = "clear_PER" /\ clearPer.at = b
    BY DEF Call, CallOn
  <2> QED
    BY <2>1, <2>2, <2>3
<1>5. M \subseteq W
  BY DEF Marked
<1>6. b = BankOf(u)
  OBVIOUS
<1> HIDE DEF b, unlock, wait, lock, select, start, clearPer, setPer, clearPg, clearErrors
<1>7. Takes(chip, AnyLine, wait, E, D)
  BY <1>4, WaitTakes
<1>8. ASSUME chip.type # "WB0"
      PROVE  Takes(chip, AnyLine, lock, D, D) /\ Takes(chip, AnyLine, unlock, A, W)
  <2>1. Takes(chip, AnyLine, unlock, A, W)
    BY <1>1, <1>4, <1>8, UnlockTakes
  <2>2. lock.op = "lock" /\ chip.type # "WB0" /\ TRUE \in BOOLEAN
    BY <1>4, <1>8
  <2>3. Takes(chip, AnyLine, lock, D, D)
    BY <2>2, LockTakes
  <2> QED
    BY <2>1, <2>3
<1>9. /\ Takes(chip, AnyLine, clearPer, D, D) /\ Takes(chip, AnyLine, clearPg, W, W)
      /\ Takes(chip, AnyLine, clearErrors, W, W)
  <2>0. /\ TRUE \in BOOLEAN /\ clearPer.at \in Bank
        /\ clearPer.op = "clear_PER" \/ clearPer.op = "clear_MER"
    BY <1>1, <1>4
  <2>1. Takes(chip, AnyLine, clearPer, D, D)
    BY <2>0, ClearTakes
  <2>2. Takes(chip, AnyLine, clearPg, W, W)
    BY <1>1, <1>4, ClearPgTakes
  <2>3. Takes(chip, AnyLine, clearErrors, W, W)
    BY <1>4, ClearErrorsTakes
  <2> QED
    BY <2>1, <2>2, <2>3
<1>10. Takes(chip, AnyLine, setPer, W, M)
  BY <1>1, <1>4, SetPerTakes
<1>11. ASSUME chip.type \notin {"L0_L1", "WB0"}
       PROVE  IF chip.type \in PerFirst THEN Takes(chip, AnyLine, select, M, R)
              ELSE Takes(chip, AnyLine, select, W, R)
  <2>1. Takes(chip, AnyLine, select, IF chip.type \in PerFirst THEN M ELSE W, R)
    BY <1>4, <1>6, <1>11, SelectTakes
  <2> HIDE DEF M, W, R
  <2> QED
    BY <2>1
<1>12. Takes(chip, AnyLine, start, R, E)
  <2>1. Takes(chip, AnyLine, start, R, Erasing(chip, T, {} \cup N, TRUE))
    BY <1>1, <1>4, StartTakes
  <2> QED
    BY <1>1, <2>1
<1> SUFFICES Leads(chip, AnyLine, EraseBody(u, l), A, D)
  OBVIOUS
<1> HIDE DEF A, W, M, R, E, D, N
<1>13. CASE chip.type \in {"F2_F4", "F7", "L4", "H7"}
  <2> DEFINE s2 == <<wait, lock>>
             s3 == <<start, wait, lock>>
             s4 == <<select, start, wait, lock>>
             s5 == <<unlock, select, start, wait, lock>>
  <2>1. EraseBody(u, l) = s5
    <3>1. chip.type # "H7" => b = 1
      BY <1>1, <1>13 DEF TwoRegisters
    <3> QED
      BY <1>13, <3>1 DEF EraseBody, BankOf, b, unlock, select, start, wait, lock
  <2>2. /\ Takes(chip, AnyLine, select, W, R) /\ Takes(chip, AnyLine, lock, D, D)
        /\ Takes(chip, AnyLine, unlock, A, W)
    BY <1>8, <1>11, <1>13 DEF PerFirst
  <2>3. s3 = <<start>> \o s2 /\ s4 = <<select>> \o s3 /\ s5 = <<unlock>> \o s4
    OBVIOUS
  <2>4. s2 \in Seq(CallRec) /\ Leads(chip, AnyLine, s2, E, D)
    BY <1>2, <1>3, <1>7, <2>2, LeadsTwo
  <2> HIDE DEF s2, s3, s4, s5
  <2>5. s3 \in Seq(CallRec) /\ Leads(chip, AnyLine, s3, R, D)
    BY <1>2, <1>3, <1>12, <2>3, <2>4, LeadsFirst
  <2>6. s4 \in Seq(CallRec) /\ Leads(chip, AnyLine, s4, W, D)
    BY <1>2, <1>3, <2>2, <2>3, <2>5, LeadsFirst
  <2>7. s5 \in Seq(CallRec) /\ Leads(chip, AnyLine, s5, A, D)
    BY <1>2, <1>3, <2>2, <2>3, <2>6, LeadsFirst
  <2> QED
    BY <2>1, <2>7
<1>14. CASE chip.type \notin {"F2_F4", "F7", "L4", "H7", "L0_L1", "WB0"}
  <2> DEFINE s2 == <<clearPer, lock>>
             s3 == <<wait, clearPer, lock>>
             s4 == <<start, wait, clearPer, lock>>
             s5 == <<select, start, wait, clearPer, lock>>
             s6 == <<setPer, select, start, wait, clearPer, lock>>
             s7 == <<unlock, setPer, select, start, wait, clearPer, lock>>
             h6 == <<clearErrors, select, start, wait, clearPer, lock>>
             h7 == <<unlock, clearErrors, select, start, wait, clearPer, lock>>
             f7 == <<clearPg, setPer, select, start, wait, clearPer, lock>>
             f8 == <<unlock, clearPg, setPer, select, start, wait, clearPer, lock>>
  <2>1. Takes(chip, AnyLine, lock, D, D) /\ Takes(chip, AnyLine, unlock, A, W)
    BY <1>8, <1>14
  <2>2. Takes(chip, AnyLine, select, M, R) /\ (chip.type = "H5" => Takes(chip, AnyLine, select, W, R))
    <3>1. chip.type = "H5" => chip.type \notin PerFirst
      BY DEF PerFirst
    <3> QED
      BY <1>5, <1>11, <1>14, <3>1, TakesMore
  <2>3. chip.type \in {"G0", "G4", "L5_U5", "WB_WL", "C5", "C0", "H5"} => b = 1
    BY <1>1 DEF TwoRegisters
  <2>4. /\ chip.type \in {"G0", "G4", "L5_U5", "WB_WL", "C5", "C0"} => EraseBody(u, l) = s7
        /\ chip.type = "H5" => EraseBody(u, l) = h7
        /\ chip.type \in {"F0_F1_F3", "F1_XL"} => EraseBody(u, l) = f8
    BY <2>3 DEF EraseBody, BankOf, b, unlock, select, start, wait, lock, setPer, clearPer, clearPg,
                clearErrors
  <2>5. chip.type \in {"G0", "G4", "L5_U5", "WB_WL", "C5", "C0"} \cup {"H5"} \cup {"F0_F1_F3", "F1_XL"}
    BY <1>14 DEF Chips, Families
  <2>6. s3 = <<wait>> \o s2 /\ s4 = <<start>> \o s3 /\ s5 = <<select>> \o s4
    OBVIOUS
  <2>7. s6 = <<setPer>> \o s5 /\ h6 = <<clearErrors>> \o s5 /\ f7 = <<clearPg>> \o s6
    OBVIOUS
  <2>8. s7 = <<unlock>> \o s6 /\ h7 = <<unlock>> \o h6 /\ f8 = <<unlock>> \o f7
    OBVIOUS
  <2>9. s2 \in Seq(CallRec) /\ Leads(chip, AnyLine, s2, D, D)
    BY <1>2, <1>3, <1>9, <2>1, LeadsTwo
  <2> HIDE DEF s2, s3, s4, s5, s6, s7, h6, h7, f7, f8
  <2>10. s3 \in Seq(CallRec) /\ Leads(chip, AnyLine, s3, E, D)
    BY <1>2, <1>3, <1>7, <2>6, <2>9, LeadsFirst
  <2>11. s4 \in Seq(CallRec) /\ Leads(chip, AnyLine, s4, R, D)
    BY <1>2, <1>3, <1>12, <2>6, <2>10, LeadsFirst
  <2>12. /\ s5 \in Seq(CallRec) /\ Leads(chip, AnyLine, s5, M, D)
         /\ chip.type = "H5" => Leads(chip, AnyLine, s5, W, D)
    BY <1>2, <1>3, <2>2, <2>6, <2>11, LeadsFirst
  <2>13. s6 \in Seq(CallRec) /\ Leads(chip, AnyLine, s6, W, D)
    BY <1>2, <1>3, <1>10, <2>7, <2>12, LeadsFirst
  <2>14. f7 \in Seq(CallRec) /\ Leads(chip, AnyLine, f7, W, D)
    BY <1>2, <1>3, <1>9, <2>7, <2>13, LeadsFirst
  <2>15. chip.type = "H5" => h6 \in Seq(CallRec) /\ Leads(chip, AnyLine, h6, W, D)
    BY <1>2, <1>3, <1>9, <2>7, <2>12, LeadsFirst
  <2>16. /\ Leads(chip, AnyLine, s7, A, D) /\ Leads(chip, AnyLine, f8, A, D)
         /\ chip.type = "H5" => Leads(chip, AnyLine, h7, A, D)
    BY <1>2, <1>3, <2>1, <2>8, <2>13, <2>14, <2>15, LeadsFirst
  <2> QED
    BY <2>4, <2>5, <2>16
<1>15. CASE chip.type = "L0_L1"
  <2> DEFINE O == PecrOpened(chip, T)
             unlockPecr == Try("unlock_PECR", l)
             word == CallOn("erase_word", u)
             lockPecr == Call("lock_PECR")
             s2 == <<wait, lockPecr>>
             s3 == <<word, wait, lockPecr>>
             s4 == <<unlockPecr, word, wait, lockPecr>>
  <2>1. EraseBody(u, l) = s4
    BY <1>15 DEF EraseBody, wait
  <2>2. unlockPecr \in CallRec /\ word \in CallRec /\ lockPecr \in CallRec
    BY CallsAreRecords DEF Ops, FreeOps, PageOps
  <2>3. /\ unlockPecr.op = "unlock_PECR" /\ word.op = "erase_word" /\ word.at = u
        /\ lockPecr.op = "lock_PECR"
    BY DEF Call, CallOn, Try
  <2>4. Fixed(chip, O)
    BY KeptFixed DEF PecrOpened
  <2>5. s3 = <<word>> \o s2 /\ s4 = <<unlockPecr>> \o s3
    OBVIOUS
  <2> HIDE DEF unlockPecr, word, lockPecr, s3, s4
  <2>6. Takes(chip, AnyLine, unlockPecr, A, O)
    BY <1>15, <2>3, PecrUnlockTakes DEF A
  <2>7. Takes(chip, AnyLine, lockPecr, D, D)
    <3>1. lockPecr.op = "lock_PECR" /\ chip.type = "L0_L1" /\ TRUE \in BOOLEAN
      BY <1>15, <2>3
    <3> QED
      BY <3>1, LockTakes DEF D
  <2>8. Takes(chip, AnyLine, word, O, E)
    BY <1>15, <2>3, CommandTakes DEF E, N
  <2> HIDE DEF O
  <2>9. s2 \in Seq(CallRec) /\ Leads(chip, AnyLine, s2, E, D)
    BY <1>2, <1>3, <1>7, <2>2, <2>7, LeadsTwo
  <2> HIDE DEF s2
  <2>10. s3 \in Seq(CallRec) /\ Leads(chip, AnyLine, s3, O, D)
    BY <1>2, <2>2, <2>4, <2>5, <2>8, <2>9, LeadsFirst
  <2>11. Leads(chip, AnyLine, s4, A, D)
    BY <1>2, <2>2, <2>4, <2>5, <2>6, <2>10, LeadsFirst
  <2> QED
    BY <2>1, <2>11
<1>16. CASE chip.type = "WB0"
  <2> DEFINE command == CallOn("command_erase", u)
             s2 == <<command, wait>>
  <2>1. EraseBody(u, l) = s2
    BY <1>16 DEF EraseBody, wait
  <2>2. command \in CallRec /\ command.op = "command_erase" /\ command.at = u
    BY CallsAreRecords DEF Ops, PageOps, Call, CallOn
  <2> HIDE DEF command
  <2>3. Takes(chip, AnyLine, command, A, E)
    BY <1>16, <2>2, CommandTakes DEF A, E, N
  <2>4. Leads(chip, AnyLine, s2, A, D)
    BY <1>2, <1>3, <1>7, <2>2, <2>3, LeadsTwo
  <2> HIDE DEF s2
  <2> QED
    BY <2>1, <2>4
<1> QED
  BY <1>13, <1>14, <1>15, <1>16

\* stlink_erase_flash_page, with the wait before and the check after.
LEMMA ErasePageLeads ==
  ASSUME chip \in Chips, Known(chip), NEW T \in SUBSET Pages(chip), NEW u \in Nat, u < FlashSize(chip),
         NEW l \in Labels
  PROVE  /\ EraseFlashPage(u, l) \in Seq(CallRec)
         /\ Leads(chip, AnyLine, EraseFlashPage(u, l), Kept(chip, T),
                  Resting(chip, T \cup {PageAt(chip, u)}))
<1> DEFINE N == {PageAt(chip, u)}
           K == Kept(chip, T)
           A == Resting(chip, T)
           D == Ended(chip, T, N, TRUE)
           Z == Resting(chip, T \cup N)
           wait == Call("wait")
           clearErrors == Call("clear_errors")
           check == Try("check_errors", l)
           s == <<wait, clearErrors>>
           t == <<check>>
<1>1. N \in SUBSET Pages(chip) /\ T \cup N \in SUBSET Pages(chip)
  BY PageIs
<1>2. /\ Fixed(chip, K) /\ Fixed(chip, A) /\ Fixed(chip, D) /\ Fixed(chip, Z)
  BY <1>1, KeptFixed, ErasingFixed
<1>3. wait \in CallRec /\ clearErrors \in CallRec /\ check \in CallRec
  BY CallsAreRecords DEF Ops, FreeOps
<1>4. /\ wait.op = "wait" /\ clearErrors.op = "clear_errors" /\ check.op = "check_errors"
      /\ check.to # ""
  BY DEF Call, Try, Labels
<1>5. EraseFlashPage(u, l) = (s \o EraseBody(u, l)) \o t
  BY DEF EraseFlashPage
<1>6. EraseBody(u, l) \in Seq(CallRec)
  BY EraseBodyPaired DEF AllPaired
<1>7. Leads(chip, AnyLine, EraseBody(u, l), A, D)
  BY EraseBodyLeads
<1> HIDE DEF wait, clearErrors, check, N
<1>8. Takes(chip, AnyLine, wait, K, A)
  BY <1>4, WaitTakes
<1>9. Takes(chip, AnyLine, clearErrors, A, A)
  BY <1>4, ClearErrorsTakes
<1>10. Takes(chip, AnyLine, check, D, Z)
  BY <1>4, CheckErrorsTakes
<1> HIDE DEF K, A, D, Z
<1>11. s \in Seq(CallRec) /\ Leads(chip, AnyLine, s, K, A)
  BY <1>2, <1>3, <1>8, <1>9, LeadsTwo
<1>12. t \in Seq(CallRec) /\ Leads(chip, AnyLine, t, D, Z)
  BY <1>2, <1>3, <1>10, LeadsOne, OfMembers
<1> HIDE DEF s, t
<1>13. /\ s \o EraseBody(u, l) \in Seq(CallRec)
       /\ Leads(chip, AnyLine, s \o EraseBody(u, l), K, D)
  BY <1>6, <1>7, <1>11, LeadsConcat
<1>14. /\ (s \o EraseBody(u, l)) \o t \in Seq(CallRec)
       /\ Leads(chip, AnyLine, (s \o EraseBody(u, l)) \o t, K, Z)
  BY <1>12, <1>13, LeadsConcat
<1> QED
  BY <1>5, <1>14 DEF K, Z, N

\* A range that is to be erased, of which Takes says what it becomes.
LEMMA RangeLeads ==
  ASSUME chip \in Chips, NEW T \in SUBSET Pages(chip), NEW n \in Nat, NEW e \in Nat, NEW l \in Labels
  PROVE  /\ <<Over("erase_section", n, e, l)>> \in Seq(CallRec)
         /\ Leads(chip, AnyLine, <<Over("erase_section", n, e, l)>>, Kept(chip, T),
                  Resting(chip, T \cup PagesOf(chip, n, e)))
<1> DEFINE x == Over("erase_section", n, e, l)
           P == PagesOf(chip, n, e)
<1>1. x \in CallRec /\ x.op = "erase_section" /\ x.at = n /\ x.end = e
  BY CallsAreRecords DEF Ops, RangeOps, Call, Try, TryOn, Over
<1>2. P \in SUBSET Pages(chip) /\ T \cup P \in SUBSET Pages(chip)
  BY DEF PagesOf
<1>3. Fixed(chip, Kept(chip, T)) /\ Fixed(chip, Resting(chip, T \cup P))
  BY <1>2, KeptFixed
<1> HIDE DEF x
<1>4. Takes(chip, AnyLine, x, Kept(chip, T), Resting(chip, T \cup P))
  BY <1>1 DEF Takes, Replaced, Unfolds
<1> QED
  BY <1>1, <1>3, <1>4, LeadsOne, OfMembers DEF x

\* Every page is in the flash, and in the half of one of the registers.
LEMMA PagesInFlash ==
  ASSUME NEW c \in Chips
  PROVE  /\ \A p \in Pages(c) : FirstUnit(c, p) \in Nat /\ FirstUnit(c, p) < FlashSize(c)
         /\ PagesOf(c, 0, FlashSize(c)) = Pages(c)
         /\ TwoRegisters(c) => MassErases(c, 1) \cup MassErases(c, 2) = Pages(c)
         /\ ~TwoRegisters(c) /\ MassCovers(c) => MassErases(c, 1) = Pages(c)
<1>1. ASSUME NEW p \in Pages(c)
      PROVE  FirstUnit(c, p) \in Nat /\ FirstUnit(c, p) < FlashSize(c)
  <2>1. FirstUnit(c, p) \in Nat
    BY PagesJoin
  <2>2. CASE ~IsUneven(c)
    BY <2>2, PagesAre
  <2>3. CASE IsUneven(c) /\ c.dual
    <3>1. Pages(c) = 0 .. 23 /\ FlashSize(c) = 128
      BY <2>3, PagesAre
    <3>2. p \in 0 .. 4 \/ p \in 5 .. 11 \/ p \in 12 .. 16 \/ p \in 17 .. 23
      BY <3>1
    <3> QED
      BY <2>1, <2>3, <3>1, <3>2, PagesAre
  <2>4. CASE IsUneven(c) /\ ~c.dual /\ ~Twice(c)
    <3>1. Pages(c) = 0 .. 11 /\ FlashSize(c) = 64
      BY <2>4, PagesAre
    <3>2. p \in 0 .. 4 \/ p \in 5 .. 11
      BY <3>1
    <3> QED
      BY <2>1, <2>4, <3>1, <3>2, PagesAre
  <2>5. CASE IsUneven(c) /\ ~c.dual /\ Twice(c)
    <3>1. Pages(c) = 0 .. 11 /\ FlashSize(c) = 128
      BY <2>5, PagesAre
    <3>2. p \in 0 .. 4 \/ p \in 5 .. 11
      BY <3>1
    <3> QED
      BY <2>1, <2>5, <3>1, <3>2, PagesAre
  <2> QED
    BY <2>2, <2>3, <2>4, <2>5
<1>2. \A p \in Pages(c) : Extent(c, p) \in Nat /\ Extent(c, p) > 0
  BY PagesJoin
<1>3. PagesOf(c, 0, FlashSize(c)) = Pages(c)
  BY <1>1, <1>2 DEF PagesOf
<1>4. \A p : PageBank(c, p) = 1 \/ PageBank(c, p) = 2
  BY DEF PageBank
<1>5. MassErases(c, 1) \cup MassErases(c, 2) = Pages(c)
  BY <1>4 DEF MassErases
<1>6. ~TwoRegisters(c) /\ MassCovers(c) => MassErases(c, 1) = Pages(c)
  BY DEF MassErases, MassCovers
<1> QED
  BY <1>1, <1>3, <1>5, <1>6

\* stlink_erase_flash_mass erases everything, unless it finds an error.
LEMMA EraseMassLeads ==
  ASSUME chip \in Chips, MassCovers(chip), NEW T \in SUBSET Pages(chip), NEW l \in Labels
  PROVE  Leads(chip, AnyLine, EraseFlashMass(l), Kept(chip, T), Resting(chip, Pages(chip)))
<1> DEFINE N == Pages(chip)
           K == Kept(chip, T)
           A == Resting(chip, T)
           Z == Resting(chip, N)
           wait == Call("wait")
<1>1. N \in SUBSET Pages(chip) /\ T \cup N = N /\ {} \in SUBSET Pages(chip)
  OBVIOUS
<1>2. Fixed(chip, K) /\ Fixed(chip, A) /\ Fixed(chip, Z)
  BY <1>1, KeptFixed
<1>3. wait \in CallRec /\ wait.op = "wait"
  BY CallsAreRecords DEF Ops, FreeOps, Call
<1>4. Z \subseteq Kept(chip, N)
  BY DEF Resting
<1>5. CASE chip.type \in {"L0_L1", "WB_WL"} \/ (chip.type = "WB0" /\ ~chip.listed)
  <2>1. EraseFlashMass(l) = <<Over("erase_section", 0, FlashSize(chip), l)>>
    BY <1>5 DEF EraseFlashMass
  <2>2. T \cup PagesOf(chip, 0, FlashSize(chip)) = N
    BY PagesInFlash
  <2>3. Leads(chip, AnyLine, <<Over("erase_section", 0, FlashSize(chip), l)>>, K,
              Resting(chip, T \cup PagesOf(chip, 0, FlashSize(chip))))
    <3>1. 0 \in Nat /\ FlashSize(chip) \in Nat
      BY FlashSizeNat
    <3> QED
      BY <3>1, RangeLeads
  <2> QED
    BY <2>1, <2>2, <2>3
<1>6. CASE chip.type = "WB0" /\ chip.listed
  <2> DEFINE E == Erasing(chip, T, N, FALSE)
             D == Ended(chip, T, N, FALSE)
             command == Call("command_mass_erase")
             s == <<command, wait>>
  <2>1. EraseFlashMass(l) = s
    BY <1>6 DEF EraseFlashMass
  <2>2. command \in CallRec /\ command.op = "command_mass_erase" /\ command.at \in Nat
    BY CallsAreRecords DEF Ops, Call
  <2>3. Fixed(chip, E) /\ Fixed(chip, D)
    BY <1>1, ErasingFixed
  <2> HIDE DEF command, wait
  <2>4. Takes(chip, AnyLine, command, K, E)
    BY <1>6, <2>2, CommandTakes DEF MassCovers
  <2>5. Takes(chip, AnyLine, wait, E, D)
    BY <1>3, WaitTakes
  <2>6. D \subseteq Z
    BY <1>1 DEF Ended, Resting, Kept
  <2> HIDE DEF E, D, K, Z, N
  <2>7. Leads(chip, AnyLine, s, K, D)
    BY <1>2, <1>3, <2>2, <2>3, <2>4, <2>5, LeadsTwo
  <2> HIDE DEF s
  <2>8. Leads(chip, AnyLine, EraseFlashMass(l), K, Z)
    BY <2>1, <2>6, <2>7, LeadsMore
  <2> QED
    BY <2>8 DEF K, Z, N
<1>7. CASE chip.type \notin {"L0_L1", "WB_WL", "WB0"}
  <2> DEFINE W == Partway(chip, T, {}, 1)
             R == Aimed(chip, T, {}, 1, MassErases(chip, 1))
             V == Partway(chip, T, MassErases(chip, 1), 2)
             Y == Aimed(chip, T, MassErases(chip, 1), 2, MassErases(chip, 2))
             E == Erasing(chip, T, N, TRUE)
             D == Ended(chip, T, N, TRUE)
             clearErrors == Call("clear_errors")
             unlock == Call("unlock")
             lock == Call("lock")
             check == Try("check_errors", l)
             set1 == CallOn("set_MER", 1)
             set2 == CallOn("set_MER", 2)
             start1 == CallOn("start", 1)
             start2 == CallOn("start", 2)
             clear1 == CallOn("clear_MER", 1)
             clear2 == CallOn("clear_MER", 2)
             s == <<wait, clearErrors, unlock>>
             m == IF TwoRegisters(chip) THEN <<set1, start1, set2, start2>> ELSE <<set1, start1>>
             w == <<wait, lock>>
             b == BothBanks("clear_MER")
             e == <<check>>
  <2>1. EraseFlashMass(l) = (((s \o m) \o w) \o b) \o e
    BY <1>7 DEF EraseFlashMass
  <2>2. /\ clearErrors \in CallRec /\ unlock \in CallRec /\ lock \in CallRec /\ check \in CallRec
        /\ set1 \in CallRec /\ set2 \in CallRec /\ start1 \in CallRec /\ start2 \in CallRec
        /\ clear1 \in CallRec /\ clear2 \in CallRec
    BY CallsAreRecords DEF Ops, FreeOps, BankOps
  <2>3. /\ clearErrors.op = "clear_errors" /\ unlock.op = "unlock" /\ lock.op = "lock"
        /\ check.op = "check_errors" /\ check.to # ""
    BY DEF Call, Try, Labels
  <2>4. /\ set1.op = "set_MER" /\ set1.at = 1 /\ set2.op = "set_MER" /\ set2.at = 2
        /\ start1.op = "start" /\ start1.at = 1 /\ start2.op = "start" /\ start2.at = 2
    BY DEF Call, CallOn
  <2>5. clear1.op = "clear_MER" /\ clear1.at = 1 /\ clear2.op = "clear_MER" /\ clear2.at = 2
    BY DEF Call, CallOn
  <2>6. b = IF TwoRegisters(chip) THEN <<clear1, clear2>> ELSE <<clear1>>
    BY DEF BothBanks
  <2>7. /\ 1 \in Bank /\ 2 \in Bank /\ 1 \in Registers(chip)
        /\ TwoRegisters(chip) => 2 \in Registers(chip)
    BY DEF Bank, Registers
  <2>8. MassErases(chip, 1) \in SUBSET Pages(chip)
    BY DEF MassErases
  <2>9. /\ Fixed(chip, W) /\ Fixed(chip, R) /\ Fixed(chip, V) /\ Fixed(chip, Y) /\ Fixed(chip, E)
        /\ Fixed(chip, D)
    BY <1>1, <2>7, <2>8, ErasingFixed
  <2> HIDE DEF wait, clearErrors, unlock, lock, check, set1, set2, start1, start2, clear1, clear2, b, N
  <2>10. Takes(chip, AnyLine, wait, K, A) /\ Takes(chip, AnyLine, wait, E, D)
    BY <1>3, WaitTakes
  <2>11. Takes(chip, AnyLine, clearErrors, A, A)
    BY <2>3, ClearErrorsTakes
  <2>12. Takes(chip, AnyLine, unlock, A, W)
    BY <1>7, <2>3, <2>7, UnlockTakes
  <2>13. Takes(chip, AnyLine, lock, D, D)
    <3>1. lock.op = "lock" /\ chip.type # "WB0" /\ TRUE \in BOOLEAN
      BY <1>7, <2>3
    <3> QED
      BY <3>1, LockTakes
  <2>14. Takes(chip, AnyLine, set1, W, R)
    BY <2>4, <2>7, SetMerTakes
  <2>15. TwoRegisters(chip) => Takes(chip, AnyLine, set2, V, Y)
    BY <2>4, <2>7, SetMerTakes
  <2>16. TwoRegisters(chip) => Takes(chip, AnyLine, start1, R, V)
    <3>1. Takes(chip, AnyLine, start1, R, Partway(chip, T, {} \cup MassErases(chip, 1), 2))
      BY <2>4, <2>7, StartTakes
    <3>2. {} \cup MassErases(chip, 1) = MassErases(chip, 1)
      OBVIOUS
    <3> QED
      BY <3>1, <3>2
  <2>17. TwoRegisters(chip) => Takes(chip, AnyLine, start2, Y, E)
    <3>1. ASSUME TwoRegisters(chip)
          PROVE  Takes(chip, AnyLine, start2, Y,
                       Erasing(chip, T, MassErases(chip, 1) \cup MassErases(chip, 2), TRUE))
      BY <2>4, <2>7, <3>1, StartTakes
    <3>2. TwoRegisters(chip) => MassErases(chip, 1) \cup MassErases(chip, 2) = N
      BY PagesInFlash DEF N
    <3> QED
      BY <3>1, <3>2
  <2>18. ~TwoRegisters(chip) => Takes(chip, AnyLine, start1, R, E)
    <3>1. Takes(chip, AnyLine, start1, R, Erasing(chip, T, {} \cup MassErases(chip, 1), TRUE))
      BY <2>4, <2>7, StartTakes
    <3>2. ~TwoRegisters(chip) => {} \cup MassErases(chip, 1) = N
      BY PagesInFlash DEF N
    <3> QED
      BY <3>1, <3>2
  <2>19. Takes(chip, AnyLine, clear1, D, D) /\ Takes(chip, AnyLine, clear2, D, D)
    <3>1. /\ TRUE \in BOOLEAN /\ clear1.at \in Bank
          /\ clear1.op = "clear_PER" \/ clear1.op = "clear_MER"
          /\ (clear2.op = "clear_PER" \/ clear2.op = "clear_MER") /\ clear2.at \in Bank
      BY <2>5, <2>7
    <3> QED
      BY <3>1, ClearTakes
  <2>20. Takes(chip, AnyLine, check, D, Z)
    <3>1. Takes(chip, AnyLine, check, D, Resting(chip, T \cup N))
      BY <2>3, CheckErrorsTakes
    <3> QED
      BY <1>1, <3>1
  <2> HIDE DEF K, A, Z, W, R, V, Y, E, D
  <2>21. s \in Seq(CallRec) /\ Leads(chip, AnyLine, s, K, W)
    <3> DEFINE v == <<clearErrors, unlock>>
    <3>1. s = <<wait>> \o v
      OBVIOUS
    <3>2. v \in Seq(CallRec) /\ Leads(chip, AnyLine, v, A, W)
      BY <1>2, <2>2, <2>9, <2>11, <2>12, LeadsTwo
    <3> HIDE DEF s, v
    <3> QED
      BY <1>2, <1>3, <2>10, <3>1, <3>2, LeadsFirst
  <2>22. m \in Seq(CallRec) /\ Leads(chip, AnyLine, m, W, E)
    <3>1. CASE TwoRegisters(chip)
      <4> DEFINE m2 == <<set2, start2>>
                 m3 == <<start1, set2, start2>>
                 m4 == <<set1, start1, set2, start2>>
      <4>1. m3 = <<start1>> \o m2 /\ m4 = <<set1>> \o m3
        OBVIOUS
      <4>2. m = m4
        BY <3>1
      <4>3. m2 \in Seq(CallRec) /\ Leads(chip, AnyLine, m2, V, E)
        BY <2>2, <2>9, <2>15, <2>17, <3>1, LeadsTwo
      <4> HIDE DEF m, m2, m3, m4
      <4>4. m3 \in Seq(CallRec) /\ Leads(chip, AnyLine, m3, R, E)
        BY <2>2, <2>9, <2>16, <3>1, <4>1, <4>3, LeadsFirst
      <4>5. m4 \in Seq(CallRec) /\ Leads(chip, AnyLine, m4, W, E)
        BY <2>2, <2>9, <2>14, <4>1, <4>4, LeadsFirst
      <4> QED
        BY <4>2, <4>5
    <3>2. CASE ~TwoRegisters(chip)
      <4> DEFINE m2 == <<set1, start1>>
      <4>1. m = m2
        BY <3>2
      <4>2. m2 \in Seq(CallRec) /\ Leads(chip, AnyLine, m2, W, E)
        BY <2>2, <2>9, <2>14, <2>18, <3>2, LeadsTwo
      <4> HIDE DEF m, m2
      <4> QED
        BY <4>1, <4>2
    <3> QED
      BY <3>1, <3>2
  <2>23. w \in Seq(CallRec) /\ Leads(chip, AnyLine, w, E, D)
    BY <1>3, <2>2, <2>9, <2>10, <2>13, LeadsTwo
  <2>24. b \in Seq(CallRec) /\ Leads(chip, AnyLine, b, D, D)
    <3>1. CASE TwoRegisters(chip)
      <4>1. <<clear1, clear2>> \in Seq(CallRec) /\ Leads(chip, AnyLine, <<clear1, clear2>>, D, D)
        BY <2>2, <2>9, <2>19, LeadsTwo
      <4> QED
        BY <2>6, <3>1, <4>1
    <3>2. CASE ~TwoRegisters(chip)
      <4>1. <<clear1>> \in Seq(CallRec) /\ Leads(chip, AnyLine, <<clear1>>, D, D)
        BY <2>2, <2>9, <2>19, LeadsOne, OfMembers
      <4> QED
        BY <2>6, <3>2, <4>1
    <3> QED
      BY <3>1, <3>2
  <2>25. e \in Seq(CallRec) /\ Leads(chip, AnyLine, e, D, Z)
    BY <1>2, <2>2, <2>9, <2>20, LeadsOne, OfMembers
  <2> HIDE DEF s, m, w, e
  <2>26. s \o m \in Seq(CallRec) /\ Leads(chip, AnyLine, s \o m, K, E)
    BY <2>21, <2>22, LeadsConcat
  <2>27. (s \o m) \o w \in Seq(CallRec) /\ Leads(chip, AnyLine, (s \o m) \o w, K, D)
    BY <2>23, <2>26, LeadsConcat
  <2>28. ((s \o m) \o w) \o b \in Seq(CallRec) /\ Leads(chip, AnyLine, ((s \o m) \o w) \o b, K, D)
    BY <2>24, <2>27, LeadsConcat
  <2>29. Leads(chip, AnyLine, (((s \o m) \o w) \o b) \o e, K, Z)
    BY <2>25, <2>28, LeadsConcat
  <2> QED
    BY <2>1, <2>29 DEF K, Z, N
<1> QED
  BY <1>5, <1>6, <1>7

\* The pages that an erase is asked for.
LEMMA AskedPages ==
  ASSUME NEW k, k.do = "erase"
  PROVE  /\ Asked(k) \in SUBSET Pages(chip)
         /\ k.mass => Asked(k) = Pages(chip)
         /\ ~k.mass => Asked(k) = PagesOf(chip, k.addr, k.addr + k.len)
BY DEF Asked, Covered, PagesOf

\* An erase, from its first call to its last: what was asked for is blank.
LEMMA EraseLeads ==
  ASSUME chip \in Chips, NEW k, Asking(k), k.do = "erase", k.mass => MassCovers(chip),
         NEW again \in BOOLEAN
  PROVE  Leads(chip, AnyLine, Main(k, again), Kept(chip, {}), Resting(chip, Asked(k)))
<1> DEFINE K == Kept(chip, {})
           Z == Resting(chip, Asked(k))
           force == Try("force_debug", "leave")
           status == Try("status", "leave")
           result == Try("result", "leave")
           reset == Try("reset", "leave")
           again1 == Call("reset")
           run == Call("run")
           succeed == Call("succeed")
           leave == Call("leave")
           x == IF k.mass THEN EraseFlashMass("result")
                ELSE <<Over("erase_section", k.addr, k.addr + k.len, "result")>>
           a == <<force, status>>
           z == <<result, reset>>
           c == IF again THEN <<again1>> ELSE <<>>
           d == <<run, succeed, leave>>
<1>1. k.addr \in Nat /\ k.addr + k.len \in Nat
  BY DEF Asking, CommandLine
<1>2. Main(k, again) = ((a \o (x \o z)) \o c) \o d
  BY DEF Main, Command
<1>3. /\ force \in CallRec /\ status \in CallRec /\ result \in CallRec /\ reset \in CallRec
      /\ again1 \in CallRec /\ run \in CallRec /\ succeed \in CallRec /\ leave \in CallRec
  BY CallsAreRecords DEF Ops, FreeOps, LabelOps, Labels
<1>4. /\ force.op = "force_debug" /\ status.op = "status" /\ result.op = "result"
      /\ reset.op = "reset"
  BY DEF Call, Try
<1>5. again1.op = "reset" /\ run.op = "run" /\ succeed.op = "succeed" /\ leave.op = "leave"
  BY DEF Call
<1>6. Asked(k) \in SUBSET Pages(chip) /\ {} \in SUBSET Pages(chip)
  BY AskedPages
<1>7. Fixed(chip, K) /\ Fixed(chip, Z)
  BY <1>6, KeptFixed
<1>8. "result" \in Labels
  BY DEF Labels
<1>9. x \in Seq(CallRec) /\ Leads(chip, AnyLine, x, K, Z)
  <2>1. CASE k.mass
    <3>1. EraseFlashMass("result") \in Seq(CallRec)
      BY <1>8, EraseMassPaired DEF AllPaired
    <3>2. Leads(chip, AnyLine, EraseFlashMass("result"), K, Resting(chip, Pages(chip)))
      BY <1>6, <1>8, <2>1, EraseMassLeads
    <3>3. Asked(k) = Pages(chip)
      BY <2>1, AskedPages
    <3> QED
      BY <2>1, <3>1, <3>2, <3>3
  <2>2. CASE ~k.mass
    <3> DEFINE y == <<Over("erase_section", k.addr, k.addr + k.len, "result")>>
    <3>1. /\ y \in Seq(CallRec)
          /\ Leads(chip, AnyLine, y, K, Resting(chip, {} \cup PagesOf(chip, k.addr, k.addr + k.len)))
      BY <1>1, <1>6, <1>8, RangeLeads
    <3>2. Asked(k) = PagesOf(chip, k.addr, k.addr + k.len)
      BY <2>2, AskedPages
    <3>3. {} \cup PagesOf(chip, k.addr, k.addr + k.len) = Asked(k)
      BY <3>2
    <3>4. x = y
      BY <2>2
    <3> HIDE DEF x, y
    <3> QED
      BY <3>1, <3>3, <3>4
  <2> QED
    BY <2>1, <2>2
<1> HIDE DEF force, status, result, reset, again1, run, succeed, leave, x
<1>10. Takes(chip, AnyLine, force, K, K) /\ Takes(chip, AnyLine, status, K, K)
  <2>1. force.op \in Idle /\ status.op \in Idle
    BY <1>4 DEF Idle
  <2> QED
    BY <2>1, IdleTakes
<1>11. /\ Takes(chip, AnyLine, result, Z, Z) /\ Takes(chip, AnyLine, run, Z, Z)
       /\ Takes(chip, AnyLine, succeed, Z, Z)
       /\ Takes(chip, AnyLine, leave, Z, Z)
  <2>1. result.op \in Idle /\ run.op \in Idle /\ succeed.op \in Idle /\ leave.op \in Idle
    BY <1>4, <1>5 DEF Idle
  <2> QED
    BY <2>1, IdleTakes
<1>12. Takes(chip, AnyLine, reset, Z, Z) /\ Takes(chip, AnyLine, again1, Z, Z)
  BY <1>4, <1>5, <1>6, ResetTakes
<1> SUFFICES Leads(chip, AnyLine, Main(k, again), K, Z)
  OBVIOUS
<1> HIDE DEF K, Z
<1>13. a \in Seq(CallRec) /\ Leads(chip, AnyLine, a, K, K)
  BY <1>3, <1>7, <1>10, LeadsTwo
<1>14. z \in Seq(CallRec) /\ Leads(chip, AnyLine, z, Z, Z)
  BY <1>3, <1>7, <1>11, <1>12, LeadsTwo
<1>15. c \in Seq(CallRec) /\ Leads(chip, AnyLine, c, Z, Z)
  <2>1. <<again1>> \in Seq(CallRec) /\ Leads(chip, AnyLine, <<again1>>, Z, Z)
    BY <1>3, <1>7, <1>12, LeadsOne, OfMembers
  <2>2. <<>> \in Seq(CallRec) /\ Leads(chip, AnyLine, <<>>, Z, Z)
    BY <1>7, LeadsNone, EmptyIn
  <2> QED
    BY <2>1, <2>2
<1>16. d \in Seq(CallRec) /\ Leads(chip, AnyLine, d, Z, Z)
  <2> DEFINE e == <<succeed, leave>>
  <2>1. d = <<run>> \o e
    OBVIOUS
  <2>2. e \in Seq(CallRec) /\ Leads(chip, AnyLine, e, Z, Z)
    BY <1>3, <1>7, <1>11, LeadsTwo
  <2> HIDE DEF d, e
  <2> QED
    BY <1>3, <1>7, <1>11, <2>1, <2>2, LeadsFirst
<1> HIDE DEF a, z, c, d
<1>17. x \o z \in Seq(CallRec) /\ Leads(chip, AnyLine, x \o z, K, Z)
  BY <1>9, <1>14, LeadsConcat
<1>18. a \o (x \o z) \in Seq(CallRec) /\ Leads(chip, AnyLine, a \o (x \o z), K, Z)
  BY <1>13, <1>17, LeadsConcat
<1>19. (a \o (x \o z)) \o c \in Seq(CallRec) /\ Leads(chip, AnyLine, (a \o (x \o z)) \o c, K, Z)
  BY <1>15, <1>18, LeadsConcat
<1>20. Leads(chip, AnyLine, ((a \o (x \o z)) \o c) \o d, K, Z)
  BY <1>16, <1>19, LeadsConcat
<1> QED
  BY <1>2, <1>20

-----------------------------------------------------------------------------
(***************************************************************************)
(* An erase of a range goes from page to page.                             *)
(***************************************************************************)

\* Where one page ends the next begins, or the flash ends.
EndOf(c, p) == IF p + 1 \in Pages(c) THEN FirstUnit(c, p + 1) ELSE FlashSize(c)

\* The pages come in the order of their numbers.
LEMMA PagesGrow ==
  ASSUME NEW c \in Chips, NEW p \in Pages(c), NEW q \in Pages(c)
  PROVE  /\ p \in Nat /\ (p < q <=> FirstUnit(c, p) < FirstUnit(c, q))
         /\ q > p => p + 1 \in Pages(c)
<1>1. p \in Nat /\ q \in Nat /\ (q > p => p + 1 \in Pages(c))
  BY DEF Pages
<1>2. p < q <=> FirstUnit(c, p) < FirstUnit(c, q)
  <2>1. CASE ~IsUneven(c)
    BY <1>1, <2>1, PagesAre
  <2>2. CASE IsUneven(c) /\ c.dual
    <3>1. Pages(c) = 0 .. 23
      BY <2>2, PagesAre
    <3>2. \A r \in 0 .. 23 : r \in 0 .. 4 \/ r \in 5 .. 11 \/ r \in 12 .. 16 \/ r \in 17 .. 23
      OBVIOUS
    <3>3. \A r \in Pages(c) :
            FirstUnit(c, r) = IF r < 5 THEN r ELSE IF r < 12 THEN 8 * (r - 4)
                              ELSE IF r < 17 THEN 52 + r ELSE 64 + 8 * (r - 16)
      BY <2>2, <3>1, <3>2, PagesAre
    <3> QED
      BY <3>1, <3>3
  <2>3. CASE IsUneven(c) /\ ~c.dual /\ ~Twice(c)
    <3>1. Pages(c) = 0 .. 11
      BY <2>3, PagesAre
    <3>2. \A r \in 0 .. 11 : r \in 0 .. 4 \/ r \in 5 .. 11
      OBVIOUS
    <3>3. \A r \in Pages(c) : FirstUnit(c, r) = IF r < 5 THEN r ELSE 8 * (r - 4)
      BY <2>3, <3>1, <3>2, PagesAre
    <3> QED
      BY <3>1, <3>3
  <2>4. CASE IsUneven(c) /\ ~c.dual /\ Twice(c)
    <3>1. Pages(c) = 0 .. 11
      BY <2>4, PagesAre
    <3>2. \A r \in 0 .. 11 : r \in 0 .. 4 \/ r \in 5 .. 11
      OBVIOUS
    <3>3. \A r \in Pages(c) : FirstUnit(c, r) = IF r < 5 THEN 2 * r ELSE 16 * (r - 4)
      BY <2>4, <3>1, <3>2, PagesAre
    <3> QED
      BY <3>1, <3>3
  <2> QED
    BY <2>1, <2>2, <2>3, <2>4
<1> QED
  BY <1>1, <1>2

\* The page at its own start, and its length.
LEMMA PageEnds ==
  ASSUME NEW c \in Chips, NEW p \in Pages(c)
  PROVE  /\ PageAt(c, FirstUnit(c, p)) = p
         /\ FirstUnit(c, p) + Extent(c, p) = EndOf(c, p)
<1> DEFINE u == FirstUnit(c, p)
           q == PageAt(c, u)
<1>1. u \in Nat /\ u < FlashSize(c)
  BY PagesInFlash
<1>2. q \in Pages(c) /\ FirstUnit(c, q) <= u /\ (q + 1 \in Pages(c) => u < FirstUnit(c, q + 1))
  BY <1>1, PageIs
<1>3. q = p
  <2>1. p \in Nat /\ q \in Nat /\ FirstUnit(c, q) \in Nat
    BY <1>2, PagesGrow, PagesInFlash
  <2>2. ~(p < q)
    BY <1>1, <1>2, <2>1, PagesGrow
  <2>3. ~(q < p)
    <3>1. ASSUME q < p PROVE FALSE
      <4>1. q + 1 \in Pages(c) /\ ~(p < q + 1) => u >= FirstUnit(c, q + 1)
        BY <1>1, <1>2, PagesGrow, PagesInFlash
      <4>2. q + 1 \in Pages(c)
        BY <1>2, <3>1, PagesGrow
      <4> QED
        BY <1>1, <1>2, <2>1, <3>1, <4>1, <4>2, PagesInFlash
    <3> QED
      BY <3>1
  <2> QED
    BY <2>1, <2>2, <2>3
<1>4. u + Extent(c, p) = EndOf(c, p)
  BY PagesJoin DEF EndOf
<1> QED
  BY <1>3, <1>4

\* A page begins before another ends when it comes no later; the pages of a
\* range by where they begin and end.
LEMMA PageOrder ==
  ASSUME NEW c \in Chips
  PROVE  /\ \A q \in Pages(c) : q \in Nat /\ FirstUnit(c, q) \in Nat /\ EndOf(c, q) \in Nat
         /\ \A q, r \in Pages(c) : FirstUnit(c, q) < EndOf(c, r) <=> q <= r
         /\ \A q \in Pages(c) : \A n, e :
              q \in PagesOf(c, n, e) <=> FirstUnit(c, q) < e /\ n < EndOf(c, q)
<1>1. ASSUME NEW q \in Pages(c)
      PROVE  q \in Nat /\ FirstUnit(c, q) \in Nat /\ FirstUnit(c, q) < EndOf(c, q) /\ EndOf(c, q) \in Nat
  BY PagesGrow, PagesJoin, PageEnds
<1>2. ASSUME NEW q \in Pages(c), NEW r \in Pages(c)
      PROVE  FirstUnit(c, q) < EndOf(c, r) <=> q <= r
  <2>1. CASE r + 1 \in Pages(c)
    <3>1. EndOf(c, r) = FirstUnit(c, r + 1) /\ (q < r + 1 <=> FirstUnit(c, q) < FirstUnit(c, r + 1))
      BY <2>1, PagesGrow DEF EndOf
    <3> QED
      BY <1>1, <3>1
  <2>2. CASE r + 1 \notin Pages(c)
    <3>1. ~(q > r) /\ FirstUnit(c, q) < EndOf(c, r)
      BY <2>2, PagesGrow, PagesInFlash DEF EndOf
    <3> QED
      BY <1>1, <3>1
  <2> QED
    BY <2>1, <2>2
<1>3. \A q \in Pages(c) : \A n, e : q \in PagesOf(c, n, e) <=> FirstUnit(c, q) < e /\ n < EndOf(c, q)
  BY PageEnds DEF PagesOf
<1> QED
  BY <1>1, <1>2, <1>3

\* A range is the page that it begins in, and the pages of what is left.
LEMMA PagesSplit ==
  ASSUME NEW c \in Chips, NEW n \in Nat, NEW e \in Nat, n < e, e <= FlashSize(c),
         NEW p, p = PageAt(c, n)
  PROVE  /\ p \in Pages(c) /\ EndOf(c, p) \in Nat /\ EndOf(c, p) = FirstUnit(c, p) + Extent(c, p)
         /\ PagesOf(c, n, e) = {p} \cup (IF EndOf(c, p) < e THEN PagesOf(c, EndOf(c, p), e) ELSE {})
         /\ p \notin PagesOf(c, EndOf(c, p), e)
         /\ EndOf(c, p) < e => p + 1 \in Pages(c) /\ EndOf(c, p) = FirstUnit(c, p + 1)
<1>1. FlashSize(c) \in Nat /\ n < FlashSize(c)
  BY DEF FlashSize
<1>2. /\ p \in Pages(c) /\ FirstUnit(c, p) <= n /\ n < EndOf(c, p)
      /\ EndOf(c, p) = FirstUnit(c, p) + Extent(c, p)
  <2>1. p \in Pages(c) /\ FirstUnit(c, p) <= n /\ n < FirstUnit(c, p) + Extent(c, p)
    BY <1>1, PageIs, PageSpan
  <2> QED
    BY <2>1, PageEnds
<1>3. \A q \in Pages(c) : q \in Nat /\ FirstUnit(c, q) \in Nat /\ EndOf(c, q) \in Nat
  BY PageOrder
<1>4. \A q, r \in Pages(c) : FirstUnit(c, q) < EndOf(c, r) <=> q <= r
  BY PageOrder
<1>5. \A q \in Pages(c) : \A m : q \in PagesOf(c, m, e) <=> FirstUnit(c, q) < e /\ m < EndOf(c, q)
  BY PageOrder
<1>6. ASSUME NEW q \in Pages(c)
      PROVE  (n < EndOf(c, q) <=> p <= q) /\ (EndOf(c, p) < EndOf(c, q) <=> p < q)
  <2>1. CASE q < p
    <3>1. EndOf(c, q) <= FirstUnit(c, p) /\ FirstUnit(c, p) < EndOf(c, p)
      BY <1>2, <1>3, <1>4, <2>1
    <3> QED
      BY <1>2, <1>3, <2>1, <3>1
  <2>2. CASE q > p
    <3>1. EndOf(c, p) <= FirstUnit(c, q) /\ FirstUnit(c, q) < EndOf(c, q)
      BY <1>2, <1>3, <1>4, <2>2
    <3> QED
      BY <1>2, <1>3, <2>2, <3>1
  <2>3. CASE q = p
    BY <1>2, <1>3, <2>3
  <2> QED
    BY <1>2, <1>3, <2>1, <2>2, <2>3
<1>7. \A q \in Pages(c) : /\ q \in PagesOf(c, n, e) <=> FirstUnit(c, q) < e /\ p <= q
                          /\ q \in PagesOf(c, EndOf(c, p), e) <=> FirstUnit(c, q) < e /\ p < q
  BY <1>5, <1>6
<1>8. \A m : PagesOf(c, m, e) \subseteq Pages(c)
  BY DEF PagesOf
<1>9. FirstUnit(c, p) < e /\ p \notin PagesOf(c, EndOf(c, p), e)
  BY <1>2, <1>3, <1>7
<1>10. PagesOf(c, n, e) = {p} \cup PagesOf(c, EndOf(c, p), e)
  <2>1. \A q \in Pages(c) : p <= q <=> q = p \/ p < q
    BY <1>2, <1>3
  <2> QED
    BY <1>2, <1>7, <1>8, <1>9, <2>1
<1>11. ~(EndOf(c, p) < e) => PagesOf(c, EndOf(c, p), e) = {}
  <2>1. ASSUME ~(EndOf(c, p) < e), NEW q \in Pages(c), q \in PagesOf(c, EndOf(c, p), e)
        PROVE  FALSE
    <3>1. FirstUnit(c, q) < EndOf(c, p) /\ p < q
      BY <1>2, <1>3, <1>7, <2>1
    <3> QED
      BY <1>2, <1>3, <1>4, <3>1
  <2> QED
    BY <1>8, <2>1
<1>12. EndOf(c, p) < e => p + 1 \in Pages(c) /\ EndOf(c, p) = FirstUnit(c, p + 1)
  BY <1>1, <1>2, <1>3 DEF EndOf
<1> QED
  BY <1>2, <1>3, <1>9, <1>10, <1>11, <1>12

\* A range that begins with a page.
LEMMA PagesFrom ==
  ASSUME NEW c \in Chips, NEW p \in Pages(c), NEW e \in Nat, EndOf(c, p) <= e, e <= FlashSize(c)
  PROVE  /\ PagesOf(c, FirstUnit(c, p), e) =
              {p} \cup (IF EndOf(c, p) < e THEN PagesOf(c, EndOf(c, p), e) ELSE {})
         /\ EndOf(c, p) < e => p + 1 \in Pages(c) /\ EndOf(c, p) = FirstUnit(c, p + 1)
         /\ EndOf(c, p) \in Nat
<1> DEFINE n == FirstUnit(c, p)
<1>1. n \in Nat /\ EndOf(c, p) \in Nat /\ n < EndOf(c, p) /\ p \in Nat
  BY PageOrder
<1>2. n < e /\ p = PageAt(c, n)
  BY <1>1, PageEnds
<1> HIDE DEF n
<1>3. /\ PagesOf(c, n, e) = {p} \cup (IF EndOf(c, p) < e THEN PagesOf(c, EndOf(c, p), e) ELSE {})
      /\ EndOf(c, p) < e => p + 1 \in Pages(c) /\ EndOf(c, p) = FirstUnit(c, p + 1)
  BY <1>1, <1>2, PagesSplit
<1> QED
  BY <1>1, <1>3 DEF n

\* An erase of which nothing went wrong so far, on a controller that was in
\* order where the first register answers for both, and a chip whose pages are
\* named and reached: what is left to do makes the pages blank that were asked
\* for.
WellErased == /\ cmd.do = "erase" /\ killed = "" /\ ~failed /\ lost = {}
              /\ TwoRegisters(chip) => tidy
              /\ Known(chip) /\ (cmd.mass => MassCovers(chip))
Heading == WellErased => \E P : target \in P /\ Leads(chip, AnyLine, todo, P, Resting(chip, Asked(cmd)))

\* A chip whose sectors stlink_calculate_pagesize counts as they are.
LEMMA KnownView ==
  ASSUME NEW c \in Chips, Known(c)
  PROVE  /\ CodeView(c) = c
         /\ \A u \in Nat : u < FlashSize(c) => PageSize(c, u) = Extent(c, PageAt(c, u))
<1>1. c.type = "F7" => ~c.dual
  BY DEF Known
<1>2. CodeView(c) = c
  BY <1>1 DEF CodeView, Chips
<1> QED
  BY <1>1, <1>2, SizeIsExtent

\* What a range becomes.
LEMMA SectionLeads ==
  ASSUME TypeOK, EraseSection \/ EraseNext, Known(chip), cmd.do = "erase", ~failed', NEW P, NEW Q,
         Unfolds(chip, Step, P, Q), Fixed(chip, Q)
  PROVE  \E calls \in Seq(CallRec) : /\ todo' = calls \o Tail(todo) /\ Leads(chip, AnyLine, calls, P, Q)
                                     /\ UNCHANGED <<chip, target, cmd, lost, killed, tidy>>
                                     /\ ~failed
<1>1. todo # <<>> /\ Step.op \in {"erase_section", "erase_next"}
  BY DEF EraseSection, EraseNext, At
<1>2. /\ Step \in CallRec /\ Step.at \in Nat /\ Step.end \in Nat /\ chip \in Chips /\ Fits(cmd, Step)
      /\ Step.to \in Labels
  <2>1. Step \in CallRec /\ Step.at \in Nat /\ Step.end \in Nat /\ chip \in Chips /\ Fits(cmd, Step)
    BY <1>1, HeadIs DEF TypeOK
  <2> QED
    BY <1>1, <2>1 DEF Fits, RangeOps
<1>3. PICK T : /\ T \subseteq Pages(chip) /\ P \subseteq Kept(chip, T)
               /\ Resting(chip, T \cup PagesOf(chip, Step.at, Step.end)) \subseteq Q
  BY Zenon DEF Unfolds
<1>4. Fixed(chip, Kept(chip, T))
  BY <1>2, <1>3, KeptFixed
<1>5. CASE EraseSection
  <2> DEFINE x == [Step EXCEPT !.op = "erase_next"]
             ok == InFlash(Step.at, Step.end) /\ Aligned(Step.at)
  <2>1. Becomes(ok, <<x>>)
    BY <1>5 DEF EraseSection
  <2>2. ok /\ todo' = <<x>> \o Tail(todo) /\ ~failed
        /\ UNCHANGED <<chip, target, cmd, lost, killed, tidy>>
    BY <2>1 DEF Becomes
  <2>3. x \in CallRec /\ x.op = "erase_next" /\ x.at = Step.at /\ x.end = Step.end
    BY <1>2 DEF CallRec, Ops, RangeOps
  <2>4. Step.end <= FlashSize(chip) /\ \E p \in Pages(chip) : FirstUnit(chip, p) = Step.at
    BY <1>2, <2>2, KnownView DEF InFlash, Aligned
  <2> HIDE DEF x, ok
  <2>5. Unfolds(chip, x, Kept(chip, T), Q)
    BY <1>3, <2>3, <2>4 DEF Unfolds
  <2>6. Takes(chip, AnyLine, x, Kept(chip, T), Q)
    BY <2>3, <2>5 DEF Takes, Replaced
  <2>7. <<x>> \in Seq(CallRec) /\ Leads(chip, AnyLine, <<x>>, Kept(chip, T), Q)
    BY <1>4, <2>3, <2>6, LeadsOne, OfMembers
  <2>8. Leads(chip, AnyLine, <<x>>, P, Q)
    BY <1>3, <2>7, LeadsMore
  <2> QED
    BY <2>2, <2>7, <2>8
<1>6. CASE EraseNext
  <2> DEFINE next == Step.at + PageSize(chip, Step.at)
             more == [Step EXCEPT !.at = next]
             rest == IF next < Step.end THEN <<more>> ELSE <<>>
             ok == next <= Step.end \/ cmd.do = "write"
             body == EraseFlashPage(Step.at, Step.to)
  <2>1. Becomes(ok, body \o rest) /\ Step.op = "erase_next"
    BY <1>6 DEF EraseNext, At
  <2>2. next <= Step.end /\ todo' = (body \o rest) \o Tail(todo) /\ ~failed
        /\ UNCHANGED <<chip, target, cmd, lost, killed, tidy>>
    BY <2>1 DEF Becomes
  <2>3. Step.end <= FlashSize(chip) /\ \E p \in Pages(chip) : FirstUnit(chip, p) = Step.at
    BY <2>1, Zenon DEF Unfolds
  <2>4. PICK p \in Pages(chip) : FirstUnit(chip, p) = Step.at
    BY <2>3
  <2>5. PageAt(chip, Step.at) = p /\ next = EndOf(chip, p) /\ Step.at < FlashSize(chip)
    BY <1>2, <2>4, KnownView, PageEnds, PagesInFlash
  <2>6. /\ PagesOf(chip, Step.at, Step.end) =
             {p} \cup (IF next < Step.end THEN PagesOf(chip, next, Step.end) ELSE {})
        /\ next < Step.end => p + 1 \in Pages(chip) /\ next = FirstUnit(chip, p + 1)
        /\ next \in Nat
    BY <1>2, <2>2, <2>3, <2>4, <2>5, PagesFrom
  <2> HIDE DEF next
  <2>7. /\ body \in Seq(CallRec)
        /\ Leads(chip, AnyLine, body, Kept(chip, T), Resting(chip, T \cup {p}))
    BY <1>2, <1>3, <2>5, ErasePageLeads
  <2> HIDE DEF body
  <2>8. T \cup {p} \in SUBSET Pages(chip) /\ Fixed(chip, Resting(chip, T \cup {p}))
        /\ Fixed(chip, Kept(chip, T \cup {p}))
    <3>1. T \cup {p} \in SUBSET Pages(chip)
      BY <1>3
    <3> QED
      BY <1>2, <3>1, KeptFixed
  <2>9. rest \in Seq(CallRec) /\ Leads(chip, AnyLine, rest, Resting(chip, T \cup {p}), Q)
    <3>1. CASE next < Step.end
      <4>1. more \in CallRec /\ more.op = "erase_next" /\ more.at = next /\ more.end = Step.end
        BY <1>2, <2>1, <2>6 DEF CallRec
      <4> HIDE DEF more
      <4>2. (T \cup {p}) \cup PagesOf(chip, more.at, more.end) = T \cup PagesOf(chip, Step.at, Step.end)
        BY <2>6, <3>1, <4>1
      <4>3. \E q \in Pages(chip) : FirstUnit(chip, q) = more.at
        BY <2>6, <3>1, <4>1
      <4>4. Unfolds(chip, more, Kept(chip, T \cup {p}), Q)
        BY <1>3, <2>3, <2>8, <4>1, <4>2, <4>3 DEF Unfolds
      <4>5. Takes(chip, AnyLine, more, Kept(chip, T \cup {p}), Q)
        BY <4>1, <4>4 DEF Takes, Replaced
      <4>6. <<more>> \in Seq(CallRec) /\ Leads(chip, AnyLine, <<more>>, Kept(chip, T \cup {p}), Q)
        BY <2>8, <4>1, <4>5, LeadsOne, OfMembers
      <4>7. Resting(chip, T \cup {p}) \subseteq Kept(chip, T \cup {p})
        BY DEF Resting
      <4>8. Leads(chip, AnyLine, <<more>>, Resting(chip, T \cup {p}), Q)
        BY <4>6, <4>7, LeadsMore
      <4> QED
        BY <3>1, <4>6, <4>8
    <3>2. CASE ~(next < Step.end)
      <4>1. Resting(chip, T \cup {p}) \subseteq Q
        BY <1>3, <2>6, <3>2
      <4>2. Leads(chip, AnyLine, <<>>, Resting(chip, T \cup {p}), Q)
        BY <4>1, LeadsNone
      <4> QED
        BY <3>2, <4>2, EmptyIn
    <3> QED
      BY <3>1, <3>2
  <2> HIDE DEF rest
  <2>10. body \o rest \in Seq(CallRec) /\ Leads(chip, AnyLine, body \o rest, Kept(chip, T), Q)
    BY <2>7, <2>9, LeadsConcat
  <2>11. Leads(chip, AnyLine, body \o rest, P, Q)
    BY <1>3, <2>10, LeadsMore
  <2> QED
    BY <2>2, <2>10, <2>11
<1> QED
  BY <1>5, <1>6

-----------------------------------------------------------------------------
(***************************************************************************)
(* One step of an erase, and its end.                                      *)
(***************************************************************************)

\* A call that is made is none that becomes others.
LEMMA MadeNotReplaced ==
  ASSUME TypeOK,
         \/ Wait \/ ClearErrors \/ CheckErrors \/ Unlock \/ Lock \/ UnlockOptions
         \/ Relock \/ Start \/ SetPg \/ ClearPg \/ SetPer \/ ClearPer \/ SetMer
         \/ ClearMer \/ UnlockPecr \/ EraseWord \/ LockPecr \/ CommandPageErase
         \/ CommandMassErase \/ RestoreDma \/ InitLoader \/ ReadRegister \/ Unmask
         \/ EraseOptions \/ ProgramOption \/ BeginOptions \/ ChangeOptions \/ ForceDebug \/ Status
         \/ RunCore \/ Finalize \/ Leave \/ StopDma \/ Load \/ Verify \/ ResetTarget
         \/ SelectPageToErase
  PROVE  Step.op \notin Replaced
<1>1. Touching \cap Replaced = {} /\ "leave" \notin Replaced
  BY DEF Touching, Replaced
<1>2. CASE \/ SelectPageToErase \/ SetPer \/ Start \/ EraseWord \/ CommandPageErase
           \/ CommandMassErase \/ Load \/ ResetTarget \/ Leave
  <2>1. Step.op \in Touching \cup {"leave"}
    BY <1>2, TouchingType
  <2> QED
    BY <1>1, <2>1
<1>3. CASE ~(\/ SelectPageToErase \/ SetPer \/ Start \/ EraseWord \/ CommandPageErase
             \/ CommandMassErase \/ Load \/ ResetTarget \/ Leave)
  <2>1. \/ Wait \/ ClearErrors \/ CheckErrors \/ Unlock \/ Lock \/ UnlockOptions \/ Relock
        \/ SetPg \/ ClearPg \/ ClearPer \/ SetMer \/ ClearMer \/ UnlockPecr \/ LockPecr
        \/ RestoreDma \/ InitLoader \/ ReadRegister \/ Unmask \/ EraseOptions \/ ProgramOption
        \/ BeginOptions \/ ChangeOptions \/ ForceDebug \/ Status \/ RunCore \/ Finalize \/ StopDma
        \/ Verify
    BY <1>3, Zenon
  <2> QED
    BY <2>1, SteadyCalls
<1> QED
  BY <1>2, <1>3

\* A search for errors that does not fail found none.
LEMMA CheckFinds ==
  ASSUME TypeOK, CheckErrors, lost' = {}, ~failed', Step.to # ""
  PROVE  ~Erred(chip, target)
<1>1. PICK l \in Reads : Link(l) /\ Returns(CheckFlashError(chip, target, l))
  BY Zenon DEF CheckErrors, Calls
<1>2. l \in Either /\ l = Good
  BY <1>1, ExchangesAre, NothingLost
<1>3. CheckFlashError(chip, target, l)
  BY <1>1 DEF Returns
<1>4. l.read
  BY <1>2 DEF Good
<1> QED
  BY <1>3, <1>4 DEF CheckFlashError, Erred

\* The next call is made.
LEMMA HeadingMade ==
  ASSUME TypeOK, TypeOK', Heading, todo # <<>>, Step.op \notin Replaced,
         WellErased' => /\ WellErased /\ todo' = Tail(todo) /\ chip' = chip /\ cmd' = cmd
                        /\ Step.op = "check_errors" /\ Step.to # "" => ~Erred(chip, target)
                        /\ \E a, bk : Does(chip, Step, target, a, target', bk)
  PROVE  Heading'
<1> SUFFICES ASSUME WellErased'
             PROVE  (\E P : target \in P /\ Leads(chip, AnyLine, todo, P, Resting(chip, Asked(cmd))))'
  BY DEF Heading
<1> DEFINE Q == Resting(chip, Asked(cmd))
<1>1. /\ WellErased /\ todo' = Tail(todo) /\ chip' = chip /\ cmd' = cmd
      /\ Step.op = "check_errors" /\ Step.to # "" => ~Erred(chip, target)
      /\ \E a, bk : Does(chip, Step, target, a, target', bk)
  OBVIOUS
<1>2. todo \in Seq(CallRec) /\ Step = todo[1]
  BY HeadIs DEF Step
<1>3. PICK P : target \in P /\ Leads(chip, AnyLine, todo, P, Q)
  BY <1>1 DEF Heading
<1> HIDE DEF Q
<1>4. PICK R : Takes(chip, AnyLine, todo[1], P, R) /\ Leads(chip, AnyLine, Tail(todo), R, Q)
  BY <1>2, <1>3, LeadsTail
<1>5. target' \in Controller(chip)
  BY <1>1 DEF TypeOK
<1>6. target' \in R
  BY <1>1, <1>2, <1>3, <1>4, <1>5 DEF Takes
<1>7. Asked(cmd)' = Asked(cmd)
  BY <1>1 DEF Asked, Covered
<1> QED
  BY <1>1, <1>4, <1>6, <1>7 DEF Q, Leads, Outline

\* The condition says the same of a state whose chip and command are as before.
LEMMA HeadingOf ==
  ASSUME chip' = chip, cmd' = cmd, NEW P, target' \in P,
         Leads(chip, AnyLine, todo', P, Resting(chip, Asked(cmd)))
  PROVE  (\E R : target \in R /\ Leads(chip, AnyLine, todo, R, Resting(chip, Asked(cmd))))'
<1>1. Asked(cmd)' = Asked(cmd)
  BY DEF Asked, Covered
<1> QED
  BY <1>1 DEF Leads, Outline

\* A call becomes others, or fails.
LEMMA HeadingReplaced ==
  ASSUME TypeOK, Heading, EraseSection \/ EraseNext \/ WritePage \/ CheckRange \/ Unsupported
  PROVE  Heading'
<1> SUFFICES ASSUME WellErased'
             PROVE  (\E R : target \in R /\ Leads(chip, AnyLine, todo, R, Resting(chip, Asked(cmd))))'
  BY DEF Heading
<1> DEFINE Q == Resting(chip, Asked(cmd))
<1>1. todo # <<>> /\ Step.op \in Replaced /\ todo \in Seq(CallRec) /\ Step = todo[1]
  <2>1. todo # <<>> /\ Step.op \in Replaced
    BY DEF EraseSection, EraseNext, WritePage, CheckRange, Unsupported, At, Replaced
  <2> QED
    BY <2>1, HeadIs DEF Step
<1>2. \E ok, calls : Becomes(ok, calls)
  BY Zenon DEF EraseSection, EraseNext, WritePage, CheckRange, Unsupported
<1>3. /\ chip' = chip /\ target' = target /\ cmd' = cmd /\ killed' = killed /\ lost' = lost
      /\ tidy' = tidy /\ (~failed' => ~failed)
  BY <1>2 DEF Becomes
<1>4. WellErased /\ ~failed'
  BY <1>3 DEF WellErased
<1>5. PICK P : target \in P /\ Leads(chip, AnyLine, todo, P, Q)
  BY <1>4 DEF Heading
<1> HIDE DEF Q
<1>6. PICK R : Takes(chip, AnyLine, todo[1], P, R) /\ Leads(chip, AnyLine, Tail(todo), R, Q)
  BY <1>1, <1>5, LeadsTail
<1>7. Tail(todo) \in Seq(CallRec)
  BY <1>1, TailRest
<1>8. PICK V : R \subseteq V /\ Fixed(chip, V) /\ Leads(chip, AnyLine, Tail(todo), V, Q)
  BY <1>6, <1>7, LeadsFixed
<1>9. Unfolds(chip, Step, P, V)
  <2>1. Takes(chip, AnyLine, todo[1], P, V)
    BY <1>6, <1>8, TakesMore
  <2> QED
    BY <1>1, <2>1 DEF Takes
<1>10. Step.op \in {"erase_section", "erase_next"}
  BY <1>9 DEF Unfolds
<1>11. EraseSection \/ EraseNext
  BY <1>10 DEF WritePage, CheckRange, Unsupported, At
<1>12. cmd.do = "erase" /\ Known(chip)
  BY <1>4 DEF WellErased
<1>13. PICK calls \in Seq(CallRec) : todo' = calls \o Tail(todo) /\ Leads(chip, AnyLine, calls, P, V)
  BY <1>4, <1>8, <1>9, <1>11, <1>12, SectionLeads
<1>14. Leads(chip, AnyLine, calls \o Tail(todo), P, Q)
  BY <1>7, <1>8, <1>13, LeadsConcat
<1> QED
  BY <1>3, <1>5, <1>13, <1>14, HeadingOf DEF Q

\* The next call is made, its exchanges answered.
LEMMA HeadingCalls ==
  ASSUME TypeOK, TypeOK', Heading,
         \/ Wait \/ ClearErrors \/ CheckErrors \/ Unlock \/ Lock \/ UnlockOptions
         \/ Relock \/ Start \/ SetPg \/ ClearPg \/ SetPer \/ ClearPer \/ SetMer
         \/ ClearMer \/ UnlockPecr \/ EraseWord \/ LockPecr \/ CommandPageErase
         \/ CommandMassErase \/ RestoreDma \/ InitLoader \/ ReadRegister \/ Unmask
         \/ EraseOptions \/ ProgramOption \/ BeginOptions \/ ChangeOptions \/ ForceDebug \/ Status
         \/ RunCore \/ Finalize \/ Leave \/ StopDma \/ Load \/ Verify \/ ResetTarget
         \/ SelectPageToErase
  PROVE  Heading'
<1>1. Step.op \notin Replaced
  BY Zenon, MadeNotReplaced
<1>2. Step.op = "check_errors" => CheckErrors
  <2>1. CASE \/ ClearErrors \/ CheckErrors \/ Unlock \/ Lock \/ UnlockOptions \/ Relock
             \/ SetPg \/ ClearPg \/ ClearPer \/ SetMer \/ ClearMer \/ UnlockPecr \/ LockPecr
             \/ RestoreDma \/ InitLoader \/ ReadRegister \/ Wait \/ Verify
    BY <2>1, Zenon DEF ClearErrors, CheckErrors, Unlock, Lock, UnlockOptions, Relock, SetPg,
       ClearPg, ClearPer, SetMer, ClearMer, UnlockPecr, LockPecr, RestoreDma, InitLoader,
       ReadRegister, Wait, Verify, Calls, At
  <2>2. CASE \/ Unmask \/ EraseOptions \/ ProgramOption
             \/ BeginOptions \/ ChangeOptions \/ ForceDebug \/ Status \/ RunCore \/ Finalize \/ StopDma
             \/ SelectPageToErase \/ SetPer \/ Start \/ EraseWord \/ CommandPageErase
             \/ CommandMassErase \/ Load \/ ResetTarget \/ Leave
    BY <2>2, Zenon DEF Unmask, EraseOptions, ProgramOption, BeginOptions, ChangeOptions, ForceDebug, Status,
       RunCore, Finalize, StopDma, SelectPageToErase, SetPer, Start, EraseWord, CommandPageErase,
       CommandMassErase, Load, ResetTarget, Leave, Calls, At
  <2> QED
    BY <2>1, <2>2, Zenon
<1>3. ASSUME WellErased'
      PROVE  /\ WellErased /\ todo' = Tail(todo) /\ chip' = chip /\ cmd' = cmd /\ todo # <<>>
             /\ Step.op = "check_errors" /\ Step.to # "" => ~Erred(chip, target)
             /\ \E a, bk : Does(chip, Step, target, a, target', bk)
  <2>1. lost' = {} /\ ~failed'
    BY <1>3 DEF WellErased
  <2>2. GoodCall
    BY <2>1, GoodStep, Zenon
  <2>3. Succeeds
    BY <2>1, <2>2 DEF GoodCall, FailsThen
  <2>4. WellErased
    BY <1>3, <2>2, <2>3 DEF WellErased, GoodCall, Succeeds
  <2>5. Step.op = "check_errors" /\ Step.to # "" => ~Erred(chip, target)
    BY <1>2, <2>1, CheckFinds
  <2> QED
    BY <2>2, <2>3, <2>4, <2>5 DEF GoodCall, Succeeds
<1>4. CASE WellErased'
  <2>1. todo # <<>>
    BY <1>3, <1>4
  <2> QED
    BY <1>1, <1>3, <2>1, HeadingMade
<1> QED
  BY <1>4 DEF Heading

\* A command begins.
LEMMA HeadingBegins ==
  ASSUME TypeOK, TypeOK', Compared', Begin
  PROVE  Heading'
<1> SUFFICES ASSUME WellErased'
             PROVE  (\E R : target \in R /\ Leads(chip, AnyLine, todo, R, Resting(chip, Asked(cmd))))'
  BY DEF Heading
<1>1. chip \in Chips /\ chip' = chip /\ tidy' = InOrder(target')
  BY DEF TypeOK, Begin
<1>2. PICK k \in Lines(chip), again \in BOOLEAN, known \in BOOLEAN :
        /\ cmd' = k
        /\ todo' = IF known THEN Main(k, again) ELSE <<CallOn("leave", 1)>>
        /\ lost' = IF known THEN {} ELSE {"identify"}
  BY ZenonT(40) DEF Begin
<1>3. /\ k.do = "erase" /\ todo' = Main(k, again)
      /\ k.mass => MassCovers(chip)
  <2>1. MassCovers(chip)' <=> MassCovers(chip)
    BY <1>1 DEF MassCovers, IsUneven
  <2> QED
    BY <1>2, <2>1 DEF WellErased
<1>4. Asking(k)
  BY <1>1, LinesAre
<1>5. target' \in Kept(chip, {})
  <2>1. target' \in Controller(chip)
    BY <1>1 DEF TypeOK
  <2>2. Lone(chip, target')
    BY <1>1 DEF Compared, Lone
  <2>3. ASSUME TwoRegisters(chip)
        PROVE  "LOCK" \in target'.cr[1] <=> "LOCK" \in target'.cr[2]
    <3>1. InOrder(target')
      BY <1>1, <2>3 DEF WellErased, TwoRegisters
    <3>2. CrAtReset(chip)[1] = CrAtReset(chip)[2]
      BY DEF CrAtReset, Bank
    <3> QED
      BY <2>3, <3>1, <3>2 DEF InOrder, Registers, Bank
  <2> QED
    BY <2>1, <2>2, <2>3 DEF Kept, Held
<1>6. Leads(chip, AnyLine, todo', Kept(chip, {}), Resting(chip, Asked(k)))
  BY <1>1, <1>3, <1>4, EraseLeads
<1>7. Asked(cmd)' = Asked(k)
  BY <1>1, <1>2 DEF Asked, Covered
<1> QED
  BY <1>1, <1>5, <1>6, <1>7 DEF Leads, Outline

\* Heading is kept by every step.
LEMMA HeadingStep ==
  ASSUME TypeOK, TypeOK', Orderly, Compared', Heading, Next
  PROVE  Heading'
<1>1. CASE \/ Wait \/ ClearErrors \/ CheckErrors \/ Unlock \/ Lock \/ UnlockOptions
           \/ Relock \/ Start \/ SetPg \/ ClearPg \/ SetPer \/ ClearPer \/ SetMer
           \/ ClearMer \/ UnlockPecr \/ EraseWord \/ LockPecr \/ CommandPageErase
           \/ CommandMassErase \/ RestoreDma \/ InitLoader \/ ReadRegister \/ Unmask
           \/ EraseOptions \/ ProgramOption \/ BeginOptions \/ ChangeOptions \/ ForceDebug \/ Status
           \/ RunCore \/ Finalize \/ Leave \/ StopDma \/ Load \/ Verify \/ ResetTarget
           \/ SelectPageToErase
  BY <1>1, HeadingCalls
<1>2. CASE EraseSection \/ EraseNext \/ WritePage \/ CheckRange \/ Unsupported
  BY <1>2, HeadingReplaced
<1>3. CASE Begin
  BY <1>3, HeadingBegins
<1>4. CASE Interrupt \/ Unplugged
  <2>1. killed' # ""
    BY <1>4 DEF Interrupt, Unplugged
  <2> QED
    BY <2>1 DEF Heading, WellErased
<1>5. CASE EraseEnds
  <2>1. PICK b \in Bank : target.job[b] # {} /\ target' = Finish(target, b)
    BY <1>5 DEF EraseEnds
  <2>2. /\ todo' = todo /\ cmd' = cmd /\ lost' = lost /\ chip' = chip
        /\ failed' = failed /\ killed' = killed /\ tidy' = tidy
    BY <1>5 DEF EraseEnds, call, history
  <2>3. ASSUME WellErased'
        PROVE  (\E R : target \in R /\ Leads(chip, AnyLine, todo, R, Resting(chip, Asked(cmd))))'
    <3> DEFINE Q == Resting(chip, Asked(cmd))
    <3>1. WellErased
      BY <2>2, <2>3 DEF WellErased
    <3>2. PICK P : target \in P /\ Leads(chip, AnyLine, todo, P, Q)
      BY <3>1 DEF Heading
    <3> HIDE DEF Q
    <3>3. todo \in Seq(CallRec)
      BY HeadIs, EmptyIn
    <3>4. PICK R : P \subseteq R /\ Fixed(chip, R) /\ Leads(chip, AnyLine, todo, R, Q)
      BY <3>2, <3>3, LeadsFixed
    <3>5. target' \in R
      BY <2>1, <3>2, <3>4 DEF Fixed
    <3>6. Leads(chip, AnyLine, todo', R, Q)
      BY <2>2, <3>4
    <3> QED
      BY <2>2, <3>5, <3>6, HeadingOf DEF Q
  <2> QED
    BY <2>3 DEF Heading
<1>6. CASE Result \/ Succeed
  <2>1. /\ todo # <<>> /\ Step.op \in {"result", "succeed"}
        /\ cmd' = cmd /\ lost' = lost /\ failed' = failed /\ killed' = killed
        /\ chip' = chip /\ target' = target /\ tidy' = tidy
    BY <1>6 DEF Result, Succeed, At, history
  <2>2. Step.op \notin Replaced /\ Step.op # "check_errors"
    BY <2>1 DEF Replaced
  <2>3. ~failed' => todo' = Tail(todo)
    <3>1. Succeed => todo' = Tail(todo)
      BY DEF Succeed
    <3>2. ASSUME Result, ~failed'  PROVE todo' = Tail(todo)
      <4>1. ret = 0
        BY <2>1, <3>2 DEF Orderly
      <4>2. todo' = IF ret = -1 /\ Step.to = "leave" THEN From("leave") ELSE Tail(todo)
        BY <3>2 DEF Result
      <4>3. 0 # -1
        OBVIOUS
      <4> QED
        BY <4>1, <4>2, <4>3, Zenon
    <3> QED
      BY <1>6, <3>1, <3>2
  <2>4. \E a, bk : Does(chip, Step, target, a, target', bk)
    <3>1. Does(chip, Step, target, backup, target', backup)
      BY <2>1 DEF Does, Alike
    <3> QED
      BY <3>1
  <2>5. WellErased' => WellErased /\ todo' = Tail(todo)
    BY <2>1, <2>3 DEF WellErased
  <2> QED
    BY <2>1, <2>2, <2>4, <2>5, HeadingMade
<1> QED
  BY <1>1, <1>2, <1>3, <1>4, <1>5, <1>6 DEF Next

\* At the end of an erase every page that was asked for is blank.
LEMMA HeadingEnds ==
  ASSUME Heading, Judged, FailureIsTold, Finished, err = 0, cmd.do = "erase", lost = {},
         TwoRegisters(chip) => tidy, Known(chip), cmd.mass => MassCovers(chip)
  PROVE  \A p \in Asked(cmd) : target.mem[p] = "blank"
<1>1. todo = <<>> /\ killed = ""
  BY Zenon DEF Finished
<1>2. ~failed
  BY DEF FailureIsTold
<1>3. WellErased
  BY <1>1, <1>2 DEF WellErased
<1> DEFINE Q == Resting(chip, Asked(cmd))
<1>4. PICK P : target \in P /\ Leads(chip, AnyLine, todo, P, Q)
  BY <1>3 DEF Heading
<1> HIDE DEF Q
<1>5. Len(todo) = 0
  BY <1>1, EmptySeq
<1>6. target \in Q
  BY <1>4, <1>5 DEF Leads
<1> QED
  BY <1>6 DEF Q, Resting, Kept

\* An st-flash that ends with status 0 has done what it was asked: what was to
\* be written is in the flash, and what was to be erased is blank.
THEOREM AlwaysSuccessMeansWritten == Spec => [](Heading /\ SuccessMeansWritten)
<1>1. Init => Heading
  <2> SUFFICES ASSUME Init  PROVE Heading
    OBVIOUS
  <2>1. cmd.do = "none"
    BY DEF Init, Line
  <2> QED
    BY <2>1 DEF Heading, WellErased
<1>2. Heading /\ UNCHANGED vars => Heading'
  <2> SUFFICES ASSUME Heading, UNCHANGED vars  PROVE Heading'
    OBVIOUS
  <2>1. /\ todo' = todo /\ cmd' = cmd /\ lost' = lost /\ chip' = chip /\ target' = target
        /\ failed' = failed /\ killed' = killed /\ tidy' = tidy
    BY DEF vars, call, history
  <2>2. WellErased' => WellErased
    BY <2>1 DEF WellErased
  <2>3. ASSUME WellErased
        PROVE  (\E R : target \in R /\ Leads(chip, AnyLine, todo, R, Resting(chip, Asked(cmd))))'
    <3>1. PICK P : target \in P /\ Leads(chip, AnyLine, todo, P, Resting(chip, Asked(cmd)))
      BY <2>3 DEF Heading
    <3> QED
      BY <2>1, <3>1, HeadingOf
  <2> QED
    BY <2>2, <2>3 DEF Heading
<1>3. TypeOK /\ TypeOK' /\ Orderly /\ Compared' /\ Heading /\ [Next]_vars => Heading'
  BY <1>2, HeadingStep
<1>4. Heading /\ Judged /\ FailureIsTold /\ WrittenAfterSuccess => SuccessMeansWritten
  BY HeadingEnds DEF SuccessMeansWritten, WrittenAfterSuccess
<1> QED
  BY <1>1, <1>3, <1>4, CallsInOrder, AlwaysOrderly, AlwaysFailureIsTold, AlwaysWrittenAfterSuccess,
     PTL DEF Spec

-----------------------------------------------------------------------------
(***************************************************************************)
(* Calls that keep the flags of errors clear, and bits of the registers.   *)
(***************************************************************************)

\* A call that sets none of the bits B, and that is refused no erase where none
\* of them is set, and nothing else by the chip.
Refusable == {"command_erase", "command_mass_erase", "change_options"}
Spares(c, B, x) ==
  /\ Sound(c, x) /\ x.op \notin Replaced \cup {"load"}
  /\ x.op = "set_PG" => "PG" \notin B
  /\ x.op = "set_PER" \/ x.op = "select" => "PER" \notin B
  /\ x.op = "set_MER" => "MER" \notin B
  /\ x.op = "start" => "PG" \in B /\ ("PER" \in B \/ "MER" \in B)
  /\ x.op \in Refusable => ~c.refuses

\* What is written to a register without these bits.
LEMMA FreeWritten ==
  ASSUME NEW c \in Chips, NEW B, NEW t \in Free(c, B), NEW b \in Bank, NEW bits \in SUBSET Bits,
         B \cap bits = {}, NEW u, u = WriteCr(c, t, b, bits, Good)
  PROVE  u \in Free(c, B)
<1>1. t \in Controller(c) /\ t.sr = {} /\ \A r \in Registers(c) : B \cap t.cr[r] = {}
  BY DEF Free
<1>2. u \in Controller(c) /\ u.sr = {}
  BY <1>1, WriteCrOnly
<1>3. ASSUME NEW r \in Registers(c)
      PROVE  B \cap u.cr[r] = {}
  <2>1. r \in Bank /\ Reg(c, b) \in Registers(c)
    BY RegistersAre
  <2>2. CASE r # Reg(c, b) \/ "LOCK" \in t.cr[Reg(c, b)]
    <3>1. u.cr[r] = t.cr[r]
      BY <1>1, <2>1, <2>2, WriteCrOnly
    <3> QED
      BY <1>1, <3>1
  <2>3. CASE r = Reg(c, b) /\ "LOCK" \notin t.cr[Reg(c, b)]
    <3>1. u.cr[r] = bits
      BY <1>1, <2>3, WriteCrOnly
    <3> QED
      BY <3>1
  <2> QED
    BY <2>2, <2>3
<1> QED
  BY <1>2, <1>3 DEF Free

\* The calls that write to one register after another.
LEMMA FreeRegisters ==
  ASSUME NEW c \in Chips, NEW B \in SUBSET {"PG", "PER", "MER"}, NEW t \in Free(c, B), NEW b \in Bank
  PROVE  /\ LockFlash(c, t, Good) \in Free(c, B)
         /\ "PG" \notin B => SetFlashCrPg(c, t, b, Good) \in Free(c, B)
         /\ ClearFlashCrPg(c, t, b, Good) \in Free(c, B)
         /\ "PER" \notin B => SetFlashCrPer(c, t, b, Good) \in Free(c, B)
         /\ ClearFlashCrPer(c, t, b, Good) \in Free(c, B)
         /\ \A on \in BOOLEAN : (on => "MER" \notin B) =>
              SetFlashCrMer(c, t, on, b, Good) \in Free(c, B)
<1> DEFINE W(v, d, bits) == WriteCr(c, v, d, bits, Good)
<1>1. ASSUME NEW v \in Free(c, B), NEW d \in Bank
      PROVE  /\ v \in Controller(c) /\ v.cr[Reg(c, d)] \in SUBSET Bits /\ B \cap v.cr[Reg(c, d)] = {}
  BY RegistersAre DEF Free, Controller
<1>2. /\ Good.read /\ Good.write /\ 1 \in Bank /\ 2 \in Bank /\ Reg(c, 1) = 1
      /\ "LOCK" \notin B
  BY RegistersAre DEF Good
<1>3. \A v \in Free(c, B) : \A d \in Bank : \A bits \in SUBSET Bits :
         B \cap bits = {} => W(v, d, bits) \in Free(c, B)
  BY FreeWritten
<1>4. LockFlash(c, t, Good) \in Free(c, B)
  <2> DEFINE bits == ((IF Good.read THEN t.cr[1] ELSE {}) \ (IF c.type = "H7" THEN {"PER"} ELSE {}))
                        \cup {"LOCK"}
             one == WriteCr(c, t, 1, bits, Good)
             more == ReadCr(c, one, 2, Good) \cup {"LOCK"}
             two == WriteCr(c, one, 2, more, Good)
  <2>1. LockFlash(c, t, Good) = CASE c.type = "WB0" -> t [] TwoRegisters(c) -> two [] OTHER -> one
    BY DEF LockFlash, Good
  <2>2. bits \in SUBSET Bits /\ B \cap bits = {}
    BY <1>1, <1>2, BitsAre
  <2>3. one \in Free(c, B)
    BY <1>2, <1>3, <2>2
  <2>4. more \in SUBSET Bits /\ B \cap more = {}
    <3> HIDE DEF one
    <3>1. one.cr[Reg(c, 2)] \in SUBSET Bits /\ B \cap one.cr[Reg(c, 2)] = {}
      BY <1>1, <1>2, <2>3
    <3>2. ReadCr(c, one, 2, Good) = one.cr[Reg(c, 2)]
      BY ReadGood
    <3> QED
      BY <1>2, <3>1, <3>2, BitsAre
  <2>5. two \in Free(c, B)
    BY <1>2, <1>3, <2>3, <2>4
  <2> HIDE DEF one, two
  <2> QED
    BY <2>1, <2>3, <2>5
<1> DEFINE old == t.cr[Reg(c, b)]
<1>5. old \in SUBSET Bits /\ B \cap old = {}
  BY <1>1
<1>6. ASSUME "PG" \notin B
      PROVE  SetFlashCrPg(c, t, b, Good) \in Free(c, B)
  <2> DEFINE bits == (IF c.type \in {"F0_F1_F3", "F1_XL"} THEN {} ELSE old) \cup {"PG"}
  <2>1. bits \in SUBSET Bits /\ B \cap bits = {}
    BY <1>5, <1>6, BitsAre
  <2>2. SetFlashCrPg(c, t, b, Good) = W(t, b, bits)
    BY ReadGood DEF SetFlashCrPg
  <2> QED
    BY <1>3, <2>1, <2>2
<1>7. ClearFlashCrPg(c, t, b, Good) \in Free(c, B)
  <2> DEFINE d == IF c.type = "F1_XL" THEN 1 ELSE b
  <2>1. old \ {"PG"} \in SUBSET Bits /\ B \cap (old \ {"PG"}) = {} /\ d \in Bank
    BY <1>2, <1>5
  <2>2. ClearFlashCrPg(c, t, b, Good) = W(t, d, old \ {"PG"})
    BY ReadGood DEF ClearFlashCrPg
  <2> QED
    BY <1>3, <2>1, <2>2
<1>8. ASSUME "PER" \notin B
      PROVE  SetFlashCrPer(c, t, b, Good) \in Free(c, B)
  <2>1. old \cup {"PER"} \in SUBSET Bits /\ B \cap (old \cup {"PER"}) = {}
    BY <1>5, <1>8, BitsAre
  <2> QED
    BY <1>3, <2>1, ReadGood DEF SetFlashCrPer
<1>9. ClearFlashCrPer(c, t, b, Good) \in Free(c, B)
  <2>1. old \ {"PER"} \in SUBSET Bits /\ B \cap (old \ {"PER"}) = {}
    BY <1>5
  <2> QED
    BY <1>3, <2>1, ReadGood DEF ClearFlashCrPer
<1>10. ASSUME NEW on \in BOOLEAN, on => "MER" \notin B
       PROVE  SetFlashCrMer(c, t, on, b, Good) \in Free(c, B)
  <2> DEFINE bare == old \ {"PG"}
             one == IF "PG" \in old THEN W(t, b, bare) ELSE t
             bits == IF on THEN bare \cup {"MER"} ELSE bare \ {"MER"}
  <2>1. bare \in SUBSET Bits /\ B \cap bare = {}
    BY <1>5
  <2>2. one \in Free(c, B)
    BY <1>3, <2>1
  <2>3. bits \in SUBSET Bits /\ B \cap bits = {}
    BY <1>10, <2>1, BitsAre
  <2>4. SetFlashCrMer(c, t, on, b, Good) = W(one, b, bits)
    BY ReadGood DEF SetFlashCrMer
  <2> HIDE DEF one, bits
  <2> QED
    BY <1>3, <2>2, <2>3, <2>4
<1> QED
  BY <1>4, <1>6, <1>7, <1>8, <1>9, <1>10

\* A choice of a page, and a start that is not refused.
LEMMA FreeErases ==
  ASSUME chip \in Chips, NEW B \in SUBSET {"PG", "PER", "MER"}, NEW t \in Free(chip, B)
  PROVE  /\ "PER" \notin B /\ chip.type \notin {"L0_L1", "WB0"} =>
              \A n \in Nat : Selecting(chip, t, n) \in Free(chip, B)
         /\ "PG" \in B /\ ("PER" \in B \/ "MER" \in B) =>
              \A b \in Bank : SetFlashCrStrt(chip, t, b, Good) \in Free(chip, B)
<1>1. t \in Controller(chip) /\ t.sr = {} /\ \A r \in Registers(chip) : B \cap t.cr[r] = {}
  BY DEF Free
<1>2. Good \in Exchange /\ Good.read /\ Good.write
  BY ExchangesAre DEF Good, Exchange
<1>3. ASSUME "PER" \notin B, chip.type \notin {"L0_L1", "WB0"}, NEW n \in Nat
      PROVE  Selecting(chip, t, n) \in Free(chip, B)
  <2>1. Selecting(chip, t, n) = Selected(t, n, Good)
    BY DEF Selecting, Selected, BankIn, BankOf
  <2>2. PICK bits \in SUBSET Bits, bk1 \in {0, 1}, m \in Nat :
           /\ Selected(t, n, Good) = Select(chip, t, BankOf(n), bits, bk1, m, Good)
           /\ Good.read /\ Known(chip) => Names(n, bk1, m)
           /\ Good.read => "PER" \in bits \/ (chip.type \in PerFirst /\ bits = t.cr[BankOf(n)])
           /\ Good.read => bits \subseteq t.cr[BankOf(n)] \cup {"PER"}
    BY <1>1, <1>2, <1>3, SelectedIs, Zenon
  <2> DEFINE b == BankOf(n)
  <2>3. b \in Registers(chip) /\ b \in Bank /\ Reg(chip, b) = b
    <3>1. b \in Registers(chip)
      BY DEF BankOf, Registers, Bank
    <3> QED
      BY <3>1, RegistersAre
  <2>4. B \cap bits = {}
    BY <1>1, <1>2, <1>3, <2>2, <2>3
  <2> DEFINE u == Select(chip, t, b, bits, bk1, m, Good)
  <2>5. u = IF "LOCK" \in t.cr[b] THEN t
            ELSE [t EXCEPT !.cr[b] = bits, !.sel[b] = [bk |-> bk1, n |-> m]]
    BY <1>2, <2>3 DEF Select
  <2> HIDE DEF u, b
  <2>6. u \in Controller(chip) /\ u.sr = {} /\ \A r \in Registers(chip) : B \cap u.cr[r] = {}
    <3>1. CASE "LOCK" \in t.cr[b]
      BY <1>1, <2>5, <3>1
    <3>2. CASE "LOCK" \notin t.cr[b]
      <4>1. u = [t EXCEPT !.cr[b] = bits, !.sel[b] = [bk |-> bk1, n |-> m]]
        BY <2>5, <3>2
      <4>2. u.cr = [t.cr EXCEPT ![b] = bits] /\ u.sr = t.sr
        BY <1>1, <4>1 DEF Controller
      <4>3. u \in Controller(chip)
        BY <1>1, <2>2, <2>3, <4>1 DEF Controller
      <4>4. \A r \in Registers(chip) : r \in Bank /\ u.cr[r] = IF r = b THEN bits ELSE t.cr[r]
        BY <1>1, <4>2, RegistersAre DEF Controller
      <4> QED
        BY <1>1, <2>4, <4>2, <4>3, <4>4
    <3> QED
      BY <3>1, <3>2
  <2> QED
    BY <2>1, <2>2, <2>6 DEF Free, u, b
<1>4. ASSUME "PG" \in B, "PER" \in B \/ "MER" \in B, NEW b \in Bank
      PROVE  SetFlashCrStrt(chip, t, b, Good) \in Free(chip, B)
  <2> DEFINE r == Reg(chip, b)
             v == WriteCr(chip, t, b, t.cr[r], Good)
             u == BeginErase(chip, v, r)
  <2>1. r \in Registers(chip) /\ r \in Bank
    BY RegistersAre
  <2>2. t.cr[r] \in SUBSET Bits /\ B \cap t.cr[r] = {}
    BY <1>1, <2>1 DEF Controller
  <2>3. SetFlashCrStrt(chip, t, b, Good) = u
    BY <1>2, ReadGood DEF SetFlashCrStrt, StartSelected
  <2>4. v \in Free(chip, B)
    BY <2>2, FreeWritten
  <2> HIDE DEF r, v
  <2>5. v \in Controller(chip) /\ v.sr = {} /\ \A d \in Registers(chip) : B \cap v.cr[d] = {}
    BY <2>4 DEF Free
  <2>6. "PG" \notin v.cr[r] /\ ~({"PER", "MER"} \subseteq v.cr[r])
    BY <1>4, <2>1, <2>5
  <2>7. u = v \/ u = [v EXCEPT !.job[r] = Erases(chip, v, r)]
    BY <2>6 DEF BeginErase
  <2>8. u.cr = v.cr /\ u.sr = v.sr
    BY <2>5, <2>7 DEF Controller
  <2>9. u \in Controller(chip)
    BY <2>1, <2>5, BeginEraseType
  <2> QED
    BY <2>3, <2>5, <2>8, <2>9 DEF Free
<1> QED
  BY <1>3, <1>4

\* The other calls.
LEMMA FreeOthers ==
  ASSUME NEW c \in Chips, NEW B \in SUBSET {"PG", "PER", "MER"}, NEW t \in Free(c, B),
         NEW x, NEW a, NEW u \in Controller(c), NEW bk, Does(c, x, t, a, u, bk),
         x.op \in Idle \cup {"wait", "clear_errors", "unlock", "unlock_options", "relock",
                             "unlock_PECR", "erase_word", "lock_PECR", "command_erase",
                             "command_mass_erase", "DMA_off", "DMA_back", "erase_options",
                             "program_options", "begin_options", "change_options", "reset"},
         x.op \in Refusable => ~c.refuses
  PROVE  u \in Free(c, B)
<1>1. t \in Controller(c) /\ t.sr = {} /\ \A r \in Registers(c) : B \cap t.cr[r] = {}
  BY DEF Free
<1>2. SUFFICES u.sr = {} /\ \A r \in Registers(c) : u.cr[r] \subseteq t.cr[r] \cup {"LOCK", "PRGLOCK"}
  BY <1>1 DEF Free
<1>3. Good.read /\ Good.write /\ 1 \in Bank /\ \A r \in Registers(c) : r \in Bank
  BY RegistersAre DEF Good
<1>4. CASE x.op \in Idle \cup {"wait"}
  BY <1>1, <1>4 DEF Does, Alike
<1>5. CASE x.op = "clear_errors"
  <2>1. u = ClearFlashError(c, t, Good)
    BY <1>5 DEF Does
  <2> QED
    BY <1>1, <2>1 DEF ClearFlashError, Controller
<1>6. CASE x.op = "unlock"
  <2>1. u = UnlockFlashIf(c, t, Good)
    BY <1>6 DEF Does
  <2>2. /\ UnlockFlash(c, t, Good).sr = t.sr
        /\ \A r \in Registers(c) : UnlockFlash(c, t, Good).cr[r] \subseteq t.cr[r]
    BY <1>1, <1>3 DEF UnlockFlash, Controller
  <2> QED
    BY <1>1, <2>1, <2>2 DEF UnlockFlashIf
<1>7. CASE \/ x.op = "unlock_options" \/ x.op = "relock"
           \/ x.op = "DMA_off" \/ x.op = "DMA_back"
  <2>1. \/ u = UnlockFlashOptionIf(c, t, Good) \/ u = LockFlashOption(c, t, Good)
        \/ u = DmaOff(c, t, Good) \/ u = DmaBack(c, t, a, Good)
    BY <1>7 DEF Does
  <2>2. u.sr = t.sr /\ u.cr = t.cr
    <3>1. /\ UnlockFlashOptionIf(c, t, Good).sr = t.sr
          /\ UnlockFlashOptionIf(c, t, Good).cr = t.cr
      BY <1>1 DEF UnlockFlashOptionIf, UnlockFlashOption, Controller
    <3>2. LockFlashOption(c, t, Good).sr = t.sr /\ LockFlashOption(c, t, Good).cr = t.cr
      BY <1>1 DEF LockFlashOption, Controller
    <3>3. DmaOff(c, t, Good).sr = t.sr /\ DmaOff(c, t, Good).cr = t.cr
      BY <1>1 DEF DmaOff, Controller
    <3>4. DmaBack(c, t, a, Good).sr = t.sr /\ DmaBack(c, t, a, Good).cr = t.cr
      BY <1>1 DEF DmaBack, Controller
    <3> QED
      BY <2>1, <3>1, <3>2, <3>3, <3>4
  <2> QED
    BY <1>1, <2>2
<1>8. CASE x.op = "unlock_PECR" \/ x.op = "lock_PECR"
  <2>1. u = PecrUnlock(c, t, Good) \/ u = PecrLock(c, t, Good)
    BY <1>8 DEF Does
  <2>2. \A r \in Registers(c) : r \in Bank
    BY DEF Registers, Bank
  <2>3. /\ PecrUnlock(c, t, Good).sr = t.sr
        /\ \A r \in Bank : PecrUnlock(c, t, Good).cr[r] \subseteq t.cr[r]
    BY <1>1, <1>3 DEF PecrUnlock, Controller
  <2>4. /\ PecrLock(c, t, Good).sr = t.sr
        /\ \A r \in Bank : PecrLock(c, t, Good).cr[r] \subseteq t.cr[r] \cup {"LOCK", "PRGLOCK"}
    BY <1>1, <1>3 DEF PecrLock, Controller
  <2> QED
    BY <1>1, <2>1, <2>2, <2>3, <2>4
<1>9. CASE x.op = "erase_word" \/ x.op = "command_erase" \/ x.op = "command_mass_erase"
  <2>2. ASSUME NEW P, ~c.refuses
        PROVE  CommandErase(c, t, P, Good).sr = {} /\ CommandErase(c, t, P, Good).cr = t.cr
    <3>1. CommandErase(c, t, P, Good) = [t EXCEPT !.sr = {}, !.job[1] = P]
      BY <1>3, <2>2, Zenon DEF CommandErase
    <3> QED
      BY <1>1, <3>1 DEF Controller
  <2>3. PecrErase(c, t, x.at, Good).sr = {} /\ PecrErase(c, t, x.at, Good).cr = t.cr
    BY <1>1 DEF PecrErase, Controller
  <2>4. CASE x.op = "erase_word"
    <3>1. u = PecrErase(c, t, x.at, Good)
      BY <2>4 DEF Does
    <3>2. u.sr = {} /\ u.cr = t.cr
      BY <2>3, <3>1
    <3> QED
      BY <1>1, <3>2
  <2>5. CASE x.op = "command_erase" \/ x.op = "command_mass_erase"
    <3>1. ~c.refuses
      BY <2>5 DEF Refusable
    <3>2. u.sr = {} /\ u.cr = t.cr
      BY <2>2, <2>5, <3>1 DEF Does
    <3> QED
      BY <1>1, <3>2
  <2> QED
    BY <1>9, <2>4, <2>5
<1>10. CASE \/ x.op = "erase_options" \/ x.op = "program_options" \/ x.op = "begin_options"
            \/ x.op = "change_options"
  <2>1. \/ u = t \/ u = [t EXCEPT !.opt = "blank", !.cr[1] = {}]
        \/ \E o : u = [t EXCEPT !.opt = o]
    BY <1>10, Zenon DEF Does
  <2>2. ASSUME u = [t EXCEPT !.opt = "blank", !.cr[1] = {}]
        PROVE  u.sr = t.sr /\ \A r \in Registers(c) : u.cr[r] \subseteq t.cr[r]
    BY <1>1, <1>3, <2>2 DEF Controller
  <2>3. ASSUME NEW o, u = [t EXCEPT !.opt = o]
        PROVE  u.sr = t.sr /\ u.cr = t.cr
    BY <1>1, <2>3 DEF Controller
  <2> QED
    BY <1>1, <2>1, <2>2, <2>3
<1>11. CASE x.op = "reset"
  <2>1. u.cr = CrAtReset(c) /\ u.sr = {}
    BY <1>11 DEF Does, Restored
  <2> QED
    BY <1>3, <2>1 DEF CrAtReset
<1> QED
  BY <1>4, <1>5, <1>6, <1>7, <1>8, <1>9, <1>10, <1>11

\* All together: such a call passes, and leaves the controller free.
LEMMA FreeTakes ==
  ASSUME chip \in Chips, NEW B \in SUBSET {"PG", "PER", "MER"}, NEW k, NEW x, Spares(chip, B, x),
         x.to # "" => x.op # "verify" /\ (x.op = "unlock_options" => HasOptionLock(chip))
  PROVE  Takes(chip, k, x, Free(chip, B), Free(chip, B))
<1>1. x.op \notin Replaced
  BY DEF Spares
<1>2. ASSUME NEW t \in Free(chip, B), x.to # ""
      PROVE  Passes(chip, k, x, t)
  BY <1>2 DEF Passes, Free, Spares, Refusable
<1>3. ASSUME NEW t \in Free(chip, B), NEW a, NEW u \in Controller(chip), NEW bk,
             Does(chip, x, t, a, u, bk)
      PROVE  u \in Free(chip, B)
  <2>1. CASE x.op = "select"
    <3>1. /\ u = Selecting(chip, t, x.at) /\ x.at \in Nat
          /\ "PER" \notin B /\ chip.type \notin {"L0_L1", "WB0"}
      BY <1>3, <2>1 DEF Does, Spares, Sound
    <3> QED
      BY <3>1, FreeErases
  <2>2. CASE x.op = "start"
    <3>1. /\ u = SetFlashCrStrt(chip, t, x.at, Good) /\ x.at \in Bank
          /\ "PG" \in B /\ ("PER" \in B \/ "MER" \in B)
      BY <1>3, <2>2 DEF Does, Spares, Sound, BankOps
    <3> QED
      BY <3>1, FreeErases
  <2>3. CASE x.op = "lock"
    <3>1. u = LockFlash(chip, t, Good) /\ 1 \in Bank
      BY <1>3, <2>3, RegistersAre DEF Does
    <3> QED
      BY <3>1, FreeRegisters
  <2>4. CASE x.op \in {"set_PG", "clear_PG", "set_PER", "clear_PER"}
    <3>1. x.at \in Bank
      BY <2>4 DEF Spares, Sound, BankOps
    <3>2. \/ u = SetFlashCrPg(chip, t, x.at, Good) /\ "PG" \notin B
          \/ u = ClearFlashCrPg(chip, t, x.at, Good)
          \/ u = SetFlashCrPer(chip, t, x.at, Good) /\ "PER" \notin B
          \/ u = ClearFlashCrPer(chip, t, x.at, Good)
      BY <1>3, <2>4 DEF Does, Spares
    <3> QED
      BY <3>1, <3>2, FreeRegisters
  <2>5. CASE x.op = "set_MER" \/ x.op = "clear_MER"
    <3>1. x.at \in Bank
      BY <2>5 DEF Spares, Sound, BankOps
    <3>2. \E on \in BOOLEAN : u = SetFlashCrMer(chip, t, on, x.at, Good) /\ (on => "MER" \notin B)
      BY <1>3, <2>5 DEF Does, Spares
    <3> QED
      BY <3>1, <3>2, FreeRegisters
  <2>6. CASE x.op \notin {"select", "start", "lock", "set_PG", "clear_PG", "set_PER", "clear_PER",
                          "set_MER", "clear_MER"}
    <3>1. x.op \in Idle \cup {"wait", "clear_errors", "unlock", "unlock_options", "relock",
                              "unlock_PECR", "erase_word", "lock_PECR", "command_erase",
                              "command_mass_erase", "DMA_off", "DMA_back", "erase_options",
                              "program_options", "begin_options", "change_options", "reset"}
      BY <2>6 DEF Spares, Sound, Ops, BankOps, PageOps, RangeOps, LabelOps, FreeOps, Refusals,
         Replaced, Idle
    <3>2. x.op \in Refusable => ~chip.refuses
      BY DEF Spares
    <3> QED
      BY <1>3, <3>1, <3>2, FreeOthers
  <2> QED
    BY <2>1, <2>2, <2>3, <2>4, <2>5, <2>6
<1> QED
  BY <1>1, <1>2, <1>3 DEF Takes

-----------------------------------------------------------------------------
(***************************************************************************)
(* The same of a list, besides what it makes of the pages.                 *)
(***************************************************************************)

\* Two conditions that both hold before each call of a list hold together.
LEMMA FixedBoth ==
  ASSUME NEW c, NEW P, NEW N, Fixed(c, P), Fixed(c, N)
  PROVE  Fixed(c, P \cap N)
BY DEF Fixed

\* The end of an erase sets no bit and shows no error.
LEMMA FreeFixed ==
  ASSUME NEW c \in Chips, NEW B
  PROVE  Fixed(c, Free(c, B))
<1>1. Free(c, B) \subseteq Controller(c)
  BY DEF Free
<1>2. ASSUME NEW t \in Free(c, B), NEW b \in Bank
      PROVE  Finish(t, b) \in Free(c, B)
  <2>1. Finish(t, b) \in Controller(c) /\ Finish(t, b).cr = t.cr /\ Finish(t, b).sr = t.sr
    BY <1>1, FinishDoes
  <2> QED
    BY <2>1 DEF Free
<1> QED
  BY <1>1, <1>2 DEF Fixed

\* A call that takes P to Q, unless it finds an error, does so without fail where
\* another condition holds under which it passes.
LEMMA TakesAlso ==
  ASSUME NEW c, NEW k, k # AnyLine, NEW x, x.op \notin Replaced, NEW P, NEW Q, NEW N,
         Takes(c, AnyLine, x, P, Q), Takes(c, k, x, N, N)
  PROVE  Takes(c, k, x, P \cap N, Q \cap N)
<1>1. ASSUME NEW t \in P \cap N
      PROVE  /\ x.to # "" => Passes(c, k, x, t)
             /\ (x.op = "check_errors" /\ x.to # "" => ~Erred(c, t)) =>
                  \A a, u, bk : u \in Controller(c) /\ Does(c, x, t, a, u, bk) => u \in Q \cap N
  BY DEF Takes
<1> QED
  BY <1>1 DEF Takes

\* So does a list of such calls.
LEMMA LeadsAlso ==
  ASSUME NEW c, NEW k, k # AnyLine, NEW S, NEW s \in Seq(S), NEW P, NEW Q, NEW N,
         Fixed(c, N), \A x \in S : x.op \notin Replaced /\ Takes(c, k, x, N, N),
         Leads(c, AnyLine, s, P, Q)
  PROVE  Leads(c, k, s, P \cap N, Q \cap N)
<1>1. PICK A : Outline(c, AnyLine, s, A) /\ P \subseteq A[1] /\ A[Len(s) + 1] \subseteq Q
  BY DEF Leads
<1>2. Len(s) \in Nat /\ \A i \in 1 .. Len(s) : s[i] \in S
  BY LenProperties, ElementOfSeq
<1>3. 1 \in 1 .. Len(s) + 1 /\ Len(s) + 1 \in 1 .. Len(s) + 1
      /\ \A i \in 1 .. Len(s) : i \in 1 .. Len(s) + 1 /\ i + 1 \in 1 .. Len(s) + 1
  BY <1>2
<1> DEFINE Z == [i \in 1 .. Len(s) + 1 |-> A[i] \cap N]
<1>4. \A i \in 1 .. Len(s) + 1 : Z[i] = A[i] \cap N
  OBVIOUS
<1> HIDE DEF Z
<1>5. ASSUME NEW i \in 1 .. Len(s)
      PROVE  Takes(c, k, s[i], Z[i], Z[i + 1])
  <2>1. Takes(c, AnyLine, s[i], A[i], A[i + 1])
    BY <1>1 DEF Outline
  <2>2. s[i].op \notin Replaced /\ Takes(c, k, s[i], N, N)
    BY <1>2
  <2>3. Takes(c, k, s[i], A[i] \cap N, A[i + 1] \cap N)
    BY <2>1, <2>2, TakesAlso
  <2> QED
    BY <1>3, <1>4, <2>3
<1>6. \A i \in 1 .. Len(s) + 1 : Fixed(c, Z[i])
  BY <1>1, <1>4, FixedBoth DEF Outline
<1>7. Outline(c, k, s, Z)
  BY <1>5, <1>6 DEF Outline
<1>8. P \cap N \subseteq Z[1] /\ Z[Len(s) + 1] \subseteq Q \cap N
  BY <1>1, <1>3, <1>4
<1> QED
  BY <1>7, <1>8 DEF Leads

\* Lists of such calls.
Sparing(c, B) ==
  {x \in CallRec : /\ Spares(c, B, x)
                   /\ x.to # "" => x.op # "verify" /\ (x.op = "unlock_options" => HasOptionLock(c))}

\* They lead, without fail, where they lead unless an error is found, and keep
\* the bits B and the flags of errors clear.
LEMMA LeadsFree ==
  ASSUME chip \in Chips, NEW B \in SUBSET {"PG", "PER", "MER"}, NEW k,
         NEW s \in Seq(Sparing(chip, B))
  PROVE  /\ s \in Seq(CallRec) /\ Leads(chip, k, s, Free(chip, B), Free(chip, B))
         /\ k # AnyLine => \A P, Q : Leads(chip, AnyLine, s, P, Q) =>
              Leads(chip, k, s, P \cap Free(chip, B), Q \cap Free(chip, B))
<1> DEFINE N == Free(chip, B)
           S == Sparing(chip, B)
<1>1. \A x \in S : x.op \notin Replaced /\ Takes(chip, k, x, N, N)
  BY FreeTakes DEF Sparing, Spares
<1>2. Fixed(chip, N)
  BY FreeFixed
<1>3. S \subseteq CallRec
  BY DEF Sparing
<1> HIDE DEF N, S
<1>4. s \in Seq(S)
  BY DEF S
<1>5. s \in Seq(CallRec)
  BY <1>3, <1>4
<1>6. Leads(chip, k, s, N, N)
  BY <1>1, <1>2, <1>4, LeadsAll
<1>7. ASSUME k # AnyLine, NEW P, NEW Q, Leads(chip, AnyLine, s, P, Q)
      PROVE  Leads(chip, k, s, P \cap N, Q \cap N)
  BY <1>1, <1>2, <1>4, <1>7, LeadsAlso
<1> QED
  BY <1>5, <1>6, <1>7 DEF N

-----------------------------------------------------------------------------
(***************************************************************************)
(* The functions that erase do not fail.                                   *)
(***************************************************************************)

\* The calls that erase set neither the bit that programs nor the one of the
\* other way to erase.
PageBits == {"PG", "MER"}
MassBits == {"PG", "PER"}

\* The single calls that erasing is made of.
LEMMA SparingAre ==
  ASSUME chip \in Chips, NEW B \in {PageBits, MassBits}, NEW u \in Nat, NEW l \in Labels
  PROVE  /\ \A f \in {"wait", "clear_errors", "unlock", "lock", "lock_PECR"} :
              Call(f) \in Sparing(chip, B)
         /\ ~chip.refuses => /\ Call("command_mass_erase") \in Sparing(chip, B)
                             /\ CallOn("command_erase", u) \in Sparing(chip, B)
         /\ \A f \in {"clear_PG", "start", "clear_PER", "clear_MER"} : \A b \in Bank :
              CallOn(f, b) \in Sparing(chip, B)
         /\ \A b \in Bank : /\ B = PageBits => CallOn("set_PER", b) \in Sparing(chip, B)
                            /\ B = MassBits => CallOn("set_MER", b) \in Sparing(chip, B)
         /\ chip.type \notin {"L0_L1", "WB0"} /\ B = PageBits =>
              CallOn("select", u) \in Sparing(chip, B)
         /\ CallOn("erase_word", u) \in Sparing(chip, B)
         /\ Try("unlock_PECR", l) \in Sparing(chip, B)
         /\ Try("check_errors", l) \in Sparing(chip, B)
<1>1. 1 \in Bank /\ 2 \in Bank /\ \A b \in Bank : b \in Nat
  BY DEF Bank
<1>2. /\ "PG" \in B /\ ("PER" \in B \/ "MER" \in B)
      /\ B = PageBits => "PER" \notin B
      /\ B = MassBits => "MER" \notin B
  BY DEF PageBits, MassBits
<1>3. ASSUME NEW f \in {"wait", "clear_errors", "unlock", "lock", "lock_PECR", "command_mass_erase"},
             f = "command_mass_erase" => ~chip.refuses
      PROVE  Call(f) \in Sparing(chip, B)
  <2>1. f \in Ops /\ f \notin BankOps \cup Replaced \cup {"load"}
    BY <1>3 DEF Ops, FreeOps, BankOps, Replaced
  <2>2. Call(f) \in CallRec
    BY <2>1, CallsAreRecords
  <2>3. Call(f).op = f /\ Call(f).to = ""
    BY DEF Call
  <2>4. /\ f # "set_PG" /\ f # "set_PER" /\ f # "select" /\ f # "set_MER" /\ f # "start"
        /\ f # "verify" /\ f # "unlock_options" /\ (f \in Refusable => ~chip.refuses)
    BY <1>3 DEF Refusable
  <2>5. Call(f).at \in Nat
    BY <2>2 DEF CallRec
  <2>6. Spares(chip, B, Call(f))
    BY <2>1, <2>3, <2>4, <2>5 DEF Spares, Sound
  <2> QED
    BY <2>2, <2>3, <2>6 DEF Sparing
<1>4. ASSUME NEW f \in {"clear_PG", "start", "clear_PER", "clear_MER", "set_PER", "set_MER"},
             NEW b \in Bank, f = "set_PER" => B = PageBits, f = "set_MER" => B = MassBits
      PROVE  CallOn(f, b) \in Sparing(chip, B)
  <2>1. f \in Ops /\ f \notin Replaced \cup {"load"}
    BY <1>4 DEF Ops, BankOps, Replaced
  <2>2. /\ CallOn(f, b) \in CallRec
        /\ CallOn(f, b).op = f /\ CallOn(f, b).to = "" /\ CallOn(f, b).at = b
    <3>1. CallOn(f, b) \in CallRec
      BY <1>1, <2>1, CallsAreRecords
    <3> QED
      BY <3>1 DEF CallOn, Call
  <2> QED
    BY <1>1, <1>2, <1>4, <2>1, <2>2 DEF Sparing, Spares, Sound, Refusable
<1>5. ASSUME NEW f \in {"select", "erase_word", "command_erase"},
             f = "select" => B = PageBits /\ chip.type \notin {"L0_L1", "WB0"},
             f = "command_erase" => ~chip.refuses
      PROVE  CallOn(f, u) \in Sparing(chip, B)
  <2>1. f \in Ops /\ f \notin BankOps \cup Replaced \cup {"load"}
    BY <1>5 DEF Ops, PageOps, BankOps, Replaced
  <2>2. /\ CallOn(f, u) \in CallRec
        /\ CallOn(f, u).op = f /\ CallOn(f, u).to = "" /\ CallOn(f, u).at = u
    <3>1. CallOn(f, u) \in CallRec
      BY <2>1, CallsAreRecords
    <3> QED
      BY <3>1 DEF CallOn, Call
  <2> QED
    BY <1>2, <1>5, <2>1, <2>2 DEF Sparing, Spares, Sound, Refusable
<1>6. ASSUME NEW f \in {"unlock_PECR", "check_errors"}
      PROVE  Try(f, l) \in Sparing(chip, B)
  <2>1. f \in Ops /\ f \notin BankOps \cup Replaced \cup {"load"}
    BY <1>6 DEF Ops, FreeOps, BankOps, Replaced
  <2>2. Try(f, l) \in CallRec
    BY <2>1, CallsAreRecords
  <2>3. Try(f, l).op = f /\ Try(f, l).to = l /\ Try(f, l).at = 0
    BY DEF Try, Call
  <2>4. /\ f # "set_PG" /\ f # "set_PER" /\ f # "select" /\ f # "set_MER" /\ f # "start"
        /\ f # "verify" /\ f # "unlock_options" /\ f \notin Refusable
    BY <1>6 DEF Refusable
  <2>5. Spares(chip, B, Try(f, l))
    BY <2>1, <2>3, <2>4 DEF Spares, Sound
  <2> QED
    BY <2>2, <2>3, <2>4, <2>5 DEF Sparing
<1> QED
  BY <1>3, <1>4, <1>5, <1>6

\* Those of stlink_erase_flash_page, for a chip that lets its pages be erased.
LEMMA EraseBodySparing ==
  ASSUME chip \in Chips, NEW u \in Nat, NEW l \in Labels, Willing(chip)
  PROVE  EraseBody(u, l) \in Seq(Sparing(chip, PageBits))
<1> DEFINE b == BankOf(u)
           S == Sparing(chip, PageBits)
           wait == Call("wait")
           clear == Call("clear_errors")
           unlock == Call("unlock")
           lock == Call("lock")
           select == CallOn("select", u)
           setPer1 == CallOn("set_PER", 1)
           start1 == CallOn("start", 1)
           clearPer1 == CallOn("clear_PER", 1)
           clearPg == CallOn("clear_PG", b)
           setPer == CallOn("set_PER", b)
           start == CallOn("start", b)
           clearPer == CallOn("clear_PER", b)
           open == Try("unlock_PECR", l)
           word == CallOn("erase_word", u)
           close == Call("lock_PECR")
           command == CallOn("command_erase", u)
<1>1. b \in Bank /\ 1 \in Bank
  BY DEF BankOf, Bank
<1>2. PageBits \in {PageBits, MassBits}
  OBVIOUS
<1>3. /\ wait \in S /\ clear \in S /\ unlock \in S /\ lock \in S /\ close \in S
      /\ setPer1 \in S /\ start1 \in S /\ clearPer1 \in S /\ clearPg \in S /\ setPer \in S
      /\ start \in S /\ clearPer \in S /\ open \in S /\ word \in S
      /\ ~chip.refuses => command \in S
  BY <1>1, <1>2, SparingAre
<1>4. chip.type \notin {"L0_L1", "WB0"} => select \in S
  BY <1>2, SparingAre
<1>5. CASE chip.type \in {"F2_F4", "F7", "L4"}
  <2>1. EraseBody(u, l) = <<unlock, select, start1, wait, lock>>
    BY <1>5 DEF EraseBody
  <2>2. select \in S
    BY <1>4, <1>5
  <2> HIDE DEF S, wait, unlock, lock, select, start1
  <2> QED
    BY <1>3, <2>1, <2>2, OfMembers DEF S
<1>6. CASE chip.type = "L0_L1"
  <2>1. EraseBody(u, l) = <<open, word, wait, close>>
    BY <1>6 DEF EraseBody
  <2> HIDE DEF S, wait, open, word, close
  <2> QED
    BY <1>3, <2>1, OfMembers DEF S
<1>7. CASE chip.type \in {"G0", "G4", "L5_U5", "WB_WL", "C5", "C0"}
  <2>1. EraseBody(u, l) = <<unlock, setPer1, select, start1, wait, clearPer1, lock>>
    BY <1>7 DEF EraseBody
  <2>2. select \in S
    BY <1>4, <1>7
  <2> HIDE DEF S, wait, unlock, lock, select, start1, setPer1, clearPer1
  <2> QED
    BY <1>3, <2>1, <2>2, OfMembers DEF S
<1>8. CASE chip.type = "H5"
  <2>1. EraseBody(u, l) = <<unlock, clear, select, start1, wait, clearPer1, lock>>
    BY <1>8 DEF EraseBody
  <2> HIDE DEF S, wait, unlock, lock, select, start1, clear, clearPer1
  <2> QED
    BY <1>3, <1>4, <1>8, <2>1, OfMembers DEF S
<1>9. CASE chip.type = "WB0"
  <2>1. EraseBody(u, l) = <<command, wait>> /\ ~chip.refuses
    BY <1>9 DEF EraseBody, Willing
  <2> HIDE DEF S, wait, command
  <2> QED
    BY <1>3, <2>1, OfMembers DEF S
<1>10. CASE chip.type \in {"F0_F1_F3", "F1_XL"}
  <2>1. EraseBody(u, l) = <<unlock, clearPg, setPer, select>> \o <<start, wait, clearPer, lock>>
    BY <1>10 DEF EraseBody, BankOf
  <2> HIDE DEF S, wait, unlock, lock, select, start, clearPg, setPer, clearPer
  <2>2. <<unlock, clearPg, setPer, select>> \in Seq(S) /\ <<start, wait, clearPer, lock>> \in Seq(S)
    BY <1>3, <1>4, <1>10, OfMembers
  <2>3. EraseBody(u, l) \in Seq(S)
    BY <2>1, <2>2, SeqConcat
  <2> QED
    BY <2>3 DEF S
<1>11. CASE chip.type = "H7"
  <2>1. EraseBody(u, l) = <<unlock, select, start, wait, lock>>
    BY <1>11 DEF EraseBody, BankOf
  <2> HIDE DEF S, wait, unlock, lock, select, start
  <2> QED
    BY <1>3, <1>4, <1>11, <2>1, OfMembers DEF S
<1>12. chip.type \in Families
  BY DEF Chips
<1> QED
  BY <1>5, <1>6, <1>7, <1>8, <1>9, <1>10, <1>11, <1>12 DEF Families

\* stlink_erase_flash_page does not fail.
LEMMA ErasePagePasses ==
  ASSUME chip \in Chips, NEW k, k # AnyLine, NEW T \in SUBSET Pages(chip), NEW u \in Nat,
         u < FlashSize(chip), NEW l \in Labels, Known(chip), Willing(chip)
  PROVE  /\ EraseFlashPage(u, l) \in Seq(CallRec)
         /\ Leads(chip, k, EraseFlashPage(u, l), Trim(chip, T), Trim(chip, T \cup {PageAt(chip, u)}))
<1> DEFINE S == Sparing(chip, PageBits)
           s == <<Call("wait"), Call("clear_errors")>>
           t == <<Try("check_errors", l)>>
           N == Free(chip, PageBits)
           E == EraseFlashPage(u, l)
<1>1. PageBits \in {PageBits, MassBits} /\ PageBits \in SUBSET {"PG", "PER", "MER"}
  BY DEF PageBits
<1>2. Call("wait") \in S /\ Call("clear_errors") \in S /\ Try("check_errors", l) \in S
  BY <1>1, SparingAre
<1>3. s \in Seq(S) /\ t \in Seq(S)
  BY <1>2, OfMembers
<1>4. EraseBody(u, l) \in Seq(S)
  BY EraseBodySparing
<1>5. E = (s \o EraseBody(u, l)) \o t
  BY DEF EraseFlashPage
<1> HIDE DEF S, s, t
<1>6. E \in Seq(S)
  BY <1>3, <1>4, <1>5, SeqConcat
<1>7. E \in Seq(CallRec)
      /\ Leads(chip, AnyLine, E, Kept(chip, T), Resting(chip, T \cup {PageAt(chip, u)}))
  BY ErasePageLeads
<1> HIDE DEF E
<1>8. Leads(chip, k, E, Kept(chip, T) \cap N, Resting(chip, T \cup {PageAt(chip, u)}) \cap N)
  BY <1>1, <1>6, <1>7, LeadsFree DEF S
<1>9. /\ Trim(chip, T) \subseteq Kept(chip, T) \cap N
      /\ Resting(chip, T \cup {PageAt(chip, u)}) \cap N \subseteq Trim(chip, T \cup {PageAt(chip, u)})
  BY DEF Trim, Resting, PageBits
<1>10. Leads(chip, k, E, Trim(chip, T), Trim(chip, T \cup {PageAt(chip, u)}))
  BY <1>8, <1>9, LeadsMore
<1> QED
  BY <1>7, <1>10 DEF E

\* The end of an erase does not leave these sets.
LEMMA TrimFixed ==
  ASSUME NEW c \in Chips, NEW T \in SUBSET Pages(c), NEW B
  PROVE  Fixed(c, Trim(c, T)) /\ Fixed(c, Resting(c, T) \cap Free(c, B))
BY KeptFixed, FreeFixed, FixedBoth DEF Trim

\* A range that is to be erased, of which Turns says what it becomes.
LEMMA RangePasses ==
  ASSUME chip \in Chips, NEW k, k # AnyLine, NEW T \in SUBSET Pages(chip), NEW n \in Nat,
         NEW e \in Nat, NEW l \in Labels, n < e, e <= FlashSize(chip), PageBegins(chip, n),
         k.do = "write" \/ e = FlashSize(chip) \/ PageBegins(chip, e),
         Known(chip), Willing(chip)
  PROVE  /\ <<Over("erase_section", n, e, l)>> \in Seq(CallRec)
         /\ Leads(chip, k, <<Over("erase_section", n, e, l)>>, Trim(chip, T),
                  Trim(chip, T \cup PagesOf(chip, n, e)))
<1> DEFINE x == Over("erase_section", n, e, l)
           P == PagesOf(chip, n, e)
<1>1. x \in CallRec /\ x.op = "erase_section" /\ x.at = n /\ x.end = e
  BY CallsAreRecords DEF Ops, RangeOps, Call, Try, TryOn, Over
<1>2. P \in SUBSET Pages(chip) /\ T \cup P \in SUBSET Pages(chip) /\ n < FlashSize(chip)
  BY DEF PagesOf, FlashSize
<1>3. Fixed(chip, Trim(chip, T)) /\ Fixed(chip, Trim(chip, T \cup P))
  BY <1>2, TrimFixed
<1> HIDE DEF x
<1>4. Turns(chip, k, x, Trim(chip, T), Trim(chip, T \cup P))
  BY <1>1, <1>2 DEF Turns
<1>5. Takes(chip, k, x, Trim(chip, T), Trim(chip, T \cup P))
  BY <1>1, <1>4 DEF Takes, Replaced
<1> QED
  BY <1>1, <1>3, <1>5, LeadsOne, OfMembers DEF x

\* The controller as it is found in order.
AllBits == {"PG", "PER", "MER"}
Neat(c) == Resting(c, {}) \cap Free(c, AllBits)

\* What was found in order is ready for either way to erase.
LEMMA NeatIs ==
  ASSUME NEW c
  PROVE  /\ Neat(c) \subseteq Trim(c, {}) /\ Neat(c) \subseteq Kept(c, {}) \cap Free(c, MassBits)
         /\ \A T, B : Resting(c, T) \cap Free(c, B) \subseteq Resting(c, T) \cap Free(c, {})
<1>1. \A A, B : A \subseteq B => Free(c, B) \subseteq Free(c, A)
  BY DEF Free
<1>2. Resting(c, {}) \subseteq Kept(c, {})
  BY DEF Resting
<1> QED
  BY <1>1, <1>2 DEF Neat, Trim, AllBits, MassBits

\* The calls of stlink_erase_flash_mass.
LEMMA EraseMassSparing ==
  ASSUME chip \in Chips, NEW l \in Labels, Willing(chip),
         chip.type \notin {"L0_L1", "WB_WL"}, chip.type = "WB0" => chip.listed
  PROVE  EraseFlashMass(l) \in Seq(Sparing(chip, MassBits))
<1> DEFINE S == Sparing(chip, MassBits)
           wait == Call("wait")
           clear == Call("clear_errors")
           unlock == Call("unlock")
           lock == Call("lock")
           set1 == CallOn("set_MER", 1)
           start1 == CallOn("start", 1)
           set2 == CallOn("set_MER", 2)
           start2 == CallOn("start", 2)
           clear1 == CallOn("clear_MER", 1)
           clear2 == CallOn("clear_MER", 2)
           check == Try("check_errors", l)
           command == Call("command_mass_erase")
<1>1. MassBits \in {PageBits, MassBits} /\ 1 \in Bank /\ 2 \in Bank /\ 0 \in Nat
  BY RegistersAre
<1>2. /\ wait \in S /\ clear \in S /\ unlock \in S /\ lock \in S /\ start1 \in S /\ start2 \in S
      /\ clear1 \in S /\ clear2 \in S /\ set1 \in S /\ set2 \in S /\ check \in S
      /\ ~chip.refuses => command \in S
  BY <1>1, SparingAre
<1>3. CASE chip.type = "WB0"
  <2>1. EraseFlashMass(l) = <<command, wait>> /\ ~chip.refuses
    BY <1>3 DEF EraseFlashMass, Willing
  <2> HIDE DEF S, wait, command
  <2> QED
    BY <1>2, <2>1, OfMembers DEF S
<1>4. CASE chip.type # "WB0"
  <2> DEFINE a == <<wait, clear, unlock>>
             b == IF TwoRegisters(chip) THEN <<set1, start1, set2, start2>> ELSE <<set1, start1>>
             c == <<wait, lock>>
             d == BothBanks("clear_MER")
             e == <<check>>
  <2>1. EraseFlashMass(l) = (((a \o b) \o c) \o d) \o e
    BY <1>4 DEF EraseFlashMass
  <2>2. d = IF TwoRegisters(chip) THEN <<clear1, clear2>> ELSE <<clear1>>
    BY DEF BothBanks
  <2> HIDE DEF S, wait, clear, unlock, lock, set1, start1, set2, start2, clear1, clear2, check, d
  <2>3. /\ a \in Seq(S) /\ c \in Seq(S) /\ e \in Seq(S)
    BY <1>2, OfMembers
  <2>4. b \in Seq(S) /\ d \in Seq(S)
    BY <1>2, <2>2, OfMembers
  <2> HIDE DEF a, b, c, e
  <2>5. EraseFlashMass(l) \in Seq(S)
    BY <2>1, <2>3, <2>4, SeqConcat
  <2> QED
    BY <2>5 DEF S
<1> QED
  BY <1>3, <1>4

\* stlink_erase_flash_mass does not fail where it reaches every page.
LEMMA EraseMassPasses ==
  ASSUME chip \in Chips, NEW k, k # AnyLine, NEW l \in Labels, MassCovers(chip)
  PROVE  /\ EraseFlashMass(l) \in Seq(CallRec)
         /\ Leads(chip, k, EraseFlashMass(l), Neat(chip), Resting(chip, Pages(chip)) \cap Free(chip, {}))
<1> DEFINE Q == Resting(chip, Pages(chip))
           E == EraseFlashMass(l)
<1>1. E \in Seq(CallRec)
  BY EraseMassPaired DEF AllPaired
<1>2. CASE chip.type \in {"L0_L1", "WB_WL"} \/ (chip.type = "WB0" /\ ~chip.listed)
  <2>1. E = <<Over("erase_section", 0, FlashSize(chip), l)>>
    BY <1>2 DEF EraseFlashMass
  <2>2. FlashSize(chip) \in Nat /\ 0 < FlashSize(chip) /\ FlashSize(chip) <= FlashSize(chip)
    BY DEF FlashSize
  <2>3. PageBegins(chip, 0)
    <3>1. ~IsUneven(chip)
      BY <1>2 DEF IsUneven
    <3>2. 0 \in Pages(chip) /\ FirstUnit(chip, 0) = 0
      BY <3>1, PagesAre
    <3> QED
      BY <3>2 DEF PageBegins
  <2>4. {} \in SUBSET Pages(chip) /\ PagesOf(chip, 0, FlashSize(chip)) = Pages(chip)
    BY PagesInFlash
  <2>5. Known(chip) /\ Willing(chip)
    <3>1. ~chip.dual
      BY <1>2 DEF Chips
    <3>2. Known(chip)
      BY <3>1, Zenon DEF Known
    <3>3. Willing(chip)
      BY Zenon DEF Willing, MassCovers
    <3> QED
      BY <3>2, <3>3
  <2>9. Leads(chip, k, E, Trim(chip, {}), Trim(chip, {} \cup PagesOf(chip, 0, FlashSize(chip))))
    <3>1. ASSUME NEW e \in Nat, e = FlashSize(chip)
          PROVE  Leads(chip, k, <<Over("erase_section", 0, e, l)>>, Trim(chip, {}),
                       Trim(chip, {} \cup PagesOf(chip, 0, e)))
      <4>1. 0 < e /\ e <= FlashSize(chip) /\ 0 \in Nat
        BY <2>2, <3>1
      <4> QED
        BY <2>3, <2>4, <2>5, <3>1, <4>1, RangePasses, ZenonT(30)
    <3> QED
      BY <2>1, <2>2, <3>1
  <2>6. Trim(chip, {} \cup PagesOf(chip, 0, FlashSize(chip))) = Q \cap Free(chip, PageBits)
    <3>1. {} \cup PagesOf(chip, 0, FlashSize(chip)) = Pages(chip)
      BY <2>4
    <3> QED
      BY <3>1 DEF Trim, PageBits
  <2>7. /\ Neat(chip) \subseteq Trim(chip, {})
        /\ Q \cap Free(chip, PageBits) \subseteq Q \cap Free(chip, {})
    BY NeatIs
  <2> HIDE DEF E, Q
  <2>8. Leads(chip, k, E, Neat(chip), Q \cap Free(chip, {}))
    BY <2>6, <2>7, <2>9, LeadsMore
  <2> QED
    BY <1>1, <2>8 DEF E, Q
<1>3. CASE ~(chip.type \in {"L0_L1", "WB_WL"} \/ (chip.type = "WB0" /\ ~chip.listed))
  <2>1. E \in Seq(Sparing(chip, MassBits)) /\ MassBits \in SUBSET {"PG", "PER", "MER"}
    BY <1>3, EraseMassSparing DEF MassBits, MassCovers, Willing
  <2>2. Leads(chip, AnyLine, E, Kept(chip, {}), Q)
    BY EraseMassLeads
  <2> HIDE DEF E, Q
  <2>3. Leads(chip, k, E, Kept(chip, {}) \cap Free(chip, MassBits), Q \cap Free(chip, MassBits))
    BY <2>1, <2>2, LeadsFree
  <2>4. /\ Neat(chip) \subseteq Kept(chip, {}) \cap Free(chip, MassBits)
        /\ Q \cap Free(chip, MassBits) \subseteq Q \cap Free(chip, {})
    BY NeatIs DEF Q
  <2>5. Leads(chip, k, E, Neat(chip), Q \cap Free(chip, {}))
    BY <2>3, <2>4, LeadsMore
  <2> QED
    BY <1>1, <2>5 DEF E, Q
<1> QED
  BY <1>2, <1>3

-----------------------------------------------------------------------------
(***************************************************************************)
(* Starting and stopping the loader.                                       *)
(***************************************************************************)

\* The registers R have their program bit set, or every page can be programmed.
On(c, T, R) == {t \in Partway(c, T, {}, 1) : \A b \in R : "PG" \in t.cr[b]}
Usable(c, T) ==
  {t \in Resting(c, T) : \A p \in Pages(c) : Programmable(c, Unlocking(c, t), p)}

\* The end of an erase does not leave these sets either.
LEMMA LoaderFixed ==
  ASSUME NEW c \in Chips, NEW T \in SUBSET Pages(c), NEW R
  PROVE  /\ On(c, T, R) \subseteq Resting(c, T)
         /\ Fixed(c, On(c, T, R)) /\ Fixed(c, Usable(c, T)) /\ Fixed(c, Resting(c, T))
         /\ Fixed(c, PecrOpened(c, T))
<1>1. \A b \in Bank : b >= 1
  BY DEF Bank
<1>2. On(c, T, R) \subseteq Resting(c, T)
  BY <1>1 DEF On, Partway, Erasing, Resting, Still
<1>3. Usable(c, T) \subseteq Resting(c, T) /\ PecrOpened(c, T) \subseteq Resting(c, T)
  BY DEF Usable, PecrOpened
<1> QED
  BY <1>2, <1>3, KeptFixed

\* Calls that leave the registers and the pages as they are.
LEMMA AlikeTakes ==
  ASSUME NEW c \in Chips, NEW T, NEW R, NEW x, x.op \in Idle \cup {"DMA_off", "DMA_back"}
  PROVE  /\ Takes(c, AnyLine, x, Resting(c, T), Resting(c, T))
         /\ Takes(c, AnyLine, x, On(c, T, R), On(c, T, R))
         /\ Takes(c, AnyLine, x, PecrOpened(c, T), PecrOpened(c, T))
<1>1. x.op \notin Replaced
  BY DEF Idle, Replaced
<1>2. ASSUME NEW t \in Kept(c, T), NEW a, NEW u \in Controller(c), NEW bk, Does(c, x, t, a, u, bk)
      PROVE  /\ u.cr = t.cr /\ SameFlash(t, u) /\ SameLocks(c, t, u) /\ SameErrors(c, t, u)
             /\ Held(c, u)
  <2>1. t \in Controller(c)
    BY DEF Kept
  <2>2. u.cr = t.cr /\ u.sr = t.sr /\ u.job = t.job /\ u.mem = t.mem
    <3>1. CASE x.op \in Idle
      BY <1>2, <3>1 DEF Does, Alike
    <3>2. CASE x.op = "DMA_off"
      <4>1. u = DmaOff(c, t, Good)
        BY <1>2, <3>2 DEF Does
      <4> QED
        BY <2>1, <4>1 DEF DmaOff, Controller
    <3>3. CASE x.op = "DMA_back"
      <4>1. u = DmaBack(c, t, a, Good)
        BY <1>2, <3>3 DEF Does
      <4> QED
        BY <2>1, <4>1 DEF DmaBack, Controller
    <3> QED
      BY <3>1, <3>2, <3>3
  <2>3. SameFlash(t, u) /\ SameLocks(c, t, u) /\ SameErrors(c, t, u)
    BY <2>2 DEF SameFlash, SameLocks, SameErrors
  <2> QED
    BY <2>2, <2>3, StillHeld
<1>3. ASSUME NEW t \in Resting(c, T), NEW a, NEW u \in Controller(c), NEW bk, Does(c, x, t, a, u, bk)
      PROVE  /\ u \in Resting(c, T) /\ (t \in On(c, T, R) => u \in On(c, T, R))
             /\ (t \in PecrOpened(c, T) => u \in PecrOpened(c, T))
  <2>1. t \in Kept(c, T)
    BY DEF Resting
  <2>2. u.cr = t.cr /\ SameFlash(t, u) /\ SameLocks(c, t, u) /\ SameErrors(c, t, u) /\ Held(c, u)
    BY <1>2, <1>3, <2>1
  <2>3. u \in Resting(c, T)
    BY <2>2, SamePages
  <2>4. ASSUME t \in On(c, T, R)  PROVE u \in On(c, T, R)
    <3>1. t \in Partway(c, T, {}, 1) /\ \A b \in R : "PG" \in t.cr[b]
      BY <2>4 DEF On
    <3>2. u \in Partway(c, T, {}, 1)
      BY <2>2, <3>1, SamePartway
    <3> QED
      BY <2>2, <3>1, <3>2 DEF On
  <2> QED
    BY <2>2, <2>3, <2>4 DEF PecrOpened
<1>4. PecrOpened(c, T) \subseteq Resting(c, T) /\ On(c, T, R) \subseteq Resting(c, T)
  <2>1. \A b \in Bank : b >= 1
    BY DEF Bank
  <2> QED
    BY <2>1 DEF PecrOpened, On, Partway, Erasing, Resting, Still
<1> QED
  BY <1>1, <1>3, <1>4, TakesBy

\* set_flash_cr_pg.
LEMMA SetPgTakes ==
  ASSUME NEW c \in Chips, NEW T, NEW R \in SUBSET Bank, NEW x, x.op = "set_PG", x.at \in Registers(c)
  PROVE  Takes(c, AnyLine, x, On(c, T, R), On(c, T, R \cup {x.at}))
<1>1. x.op \notin Replaced
  BY DEF Replaced
<1> DEFINE b == x.at
<1>2. b \in Bank /\ Reg(c, b) = b /\ b \in Registers(c)
  BY RegistersAre
<1>3. ASSUME NEW t \in On(c, T, R), NEW a, NEW u \in Controller(c), NEW bk, Does(c, x, t, a, u, bk)
      PROVE  u \in On(c, T, R \cup {b})
  <2> DEFINE bits == (IF c.type \in {"F0_F1_F3", "F1_XL"} THEN {} ELSE t.cr[b]) \cup {"PG"}
  <2>1. t \in Partway(c, T, {}, 1) /\ \A r \in R : "PG" \in t.cr[r]
    BY DEF On
  <2>2. t \in Kept(c, T) /\ "LOCK" \notin t.cr[b]
    BY <1>2, <2>1 DEF Partway, Erasing
  <2>3. t \in Controller(c) /\ t.cr[b] \in SUBSET Bits
    BY <1>2, <2>2 DEF Kept, Controller
  <2>4. bits \in SUBSET Bits /\ "LOCK" \notin bits /\ "PG" \in bits
    BY <2>2, <2>3, BitsAre
  <2>5. u = WriteCr(c, t, b, bits, Good)
    BY <1>2, <1>3, ReadGood DEF Does, SetFlashCrPg
  <2> HIDE DEF bits, b
  <2>6. SameFlash(t, u) /\ SameLocks(c, t, u) /\ u.cr[b] = bits
    BY <1>2, <2>2, <2>4, <2>5, RegisterWritten
  <2>7. \A r \in Bank : r # b => u.cr[r] = t.cr[r]
    BY <1>2, <2>3, <2>4, <2>5, WriteCrOnly
  <2>8. u \in Partway(c, T, {}, 1)
    BY <2>1, <2>6, SamePartway
  <2>9. \A r \in R \cup {b} : "PG" \in u.cr[r]
    BY <2>1, <2>4, <2>6, <2>7
  <2> QED
    BY <2>8, <2>9 DEF On
<1> QED
  BY <1>1, <1>3, TakesBy

\* With the program bit set in every register each page can be programmed.
LEMMA OnIsUsable ==
  ASSUME NEW c \in Chips, NEW T
  PROVE  /\ c.type \notin {"L0_L1", "WB0"} => On(c, T, Registers(c)) \subseteq Usable(c, T)
         /\ c.type = "L0_L1" => PecrOpened(c, T) \subseteq Usable(c, T)
         /\ c.type = "WB0" /\ ~c.refuses => Resting(c, T) \subseteq Usable(c, T)
<1>1. \A b \in Bank : b >= 1
  BY DEF Bank
<1>2. \A p : Reg(c, PageBank(c, p)) \in Registers(c)
  <2>1. \A p : PageBank(c, p) \in Bank
    BY DEF PageBank, Bank
  <2> QED
    BY <2>1, RegistersAre
<1>3. ASSUME c.type \notin {"L0_L1", "WB0"}, NEW t \in On(c, T, Registers(c))
      PROVE  t \in Usable(c, T)
  <2> DEFINE v == Unlocking(c, t)
  <2>1. /\ t \in Resting(c, T) /\ t \in Controller(c)
        /\ \A b \in Registers(c) : "PG" \in t.cr[b] /\ "LOCK" \notin t.cr[b] /\ b \in Bank
    BY <1>1, RegistersAre DEF On, Partway, Erasing, Resting, Still, Kept
  <2>2. \A b \in Registers(c) : "PG" \in v.cr[b] /\ "LOCK" \notin v.cr[b]
    <3>1. CASE v = t
      BY <2>1, <3>1
    <3>2. CASE v = UnlockFlash(c, t, Good)
      <4>1. v.cr = [b \in Bank |-> IF b \in Registers(c) THEN t.cr[b] \ {"LOCK"} ELSE t.cr[b]]
        BY <2>1, <3>2 DEF UnlockFlash, Good, Controller
      <4> QED
        BY <2>1, <4>1
    <3> QED
      BY <3>1, <3>2 DEF Unlocking
  <2> HIDE DEF v
  <2>3. \A p \in Pages(c) : Programmable(c, v, p)
    BY <1>2, <1>3, <2>2 DEF Programmable
  <2> QED
    BY <2>1, <2>3 DEF Usable, v
<1>4. ASSUME c.type = "L0_L1", NEW t \in PecrOpened(c, T)
      PROVE  t \in Usable(c, T)
  <2>1. t \in Resting(c, T) /\ {"LOCK", "PRGLOCK"} \cap t.cr[1] = {} /\ Unlocking(c, t) = t
    BY <1>4 DEF PecrOpened, Unlocking
  <2>2. \A p : Reg(c, p) = 1
    BY <1>4 DEF Reg, TwoRegisters
  <2>3. \A p \in Pages(c) : Programmable(c, t, p)
    BY <1>4, <2>1, <2>2 DEF Programmable
  <2> QED
    BY <2>1, <2>3 DEF Usable
<1>5. ASSUME c.type = "WB0", ~c.refuses, NEW t \in Resting(c, T)
      PROVE  t \in Usable(c, T)
  BY <1>5 DEF Usable, Programmable
<1> QED
  BY <1>3, <1>4, <1>5

\* The calls of stlink_flashloader_start set no error.
LEMMA LoaderSparing ==
  ASSUME chip \in Chips, NEW l \in Labels
  PROVE  /\ \A f \in {"DMA_off", "wait", "clear_errors", "unlock", "init_loader"} :
              Call(f) \in Sparing(chip, {})
         /\ \A f \in {"init_loader", "read_register", "unlock_PECR"} : Try(f, l) \in Sparing(chip, {})
         /\ \A b \in Bank : CallOn("set_PG", b) \in Sparing(chip, {})
<1>1. ASSUME NEW f \in {"DMA_off", "wait", "clear_errors", "unlock", "init_loader", "read_register",
                        "unlock_PECR"}
      PROVE  Call(f) \in Sparing(chip, {}) /\ Try(f, l) \in Sparing(chip, {})
  <2>1. f \in Ops /\ f \notin BankOps \cup Replaced \cup {"load"}
    BY <1>1 DEF Ops, FreeOps, BankOps, Replaced
  <2>2. Try(f, l) \in CallRec /\ Call(f) \in CallRec
    BY <2>1, CallsAreRecords
  <2>3. Try(f, l).op = f /\ Call(f).op = f
    BY DEF Try, Call
  <2>4. Try(f, l).at \in Nat /\ Call(f).at \in Nat
    BY <2>2 DEF CallRec
  <2>5. /\ f # "set_PG" /\ f # "set_PER" /\ f # "select" /\ f # "set_MER" /\ f # "start"
        /\ f # "verify" /\ f # "unlock_options" /\ f \notin Refusable
    BY <1>1 DEF Refusable
  <2>6. Spares(chip, {}, Try(f, l)) /\ Spares(chip, {}, Call(f))
    BY <2>1, <2>3, <2>4, <2>5 DEF Spares, Sound
  <2> QED
    BY <2>2, <2>3, <2>5, <2>6 DEF Sparing
<1>2. ASSUME NEW b \in Bank
      PROVE  CallOn("set_PG", b) \in Sparing(chip, {})
  <2>1. "set_PG" \in Ops /\ "set_PG" \notin Replaced \cup {"load"} /\ b \in Nat
    BY DEF Ops, BankOps, Replaced, Bank
  <2>2. CallOn("set_PG", b) \in CallRec
    BY <2>1, CallsAreRecords
  <2>3. CallOn("set_PG", b).op = "set_PG" /\ CallOn("set_PG", b).at = b /\ CallOn("set_PG", b).to = ""
    BY DEF CallOn, Call
  <2>4. Spares(chip, {}, CallOn("set_PG", b))
    BY <2>1, <2>3 DEF Spares, Sound, Refusable
  <2> QED
    BY <2>2, <2>3, <2>4 DEF Sparing
<1> QED
  BY <1>1, <1>2

\* The program bit is set in every register.
LEMMA SetPgLeads ==
  ASSUME chip \in Chips, NEW T \in SUBSET Pages(chip)
  PROVE  /\ BothBanks("set_PG") \in Seq(Sparing(chip, {})) /\ BothBanks("set_PG") \in Seq(CallRec)
         /\ Leads(chip, AnyLine, BothBanks("set_PG"), On(chip, T, {}), On(chip, T, Registers(chip)))
         /\ ~TwoRegisters(chip) => BothBanks("set_PG") = <<CallOn("set_PG", 1)>>
<1> DEFINE x == CallOn("set_PG", 1)
           y == CallOn("set_PG", 2)
<1>1. BothBanks("set_PG") = IF TwoRegisters(chip) THEN <<x, y>> ELSE <<x>>
  BY DEF BothBanks
<1>2. 1 \in Bank /\ 2 \in Bank /\ "finalize" \in Labels
  BY RegistersAre DEF Labels
<1>3. x \in Sparing(chip, {}) /\ y \in Sparing(chip, {})
  BY <1>2, LoaderSparing
<1>4. x \in CallRec /\ y \in CallRec
  BY <1>3 DEF Sparing
<1>5. x.op = "set_PG" /\ x.at = 1 /\ y.op = "set_PG" /\ y.at = 2
  BY DEF CallOn, Call
<1> HIDE DEF x, y
<1>6. BothBanks("set_PG") \in Seq(Sparing(chip, {})) /\ BothBanks("set_PG") \in Seq(CallRec)
  <2>1. <<x>> \in Seq(Sparing(chip, {})) /\ <<x, y>> \in Seq(Sparing(chip, {}))
    BY <1>3, OfMembers
  <2>2. <<x>> \in Seq(CallRec) /\ <<x, y>> \in Seq(CallRec)
    BY <1>4, OfMembers
  <2> QED
    BY <1>1, <2>1, <2>2
<1>7. \A R : Fixed(chip, On(chip, T, R))
  BY LoaderFixed
<1>8. {} \in SUBSET Bank /\ {1} \in SUBSET Bank /\ {} \cup {1} = {1} /\ {1} \cup {2} = Bank
  BY DEF Bank
<1>9. Takes(chip, AnyLine, x, On(chip, T, {}), On(chip, T, {1}))
  <2>1. x.at \in Registers(chip)
    BY <1>5, RegistersAre
  <2>2. Takes(chip, AnyLine, x, On(chip, T, {}), On(chip, T, {} \cup {x.at}))
    BY <1>5, <1>8, <2>1, SetPgTakes
  <2> QED
    BY <1>5, <1>8, <2>2
<1>10. CASE TwoRegisters(chip)
  <2>1. Registers(chip) = Bank
    BY <1>10 DEF Registers
  <2>2. y.at \in Registers(chip)
    BY <1>2, <1>5, <2>1
  <2>3. Takes(chip, AnyLine, y, On(chip, T, {1}), On(chip, T, {1} \cup {y.at}))
    BY <1>5, <1>8, <2>2, SetPgTakes
  <2>4. Takes(chip, AnyLine, y, On(chip, T, {1}), On(chip, T, Registers(chip)))
    BY <1>5, <1>8, <2>1, <2>3
  <2>5. Leads(chip, AnyLine, <<x, y>>, On(chip, T, {}), On(chip, T, Registers(chip)))
    BY <1>4, <1>7, <1>9, <2>4, LeadsTwo
  <2> QED
    BY <1>1, <1>6, <1>10, <2>5
<1>11. CASE ~TwoRegisters(chip)
  <2>1. Registers(chip) = {1}
    BY <1>11 DEF Registers
  <2>2. Leads(chip, AnyLine, <<x>>, On(chip, T, {}), On(chip, T, Registers(chip)))
    BY <1>7, <1>9, <2>1, LeadsOne
  <2> QED
    BY <1>1, <1>6, <1>11, <2>2 DEF x
<1> QED
  BY <1>10, <1>11

\* stlink_flashloader_start up to the family's own part, and that part.
LEMMA LoaderStartLeads ==
  ASSUME chip \in Chips, NEW T \in SUBSET Pages(chip), NEW l \in Labels, Willing(chip)
  PROVE  /\ FlashloaderStart(l) \in Seq(Sparing(chip, {})) /\ FlashloaderStart(l) \in Seq(CallRec)
         /\ Leads(chip, AnyLine, FlashloaderStart(l), Resting(chip, T), Usable(chip, T))
<1> DEFINE S == Sparing(chip, {})
           R == Resting(chip, T)
           O == On(chip, T, {})
           E == On(chip, T, Registers(chip))
           C == PecrOpened(chip, T)
           U == Usable(chip, T)
           dma == Call("DMA_off")
           wait == Call("wait")
           clear == Call("clear_errors")
           unlock == Call("unlock")
           init == Try("init_loader", l)
           again == Call("init_loader")
           volt == Try("read_register", l)
           open == Try("unlock_PECR", l)
           pg == BothBanks("set_PG")
           a == <<dma, wait, clear>>
<1>1. /\ dma \in S /\ wait \in S /\ clear \in S /\ unlock \in S /\ init \in S /\ again \in S
      /\ volt \in S /\ open \in S
  BY LoaderSparing
<1>2. /\ dma \in CallRec /\ wait \in CallRec /\ clear \in CallRec /\ unlock \in CallRec
      /\ init \in CallRec /\ again \in CallRec /\ volt \in CallRec /\ open \in CallRec
  BY <1>1 DEF Sparing
<1>3. /\ dma.op = "DMA_off" /\ wait.op = "wait" /\ clear.op = "clear_errors"
      /\ unlock.op = "unlock" /\ init.op = "init_loader" /\ again.op = "init_loader"
      /\ volt.op = "read_register" /\ open.op = "unlock_PECR"
  BY DEF Call, Try
<1>4. pg \in Seq(S) /\ pg \in Seq(CallRec) /\ Leads(chip, AnyLine, pg, O, E)
      /\ (~TwoRegisters(chip) => pg = <<CallOn("set_PG", 1)>>)
  BY SetPgLeads
<1>5. Fixed(chip, R) /\ Fixed(chip, O) /\ Fixed(chip, E) /\ Fixed(chip, C) /\ Fixed(chip, U)
  BY LoaderFixed
<1>6. /\ chip.type \notin {"L0_L1", "WB0"} => E \subseteq U
      /\ chip.type = "L0_L1" => C \subseteq U
      /\ chip.type = "WB0" => R \subseteq U
  BY OnIsUsable DEF Willing
<1>7. R \subseteq Kept(chip, T)
  BY DEF Resting
<1> HIDE DEF dma, wait, clear, unlock, init, again, volt, open, pg
<1>8. /\ Takes(chip, AnyLine, dma, R, R) /\ Takes(chip, AnyLine, init, R, R)
      /\ Takes(chip, AnyLine, init, O, O) /\ Takes(chip, AnyLine, volt, O, O)
      /\ Takes(chip, AnyLine, again, C, C)
  <2>1. /\ init.op \in Idle /\ volt.op \in Idle /\ again.op \in Idle
    BY <1>3 DEF Idle
  <2> QED
    BY <1>3, <2>1, AlikeTakes
<1>9. Takes(chip, AnyLine, wait, R, R) /\ Takes(chip, AnyLine, clear, R, R)
  <2>1. Takes(chip, AnyLine, wait, Kept(chip, T), R)
    BY <1>3, WaitTakes
  <2> HIDE DEF R
  <2>2. Takes(chip, AnyLine, wait, R, R)
    BY <1>7, <2>1, TakesMore
  <2>3. Takes(chip, AnyLine, clear, Resting(chip, T), Resting(chip, T))
    BY <1>3, ClearErrorsTakes
  <2> QED
    BY <2>2, <2>3 DEF R
<1>10. chip.type # "WB0" => Takes(chip, AnyLine, unlock, R, O)
  <2>1. ASSUME chip.type # "WB0"
        PROVE  Takes(chip, AnyLine, unlock, R, Partway(chip, T, {}, 1))
    BY <1>3, <2>1, UnlockTakes, RegistersAre
  <2>2. Partway(chip, T, {}, 1) \subseteq O
    BY DEF On
  <2> HIDE DEF O, R
  <2> QED
    BY <2>1, <2>2, TakesMore
<1>11. chip.type = "L0_L1" => Takes(chip, AnyLine, open, R, C)
  BY <1>3, PecrUnlockTakes
<1> HIDE DEF S, R, O, E, C, U
<1>12. a \in Seq(S) /\ a \in Seq(CallRec) /\ Leads(chip, AnyLine, a, R, R)
  <2>1. a \in Seq(S)
    BY <1>1, OfMembers
  <2>2. a = <<dma>> \o <<wait, clear>>
    OBVIOUS
  <2>3. <<wait, clear>> \in Seq(CallRec) /\ Leads(chip, AnyLine, <<wait, clear>>, R, R)
    BY <1>2, <1>5, <1>9, LeadsTwo
  <2> HIDE DEF a
  <2>4. a \in Seq(CallRec) /\ Leads(chip, AnyLine, a, R, R)
    BY <1>2, <1>5, <1>8, <2>2, <2>3, LeadsFirst
  <2> QED
    BY <2>1, <2>4
<1> HIDE DEF a
<1>13. ASSUME NEW z, FlashloaderStart(l) = a \o z, z \in Seq(S), z \in Seq(CallRec),
              Leads(chip, AnyLine, z, R, U)
       PROVE  /\ FlashloaderStart(l) \in Seq(S) /\ FlashloaderStart(l) \in Seq(CallRec)
              /\ Leads(chip, AnyLine, FlashloaderStart(l), R, U)
  <2>1. a \o z \in Seq(S)
    BY <1>12, <1>13, SeqConcat
  <2>2. a \o z \in Seq(CallRec) /\ Leads(chip, AnyLine, a \o z, R, U)
    BY <1>12, <1>13, LeadsConcat
  <2> QED
    BY <1>13, <2>1, <2>2
<1>14. ASSUME NEW z, z \in Seq(S), z \in Seq(CallRec), Leads(chip, AnyLine, z, R, O),
              chip.type \notin {"L0_L1", "WB0"}
       PROVE  z \o pg \in Seq(S) /\ z \o pg \in Seq(CallRec) /\ Leads(chip, AnyLine, z \o pg, R, U)
  <2>1. z \o pg \in Seq(S)
    BY <1>4, <1>14, SeqConcat
  <2>2. z \o pg \in Seq(CallRec) /\ Leads(chip, AnyLine, z \o pg, R, E)
    BY <1>4, <1>14, LeadsConcat
  <2>3. Leads(chip, AnyLine, z \o pg, R, U)
    BY <1>6, <1>14, <2>2, LeadsMore
  <2> QED
    BY <2>1, <2>2, <2>3
<1>15. CASE chip.type \in {"F2_F4", "F7", "L4"}
  <2> DEFINE z == <<init, unlock, volt>>
  <2>1. ~TwoRegisters(chip)
    BY <1>15 DEF TwoRegisters
  <2>2. FlashloaderStart(l) = a \o (z \o pg)
    <3> DEFINE one == CallOn("set_PG", 1)
    <3>5. FlashloaderStart(l) = a \o <<init, unlock, volt, one>>
      BY <1>15 DEF FlashloaderStart, a, dma, wait, clear, init, unlock, volt
    <3>6. pg = <<one>>
      BY <1>4, <2>1
    <3> HIDE DEF one
    <3>7. <<init, unlock, volt, one>> = <<init, unlock, volt>> \o <<one>>
      OBVIOUS
    <3> QED
      BY <3>5, <3>6, <3>7
  <2>3. z \in Seq(S) /\ z = <<init>> \o <<unlock, volt>>
    BY <1>1, OfMembers
  <2>4. <<unlock, volt>> \in Seq(CallRec) /\ Leads(chip, AnyLine, <<unlock, volt>>, R, O)
    BY <1>2, <1>5, <1>8, <1>10, <1>15, LeadsTwo
  <2> HIDE DEF z
  <2>5. z \in Seq(CallRec) /\ Leads(chip, AnyLine, z, R, O)
    BY <1>2, <1>5, <1>8, <2>3, <2>4, LeadsFirst
  <2>6. z \o pg \in Seq(S) /\ z \o pg \in Seq(CallRec) /\ Leads(chip, AnyLine, z \o pg, R, U)
    BY <1>14, <1>15, <2>3, <2>5
  <2> QED
    BY <1>13, <2>2, <2>6 DEF S, R, U
<1>16. CASE chip.type \in {"H5", "F0_F1_F3", "F1_XL"}
  <2> DEFINE z == <<init, unlock>>
  <2>1. FlashloaderStart(l) = a \o (z \o pg)
    <3>1. CASE chip.type = "H5"
      <4>1. ~TwoRegisters(chip)
        BY <3>1 DEF TwoRegisters
      <4> DEFINE one == CallOn("set_PG", 1)
      <4>5. FlashloaderStart(l) = a \o <<init, unlock, one>>
        BY <3>1 DEF FlashloaderStart, a, dma, wait, clear, init, unlock
      <4>6. pg = <<one>>
        BY <1>4, <4>1
      <4> HIDE DEF one
      <4>7. <<init, unlock, one>> = <<init, unlock>> \o <<one>>
        OBVIOUS
      <4> QED
        BY <4>5, <4>6, <4>7
    <3>2. CASE chip.type # "H5"
      BY <1>16, <3>2 DEF FlashloaderStart, a, dma, wait, clear, init, unlock, pg
    <3> QED
      BY <3>1, <3>2
  <2>2. z \in Seq(S)
    BY <1>1, OfMembers
  <2>3. z \in Seq(CallRec) /\ Leads(chip, AnyLine, z, R, O)
    BY <1>2, <1>5, <1>8, <1>10, <1>16, LeadsTwo
  <2> HIDE DEF z
  <2>4. z \o pg \in Seq(S) /\ z \o pg \in Seq(CallRec) /\ Leads(chip, AnyLine, z \o pg, R, U)
    BY <1>14, <1>16, <2>2, <2>3
  <2> QED
    BY <1>13, <2>1, <2>4 DEF S, R, U
<1>17. CASE chip.type \in {"WB_WL", "G0", "G4", "L5_U5", "C5", "C0", "H7"}
  <2> DEFINE z == <<unlock>>
  <2>1. FlashloaderStart(l) = a \o (z \o pg)
    <3>1. CASE chip.type # "H7"
      <4>1. ~TwoRegisters(chip)
        BY <1>17, <3>1 DEF TwoRegisters
      <4> DEFINE one == CallOn("set_PG", 1)
      <4>5. FlashloaderStart(l) = a \o <<unlock, one>>
        BY <1>17, <3>1 DEF FlashloaderStart, a, dma, wait, clear, unlock
      <4>6. pg = <<one>>
        BY <1>4, <4>1
      <4> HIDE DEF one
      <4>7. <<unlock, one>> = <<unlock>> \o <<one>>
        OBVIOUS
      <4> QED
        BY <4>5, <4>6, <4>7
    <3>2. CASE chip.type = "H7"
      BY <3>2 DEF FlashloaderStart, a, dma, wait, clear, unlock, pg
    <3> QED
      BY <3>1, <3>2
  <2>2. z \in Seq(S) /\ z \in Seq(CallRec)
    BY <1>1, <1>2, OfMembers
  <2>3. Leads(chip, AnyLine, z, R, O)
    BY <1>5, <1>10, <1>17, LeadsOne
  <2> HIDE DEF z
  <2>4. z \o pg \in Seq(S) /\ z \o pg \in Seq(CallRec) /\ Leads(chip, AnyLine, z \o pg, R, U)
    BY <1>14, <1>17, <2>2, <2>3
  <2> QED
    BY <1>13, <2>1, <2>4 DEF S, R, U
<1>18. CASE chip.type = "L0_L1"
  <2> DEFINE z == <<open, again>>
  <2>1. FlashloaderStart(l) = a \o z
    BY <1>18 DEF FlashloaderStart, a, dma, wait, clear, open, again
  <2>2. z \in Seq(S)
    BY <1>1, OfMembers
  <2>3. z \in Seq(CallRec) /\ Leads(chip, AnyLine, z, R, C)
    BY <1>2, <1>5, <1>8, <1>11, <1>18, LeadsTwo
  <2> HIDE DEF z
  <2>4. Leads(chip, AnyLine, z, R, U)
    BY <1>6, <1>18, <2>3, LeadsMore
  <2> QED
    BY <1>13, <2>1, <2>2, <2>3, <2>4 DEF S, R, U
<1>19. CASE chip.type = "WB0"
  <2> DEFINE z == <<init>>
  <2>1. FlashloaderStart(l) = a \o z
    BY <1>19 DEF FlashloaderStart, a, dma, wait, clear, init
  <2>2. z \in Seq(S) /\ z \in Seq(CallRec)
    BY <1>1, <1>2, OfMembers
  <2>3. Leads(chip, AnyLine, z, R, R)
    BY <1>5, <1>8, LeadsOne
  <2> HIDE DEF z
  <2>4. Leads(chip, AnyLine, z, R, U)
    BY <1>6, <1>19, <2>3, LeadsMore
  <2> QED
    BY <1>13, <2>1, <2>2, <2>4 DEF S, R, U
<1>20. chip.type \in Families
  BY DEF Chips
<1> QED
  BY <1>15, <1>16, <1>17, <1>18, <1>19, <1>20 DEF Families, S, R, U

-----------------------------------------------------------------------------
(***************************************************************************)
(* Writing and erasing, from page to page.                                 *)
(***************************************************************************)

\* The end of an erase does not leave the controllers that are ready to program.
LEMMA PrimedFixed ==
  ASSUME NEW c \in Chips, NEW R \in SUBSET Pages(c), NEW N
  PROVE  Fixed(c, Primed(c, R, N))
<1>1. Primed(c, R, N) \in SUBSET Resting(c, R)
  BY DEF Primed
<1> QED
  BY <1>1, KeptFixed

\* After stlink_flashloader_start every page can be programmed.
LEMMA StartPasses ==
  ASSUME chip \in Chips, NEW k, k # AnyLine, NEW T \in SUBSET Pages(chip), NEW l \in Labels,
         Willing(chip)
  PROVE  /\ FlashloaderStart(l) \in Seq(CallRec)
         /\ Leads(chip, k, FlashloaderStart(l), Resting(chip, T) \cap Free(chip, {}),
                  Primed(chip, T, {}))
<1> DEFINE P == Resting(chip, T)
           Q == Usable(chip, T)
           s == FlashloaderStart(l)
<1>1. /\ s \in Seq(Sparing(chip, {})) /\ s \in Seq(CallRec) /\ Leads(chip, AnyLine, s, P, Q)
  BY LoaderStartLeads
<1>2. Q \cap Free(chip, {}) \subseteq Primed(chip, T, {})
  BY DEF Usable, Free, Primed
<1> HIDE DEF P, Q, s
<1>3. {} \in SUBSET {"PG", "PER", "MER"}
  OBVIOUS
<1>4. Leads(chip, k, s, P \cap Free(chip, {}), Q \cap Free(chip, {}))
  BY <1>1, <1>3, LeadsFree
<1>5. Leads(chip, k, s, P \cap Free(chip, {}), Primed(chip, T, {}))
  BY <1>2, <1>4, LeadsMore
<1> QED
  BY <1>1, <1>5 DEF P, s

\* Ready to program, and unlocked for it.
Loadable(c, R, N) == {t \in Primed(c, R, N) : \A p \in Pages(c) : Programmable(c, t, p)}

\* F0 and F1 unlock for each page: what they need to have set is the program bit.
LEMMA PrimedIs ==
  ASSUME NEW c \in Chips, NEW t \in Controller(c)
  PROVE  /\ c.type \in {"F0_F1_F3", "F1_XL"} =>
              ((\A p \in Pages(c) : Programmable(c, Unlocking(c, t), p))
                 <=> \A p \in Pages(c) : "PG" \in t.cr[Reg(c, PageBank(c, p))])
         /\ c.type \notin {"F0_F1_F3", "F1_XL"} => Unlocking(c, t) = t
<1>1. ASSUME c.type \in {"F0_F1_F3", "F1_XL"}, NEW p \in Pages(c)
      PROVE  Programmable(c, Unlocking(c, t), p) <=> "PG" \in t.cr[Reg(c, PageBank(c, p))]
  <2> DEFINE b == Reg(c, PageBank(c, p))
             v == Unlocking(c, t)
  <2>1. b \in Bank /\ b \in Registers(c)
    <3>1. PageBank(c, p) \in Bank
      BY DEF PageBank, Bank
    <3> QED
      BY <3>1, RegistersAre
  <2>2. v.cr = [d \in Bank |-> IF d \in Registers(c) THEN t.cr[d] \ {"LOCK"} ELSE t.cr[d]]
    BY <1>1 DEF Unlocking, UnlockFlash, Good, Controller
  <2>3. Programmable(c, v, p) <=> "LOCK" \notin v.cr[b] /\ "PG" \in v.cr[b]
    BY <1>1 DEF Programmable
  <2> HIDE DEF b, v
  <2>4. v.cr[b] = t.cr[b] \ {"LOCK"}
    BY <2>1, <2>2
  <2> QED
    BY <2>3, <2>4 DEF b, v
<1> QED
  BY <1>1 DEF Unlocking

\* The unlocking before a page.
LEMMA UnlockLoads ==
  ASSUME NEW c \in Chips, c.type \in {"F0_F1_F3", "F1_XL"}, NEW k, NEW R \in SUBSET Pages(c), NEW N,
         NEW x, x.op = "unlock"
  PROVE  Takes(c, k, x, Primed(c, R, N), Loadable(c, R, N))
<1> SUFFICES ASSUME NEW t \in Primed(c, R, N), NEW u \in Controller(c),
                    u = UnlockFlashIf(c, t, Good)
             PROVE  u \in Loadable(c, R, N)
  <2>1. "unlock" \notin Replaced
    BY DEF Replaced
  <2> QED
    BY <2>1 DEF Takes, Passes, Does
<1> DEFINE v == UnlockFlash(c, t, Good)
<1>1. /\ t \in Resting(c, R) /\ t \in Kept(c, R) /\ t \in Controller(c) /\ Held(c, t) /\ t.sr = {}
      /\ \A p \in N : t.mem[p] = "new"
      /\ \A p \in Pages(c) : Programmable(c, v, p)
  BY DEF Primed, Resting, Kept, Unlocking
<1>2. v.cr = [d \in Bank |-> IF d \in Registers(c) THEN t.cr[d] \ {"LOCK"} ELSE t.cr[d]]
  BY <1>1 DEF UnlockFlash, Good, Controller
<1>3. SameFlash(t, v) /\ v.sr = t.sr /\ v.mem = t.mem
  BY <1>1 DEF UnlockFlash, Good, Controller, SameFlash
<1>4. \A r \in Registers(c) : r \in Bank
  BY RegistersAre
<1>5. \A r \in Registers(c) : "LOCK" \notin v.cr[r]
  BY <1>2, <1>4
<1>6. CASE "LOCK" \in t.cr[1]
  <2>1. u = v
    <3>1. Reg(c, 1) = 1
      BY RegistersAre
    <3>2. IsFlashLocked(c, t, Good)
      BY <1>6, <3>1 DEF IsFlashLocked, ReadCr, Good
    <3> QED
      BY <3>2 DEF UnlockFlashIf
  <2> HIDE DEF v
  <2>2. Held(c, v)
    BY <1>1, <1>3, <1>5, StillHeld
  <2>3. v \in Resting(c, R)
    BY <1>1, <1>3, <2>1, <2>2, SamePages
  <2>4. \A p \in Pages(c) : "PG" \in t.cr[Reg(c, PageBank(c, p))]
    BY <1>1, PrimedIs DEF Primed
  <2>5. \A p : Reg(c, PageBank(c, p)) \in Bank
    <3>1. \A p : PageBank(c, p) \in Bank
      BY DEF PageBank, Bank
    <3> QED
      BY <3>1, RegistersAre
  <2>6. \A p \in Pages(c) : "PG" \in v.cr[Reg(c, PageBank(c, p))]
    BY <1>2, <2>4, <2>5
  <2>7. \A p \in Pages(c) : Programmable(c, Unlocking(c, v), p)
    BY <2>1, <2>6, PrimedIs
  <2> QED
    BY <1>1, <1>3, <2>1, <2>3, <2>7 DEF Loadable, Primed
<1>7. CASE "LOCK" \notin t.cr[1]
  <2>1. u = t
    <3>1. Reg(c, 1) = 1
      BY RegistersAre
    <3>2. ~IsFlashLocked(c, t, Good)
      BY <1>7, <3>1 DEF IsFlashLocked, ReadCr, Good
    <3> QED
      BY <3>2 DEF UnlockFlashIf
  <2>2. \A r \in Registers(c) : "LOCK" \notin t.cr[r]
    BY <1>1, <1>7 DEF Held, Registers, Bank
  <2>3. \A p : Reg(c, PageBank(c, p)) \in Registers(c)
    <3>1. \A p : PageBank(c, p) \in Bank
      BY DEF PageBank, Bank
    <3> QED
      BY <3>1, RegistersAre
  <2>4. \A p \in Pages(c) : "PG" \in t.cr[Reg(c, PageBank(c, p))]
    BY <1>1, PrimedIs DEF Primed
  <2>5. \A p \in Pages(c) : Programmable(c, t, p)
    BY <2>2, <2>3, <2>4 DEF Programmable
  <2> QED
    BY <2>1, <2>5 DEF Loadable
<1> QED
  BY <1>6, <1>7

\* A blank page is loaded without an error.
LEMMA LoadLoads ==
  ASSUME NEW c \in Chips, NEW k, NEW R \in SUBSET Pages(c), NEW N \in SUBSET Pages(c),
         NEW p \in R, NEW x, x.op = "load", PageAt(c, x.at) = p
  PROVE  Takes(c, k, x, Loadable(c, R, N), Loadable(c, R \ {p}, N \cup {p}))
<1> SUFFICES ASSUME NEW t \in Loadable(c, R, N), NEW u \in Controller(c), u = Program(c, t, p)
             PROVE  u \in Loadable(c, R \ {p}, N \cup {p})
  <2>1. "load" \notin Replaced
    BY DEF Replaced
  <2> QED
    BY <2>1 DEF Takes, Passes, Does
<1>1. /\ t \in Controller(c) /\ Held(c, t) /\ Still(t) /\ t.sr = {}
      /\ \A q \in R : t.mem[q] = "blank"
      /\ \A q \in N : t.mem[q] = "new"
      /\ \A q \in Pages(c) : Programmable(c, Unlocking(c, t), q) /\ Programmable(c, t, q)
  BY DEF Loadable, Primed, Resting, Kept
<1>2. u = [t EXCEPT !.mem[p] = "new"]
  BY <1>1 DEF Program
<1>3. u.cr = t.cr /\ u.sr = t.sr /\ u.job = t.job
  BY <1>1, <1>2 DEF Controller
<1>4. \A q \in Pages(c) : u.mem[q] = IF q = p THEN "new" ELSE t.mem[q]
  BY <1>1, <1>2 DEF Controller
<1>5. \A q \in Pages(c) : Programmable(c, u, q)
  BY <1>1, <1>3 DEF Programmable
<1>6. \A q \in Pages(c) : Programmable(c, Unlocking(c, u), q)
  BY <1>1, <1>3, <1>5, PrimedIs
<1>7. Held(c, u) /\ Still(u)
  BY <1>1, <1>3 DEF Held, Still, Lone
<1>8. \A q \in N \cup {p} : u.mem[q] = "new"
  BY <1>1, <1>4
<1> QED
  BY <1>1, <1>3, <1>4, <1>5, <1>6, <1>7, <1>8 DEF Loadable, Primed, Resting, Kept

\* The locking after a page.
LEMMA LockLoads ==
  ASSUME NEW c \in Chips, c.type \in {"F0_F1_F3", "F1_XL"}, NEW k, NEW R \in SUBSET Pages(c), NEW N,
         NEW x, x.op = "lock"
  PROVE  Takes(c, k, x, Loadable(c, R, N), Primed(c, R, N))
<1> SUFFICES ASSUME NEW t \in Loadable(c, R, N), NEW u \in Controller(c), u = LockFlash(c, t, Good)
             PROVE  u \in Primed(c, R, N)
  <2>1. "lock" \notin Replaced
    BY DEF Replaced
  <2> QED
    BY <2>1 DEF Takes, Passes, Does
<1>1. /\ t \in Resting(c, R) /\ t \in Kept(c, R) /\ t \in Controller(c) /\ t.sr = {}
      /\ \A p \in N : t.mem[p] = "new"
      /\ \A p \in Pages(c) : "PG" \in t.cr[Reg(c, PageBank(c, p))]
  BY PrimedIs DEF Loadable, Primed, Resting, Kept
<1>2. SameFlash(t, u) /\ SameErrors(c, t, u) /\ Locked(c, u)
  BY <1>1, LockSame, LockLocks
<1>3. u \in Resting(c, R)
  <2>1. Held(c, u)
    BY <1>1, <1>2, StillHeld
  <2> QED
    BY <1>1, <1>2, <2>1, SamePages
<1>4. \A r \in Registers(c) : "PG" \in t.cr[r] => "PG" \in u.cr[r]
  <2>1. c.type # "H7" /\ c.type # "WB0"
    OBVIOUS
  <2> DEFINE one == WriteCr(c, t, 1, t.cr[1] \cup {"LOCK"}, Good)
             two == WriteCr(c, one, 2, one.cr[2] \cup {"LOCK"}, Good)
  <2>2. u = IF TwoRegisters(c) THEN two ELSE one
    <3>1. ((IF Good.read THEN t.cr[1] ELSE {}) \ (IF c.type = "H7" THEN {"PER"} ELSE {})) \cup {"LOCK"}
            = t.cr[1] \cup {"LOCK"}
      BY <2>1 DEF Good
    <3>2. TwoRegisters(c) => ReadCr(c, one, 2, Good) = one.cr[2]
      BY ReadGood DEF Reg
    <3> QED
      BY <2>1, <3>1, <3>2 DEF LockFlash
  <2>3. 1 \in Bank /\ 2 \in Bank /\ Reg(c, 1) = 1 /\ (TwoRegisters(c) => Reg(c, 2) = 2)
    BY RegistersAre DEF Reg
  <2>4. t.cr[1] \cup {"LOCK"} \in SUBSET Bits
    BY <1>1, <2>3, BitsAre DEF Controller
  <2> HIDE DEF one
  <2>5. /\ one \in Controller(c)
        /\ \A r \in Bank : "PG" \in t.cr[r] => "PG" \in one.cr[r]
    <3>1. /\ one \in Controller(c) /\ \A r \in Bank : r # Reg(c, 1) => one.cr[r] = t.cr[r]
          /\ "LOCK" \in t.cr[Reg(c, 1)] => one = t
          /\ "LOCK" \notin t.cr[Reg(c, 1)] => one.cr[Reg(c, 1)] = t.cr[1] \cup {"LOCK"}
      BY <1>1, <2>3, <2>4, WriteCrOnly DEF one
    <3> QED
      BY <2>3, <3>1
  <2>6. one.cr[2] \cup {"LOCK"} \in SUBSET Bits
    BY <2>3, <2>5, BitsAre DEF Controller
  <2> HIDE DEF two
  <2>7. TwoRegisters(c) => \A r \in Bank : "PG" \in one.cr[r] => "PG" \in two.cr[r]
    <3>1. /\ \A r \in Bank : r # Reg(c, 2) => two.cr[r] = one.cr[r]
          /\ "LOCK" \in one.cr[Reg(c, 2)] => two = one
          /\ "LOCK" \notin one.cr[Reg(c, 2)] => two.cr[Reg(c, 2)] = one.cr[2] \cup {"LOCK"}
      BY <2>3, <2>5, <2>6, WriteCrOnly DEF two
    <3> QED
      BY <2>3, <3>1
  <2> QED
    BY <2>2, <2>5, <2>7, RegistersAre
<1>5. \A p \in Pages(c) : "PG" \in u.cr[Reg(c, PageBank(c, p))]
  <2>1. \A p : Reg(c, PageBank(c, p)) \in Registers(c)
    <3>1. \A p : PageBank(c, p) \in Bank
      BY DEF PageBank, Bank
    <3> QED
      BY <3>1, RegistersAre
  <2> QED
    BY <1>1, <1>4, <2>1
<1>6. \A p \in Pages(c) : Programmable(c, Unlocking(c, u), p)
  BY <1>5, PrimedIs
<1> QED
  BY <1>1, <1>2, <1>3, <1>6 DEF Primed, SameFlash, SameErrors

\* A page of stlink_flashloader_write.
LEMMA PageLoads ==
  ASSUME chip \in Chips, NEW k, NEW R \in SUBSET Pages(chip), NEW N \in SUBSET Pages(chip),
         NEW p \in R, NEW x \in CallRec, x.op = "load", PageAt(chip, x.at) = p,
         NEW page, page = IF chip.type \in {"F0_F1_F3", "F1_XL"}
                          THEN <<Call("unlock")>> \o <<x>> \o <<Call("lock")>> ELSE <<x>>
  PROVE  /\ page \in Seq(CallRec)
         /\ Leads(chip, k, page, Primed(chip, R, N), Primed(chip, R \ {p}, N \cup {p}))
<1> DEFINE P == Primed(chip, R, N)
           A == Loadable(chip, R, N)
           B == Loadable(chip, R \ {p}, N \cup {p})
           Q == Primed(chip, R \ {p}, N \cup {p})
           u == Call("unlock")
           l == Call("lock")
<1>1. R \ {p} \in SUBSET Pages(chip)
  OBVIOUS
<1>2. Fixed(chip, P) /\ Fixed(chip, Q)
  BY <1>1, PrimedFixed
<1>3. Fixed(chip, A) /\ Fixed(chip, B)
  <2>1. A \in SUBSET Resting(chip, R) /\ B \in SUBSET Resting(chip, R \ {p})
    BY DEF Loadable, Primed
  <2> HIDE DEF A, B
  <2> QED
    BY <1>1, <2>1, KeptFixed
<1>4. Takes(chip, k, x, A, B)
  BY LoadLoads
<1>5. CASE chip.type \in {"F0_F1_F3", "F1_XL"}
  <2>1. u \in CallRec /\ l \in CallRec
    BY OpsAre, CallsAreRecords DEF Ops
  <2>2. u.op = "unlock" /\ l.op = "lock"
    BY DEF Call
  <2> HIDE DEF u, l
  <2>3. Takes(chip, k, u, P, A)
    BY <1>5, <2>2, UnlockLoads
  <2>4. Takes(chip, k, l, B, Q)
    BY <1>1, <1>5, <2>2, LockLoads
  <2> HIDE DEF P, A, B, Q
  <2>5. <<u>> \in Seq(CallRec) /\ <<x>> \in Seq(CallRec) /\ <<l>> \in Seq(CallRec)
    BY <2>1, OfMembers
  <2>6. /\ Leads(chip, k, <<u>>, P, A) /\ Leads(chip, k, <<x>>, A, B) /\ Leads(chip, k, <<l>>, B, Q)
    BY <1>2, <1>3, <1>4, <2>3, <2>4, LeadsOne
  <2>7. <<u>> \o <<x>> \in Seq(CallRec) /\ Leads(chip, k, <<u>> \o <<x>>, P, B)
    BY <2>5, <2>6, LeadsConcat
  <2>8. (<<u>> \o <<x>>) \o <<l>> \in Seq(CallRec) /\ Leads(chip, k, (<<u>> \o <<x>>) \o <<l>>, P, Q)
    BY <2>5, <2>6, <2>7, LeadsConcat
  <2>9. page = (<<u>> \o <<x>>) \o <<l>>
    BY <1>5 DEF u, l
  <2> QED
    BY <2>8, <2>9 DEF P, Q
<1>6. CASE chip.type \notin {"F0_F1_F3", "F1_XL"}
  <2>1. P \subseteq A
    BY <1>6, PrimedIs DEF Loadable, Primed, Resting, Kept
  <2>2. B \subseteq Q
    BY DEF Loadable
  <2> HIDE DEF P, A, B, Q
  <2>3. Takes(chip, k, x, P, Q)
    BY <1>4, <2>1, <2>2, TakesMore
  <2>4. <<x>> \in Seq(CallRec) /\ Leads(chip, k, <<x>>, P, Q)
    BY <1>2, <2>3, LeadsOne, OfMembers
  <2> QED
    BY <1>6, <2>4 DEF P, Q
<1> QED
  BY <1>5, <1>6

\* stlink_flashloader_write: a page, then the rest.
LEMMA WritePasses ==
  ASSUME TypeOK, WritePage, cmd # AnyLine, NEW P, NEW Q, Turns(chip, cmd, Step, P, Q),
         Fixed(chip, Q)
  PROVE  /\ failed' = failed
         /\ \E calls \in Seq(CallRec) : /\ todo' = calls \o Tail(todo)
                                        /\ Leads(chip, cmd, calls, P, Q)
<1> DEFINE p == PageAt(chip, Step.at)
           next == FirstUnit(chip, p) + Extent(chip, p)
           x == [Step EXCEPT !.op = "load"]
           load == <<x>>
           page == IF chip.type \in {"F0_F1_F3", "F1_XL"}
                   THEN <<Call("unlock")>> \o load \o <<Call("lock")>> ELSE load
           more == [Step EXCEPT !.at = next]
           rest == IF next < Step.end THEN <<more>> ELSE <<>>
           R == PagesOf(chip, Step.at, Step.end)
           L == PagesOf(chip, next, Step.end)
<1>1. todo # <<>> /\ Step.op = "write" /\ Becomes(TRUE, page \o rest)
  BY DEF WritePage, At
<1>2. /\ Step \in CallRec /\ Step.at \in Nat /\ Step.end \in Nat /\ chip \in Chips
  BY <1>1, HeadIs DEF TypeOK
<1>3. failed' = failed /\ todo' = (page \o rest) \o Tail(todo)
  <2> HIDE DEF page, rest
  <2>1. failed \in BOOLEAN
    BY DEF TypeOK
  <2> QED
    BY <1>1, <2>1 DEF Becomes
<1>4. PICK N : /\ N \subseteq Pages(chip) /\ P \subseteq Primed(chip, R, N)
               /\ Primed(chip, {}, N \cup R) \subseteq Q
               /\ Step.at < Step.end /\ Step.end <= FlashSize(chip)
               /\ Known(chip) /\ Willing(chip)
  <2> HIDE DEF page, rest, L, p
  <2> QED
    BY <1>1 DEF Turns
<1>5. /\ p \in Pages(chip) /\ next = EndOf(chip, p) /\ next \in Nat
      /\ R = {p} \cup (IF next < Step.end THEN L ELSE {})
      /\ p \notin L
  <2> HIDE DEF page, rest, p
  <2>1. p = PageAt(chip, Step.at)
    BY DEF p
  <2> QED
    BY <1>2, <1>4, <2>1, PagesSplit
<1>6. x \in CallRec /\ x.op = "load" /\ x.at = Step.at
  <2> HIDE DEF page, rest, p
  <2> QED
    BY <1>2 DEF CallRec, Ops, RangeOps
<1>7. R \in SUBSET Pages(chip) /\ N \in SUBSET Pages(chip) /\ p \in R
  BY <1>4, <1>5 DEF PagesOf
<1>8. PageAt(chip, x.at) = p
  BY <1>6
<1> DEFINE M == Primed(chip, R \ {p}, N \cup {p})
<1>9. /\ page \in Seq(CallRec)
      /\ Leads(chip, cmd, page, Primed(chip, R, N), M)
  <2> HIDE DEF x, p, R, next
  <2> QED
    BY <1>2, <1>6, <1>7, <1>8, PageLoads
<1>10. Fixed(chip, M)
  <2>1. R \ {p} \in SUBSET Pages(chip)
    BY <1>7
  <2> HIDE DEF R, p
  <2> QED
    BY <1>2, <2>1, PrimedFixed
<1>11. rest \in Seq(CallRec) /\ Leads(chip, cmd, rest, M, Q)
  <2> HIDE DEF page, x, p
  <2>1. CASE next < Step.end
    <3>1. more \in CallRec /\ more.op = "write" /\ more.at = next /\ more.end = Step.end
      BY <1>1, <1>2, <1>5 DEF CallRec
    <3>2. R \ {p} = L /\ (N \cup {p}) \cup L = N \cup R
      BY <1>5, <2>1
    <3>3. more.at < FlashSize(chip) /\ more.end <= FlashSize(chip) /\ more.at < more.end
      BY <1>2, <1>4, <1>5, <2>1, <3>1 DEF FlashSize
    <3> HIDE DEF more, next
    <3>4. N \cup {p} \subseteq Pages(chip)
      BY <1>5, <1>7
    <3>5. M \subseteq Primed(chip, L, N \cup {p}) /\ Primed(chip, {}, (N \cup {p}) \cup L) \subseteq Q
      BY <1>4, <3>2
    <3> HIDE DEF M, R
    <3>6. Turns(chip, cmd, more, M, Q)
      BY <1>4, <3>1, <3>3, <3>4, <3>5 DEF Turns
    <3>7. Takes(chip, cmd, more, M, Q)
      BY <3>1, <3>6 DEF Takes, Replaced
    <3>8. <<more>> \in Seq(CallRec) /\ Leads(chip, cmd, <<more>>, M, Q)
      BY <1>10, <3>1, <3>7, LeadsOne, OfMembers
    <3> QED
      BY <2>1, <3>8
  <2>2. CASE ~(next < Step.end)
    <3>1. R \ {p} = {} /\ N \cup {p} = N \cup R
      BY <1>5, <2>2
    <3>2. M \subseteq Q
      BY <1>4, <3>1
    <3> HIDE DEF M
    <3>3. Leads(chip, cmd, <<>>, M, Q)
      BY <3>2, LeadsNone
    <3> QED
      BY <2>2, <3>3, EmptyIn
  <2> QED
    BY <2>1, <2>2
<1> HIDE DEF page, rest, M, R
<1>12. page \o rest \in Seq(CallRec) /\ Leads(chip, cmd, page \o rest, Primed(chip, R, N), Q)
  BY <1>9, <1>11, LeadsConcat
<1>13. Leads(chip, cmd, page \o rest, P, Q)
  BY <1>4, <1>12, LeadsMore
<1> QED
  BY <1>3, <1>12, <1>13

\* Erasing a range: its beginning is looked at, then page after page is erased.
LEMMA ErasePasses ==
  ASSUME TypeOK, EraseSection \/ EraseNext, cmd # AnyLine, NEW P, NEW Q,
         Turns(chip, cmd, Step, P, Q), Fixed(chip, Q)
  PROVE  /\ failed' = failed
         /\ \E calls \in Seq(CallRec) : /\ todo' = calls \o Tail(todo)
                                        /\ Leads(chip, cmd, calls, P, Q)
<1>1. todo # <<>> /\ Step.op \in {"erase_section", "erase_next"}
  BY DEF EraseSection, EraseNext, At
<1>2. /\ Step \in CallRec /\ Step.at \in Nat /\ Step.end \in Nat /\ chip \in Chips
      /\ Step.to \in Labels /\ failed \in BOOLEAN
  <2>1. Step \in CallRec /\ Fits(cmd, Step) /\ Step.at \in Nat /\ Step.end \in Nat
    BY <1>1, HeadIs
  <2> QED
    BY <1>1, <2>1 DEF Fits, RangeOps, TypeOK
<1>3. PICK T : /\ T \subseteq Pages(chip) /\ P \subseteq Trim(chip, T)
               /\ Trim(chip, T \cup PagesOf(chip, Step.at, Step.end)) \subseteq Q
  BY <1>1, Zenon DEF Turns
<1>4. /\ Step.at < FlashSize(chip) /\ Step.end <= FlashSize(chip) /\ Step.at < Step.end
      /\ PageBegins(chip, Step.at) /\ Known(chip) /\ Willing(chip)
      /\ cmd.do = "write" \/ Step.end = FlashSize(chip) \/ PageBegins(chip, Step.end)
  BY <1>1 DEF Turns
<1>5. T \in SUBSET Pages(chip) /\ Fixed(chip, Trim(chip, T))
  BY <1>2, <1>3, TrimFixed
<1>6. CASE EraseSection
  <2> DEFINE x == [Step EXCEPT !.op = "erase_next"]
             ok == InFlash(Step.at, Step.end) /\ Aligned(Step.at)
  <2>1. Becomes(ok, <<x>>)
    BY <1>6 DEF EraseSection
  <2>2. ok
    BY <1>2, <1>4, KnownView DEF InFlash, Aligned, PageBegins
  <2>3. todo' = <<x>> \o Tail(todo) /\ failed' = failed
    <3> HIDE DEF x, ok
    <3> QED
      BY <1>2, <2>1, <2>2 DEF Becomes
  <2>4. x \in CallRec /\ x.op = "erase_next" /\ x.at = Step.at /\ x.end = Step.end
    BY <1>2 DEF CallRec, Ops, RangeOps
  <2> HIDE DEF x, ok
  <2>5. Turns(chip, cmd, x, Trim(chip, T), Q)
    BY <1>3, <1>4, <2>4 DEF Turns
  <2>6. Takes(chip, cmd, x, Trim(chip, T), Q)
    BY <2>4, <2>5 DEF Takes, Replaced
  <2>7. <<x>> \in Seq(CallRec) /\ Leads(chip, cmd, <<x>>, Trim(chip, T), Q)
    BY <1>5, <2>4, <2>6, LeadsOne, OfMembers
  <2>8. Leads(chip, cmd, <<x>>, P, Q)
    BY <1>3, <2>7, LeadsMore
  <2> QED
    BY <2>3, <2>7, <2>8
<1>7. CASE EraseNext
  <2> DEFINE next == Step.at + PageSize(chip, Step.at)
             more == [Step EXCEPT !.at = next]
             rest == IF next < Step.end THEN <<more>> ELSE <<>>
             ok == next <= Step.end \/ cmd.do = "write"
             body == EraseFlashPage(Step.at, Step.to)
             L == PagesOf(chip, next, Step.end)
  <2>1. Becomes(ok, body \o rest) /\ Step.op = "erase_next"
    BY <1>7 DEF EraseNext, At
  <2>2. PICK p \in Pages(chip) : FirstUnit(chip, p) = Step.at
    BY <1>4 DEF PageBegins
  <2>3. PageAt(chip, Step.at) = p /\ next = EndOf(chip, p)
    <3>1. PageAt(chip, Step.at) = p /\ Step.at + Extent(chip, p) = EndOf(chip, p)
      BY <1>2, <2>2, PageEnds
    <3>2. PageSize(chip, Step.at) = Extent(chip, p)
      BY <1>2, <1>4, <3>1, KnownView
    <3> QED
      BY <3>1, <3>2
  <2>4. /\ next \in Nat
        /\ PagesOf(chip, Step.at, Step.end) = {p} \cup (IF next < Step.end THEN L ELSE {})
        /\ next < Step.end => p + 1 \in Pages(chip) /\ next = FirstUnit(chip, p + 1)
    <3> HIDE DEF next, body, rest, more
    <3> QED
      BY <1>2, <1>4, <2>3, PagesSplit
  <2>5. ok
    <3> HIDE DEF next
    <3>1. CASE Step.end = FlashSize(chip)
      <4>1. EndOf(chip, p) <= FlashSize(chip)
        <5>1. CASE p + 1 \in Pages(chip)
          <6>1. FirstUnit(chip, p + 1) \in Nat /\ FirstUnit(chip, p + 1) < FlashSize(chip)
            BY <1>2, <5>1, PagesInFlash
          <6> QED
            BY <5>1, <6>1 DEF EndOf, FlashSize
        <5>2. CASE p + 1 \notin Pages(chip)
          BY <5>2 DEF EndOf, FlashSize
        <5> QED
          BY <5>1, <5>2
      <4> QED
        BY <2>3, <3>1, <4>1
    <3>2. CASE PageBegins(chip, Step.end)
      <4>1. PICK q \in Pages(chip) : FirstUnit(chip, q) = Step.end
        BY <3>2 DEF PageBegins
      <4>2. /\ q \in Nat /\ p \in Nat /\ EndOf(chip, p) \in Nat
            /\ (FirstUnit(chip, q) < EndOf(chip, p) <=> q <= p)
            /\ (p < q <=> FirstUnit(chip, p) < FirstUnit(chip, q))
        BY <1>2, PageOrder, PagesGrow
      <4>3. p < q
        BY <1>4, <2>2, <4>1, <4>2
      <4>4. ~(q <= p)
        BY <4>2, <4>3
      <4> QED
        BY <1>2, <2>3, <4>1, <4>2, <4>4
    <3>3. CASE cmd.do = "write"
      BY <3>3
    <3> QED
      BY <1>4, <3>1, <3>2, <3>3
  <2>6. todo' = (body \o rest) \o Tail(todo) /\ failed' = failed
    <3> HIDE DEF body, rest, ok
    <3> QED
      BY <1>2, <2>1, <2>5 DEF Becomes
  <2> HIDE DEF next, ok
  <2>7. /\ body \in Seq(CallRec)
        /\ Leads(chip, cmd, body, Trim(chip, T), Trim(chip, T \cup {p}))
    <3> HIDE DEF more, rest, L
    <3> QED
      BY <1>2, <1>4, <1>5, <2>3, ErasePagePasses
  <2> HIDE DEF body
  <2>8. T \cup {p} \in SUBSET Pages(chip) /\ Fixed(chip, Trim(chip, T \cup {p}))
    <3>1. T \cup {p} \in SUBSET Pages(chip)
      BY <1>5
    <3> QED
      BY <1>2, <3>1, TrimFixed
  <2>9. rest \in Seq(CallRec) /\ Leads(chip, cmd, rest, Trim(chip, T \cup {p}), Q)
    <3>1. CASE next < Step.end
      <4>1. more \in CallRec /\ more.op = "erase_next" /\ more.at = next /\ more.end = Step.end
        BY <1>2, <2>1, <2>4 DEF CallRec
      <4> HIDE DEF more
      <4>2. (T \cup {p}) \cup L = T \cup PagesOf(chip, Step.at, Step.end)
        BY <2>4, <3>1
      <4>3. PageBegins(chip, more.at)
        BY <2>4, <3>1, <4>1 DEF PageBegins
      <4>4. more.at < FlashSize(chip) /\ more.at < more.end /\ more.end <= FlashSize(chip)
        BY <1>2, <1>4, <2>4, <3>1, <4>1 DEF FlashSize
      <4>5. Trim(chip, (T \cup {p}) \cup PagesOf(chip, more.at, more.end)) \subseteq Q
        BY <1>3, <4>1, <4>2
      <4>6. T \cup {p} \subseteq Pages(chip)
        BY <2>8
      <4>7. Turns(chip, cmd, more, Trim(chip, T \cup {p}), Q)
        BY <1>4, <4>1, <4>3, <4>4, <4>5, <4>6 DEF Turns
      <4>8. Takes(chip, cmd, more, Trim(chip, T \cup {p}), Q)
        BY <4>1, <4>7 DEF Takes, Replaced
      <4>9. <<more>> \in Seq(CallRec) /\ Leads(chip, cmd, <<more>>, Trim(chip, T \cup {p}), Q)
        BY <2>8, <4>1, <4>8, LeadsOne, OfMembers
      <4> QED
        BY <3>1, <4>9
    <3>2. CASE ~(next < Step.end)
      <4>1. Trim(chip, T \cup {p}) \subseteq Q
        BY <1>3, <2>4, <3>2
      <4>2. Leads(chip, cmd, <<>>, Trim(chip, T \cup {p}), Q)
        BY <4>1, LeadsNone
      <4> QED
        BY <3>2, <4>2, EmptyIn
    <3> QED
      BY <3>1, <3>2
  <2> HIDE DEF rest
  <2>10. body \o rest \in Seq(CallRec) /\ Leads(chip, cmd, body \o rest, Trim(chip, T), Q)
    BY <2>7, <2>9, LeadsConcat
  <2>11. Leads(chip, cmd, body \o rest, P, Q)
    BY <1>3, <2>10, LeadsMore
  <2> QED
    BY <2>6, <2>10, <2>11
<1> QED
  BY <1>6, <1>7

\* A step that Turns speaks of does not fail, and what it becomes leads where it led.
LEMMA TurnsOn ==
  ASSUME TypeOK, EraseSection \/ EraseNext \/ WritePage \/ CheckRange \/ Unsupported,
         cmd # AnyLine, NEW P, NEW Q, Turns(chip, cmd, Step, P, Q), Fixed(chip, Q)
  PROVE  /\ failed' = failed
         /\ \E calls \in Seq(CallRec) : /\ todo' = calls \o Tail(todo)
                                        /\ Leads(chip, cmd, calls, P, Q)
<1>1. CASE EraseSection \/ EraseNext
  BY <1>1, ErasePasses
<1>2. CASE WritePage
  BY <1>2, WritePasses
<1>3. CASE CheckRange
  <2> DEFINE ok == InFlash(Step.at, Step.end) /\ (Padded(cmd) \/ Aligned(Step.at))
  <2>1. Step.op = "check_range" /\ Becomes(ok, <<>>)
    BY <1>3 DEF CheckRange, At
  <2>2. ok /\ P \subseteq Q
    <3>1. chip \in Chips /\ Known(chip)
      BY DEF TypeOK, Turns
    <3>2. CodeView(chip) = chip
      BY <3>1, KnownView
    <3> QED
      BY <2>1, <3>2 DEF Turns, InFlash, Padded, Aligned, PageBegins
  <2>3. failed \in BOOLEAN
    BY DEF TypeOK
  <2> HIDE DEF ok
  <2>4. todo' = <<>> \o Tail(todo) /\ failed' = failed
    BY <2>1, <2>2, <2>3 DEF Becomes
  <2> QED
    BY <2>2, <2>4, LeadsNone, EmptyIn
<1>4. CASE Unsupported
  <2>1. Step.op = "unsupported"
    BY <1>4 DEF Unsupported, At
  <2> QED
    BY <2>1 DEF Turns
<1> QED
  BY <1>1, <1>2, <1>3, <1>4

-----------------------------------------------------------------------------
(***************************************************************************)
(* The last calls of a write, and the writers of option bytes.             *)
(***************************************************************************)

\* Nothing takes a controller out of the set of all of them.
LEMMA AnyTakes ==
  ASSUME NEW c \in Chips, NEW k, NEW x, x.op \notin Replaced, NEW P, P \subseteq Controller(c),
         x.op \in {"check_errors", "verify", "unlock_options", "change_options"} => x.to = ""
  PROVE  Takes(c, k, x, P, Controller(c)) /\ Fixed(c, Controller(c))
<1>1. Fixed(c, Controller(c))
  BY FinishDoes DEF Fixed
<1>2. \A t : x.to # "" => Passes(c, k, x, t)
  BY DEF Passes
<1> QED
  BY <1>1, <1>2 DEF Takes

\* Controllers at rest that show no error, the pages N written.
Loaded(c, N) == {t \in Controller(c) : Still(t) /\ t.sr = {} /\ \A p \in N : t.mem[p] = "new"}

\* What was written stays written while the loader is stopped.
LEMMA LoadedTakes ==
  ASSUME NEW c \in Chips, NEW k, NEW N, NEW x, x.op \in LoaderStops \/ x.op = "check_errors"
  PROVE  Takes(c, k, x, Loaded(c, N), Loaded(c, N))
<1> SUFFICES ASSUME NEW t \in Loaded(c, N), NEW a, NEW u \in Controller(c), NEW bk,
                    Does(c, x, t, a, u, bk)
             PROVE  u \in Loaded(c, N)
  <2>1. /\ x.op \notin Replaced /\ x.op # "verify" /\ x.op # "unlock_options"
        /\ x.op # "change_options"
    BY DEF Replaced, LoaderStops
  <2>2. \A t \in Loaded(c, N) : Passes(c, k, x, t)
    BY <2>1 DEF Passes, Loaded
  <2> QED
    BY <2>1, <2>2 DEF Takes
<1>1. t \in Controller(c) /\ Still(t) /\ t.sr = {} /\ \A p \in N : t.mem[p] = "new"
  BY DEF Loaded
<1>2. u.job = t.job /\ u.mem = t.mem /\ u.sr = t.sr
  <2>1. CASE x.op \in {"unmask", "check_errors"}
    <3>1. x.op \in Idle
      BY <2>1 DEF Idle
    <3> QED
      BY <3>1 DEF Does, Alike
  <2>2. CASE x.op = "lock_PECR"
    <3>1. u = PecrLock(c, t, Good)
      BY <2>2 DEF Does
    <3> QED
      BY <1>1, <3>1 DEF PecrLock, Controller
  <2>3. CASE x.op = "lock"
    <3>1. u = LockFlash(c, t, Good)
      BY <2>3 DEF Does
    <3> QED
      BY <1>1, <3>1, LockSame DEF SameFlash, SameErrors
  <2>4. CASE x.op = "clear_PG"
    <3>1. u = ClearFlashCrPg(c, t, x.at, Good)
      BY <2>4 DEF Does
    <3>2. \A b, bits : LET v == WriteCr(c, t, b, bits, Good)
                       IN  v.job = t.job /\ v.mem = t.mem /\ v.sr = t.sr
      BY <1>1 DEF WriteCr, Controller
    <3> QED
      BY <3>1, <3>2 DEF ClearFlashCrPg
  <2>5. CASE x.op = "DMA_back"
    <3>1. u = DmaBack(c, t, a, Good)
      BY <2>5 DEF Does
    <3> QED
      BY <1>1, <3>1 DEF DmaBack, Controller
  <2> QED
    BY <2>1, <2>2, <2>3, <2>4, <2>5 DEF LoaderStops
<1> QED
  BY <1>1, <1>2 DEF Loaded, Still

\* ... and while it waits.
LEMMA LoadedFixed ==
  ASSUME NEW c \in Chips, NEW N \in SUBSET Pages(c)
  PROVE  Fixed(c, Loaded(c, N)) /\ Primed(c, {}, N) \subseteq Loaded(c, N)
BY DEF Fixed, Loaded, Still, Primed, Resting, Kept

\* stlink_flashloader_stop does not fail.
LEMMA StopPasses ==
  ASSUME chip \in Chips, NEW k, NEW N \in SUBSET Pages(chip)
  PROVE  /\ FlashloaderStop \in Seq(CallRec)
         /\ Leads(chip, k, FlashloaderStop, Loaded(chip, N), Loaded(chip, N))
<1>1. FlashloaderStop \in Seq(Of(LoaderStops))
  BY LoaderStopCloses
<1>2. Fixed(chip, Loaded(chip, N))
  BY LoadedFixed
<1>3. \A x \in Of(LoaderStops) : Takes(chip, k, x, Loaded(chip, N), Loaded(chip, N))
  BY LoadedTakes DEF Of
<1>4. Leads(chip, k, FlashloaderStop, Loaded(chip, N), Loaded(chip, N))
  BY <1>1, <1>2, <1>3, LeadsAll
<1>5. Of(LoaderStops) \subseteq CallRec
  BY DEF Of
<1> QED
  BY <1>1, <1>4, <1>5, SeqMonotonic

\* The calls of the writers of option bytes.
OptionOps == {"wait", "unlock", "unlock_options", "relock", "lock", "clear_errors", "check_errors",
              "begin_options", "change_options", "erase_options", "init_loader", "read_register",
              "program_options"}

\* They set no error, unless the chip refuses the change.
LEMMA OptionSparing ==
  ASSUME chip \in Chips, HasOptionLock(chip), ~chip.refuses
  PROVE  Of(OptionOps) \subseteq Sparing(chip, {})
<1> SUFFICES ASSUME NEW x \in CallRec, x.op \in OptionOps
             PROVE  x \in Sparing(chip, {})
  BY DEF Of
<1>1. /\ x.op \notin Replaced \cup {"load"} /\ x.op \notin BankOps /\ x.op # "select"
      /\ x.op # "verify" /\ x.op # "start"
  BY DEF OptionOps, Replaced, BankOps
<1>2. x.op \in Ops \cup {"leave"} /\ x.at \in Nat
  BY DEF CallRec
<1>3. Sound(chip, x)
  BY <1>1, <1>2 DEF Sound
<1>4. Spares(chip, {}, x)
  BY <1>1, <1>3 DEF Spares
<1> QED
  BY <1>1, <1>4 DEF Sparing

\* The writers that a chip has make such calls only.
LEMMA ProgramOptionsOf ==
  ASSUME chip \in Chips, NEW do \in OptionCommands, Implements(do)
  PROVE  ProgramOptions(do) \in Seq(Of(OptionOps)) /\ HasOptionLock(chip)
<1> DEFINE O == OptionOps
<1>1. O \in SUBSET (Ops \cup {"leave"}) /\ "relock" \in Labels
  BY DEF OptionOps, Ops, FreeOps, LabelOps, Labels
<1>2. \A f \in O : Call(f) \in Of(O) /\ Try(f, "relock") \in Of(O)
  BY <1>1, OfCalls
<1>3. /\ "wait" \in O /\ "clear_errors" \in O /\ "check_errors" \in O /\ "begin_options" \in O
      /\ "erase_options" \in O /\ "init_loader" \in O /\ "program_options" \in O
      /\ "change_options" \in O /\ "read_register" \in O
  BY DEF OptionOps
<1> HIDE DEF O
<1>4. /\ Call("clear_errors") \in Of(O) /\ Call("wait") \in Of(O) /\ Call("check_errors") \in Of(O)
      /\ Call("begin_options") \in Of(O) /\ Try("begin_options", "relock") \in Of(O)
      /\ Try("check_errors", "relock") \in Of(O) /\ Try("erase_options", "relock") \in Of(O)
      /\ Try("init_loader", "relock") \in Of(O) /\ Try("program_options", "relock") \in Of(O)
      /\ Try("change_options", "relock") \in Of(O) /\ Try("read_register", "relock") \in Of(O)
  BY <1>2, <1>3
<1>5. /\ Checked \in Seq(Of(O))
      /\ <<Call("clear_errors"), Call("begin_options")>> \in Seq(Of(O))
      /\ <<Call("clear_errors"), Call("wait"), Call("check_errors"), Call("begin_options")>>
           \in Seq(Of(O))
      /\ <<Call("clear_errors"), Call("wait"), Try("begin_options", "relock")>> \in Seq(Of(O))
      /\ <<Call("wait"), Try("change_options", "relock")>> \in Seq(Of(O))
      /\ <<Call("clear_errors"), Try("read_register", "relock"), Try("read_register", "relock")>>
           \in Seq(Of(O))
      /\ <<Try("check_errors", "relock")>> \in Seq(Of(O))
      /\ <<Call("clear_errors"), Try("erase_options", "relock")>> \in Seq(Of(O))
      /\ <<Try("init_loader", "relock"), Try("program_options", "relock"),
           Try("check_errors", "relock")>> \in Seq(Of(O))
  BY <1>4, OfMembers DEF Checked
<1>6. /\ BeginAndCheck \in Seq(Of(O)) /\ WordsThenBegin \in Seq(Of(O))
      /\ OptionRegisterC0 \in Seq(Of(O)) /\ OptionBytesH7 \in Seq(Of(O))
  BY <1>5, SeqConcat DEF BeginAndCheck, WordsThenBegin, OptionRegisterC0, OptionBytesH7
<1>7. OptionBytesF0 \in Seq(Of(O)) /\ OptionRegisterF0 \in Seq(Of(O))
  <2>1. OptionBytesF0 \in Seq(Of(O))
    BY <1>5, SeqConcat DEF OptionBytesF0
  <2> QED
    BY <1>5, <2>1, SeqConcat DEF OptionRegisterF0
<1>8. /\ OptionBytesF4 = BeginAndCheck /\ OptionBytesF7 = BeginAndCheck
      /\ OptionRegisterF7 = BeginAndCheck /\ OptionRegister1F7 = BeginAndCheck
      /\ OptionBytesGx = BeginAndCheck /\ OptionBytesL0 = BeginAndCheck
      /\ OptionBytesL4 = BeginAndCheck /\ OptionRegisterWb = BeginAndCheck
      /\ OptionBytesWb = WordsThenBegin /\ OptionBytesL5 = WordsThenBegin
  BY DEF OptionBytesF4, OptionBytesF7, OptionRegisterF7, OptionRegister1F7, OptionBytesGx,
         OptionBytesL0, OptionBytesL4, OptionRegisterWb, OptionBytesWb, OptionBytesL5
<1>9. chip.type \in Families /\ chip.type \notin {"H5", "C5", "WB0"}
  BY DEF Chips, OptionCommands, Implements, HasOptionLock
<1>10. CASE chip.type \in {"F0_F1_F3", "F1_XL"}
  BY <1>7, <1>9, <1>10 DEF ProgramOptions, HasOptionLock, O
<1>11. CASE chip.type \notin {"F0_F1_F3", "F1_XL"}
  BY <1>6, <1>8, <1>9, <1>11 DEF ProgramOptions, Families, HasOptionLock, O
<1> QED
  BY <1>10, <1>11

\* The writer of options that the chip implements does not fail.
LEMMA OptionsPass ==
  ASSUME chip \in Chips, NEW k, k # AnyLine, NEW do \in OptionCommands, Implements(do),
         ~chip.refuses, NEW l \in Labels
  PROVE  /\ WriteOptions(do, l) \in Seq(CallRec)
         /\ Leads(chip, k, WriteOptions(do, l), Free(chip, {}), Free(chip, {}))
<1> DEFINE O == OptionOps
           A == <<Call("wait"), Try("unlock", l), Try("unlock_options", l)>>
           B == ProgramOptions(do)
           C == <<Call("relock"), Call("lock")>>
<1>1. B \in Seq(Of(O)) /\ HasOptionLock(chip)
  BY ProgramOptionsOf
<1>2. A \in Seq(Of(O)) /\ C \in Seq(Of(O))
  <2>1. O \in SUBSET (Ops \cup {"leave"})
    BY DEF OptionOps, Ops, FreeOps, LabelOps
  <2>2. /\ "wait" \in O /\ "unlock" \in O /\ "unlock_options" \in O /\ "relock" \in O
        /\ "lock" \in O
    BY DEF OptionOps
  <2> HIDE DEF O
  <2>3. /\ Call("wait") \in Of(O) /\ Try("unlock", l) \in Of(O) /\ Try("unlock_options", l) \in Of(O)
        /\ Call("relock") \in Of(O) /\ Call("lock") \in Of(O)
    BY <2>1, <2>2, OfCalls
  <2> QED
    BY <2>3, OfMembers
<1>3. WriteOptions(do, l) = (A \o B) \o C
  BY DEF WriteOptions
<1> HIDE DEF A, B, C
<1>4. (A \o B) \o C \in Seq(Of(O))
  BY <1>1, <1>2, SeqConcat
<1>5. (A \o B) \o C \in Seq(Sparing(chip, {}))
  BY <1>1, <1>4, OptionSparing, SeqMonotonic
<1>6. {} \in SUBSET {"PG", "PER", "MER"}
  OBVIOUS
<1> QED
  BY <1>3, <1>5, <1>6, LeadsFree

\* What is ready to program one set of pages is ready to program a smaller one.
LEMMA PrimedLess ==
  ASSUME NEW c, NEW R, NEW T, R \subseteq T, NEW N
  PROVE  Primed(c, T, N) \subseteq Primed(c, R, N)
BY DEF Primed, Resting, Kept

\* A range that may be written.
Writing(k) == /\ k.addr \in Nat /\ k.len \in Nat /\ k.len > 0 /\ k.do = "write"
              /\ InFlash(k.addr, k.addr + k.len)
              /\ (k.mass /\ Padded(k)) \/ Aligned(k.addr)
              /\ Known(chip) /\ Willing(chip) /\ (k.mass => MassCovers(chip))

\* From the loader's start to the verification.
LEMMA LoadPasses ==
  ASSUME chip \in Chips, NEW k, k # AnyLine, Writing(k), NEW l \in Labels,
         NEW T \in SUBSET Pages(chip), PagesOf(chip, k.addr, k.addr + k.len) \subseteq T,
         NEW s, s = FlashloaderStart(l)
                      \o <<Over("write", k.addr, k.addr + k.len, l), Try("check_errors", l)>>
                      \o FlashloaderStop
                      \o <<Over("verify", k.addr, k.addr + k.len, l)>>
  PROVE  /\ s \in Seq(CallRec)
         /\ Leads(chip, k, s, Resting(chip, T) \cap Free(chip, {}), Controller(chip))
<1> DEFINE e == k.addr + k.len
           N == PagesOf(chip, k.addr, e)
           w == Over("write", k.addr, e, l)
           check == Try("check_errors", l)
           v == Over("verify", k.addr, e, l)
           P == Resting(chip, T) \cap Free(chip, {})
           A == Primed(chip, T, {})
           B == Primed(chip, {}, N)
           W == Loaded(chip, N)
           Z == Controller(chip)
           start == FlashloaderStart(l)
           stop == FlashloaderStop
<1>1. /\ k.addr \in Nat /\ e \in Nat /\ k.addr < e /\ k.addr < FlashSize(chip)
      /\ e <= FlashSize(chip) /\ Known(chip) /\ Willing(chip)
  BY DEF Writing, InFlash
<1>2. N \in SUBSET Pages(chip) /\ {} \in SUBSET Pages(chip) /\ N \subseteq T
  BY DEF PagesOf
<1>3. /\ w \in CallRec /\ check \in CallRec /\ v \in CallRec
  <2>1. "write" \in Ops /\ "verify" \in Ops /\ "check_errors" \in Ops
    BY DEF Ops, RangeOps, FreeOps
  <2> HIDE DEF e
  <2> QED
    BY <1>1, <2>1, CallsAreRecords
<1>4. /\ w.op = "write" /\ w.at = k.addr /\ w.end = e
      /\ check.op = "check_errors" /\ v.op = "verify"
  BY DEF Call, Try, TryOn, Over
<1>5. Fixed(chip, A) /\ Fixed(chip, B) /\ Fixed(chip, W) /\ Fixed(chip, Z)
  <2>1. Fixed(chip, Z)
    BY FinishDoes DEF Fixed
  <2> QED
    BY <1>2, <2>1, PrimedFixed, LoadedFixed
<1>6. s = (((start \o <<w, check>>) \o stop) \o <<v>>)
  BY DEF start, stop
<1>7. start \in Seq(CallRec) /\ Leads(chip, k, start, P, A)
  BY <1>1, StartPasses
<1>8. stop \in Seq(CallRec) /\ Leads(chip, k, stop, W, W)
  BY <1>2, StopPasses
<1>9. \A t \in W : Written(chip, k, t)
  BY DEF Written, Loaded, PagesOf
<1> HIDE DEF w, check, v, e, start, stop
<1>10. Takes(chip, k, w, A, B)
  <2>1. A \subseteq Primed(chip, PagesOf(chip, w.at, w.end), {})
    BY <1>2, <1>4, PrimedLess
  <2>2. Primed(chip, {}, {} \cup PagesOf(chip, w.at, w.end)) \subseteq B
    <3>1. {} \cup PagesOf(chip, w.at, w.end) = N
      BY <1>4
    <3> QED
      BY <3>1
  <2> HIDE DEF A, B
  <2>3. Turns(chip, k, w, A, B)
    BY <1>1, <1>4, <2>1, <2>2 DEF Turns
  <2> QED
    BY <1>4, <2>3 DEF Takes, Replaced
<1>11. Takes(chip, k, check, B, W)
  <2>1. Takes(chip, k, check, W, W)
    BY <1>4, LoadedTakes
  <2>2. B \subseteq W
    BY <1>2, LoadedFixed
  <2> HIDE DEF B, W
  <2> QED
    BY <2>1, <2>2, TakesMore
<1>12. Takes(chip, k, v, W, Z)
  <2>1. v.op \notin Replaced
    BY <1>4 DEF Replaced
  <2>2. \A t \in W : Passes(chip, k, v, t)
    BY <1>4, <1>9 DEF Passes
  <2> HIDE DEF W
  <2> QED
    BY <1>4, <2>1, <2>2 DEF Takes
<1> SUFFICES s \in Seq(CallRec) /\ Leads(chip, k, s, P, Z)
  OBVIOUS
<1> HIDE DEF P, A, B, W, Z
<1>13. <<w, check>> \in Seq(CallRec) /\ Leads(chip, k, <<w, check>>, A, W)
  BY <1>3, <1>5, <1>10, <1>11, LeadsTwo
<1>14. <<v>> \in Seq(CallRec) /\ Leads(chip, k, <<v>>, W, Z)
  BY <1>3, <1>5, <1>12, LeadsOne, OfMembers
<1>15. start \o <<w, check>> \in Seq(CallRec) /\ Leads(chip, k, start \o <<w, check>>, P, W)
  BY <1>7, <1>13, LeadsConcat
<1>16. /\ (start \o <<w, check>>) \o stop \in Seq(CallRec)
       /\ Leads(chip, k, (start \o <<w, check>>) \o stop, P, W)
  BY <1>8, <1>15, LeadsConcat
<1>17. /\ ((start \o <<w, check>>) \o stop) \o <<v>> \in Seq(CallRec)
       /\ Leads(chip, k, ((start \o <<w, check>>) \o stop) \o <<v>>, P, Z)
  BY <1>14, <1>16, LeadsConcat
<1> QED
  BY <1>6, <1>17

\* stlink_write_flash of a range that may be written does not fail.
LEMMA WriteFlashPasses ==
  ASSUME chip \in Chips, NEW k, k # AnyLine, Writing(k), k.mass \in BOOLEAN, NEW l \in Labels
  PROVE  /\ WriteFlash(k, l) \in Seq(CallRec)
         /\ Leads(chip, k, WriteFlash(k, l),
                  IF k.mass THEN Resting(chip, Pages(chip)) \cap Free(chip, {}) ELSE Trim(chip, {}),
                  Controller(chip))
<1> DEFINE e == k.addr + k.len
           N == PagesOf(chip, k.addr, e)
           c == Over("check_range", k.addr, e, l)
           x == <<Over("erase_section", k.addr, e, l)>>
           s == FlashloaderStart(l) \o <<Over("write", k.addr, e, l), Try("check_errors", l)>>
                  \o FlashloaderStop \o <<Over("verify", k.addr, e, l)>>
           a == FlashloaderStart(l)
           b == <<Over("write", k.addr, e, l), Try("check_errors", l)>>
           d == FlashloaderStop
           v == <<Over("verify", k.addr, e, l)>>
           Z == Controller(chip)
<1>1. /\ k.addr \in Nat /\ e \in Nat /\ k.addr < e /\ k.addr < FlashSize(chip)
      /\ e <= FlashSize(chip) /\ Known(chip) /\ Willing(chip)
  BY DEF Writing, InFlash
<1>2. N \in SUBSET Pages(chip) /\ {} \in SUBSET Pages(chip) /\ Pages(chip) \in SUBSET Pages(chip)
  BY DEF PagesOf
<1>3. ASSUME NEW T \in SUBSET Pages(chip), N \subseteq T
      PROVE  s \in Seq(CallRec) /\ Leads(chip, k, s, Resting(chip, T) \cap Free(chip, {}), Z)
  BY <1>3, LoadPasses
<1>4. c \in CallRec /\ c.op = "check_range" /\ c.at = k.addr /\ c.end = e
  <2>1. "check_range" \in Ops
    BY DEF Ops, Refusals
  <2>2. c \in CallRec
    <3> HIDE DEF e
    <3> QED
      BY <1>1, <2>1, CallsAreRecords
  <2> QED
    BY <2>2 DEF Call, Try, TryOn, Over
<1>5. ASSUME NEW P  PROVE Takes(chip, k, c, P, P)
  <2>1. (k.odd /\ chip.type # "C5") \/ PageBegins(chip, c.at)
    <3>1. CodeView(chip) = chip
      BY <1>1, KnownView
    <3> QED
      BY <1>4, <3>1 DEF Writing, Padded, Aligned, PageBegins
  <2> HIDE DEF c, e
  <2>2. Turns(chip, k, c, P, P)
    BY <1>1, <1>4, <2>1 DEF Turns
  <2> QED
    BY <1>4, <2>2 DEF Takes, Replaced
<1>6. WriteFlash(k, l) = IF k.mass THEN <<c>> \o s ELSE <<c>> \o (x \o s)
  <2>1. WriteFlash(k, l) = <<c>> \o (IF k.mass THEN <<>> ELSE x) \o a \o b \o d \o v
    BY DEF WriteFlash
  <2>2. s = ((a \o b) \o d) \o v
    OBVIOUS
  <2>3. /\ <<c>> \in Seq(CallRec) /\ x \in Seq(CallRec) /\ a \in Seq(CallRec) /\ b \in Seq(CallRec)
        /\ d \in Seq(CallRec) /\ v \in Seq(CallRec)
    <3>1. "write" \in Ops /\ "verify" \in Ops /\ "check_errors" \in Ops /\ "erase_section" \in Ops
      BY DEF Ops, RangeOps, FreeOps
    <3>2. /\ Over("write", k.addr, e, l) \in CallRec /\ Over("verify", k.addr, e, l) \in CallRec
          /\ Try("check_errors", l) \in CallRec /\ Over("erase_section", k.addr, e, l) \in CallRec
      <4> HIDE DEF e
      <4> QED
        BY <1>1, <3>1, CallsAreRecords
    <3>3. a \in Seq(CallRec) /\ d \in Seq(CallRec)
      BY <1>1, <1>2, StartPasses, StopPasses
    <3> QED
      BY <1>4, <3>2, <3>3, OfMembers
  <2> HIDE DEF c, x, a, b, d, v, s
  <2>4. /\ a \o b \in Seq(CallRec) /\ x \o a \in Seq(CallRec) /\ (a \o b) \o d \in Seq(CallRec)
        /\ ((a \o b) \o d) \o v \in Seq(CallRec)
    BY <2>3, SeqConcat
  <2>5. CASE k.mass
    <3>1. WriteFlash(k, l) = <<c>> \o <<>> \o a \o b \o d \o v
      BY <2>1, <2>5
    <3>2. <<c>> \o <<>> = <<c>>
      OBVIOUS
    <3>3. <<c>> \o a \o b \o d \o v = <<c>> \o (((a \o b) \o d) \o v)
      <4>1. /\ <<c>> \o a \in Seq(CallRec) /\ (<<c>> \o a) \o b = <<c>> \o (a \o b)
        BY <2>3, SeqConcat
      <4>2. (<<c>> \o (a \o b)) \o d = <<c>> \o ((a \o b) \o d)
        BY <2>3, <2>4
      <4>3. (<<c>> \o ((a \o b) \o d)) \o v = <<c>> \o (((a \o b) \o d) \o v)
        BY <2>3, <2>4
      <4> QED
        BY <4>1, <4>2, <4>3
    <3> QED
      BY <2>2, <2>5, <3>1, <3>2, <3>3
  <2>6. CASE ~k.mass
    <3>1. WriteFlash(k, l) = <<c>> \o x \o a \o b \o d \o v
      BY <2>1, <2>6
    <3>2. <<c>> \o x \o a \o b \o d \o v = <<c>> \o (x \o (((a \o b) \o d) \o v))
      <4> DEFINE y == <<c>> \o x
      <4>1. y \in Seq(CallRec)
        BY <2>3, SeqConcat
      <4> HIDE DEF y
      <4>2. (y \o a) \o b = y \o (a \o b)
        BY <2>3, <4>1
      <4>3. (y \o (a \o b)) \o d = y \o ((a \o b) \o d)
        BY <2>3, <2>4, <4>1
      <4>4. (y \o ((a \o b) \o d)) \o v = y \o (((a \o b) \o d) \o v)
        <5> DEFINE m == (a \o b) \o d
        <5>1. m \in Seq(CallRec)
          BY <2>4
        <5> HIDE DEF m
        <5>2. (y \o m) \o v = y \o (m \o v)
          BY <2>3, <4>1, <5>1
        <5> QED
          BY <5>2 DEF m
      <4>5. y \o (((a \o b) \o d) \o v) = <<c>> \o (x \o (((a \o b) \o d) \o v))
        <5> DEFINE m == ((a \o b) \o d) \o v
        <5>1. m \in Seq(CallRec)
          BY <2>3, <2>4, SeqConcat
        <5> HIDE DEF m
        <5>2. (<<c>> \o x) \o m = <<c>> \o (x \o m)
          BY <2>3, <5>1
        <5> QED
          BY <5>2 DEF m, y
      <4> QED
        BY <4>2, <4>3, <4>4, <4>5 DEF y
    <3> QED
      BY <2>2, <2>6, <3>1, <3>2
  <2> QED
    BY <2>5, <2>6
<1> HIDE DEF c, s, a, b, d, v
<1>7. CASE k.mass
  <2> DEFINE P == Resting(chip, Pages(chip)) \cap Free(chip, {})
  <2>1. s \in Seq(CallRec) /\ Leads(chip, k, s, P, Z)
    BY <1>2, <1>3
  <2>2. Fixed(chip, P)
    BY <1>2, TrimFixed
  <2> HIDE DEF P, Z
  <2>3. <<c>> \o s \in Seq(CallRec) /\ Leads(chip, k, <<c>> \o s, P, Z)
    BY <1>4, <1>5, <2>1, <2>2, LeadsFirst
  <2> QED
    BY <1>6, <1>7, <2>3 DEF P, Z
<1>8. CASE ~k.mass
  <2> DEFINE P == Trim(chip, {})
             Q == Trim(chip, N)
  <2>1. s \in Seq(CallRec) /\ Leads(chip, k, s, Q, Z)
    <3>1. s \in Seq(CallRec) /\ Leads(chip, k, s, Resting(chip, N) \cap Free(chip, {}), Z)
      BY <1>2, <1>3
    <3>2. Q \subseteq Resting(chip, N) \cap Free(chip, {})
      BY NeatIs DEF Trim
    <3> HIDE DEF Q, Z, N
    <3> QED
      BY <3>1, <3>2, LeadsMore
  <2>2. x \in Seq(CallRec) /\ Leads(chip, k, x, P, Q)
    <3>1. PageBegins(chip, k.addr) /\ k.do = "write"
      BY <1>1, <1>8, KnownView DEF Writing, Aligned, PageBegins
    <3>2. x \in Seq(CallRec) /\ Leads(chip, k, x, P, Trim(chip, {} \cup N))
      <4> HIDE DEF e
      <4> QED
        BY <1>1, <1>2, <3>1, RangePasses
    <3>3. {} \cup N = N
      OBVIOUS
    <3> HIDE DEF N, x
    <3> QED
      BY <3>2, <3>3
  <2>3. Fixed(chip, P)
    BY <1>2, TrimFixed
  <2> HIDE DEF P, Q, Z, x
  <2>4. x \o s \in Seq(CallRec) /\ Leads(chip, k, x \o s, P, Z)
    BY <2>1, <2>2, LeadsConcat
  <2>5. <<c>> \o (x \o s) \in Seq(CallRec) /\ Leads(chip, k, <<c>> \o (x \o s), P, Z)
    BY <1>4, <1>5, <2>3, <2>4, LeadsFirst
  <2> QED
    BY <1>6, <1>8, <2>5 DEF P, Z
<1> QED
  BY <1>7, <1>8

-----------------------------------------------------------------------------
(***************************************************************************)
(* The branches of main.                                                   *)
(***************************************************************************)

\* The last calls of a branch of main, after which nothing can fail.
LEMMA LastPass ==
  ASSUME chip \in Chips, NEW k
  PROVE  /\ \A x \in {Call("finalize"), Try("result", "leave"), Call("result"), Try("reset", "leave"),
                      Call("reset"), Call("run"), Call("succeed"), Call("leave")} :
              x \in CallRec /\ Takes(chip, k, x, Controller(chip), Controller(chip))
         /\ \A s \in Seq({Call("finalize"), Try("result", "leave"), Call("result"),
                          Try("reset", "leave"), Call("reset"), Call("run"), Call("succeed"),
                          Call("leave")}) :
              s \in Seq(CallRec) /\ Leads(chip, k, s, Controller(chip), Controller(chip))
<1> DEFINE S == {Call("finalize"), Try("result", "leave"), Call("result"), Try("reset", "leave"),
                 Call("reset"), Call("run"), Call("succeed"), Call("leave")}
           Z == Controller(chip)
<1>1. ASSUME NEW x \in S  PROVE x \in CallRec
  <2>1. /\ "finalize" \in Ops /\ "result" \in Ops /\ "reset" \in Ops /\ "run" \in Ops
        /\ "succeed" \in Ops /\ "leave" \in Labels
    BY DEF Ops, FreeOps, LabelOps, Labels
  <2> QED
    BY <2>1, CallsAreRecords
<1>2. ASSUME NEW x \in S
      PROVE  x.op \in {"finalize", "result", "reset", "run", "succeed", "leave"}
  <2>1. /\ Call("finalize").op = "finalize" /\ Call("result").op = "result"
        /\ Call("reset").op = "reset" /\ Call("run").op = "run" /\ Call("succeed").op = "succeed"
        /\ Call("leave").op = "leave"
    BY DEF Call
  <2>2. Try("result", "leave").op = "result" /\ Try("reset", "leave").op = "reset"
    BY DEF Call, Try
  <2> QED
    BY <2>1, <2>2
<1> HIDE DEF S
<1>3. ASSUME NEW x \in S  PROVE Takes(chip, k, x, Z, Z) /\ Fixed(chip, Z)
  <2>1. /\ x.op \notin Replaced /\ x.op # "check_errors" /\ x.op # "verify"
        /\ x.op # "unlock_options" /\ x.op # "change_options"
    BY <1>2 DEF Replaced
  <2> HIDE DEF Z
  <2>2. Z \subseteq Controller(chip) /\ Z = Controller(chip)
    BY DEF Z
  <2> QED
    BY <2>1, <2>2, AnyTakes
<1>4. Fixed(chip, Z)
  BY FinishDoes DEF Fixed
<1>5. ASSUME NEW s \in Seq(S)  PROVE s \in Seq(CallRec) /\ Leads(chip, k, s, Z, Z)
  <2>1. S \subseteq CallRec
    BY <1>1
  <2>2. s \in Seq(CallRec)
    BY <2>1, SeqMonotonic
  <2> HIDE DEF Z
  <2> QED
    BY <1>3, <1>4, <2>2, LeadsAll
<1> QED
  BY <1>1, <1>3, <1>5 DEF S

\* Of the branches of main: a write.
LEMMA WriteCommandPasses ==
  ASSUME chip \in Chips, NEW k, k # AnyLine, Writing(k), k.mass \in BOOLEAN
  PROVE  /\ Command(k) \in Seq(CallRec)
         /\ Leads(chip, k, Command(k), Neat(chip), Controller(chip))
<1> DEFINE r == Try("result", "leave")
           f == Call("finalize")
           m == EraseFlashMass("result")
           w == WriteFlash(k, "finalize")
           z == <<f, r>>
           P == Neat(chip)
           Q == Resting(chip, Pages(chip)) \cap Free(chip, {})
           T == Trim(chip, {})
           Z == Controller(chip)
<1>1. Command(k) = (IF k.mass THEN m \o <<r>> ELSE <<>>) \o w \o z
  BY DEF Command, Writing
<1>2. "finalize" \in Labels /\ "result" \in Labels
  BY DEF Labels
<1>3. /\ w \in Seq(CallRec)
      /\ Leads(chip, k, w, IF k.mass THEN Q ELSE T, Z)
  BY <1>2, WriteFlashPasses
<1>4. z \in Seq(CallRec) /\ Leads(chip, k, z, Z, Z)
  <2>1. z \in Seq({Call("finalize"), Try("result", "leave"), Call("result"),
                   Try("reset", "leave"), Call("reset"), Call("run"), Call("succeed"),
                   Call("leave")})
    BY OfMembers
  <2> QED
    BY <2>1, LastPass
<1>5. r \in CallRec /\ r.op = "result"
  BY LastPass DEF Call, Try
<1>6. k.mass => m \in Seq(CallRec) /\ Leads(chip, k, m, P, Q)
  BY <1>2, EraseMassPasses DEF Writing
<1>7. Pages(chip) \in SUBSET Pages(chip) /\ {} \in SUBSET {"PG", "PER", "MER"}
  OBVIOUS
<1>8. Fixed(chip, Q)
  BY <1>7, TrimFixed
<1>9. Takes(chip, k, r, Q, Q)
  <2>1. r.op \notin Replaced /\ r.op \in Idle /\ r.op \in Ops
    BY <1>5 DEF Replaced, Idle, Ops, LabelOps
  <2>2. r \in Sparing(chip, {})
    <3>1. r.op \notin BankOps /\ r.op # "select" /\ r.op # "load" /\ r.op # "start" /\ r.op # "verify"
          /\ r.op # "unlock_options" /\ r.op \notin Refusable
      BY <1>5 DEF BankOps, Refusable
    <3>2. r.at \in Nat
      BY <1>5 DEF CallRec
    <3> HIDE DEF r
    <3>3. Spares(chip, {}, r)
      BY <1>5, <2>1, <3>1, <3>2 DEF Spares, Sound
    <3> QED
      BY <1>5, <3>1, <3>3 DEF Sparing
  <2> HIDE DEF r
  <2>3. Takes(chip, AnyLine, r, Resting(chip, Pages(chip)), Resting(chip, Pages(chip)))
    BY <2>1, IdleTakes
  <2>4. Takes(chip, k, r, Free(chip, {}), Free(chip, {}))
    BY <1>7, <2>2, FreeTakes DEF Sparing
  <2> QED
    BY <2>1, <2>3, <2>4, TakesAlso
<1>10. P \subseteq T
  BY NeatIs
<1> HIDE DEF r, f, m, w, z, P, Q, T, Z
<1>11. CASE k.mass
  <2>1. <<r>> \in Seq(CallRec) /\ Leads(chip, k, <<r>>, Q, Q)
    BY <1>5, <1>8, <1>9, LeadsOne, OfMembers
  <2>2. m \o <<r>> \in Seq(CallRec) /\ Leads(chip, k, m \o <<r>>, P, Q)
    BY <1>6, <1>11, <2>1, LeadsConcat
  <2>3. Leads(chip, k, w, Q, Z)
    BY <1>3, <1>11
  <2>4. (m \o <<r>>) \o w \in Seq(CallRec) /\ Leads(chip, k, (m \o <<r>>) \o w, P, Z)
    BY <1>3, <2>2, <2>3, LeadsConcat
  <2>5. /\ ((m \o <<r>>) \o w) \o z \in Seq(CallRec)
        /\ Leads(chip, k, ((m \o <<r>>) \o w) \o z, P, Z)
    BY <1>4, <2>4, LeadsConcat
  <2> QED
    BY <1>1, <1>11, <2>5 DEF P, Z
<1>12. CASE ~k.mass
  <2>1. Leads(chip, k, w, T, Z)
    BY <1>3, <1>12
  <2>2. w \o z \in Seq(CallRec) /\ Leads(chip, k, w \o z, T, Z)
    BY <1>3, <1>4, <2>1, LeadsConcat
  <2>3. Leads(chip, k, w \o z, P, Z)
    BY <1>10, <2>2, LeadsMore
  <2>4. Command(k) = w \o z
    <3>1. Command(k) = <<>> \o w \o z
      BY <1>1, <1>12
    <3>2. <<>> \o w = w
      BY <1>3
    <3> QED
      BY <3>1, <3>2
  <2> QED
    BY <2>2, <2>3, <2>4 DEF P, Z
<1> QED
  BY <1>11, <1>12

\* ... an erase.
LEMMA EraseCommandPasses ==
  ASSUME chip \in Chips, NEW k, k # AnyLine, Asking(k), k.do = "erase", Reasonable(k)
  PROVE  /\ Command(k) \in Seq(CallRec)
         /\ Leads(chip, k, Command(k), Neat(chip), Controller(chip))
<1> DEFINE e == k.addr + k.len
           m == EraseFlashMass("result")
           x == <<Over("erase_section", k.addr, e, "result")>>
           z == <<Try("result", "leave"), Try("reset", "leave")>>
           P == Neat(chip)
           Z == Controller(chip)
<1>1. Command(k) = (IF k.mass THEN m ELSE x) \o z
  BY DEF Command
<1>2. "result" \in Labels
  BY DEF Labels
<1>3. z \in Seq(CallRec) /\ Leads(chip, k, z, Z, Z)
  <2>1. z \in Seq({Call("finalize"), Try("result", "leave"), Call("result"),
                   Try("reset", "leave"), Call("reset"), Call("run"), Call("succeed"),
                   Call("leave")})
    BY OfMembers
  <2> QED
    BY <2>1, LastPass
<1>4. CASE k.mass
  <2>1. m \in Seq(CallRec) /\ Leads(chip, k, m, P, Resting(chip, Pages(chip)) \cap Free(chip, {}))
    <3>1. MassCovers(chip)
      BY <1>4 DEF Reasonable
    <3> QED
      BY <1>2, <3>1, EraseMassPasses
  <2>2. Resting(chip, Pages(chip)) \cap Free(chip, {}) \subseteq Z
    BY DEF Free
  <2> HIDE DEF m, z, P, Z
  <2>3. Leads(chip, k, m, P, Z)
    BY <2>1, <2>2, LeadsMore
  <2>4. m \o z \in Seq(CallRec) /\ Leads(chip, k, m \o z, P, Z)
    BY <1>3, <2>1, <2>3, LeadsConcat
  <2> QED
    BY <1>1, <1>4, <2>4 DEF P, Z
<1>5. CASE ~k.mass
  <2>1. k.addr \in Nat /\ e \in Nat /\ k.addr < e
    BY <1>5 DEF Asking, CommandLine
  <2>2. /\ e <= FlashSize(chip) /\ PageBegins(chip, k.addr)
        /\ e = FlashSize(chip) \/ PageBegins(chip, e)
        /\ Known(chip) /\ Willing(chip)
    <3>1. Known(chip) /\ Willing(chip)
      BY DEF Reasonable, Willing
    <3>2. CodeView(chip) = chip
      BY <3>1, KnownView
    <3> QED
      BY <1>5, <3>1, <3>2 DEF Reasonable, InFlash, Aligned, PageBegins
  <2>3. {} \in SUBSET Pages(chip)
    OBVIOUS
  <2>4. /\ x \in Seq(CallRec)
        /\ Leads(chip, k, x, Trim(chip, {}), Trim(chip, {} \cup PagesOf(chip, k.addr, e)))
    <3> HIDE DEF e
    <3> QED
      BY <1>2, <2>1, <2>2, <2>3, RangePasses
  <2>5. Trim(chip, {} \cup PagesOf(chip, k.addr, e)) \subseteq Z /\ P \subseteq Trim(chip, {})
    BY NeatIs DEF Trim, Free
  <2> HIDE DEF x, z, P, Z, e
  <2>6. Leads(chip, k, x, P, Z)
    BY <2>4, <2>5, LeadsMore
  <2>7. x \o z \in Seq(CallRec) /\ Leads(chip, k, x \o z, P, Z)
    BY <1>3, <2>4, <2>6, LeadsConcat
  <2> QED
    BY <1>1, <1>5, <2>7 DEF P, Z
<1> QED
  BY <1>4, <1>5 DEF Asking, CommandLine

\* ... a writer of options.
LEMMA OptionCommandPasses ==
  ASSUME chip \in Chips, NEW k, k # AnyLine, k.do \in OptionCommands, Implements(k.do),
         ~chip.refuses
  PROVE  /\ Command(k) \in Seq(CallRec)
         /\ Leads(chip, k, Command(k), Neat(chip), Controller(chip))
<1> DEFINE l == IF k.do = "option_file" THEN "finalize" ELSE "result"
           w == WriteOptions(k.do, l)
           z == IF k.do = "option_file" THEN <<Call("finalize"), Try("result", "leave")>>
                ELSE IF k.do = "option_bytes" THEN <<Try("result", "leave")>>
                ELSE <<Call("result")>>
           P == Neat(chip)
           F == Free(chip, {})
           Z == Controller(chip)
           S == {Call("finalize"), Try("result", "leave"), Call("result"), Try("reset", "leave"),
                 Call("reset"), Call("run"), Call("succeed"), Call("leave")}
<1>1. Command(k) = w \o z
  <2>1. CASE k.do = "option_file"
    BY <2>1 DEF Command
  <2>2. CASE k.do = "option_bytes"
    BY <2>2 DEF Command
  <2>3. CASE k.do \in {"optcr", "optcr1"}
    BY <2>3 DEF Command
  <2> QED
    BY <2>1, <2>2, <2>3 DEF OptionCommands
<1>2. l \in Labels
  BY DEF Labels
<1>3. z \in Seq(S)
  <2>1. Call("finalize") \in S /\ Try("result", "leave") \in S /\ Call("result") \in S
    OBVIOUS
  <2> HIDE DEF S
  <2> QED
    BY <2>1, OfMembers
<1>4. z \in Seq(CallRec) /\ Leads(chip, k, z, Z, Z)
  BY <1>3, LastPass
<1> HIDE DEF z, S, l
<1>5. w \in Seq(CallRec) /\ Leads(chip, k, w, F, F)
  BY <1>2, OptionsPass
<1>6. P \subseteq F /\ F \subseteq Z
  BY DEF Neat, Free
<1> HIDE DEF w, P, F, Z
<1>7. Leads(chip, k, w, P, Z)
  BY <1>5, <1>6, LeadsMore
<1>8. w \o z \in Seq(CallRec) /\ Leads(chip, k, w \o z, P, Z)
  BY <1>4, <1>5, <1>7, LeadsConcat
<1> QED
  BY <1>1, <1>8 DEF P, Z

\* ... a reset.
LEMMA ResetCommandPasses ==
  ASSUME chip \in Chips, NEW k, k.do = "reset"
  PROVE  /\ Command(k) \in Seq(CallRec)
         /\ Leads(chip, k, Command(k), Neat(chip), Controller(chip))
<1> DEFINE z == <<Try("reset", "leave"), Call("run")>>
<1>1. Command(k) = z
  BY DEF Command
<1>2. z \in Seq({Call("finalize"), Try("result", "leave"), Call("result"),
                 Try("reset", "leave"), Call("reset"), Call("run"), Call("succeed"),
                 Call("leave")})
  BY OfMembers
<1>3. z \in Seq(CallRec) /\ Leads(chip, k, z, Controller(chip), Controller(chip))
  BY <1>2, LastPass
<1>4. Neat(chip) \subseteq Controller(chip)
  BY DEF Neat, Free
<1> HIDE DEF z
<1>5. Leads(chip, k, z, Neat(chip), Controller(chip))
  BY <1>3, <1>4, LeadsMore
<1> QED
  BY <1>1, <1>3, <1>5

\* A command line that asks for what can be done does not fail, from a
\* controller that is in order.
LEMMA MainPasses ==
  ASSUME chip \in Chips, NEW k \in Lines(chip), Reasonable(k), NEW again \in BOOLEAN
  PROVE  Leads(chip, k, Main(k, again), Neat(chip), Controller(chip))
<1> DEFINE force == Try("force_debug", "leave")
           status == Try("status", "leave")
           a == <<force, status>>
           m == Command(k)
           c == IF again THEN <<Call("reset")>> ELSE <<>>
           d == <<Call("run"), Call("succeed"), Call("leave")>>
           P == Neat(chip)
           Z == Controller(chip)
           B == AllBits
           S == {Call("finalize"), Try("result", "leave"), Call("result"), Try("reset", "leave"),
                 Call("reset"), Call("run"), Call("succeed"), Call("leave")}
<1>1. Main(k, again) = ((a \o m) \o c) \o d
  BY DEF Main
<1>2. Asking(k)
  BY LinesAre
<1>3. k # AnyLine
  <2>1. k.do # "any" /\ AnyLine.do = "any"
    BY <1>2 DEF Asking, CommandLine, AnyLine
  <2> QED
    BY <2>1
<1>4. m \in Seq(CallRec) /\ Leads(chip, k, m, P, Z)
  <2>1. CASE k.do = "write"
    <3>1. Writing(k) /\ k.mass \in BOOLEAN
      BY <1>2, <2>1 DEF Writing, Asking, CommandLine, Reasonable, Willing
    <3> QED
      BY <1>3, <3>1, WriteCommandPasses
  <2>2. CASE k.do = "erase"
    BY <1>2, <1>3, <2>2, EraseCommandPasses
  <2>3. CASE k.do \in OptionCommands
    <3>1. Implements(k.do) /\ (k.do \in {"option_file", "option_bytes"} => ~chip.refuses)
      BY DEF Reasonable
    <3>2. k.do \in {"optcr", "optcr1"} => chip.type \notin {"H7", "WB0"}
      BY <3>1 DEF Implements
    <3>3. chip.refuses => chip.type \in {"H7", "WB0"}
      BY DEF Chips
    <3>4. ~chip.refuses
      BY <2>3, <3>1, <3>2, <3>3 DEF OptionCommands
    <3> QED
      BY <1>3, <2>3, <3>1, <3>4, OptionCommandPasses
  <2>4. CASE k.do = "reset"
    BY <2>4, ResetCommandPasses
  <2> QED
    BY <1>2, <2>1, <2>2, <2>3, <2>4 DEF Asking, CommandLine, OptionCommands
<1>5. c \in Seq(CallRec) /\ Leads(chip, k, c, Z, Z) /\ d \in Seq(CallRec) /\ Leads(chip, k, d, Z, Z)
  <2>1. c \in Seq(S) /\ d \in Seq(S)
    <3>1. /\ Call("reset") \in S /\ Call("run") \in S /\ Call("succeed") \in S
          /\ Call("leave") \in S
      OBVIOUS
    <3> HIDE DEF S
    <3>2. d \in Seq(S) /\ <<Call("reset")>> \in Seq(S) /\ <<>> \in Seq(S)
      BY <3>1, OfMembers, EmptyIn
    <3> QED
      BY <3>2
  <2> HIDE DEF c, d
  <2> QED
    BY <2>1, LastPass
<1>6. force.op = "force_debug" /\ status.op = "status"
  BY DEF Call, Try
<1>7. force \in CallRec /\ status \in CallRec
  <2>1. "force_debug" \in Ops /\ "status" \in Ops /\ "leave" \in Labels
    BY DEF Ops, FreeOps, Labels
  <2> QED
    BY <2>1, CallsAreRecords
<1>8. B \in SUBSET {"PG", "PER", "MER"}
  BY DEF AllBits
<1> HIDE DEF force, status, m, c, d
<1>9. ASSUME NEW x \in {force, status}
      PROVE  Takes(chip, k, x, P, P)
  <2>1. x.op \notin Replaced /\ x.op \in Idle /\ x.op \in Ops
    BY <1>6 DEF Replaced, Idle, Ops, FreeOps
  <2>2. /\ x.op \notin BankOps /\ x.op # "select" /\ x.op # "load" /\ x.op # "start"
        /\ x.op # "verify" /\ x.op # "unlock_options" /\ x.op \notin Refusable
    BY <1>6 DEF BankOps, Refusable
  <2>3. x \in CallRec /\ x.at \in Nat
    BY <1>7 DEF CallRec
  <2>4. Spares(chip, B, x)
    BY <1>6, <2>1, <2>2, <2>3 DEF Spares, Sound, BankOps
  <2>5. Takes(chip, AnyLine, x, Resting(chip, {}), Resting(chip, {}))
    BY <2>1, IdleTakes
  <2>6. Takes(chip, k, x, Free(chip, B), Free(chip, B))
    BY <1>8, <2>2, <2>4, FreeTakes
  <2>7. Takes(chip, k, x, Resting(chip, {}) \cap Free(chip, B), Resting(chip, {}) \cap Free(chip, B))
    BY <1>3, <2>1, <2>5, <2>6, TakesAlso
  <2> QED
    BY <2>7 DEF Neat
<1>10. Fixed(chip, P)
  <2>1. {} \in SUBSET Pages(chip)
    OBVIOUS
  <2> QED
    BY <2>1, TrimFixed DEF Neat
<1> HIDE DEF P, Z
<1>11. a \in Seq(CallRec) /\ Leads(chip, k, a, P, P)
  BY <1>7, <1>9, <1>10, LeadsTwo
<1> HIDE DEF a
<1>12. a \o m \in Seq(CallRec) /\ Leads(chip, k, a \o m, P, Z)
  BY <1>4, <1>11, LeadsConcat
<1>13. (a \o m) \o c \in Seq(CallRec) /\ Leads(chip, k, (a \o m) \o c, P, Z)
  BY <1>5, <1>12, LeadsConcat
<1>14. Leads(chip, k, ((a \o m) \o c) \o d, P, Z)
  BY <1>5, <1>13, LeadsConcat
<1> QED
  BY <1>1, <1>14 DEF P, Z

-----------------------------------------------------------------------------
(***************************************************************************)
(* With nothing lost and a controller in order, a command that can be done *)
(* fails no call.                                                          *)
(***************************************************************************)

\* A command that can be done, of which every exchange was answered, on a
\* controller that was in order: no call of it has failed, and none that is left
\* to make will.
Blameless == lost = {} /\ tidy /\ Reasonable(cmd)
Unfailing ==
  Blameless => /\ ~failed
               /\ \E P : target \in P /\ Leads(chip, cmd, todo, P, Controller(chip))

\* The command lines there are differ from the one that stands for any.
LEMMA CommandIsOne == TypeOK => cmd # AnyLine
<1>1. ASSUME TypeOK  PROVE cmd.do # "any"
  BY <1>1 DEF TypeOK, CommandLine
<1>2. AnyLine.do = "any"
  BY DEF AnyLine
<1> QED
  BY <1>1, <1>2

\* What a command may ask for does not change while it is under way.
LEMMA BlamelessBefore ==
  ASSUME chip' = chip, cmd' = cmd, tidy' = tidy, lost' = {} => lost = {}
  PROVE  Blameless' => Blameless
<1>1. Reasonable(cmd)' = Reasonable(cmd)
  BY DEF Reasonable, InFlash, Padded, Aligned, Implements
<1> QED
  BY <1>1 DEF Blameless

\* A step that fails no call keeps what was shown of the calls left.
LEMMA UnfailingOf ==
  ASSUME chip' = chip, cmd' = cmd, ~failed', NEW P, target' \in P,
         Leads(chip, cmd, todo', P, Controller(chip))
  PROVE  Unfailing'
BY DEF Unfailing, Leads, Outline

\* The next call is made.
LEMMA UnfailingMade ==
  ASSUME TypeOK, TypeOK', Unfailing, Blameless, todo # <<>>, Step.op \notin Replaced,
         chip' = chip, cmd' = cmd, Does(chip, Step, target, backup, target', backup'),
         Succeeds \/ FailsThen
  PROVE  Unfailing'
<1> DEFINE Z == Controller(chip)
<1>1. todo \in Seq(CallRec) /\ Step = todo[1]
  BY HeadIs DEF Step
<1>2. PICK P : target \in P /\ Leads(chip, cmd, todo, P, Z)
  BY DEF Unfailing
<1>3. ~failed /\ cmd # AnyLine
  BY CommandIsOne DEF Unfailing
<1>4. target' \in Z
  BY DEF TypeOK
<1> HIDE DEF Z
<1>5. PICK R : Takes(chip, cmd, todo[1], P, R) /\ Leads(chip, cmd, Tail(todo), R, Z)
  BY <1>1, <1>2, LeadsTail
<1>6. Step.to # "" => Passes(chip, cmd, Step, target)
  BY <1>1, <1>2, <1>3, <1>5 DEF Takes
<1>7. Succeeds
  BY <1>6 DEF FailsThen
<1>8. Step.op = "check_errors" /\ Step.to # "" => ~Erred(chip, target)
  BY <1>6 DEF Passes, Erred
<1>9. target' \in R
  BY <1>1, <1>2, <1>4, <1>5, <1>8 DEF Takes, Z
<1>10. ~failed' /\ todo' = Tail(todo)
  BY <1>3, <1>7 DEF Succeeds
<1>11. Leads(chip, cmd, todo', R, Z)
  BY <1>5, <1>10
<1> QED
  BY <1>9, <1>10, <1>11, UnfailingOf DEF Z

\* The next call is made, its exchanges answered.
LEMMA UnfailingCalls ==
  ASSUME TypeOK, TypeOK', Unfailing,
         \/ Wait \/ ClearErrors \/ CheckErrors \/ Unlock \/ Lock \/ UnlockOptions
         \/ Relock \/ Start \/ SetPg \/ ClearPg \/ SetPer \/ ClearPer \/ SetMer
         \/ ClearMer \/ UnlockPecr \/ EraseWord \/ LockPecr \/ CommandPageErase
         \/ CommandMassErase \/ RestoreDma \/ InitLoader \/ ReadRegister \/ Unmask
         \/ EraseOptions \/ ProgramOption \/ BeginOptions \/ ChangeOptions \/ ForceDebug \/ Status
         \/ RunCore \/ Finalize \/ Leave \/ StopDma \/ Load \/ Verify \/ ResetTarget
         \/ SelectPageToErase
  PROVE  Unfailing'
<1>1. CASE ~Blameless'
  BY <1>1 DEF Unfailing
<1>2. CASE Blameless'
  <2>1. Step.op \notin Replaced
    BY Zenon, MadeNotReplaced
  <2>2. lost' = {}
    BY <1>2 DEF Blameless
  <2>3. GoodCall
    BY <2>2, GoodStep, Zenon
  <2>4. Blameless
    BY <1>2, <2>3, BlamelessBefore DEF GoodCall
  <2> QED
    BY <2>1, <2>3, <2>4, UnfailingMade DEF GoodCall
<1> QED
  BY <1>1, <1>2

\* A call becomes others.
LEMMA UnfailingReplaced ==
  ASSUME TypeOK, Unfailing, EraseSection \/ EraseNext \/ WritePage \/ CheckRange \/ Unsupported
  PROVE  Unfailing'
<1>1. todo # <<>> /\ Step.op \in Replaced /\ todo \in Seq(CallRec) /\ Step = todo[1]
  <2>1. todo # <<>> /\ Step.op \in Replaced
    BY DEF EraseSection, EraseNext, WritePage, CheckRange, Unsupported, At, Replaced
  <2> QED
    BY <2>1, HeadIs DEF Step
<1>2. \E ok, calls : Becomes(ok, calls)
  BY Zenon DEF EraseSection, EraseNext, WritePage, CheckRange, Unsupported
<1>3. chip' = chip /\ target' = target /\ cmd' = cmd /\ lost' = lost /\ tidy' = tidy
  BY <1>2 DEF Becomes
<1>4. CASE ~Blameless'
  BY <1>4 DEF Unfailing
<1>5. CASE Blameless'
  <2> DEFINE Z == Controller(chip)
  <2>1. Blameless
    BY <1>3, <1>5, BlamelessBefore
  <2>2. ~failed /\ cmd # AnyLine
    BY <2>1, CommandIsOne DEF Unfailing
  <2>3. PICK P : target \in P /\ Leads(chip, cmd, todo, P, Z)
    BY <2>1 DEF Unfailing
  <2> HIDE DEF Z
  <2>4. PICK R : Takes(chip, cmd, todo[1], P, R) /\ Leads(chip, cmd, Tail(todo), R, Z)
    BY <1>1, <2>3, LeadsTail
  <2>5. Tail(todo) \in Seq(CallRec)
    BY <1>1, TailRest
  <2>6. PICK V : R \subseteq V /\ Fixed(chip, V) /\ Leads(chip, cmd, Tail(todo), V, Z)
    BY <2>4, <2>5, LeadsFixed
  <2>7. Turns(chip, cmd, Step, P, V)
    <3>1. Takes(chip, cmd, todo[1], P, V)
      BY <2>4, <2>6, TakesMore
    <3> QED
      BY <1>1, <2>2, <3>1 DEF Takes
  <2>8. /\ failed' = failed
        /\ \E calls \in Seq(CallRec) : /\ todo' = calls \o Tail(todo)
                                       /\ Leads(chip, cmd, calls, P, V)
    BY <2>2, <2>6, <2>7, TurnsOn
  <2>9. PICK calls \in Seq(CallRec) : /\ todo' = calls \o Tail(todo)
                                      /\ Leads(chip, cmd, calls, P, V)
    BY <2>8
  <2>10. Leads(chip, cmd, calls \o Tail(todo), P, Z)
    BY <2>5, <2>6, <2>9, LeadsConcat
  <2>11. Leads(chip, cmd, todo', P, Z) /\ ~failed' /\ target' \in P
    BY <1>3, <2>2, <2>3, <2>8, <2>9, <2>10
  <2> QED
    BY <1>3, <2>11, UnfailingOf DEF Z
<1> QED
  BY <1>4, <1>5

\* A command begins.
LEMMA UnfailingBegins ==
  ASSUME TypeOK, TypeOK', Compared', Begin
  PROVE  Unfailing'
<1>1. chip \in Chips /\ chip' = chip /\ tidy' = InOrder(target') /\ failed' = FALSE
  BY DEF TypeOK, Begin
<1>2. PICK k \in Lines(chip), again \in BOOLEAN, known \in BOOLEAN :
        /\ cmd' = k
        /\ todo' = IF known THEN Main(k, again) ELSE <<CallOn("leave", 1)>>
        /\ lost' = IF known THEN {} ELSE {"identify"}
  BY ZenonT(40) DEF Begin
<1>3. CASE ~Blameless'
  BY <1>3 DEF Unfailing
<1>4. CASE Blameless'
  <2>1. todo' = Main(k, again) /\ InOrder(target')
    BY <1>1, <1>2, <1>4 DEF Blameless
  <2>2. Reasonable(k)
    <3>1. Reasonable(cmd)'
      BY <1>4 DEF Blameless
    <3> QED
      BY <1>1, <1>2, <3>1 DEF Reasonable, InFlash, Padded, Aligned, Implements
  <2>3. target' \in Neat(chip)
    <3>1. target' \in Controller(chip)
      BY <1>1 DEF TypeOK
    <3>2. Lone(chip, target')
      BY <1>1 DEF Compared, Lone
    <3>3. /\ \A b \in Registers(chip) : target'.cr[b] = CrAtReset(chip)[b] /\ target'.job[b] = {}
          /\ target'.sr = {}
      BY <2>1 DEF InOrder
    <3>4. CrAtReset(chip)[1] = CrAtReset(chip)[2]
      BY DEF CrAtReset, Bank
    <3>5. Held(chip, target')
      BY <3>2, <3>3, <3>4 DEF Held, Registers, Bank
    <3>6. Still(target')
      BY <3>2, <3>3 DEF Still, Lone, Registers, Bank
    <3>7. \A b \in Registers(chip) : AllBits \cap target'.cr[b] = {}
      <4>1. \A b \in Bank : AllBits \cap CrAtReset(chip)[b] = {}
        BY DEF CrAtReset, AllBits
      <4> QED
        BY <3>3, <4>1, RegistersAre
    <3> QED
      BY <3>1, <3>3, <3>5, <3>6, <3>7 DEF Neat, Resting, Kept, Free
  <2>4. Leads(chip, k, todo', Neat(chip), Controller(chip))
    BY <1>1, <2>1, <2>2, MainPasses
  <2>5. (\E P : target \in P /\ Leads(chip, cmd, todo, P, Controller(chip)))'
    BY <1>1, <1>2, <2>3, <2>4 DEF Leads, Outline
  <2> QED
    BY <1>1, <2>5 DEF Unfailing
<1> QED
  BY <1>3, <1>4

\* What is left after a signal, or when the programmer is gone, fails no call.
LEMMA UnfailingStops ==
  ASSUME TypeOK, TypeOK', Unfailing, Interrupt \/ Unplugged
  PROVE  Unfailing'
<1> DEFINE Z == Controller(chip)
           S == {Call("finalize"), Try("result", "leave"), Call("result"), Try("reset", "leave"),
                 Call("reset"), Call("run"), Call("succeed"), Call("leave")}
<1>1. /\ chip' = chip /\ target' = target /\ cmd' = cmd /\ lost' = lost /\ tidy' = tidy
      /\ failed' = failed
  BY DEF Interrupt, Unplugged
<1>2. chip \in Chips /\ target' \in Z
  BY <1>1 DEF TypeOK
<1>3. Call("run") \in S /\ Call("leave") \in S
  OBVIOUS
<1>4. \A s \in Seq(S) : Leads(chip, cmd, s, Z, Z)
  BY <1>2, LastPass, Zenon
<1>5. Fixed(chip, Z)
  BY <1>2, FinishDoes DEF Fixed
<1> HIDE DEF S, Z
<1>6. Leads(chip, cmd, todo', Z, Z)
  <2>1. CASE Interrupt
    <3>1. <<Call("run"), Call("leave")>> \in Seq(S)
      BY <1>3, OfMembers
    <3>2. todo' = <<Call("run"), Call("leave")>>
      BY <2>1 DEF Interrupt
    <3> QED
      BY <1>4, <3>1, <3>2
  <2>2. CASE Unplugged
    <3>1. todo' = <<>>
      BY <2>2 DEF Unplugged
    <3>2. Leads(chip, cmd, <<>>, Z, Z)
      BY <1>5, LeadsNone
    <3> QED
      BY <3>1, <3>2
  <2> QED
    BY <2>1, <2>2
<1>7. CASE ~Blameless'
  BY <1>7 DEF Unfailing
<1>8. CASE Blameless'
  <2>1. Blameless
    BY <1>1, <1>8, BlamelessBefore
  <2>2. ~failed'
    BY <1>1, <2>1 DEF Unfailing
  <2> QED
    BY <1>1, <1>2, <1>6, <2>2, UnfailingOf DEF Z
<1> QED
  BY <1>7, <1>8

\* Unfailing is kept by every step.
LEMMA UnfailingStep ==
  ASSUME TypeOK, TypeOK', Orderly, Compared', Unfailing, Next
  PROVE  Unfailing'
<1>1. CASE \/ Wait \/ ClearErrors \/ CheckErrors \/ Unlock \/ Lock \/ UnlockOptions
           \/ Relock \/ Start \/ SetPg \/ ClearPg \/ SetPer \/ ClearPer \/ SetMer
           \/ ClearMer \/ UnlockPecr \/ EraseWord \/ LockPecr \/ CommandPageErase
           \/ CommandMassErase \/ RestoreDma \/ InitLoader \/ ReadRegister \/ Unmask
           \/ EraseOptions \/ ProgramOption \/ BeginOptions \/ ChangeOptions \/ ForceDebug \/ Status
           \/ RunCore \/ Finalize \/ Leave \/ StopDma \/ Load \/ Verify \/ ResetTarget
           \/ SelectPageToErase
  BY <1>1, UnfailingCalls
<1>2. CASE EraseSection \/ EraseNext \/ WritePage \/ CheckRange \/ Unsupported
  BY <1>2, UnfailingReplaced
<1>3. CASE Begin
  BY <1>3, UnfailingBegins
<1>4. CASE Interrupt \/ Unplugged
  BY <1>4, UnfailingStops
<1>5. CASE EraseEnds
  <2>1. PICK b \in Bank : target.job[b] # {} /\ target' = Finish(target, b)
    BY <1>5 DEF EraseEnds
  <2>2. /\ todo' = todo /\ cmd' = cmd /\ lost' = lost /\ chip' = chip
        /\ failed' = failed /\ tidy' = tidy
    BY <1>5 DEF EraseEnds, call, history
  <2>3. CASE Blameless'
    <3> DEFINE Z == Controller(chip)
    <3>1. Blameless
      BY <2>2, <2>3, BlamelessBefore
    <3>2. ~failed /\ \E P : target \in P /\ Leads(chip, cmd, todo, P, Z)
      BY <3>1 DEF Unfailing
    <3>3. PICK P : target \in P /\ Leads(chip, cmd, todo, P, Z)
      BY <3>2
    <3> HIDE DEF Z
    <3>4. todo \in Seq(CallRec)
      BY HeadIs, EmptyIn
    <3>5. PICK R : P \subseteq R /\ Fixed(chip, R) /\ Leads(chip, cmd, todo, R, Z)
      BY <3>3, <3>4, LeadsFixed
    <3>6. target' \in R
      BY <2>1, <3>3, <3>5 DEF Fixed
    <3>7. Leads(chip, cmd, todo', R, Z) /\ ~failed'
      BY <2>2, <3>2, <3>5
    <3> QED
      BY <2>2, <3>6, <3>7, UnfailingOf DEF Z
  <2> QED
    BY <2>3 DEF Unfailing
<1>6. CASE Result \/ Succeed
  <2>1. /\ todo # <<>> /\ Step.op \in {"result", "succeed"}
        /\ cmd' = cmd /\ lost' = lost /\ failed' = failed
        /\ chip' = chip /\ target' = target /\ tidy' = tidy /\ backup' = backup
    BY <1>6 DEF Result, Succeed, At, history
  <2>2. Step.op \notin Replaced
    BY <2>1 DEF Replaced
  <2>3. CASE Blameless'
    <3>1. Blameless
      BY <2>1, <2>3, BlamelessBefore
    <3>2. ~failed
      BY <3>1 DEF Unfailing
    <3>3. todo' = Tail(todo)
      <4>1. Succeed => todo' = Tail(todo)
        BY DEF Succeed
      <4>2. ASSUME Result  PROVE todo' = Tail(todo)
        <5>1. ret = 0
          BY <3>2 DEF Orderly
        <5>2. todo' = IF ret = -1 /\ Step.to = "leave" THEN From("leave") ELSE Tail(todo)
          BY <4>2 DEF Result
        <5>3. 0 # -1
          OBVIOUS
        <5> QED
          BY <5>1, <5>2, <5>3, Zenon
      <4> QED
        BY <1>6, <4>1, <4>2
    <3>4. Succeeds
      <4>1. ret = 0
        BY <3>2 DEF Orderly
      <4>2. ret' = ret
        BY <1>6, <4>1 DEF Result, Succeed
      <4> QED
        BY <2>1, <3>3, <4>2 DEF Succeeds
    <3>5. Does(chip, Step, target, backup, target', backup')
      BY <2>1 DEF Does, Alike
    <3> QED
      BY <2>1, <2>2, <3>1, <3>4, <3>5, UnfailingMade
  <2> QED
    BY <2>3 DEF Unfailing
<1> QED
  BY <1>1, <1>2, <1>3, <1>4, <1>5, <1>6 DEF Next

\* With every exchange answered and a controller in order, only what no chip or
\* this chip cannot do is refused.
THEOREM AlwaysFailsForAReason == Spec => [](Unfailing /\ FailsForAReason)
<1>1. Init => Unfailing
  <2> SUFFICES ASSUME Init  PROVE Unfailing
    OBVIOUS
  <2>1. chip \in Chips /\ target = Fresh(chip) /\ ~failed /\ todo = <<>>
    BY DEF Init
  <2>2. target \in Controller(chip)
    BY <2>1, FreshType
  <2>3. Fixed(chip, Controller(chip))
    BY <2>1, FinishDoes DEF Fixed
  <2>4. Leads(chip, cmd, todo, Controller(chip), Controller(chip))
    BY <2>1, <2>3, LeadsNone
  <2> QED
    BY <2>1, <2>2, <2>4 DEF Unfailing
<1>2. Unfailing /\ UNCHANGED vars => Unfailing'
  <2> SUFFICES ASSUME Unfailing, UNCHANGED vars, Blameless'  PROVE Unfailing'
    BY DEF Unfailing
  <2>1. /\ todo' = todo /\ cmd' = cmd /\ lost' = lost /\ chip' = chip /\ target' = target
        /\ failed' = failed /\ tidy' = tidy
    BY DEF vars, call, history
  <2>2. Blameless
    BY <2>1, BlamelessBefore
  <2>3. ~failed
    BY <2>2 DEF Unfailing
  <2>4. PICK P : target \in P /\ Leads(chip, cmd, todo, P, Controller(chip))
    BY <2>2 DEF Unfailing
  <2>5. Leads(chip, cmd, todo', P, Controller(chip)) /\ ~failed' /\ target' \in P
    BY <2>1, <2>3, <2>4
  <2> QED
    BY <2>1, <2>5, UnfailingOf
<1>3. TypeOK /\ TypeOK' /\ Orderly /\ Compared' /\ Unfailing /\ [Next]_vars => Unfailing'
  BY <1>2, UnfailingStep
<1>4. Unfailing => FailsForAReason
  BY DEF Unfailing, Blameless, FailsForAReason
<1> QED
  BY <1>1, <1>3, <1>4, CallsInOrder, AlwaysOrderly, AlwaysWrittenAfterSuccess, PTL DEF Spec
=============================================================================
