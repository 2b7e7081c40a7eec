--------------------------- MODULE StlinkGuiProofs ---------------------------
(***************************************************************************)
(* Proofs about StlinkGui.  As long as no widget was used behind the back  *)
(* of set_sensitivity, at most one thread is at work, and what would start *)
(* another is greyed out or its dialog not open: Calm says so, and where   *)
(* the file that is named is on its way to flash.                          *)
(***************************************************************************)
EXTENDS StlinkGui, WellFoundedInduction, SequenceTheorems, TLAPS

Buttons == {"open", "connect", "disconnect", "flash", "reset", "export", "erase"}
Dialogs == {"none", "open", "flash", "erase", "export", "page"}
Jobs == {"file", "devmem", "flash", "erase"}
Callbacks == {"file", "devmem", "restore"}

ThreadState ==
    [do : Jobs \cup {"none"}, at : {"none", "start", "busy"},
     with : Files \cup {"none", "junk", "chip"}, sl : 0 .. MaxConnects]

TypeOK ==
    /\ running \in BOOLEAN /\ clash \in BOOLEAN /\ behind \in BOOLEAN /\ wrong \in BOOLEAN
    /\ sl \in 0 .. MaxConnects /\ opened \in 0 .. MaxConnects
    /\ sensitive \subseteq Buttons /\ dialog \in Dialogs
    /\ named \in Files \cup {"none"} /\ file_mem \in Files \cup {"none", "junk", "chip"}
    /\ threads \in [Thread -> ThreadState]
    /\ idle \in Seq(Callbacks \cup {"args"})
    /\ failed \subseteq {"load", "start"}

(* The file of the command line has yet to be loaded. *)
Args == idle # <<>> /\ Head(idle) = "args"

(* A thread is at work, or the main loop has not heard of its end. *)
Busy == There # {} \/ idle \notin {<<>>, <<"args">>}

(* What is in the buffer is the file that is named, or could not be loaded. *)
Loaded == file_mem = named \/ "load" \in failed

OneThread ==
    /\ idle \in {<<>>, <<"args">>} \cup {<<c>> : c \in Callbacks}
                \cup {<<"args", c>> : c \in Callbacks}
    /\ There # {} => idle \in {<<>>, <<"args">>}
    /\ \A t, u \in There : t = u

GreyedOut ==
    /\ Busy => {"open", "reset", "export", "erase"} \cap sensitive = {}
               /\ dialog \notin {"open", "erase"}
    /\ Args => sensitive \subseteq {"open", "connect"} /\ dialog # "erase"

OnItsWay ==
    /\ Args => \A t \in There : threads[t].do = "file"
    /\ ~Args /\ (\A t \in There : threads[t].do # "file") => Loaded
    /\ \A t \in There :
         threads[t].at = "busy" /\ threads[t].do = "file" => threads[t].with = named
    /\ \A t \in There :
         threads[t].at = "busy" /\ threads[t].do = "flash" =>
           threads[t].with = named \/ "load" \in failed

Calm == OneThread /\ GreyedOut /\ OnItsWay

Inv == TypeOK /\ (~behind => Calm) /\ OneAtATime /\ FlashedIsTheFile
-----------------------------------------------------------------------------
(***************************************************************************)
(* What the model's operators do.                                          *)
(***************************************************************************)
(* The smallest member of a set of naturals, which g_thread_new's place is *)
(* taken from, is one of them.                                             *)
LEMMA MinIsIn ==
  ASSUME NEW S \in SUBSET Nat, S # {}
  PROVE  Min(S) \in S
<1> DEFINE R == {ss \in Nat \X Nat : ss[1] < ss[2]}
<1>1. IsWellFoundedOn(R, Nat)
  BY NatLessThanWellFounded, Zenon DEF OpToRel
<1>2. PICK x \in S : \A y \in S : ~(<<y, x>> \in R)
  <2> HIDE DEF R
  <2> QED BY <1>1, WFMin, Zenon
<1>3. \A y \in S : x <= y
  <2> SUFFICES ASSUME NEW y \in S PROVE x <= y
    OBVIOUS
  <2>1. ~(<<y, x>> \in R)
    BY <1>2, Zenon
  <2>2. x \in Nat /\ y \in Nat
    OBVIOUS
  <2> QED
    BY <2>1, <2>2
<1> QED
  BY <1>3, Zenon DEF Min

(* A callback behind that of the command line.                             *)
LEMMA AppendOne ==
  ASSUME NEW x, NEW y
  PROVE  Append(<<x>>, y) = <<x, y>>
<1> DEFINE S == {x, y}
           s == <<x>>
           u == <<x, y>>
<1>1. s \in Seq(S) /\ u \in Seq(S) /\ y \in S
  OBVIOUS
<1>2. Len(s) = 1 /\ Len(u) = 2 /\ s[1] = x /\ u[1] = x /\ u[2] = y
  OBVIOUS
<1> HIDE DEF S, s, u
<1>3. /\ Append(s, y) \in Seq(S) /\ Len(Append(s, y)) = 2
      /\ Append(s, y)[1] = x /\ Append(s, y)[2] = y
  <2>1. /\ Append(s, y) \in Seq(S) /\ Len(Append(s, y)) = Len(s) + 1
        /\ \A i \in 1 .. Len(s) : Append(s, y)[i] = s[i]
        /\ Append(s, y)[Len(s) + 1] = y
    BY <1>1, AppendProperties
  <2> QED
    BY <1>2, <2>1
<1>4. Append(s, y) = u
  BY <1>1, <1>2, <1>3, SeqEqual
<1> QED
  BY <1>4 DEF s, u

(* A thread that is started takes a place that was free, and no other       *)
(* thread notices.                                                         *)
LEMMA Started ==
  ASSUME NEW do \in Jobs, TypeOK, Start(do)
  PROVE  \E m \in Thread :
           /\ m \notin There /\ There' = There \cup {m}
           /\ threads' = [threads EXCEPT ![m] = Starting(do)]
           /\ threads'[m] = Starting(do)
           /\ \A t \in There : threads'[t] = threads[t]
<1> DEFINE m == Min(Free)
<1>1. m \in Free
  BY MinIsIn, MaximaAreNat DEF Start, Free, Thread
<1>2. threads' = [threads EXCEPT ![m] = Starting(do)]
  BY DEF Start
<1> HIDE DEF m
<1>3. m \in Thread /\ m \notin There
  BY <1>1 DEF Free
<1>4. threads \in [Thread -> ThreadState]
  BY DEF TypeOK
<1>5. threads'[m] = Starting(do) /\ \A t \in Thread \ {m} : threads'[t] = threads[t]
  BY <1>2, <1>3, <1>4
<1>6. threads'[m].do # "none"
  BY <1>5 DEF Starting, Jobs
<1>7. There' = There \cup {m}
  BY <1>3, <1>5, <1>6 DEF There
<1>8. \A t \in There : threads'[t] = threads[t]
  BY <1>3, <1>5 DEF There
<1> QED
  BY <1>2, <1>3, <1>5, <1>7, <1>8

(* A thread that ends leaves its place, and no other notices.              *)
LEMMA Ended ==
  ASSUME NEW t \in Thread, TypeOK, Ends(t)
  PROVE  There' = There \ {t} /\ \A u \in There' : threads'[u] = threads[u]
<1>1. threads \in [Thread -> ThreadState]
  BY DEF TypeOK
<1>2. threads'[t] = NoThread /\ \A u \in Thread \ {t} : threads'[u] = threads[u]
  BY <1>1 DEF Ends
<1>3. threads'[t].do = "none"
  BY <1>2 DEF NoThread
<1> QED
  BY <1>2, <1>3 DEF There

(* A thread that goes on stays, and so do the others.                      *)
LEMMA WentOn ==
  ASSUME NEW t \in There, NEW d, NEW S, TypeOK, GoesOn(t, d, S)
  PROVE  /\ There' = There
         /\ threads'[t].do = threads[t].do /\ threads'[t].at = "busy"
         /\ threads'[t].with = d
<1>1. threads \in [Thread -> ThreadState] /\ t \in Thread
  BY DEF TypeOK, There
<1>2. \A u \in Thread : threads[u] \in ThreadState
  BY <1>1
<1>3. threads'[t] = [threads[t] EXCEPT !.at = "busy", !.with = d, !.sl = sl]
  BY <1>1 DEF GoesOn
<1>4. threads'[t].do = threads[t].do /\ threads'[t].at = "busy" /\ threads'[t].with = d
  BY <1>1, <1>2, <1>3 DEF ThreadState
<1>5. \A u \in Thread : threads'[u].do = threads[u].do
  <2> SUFFICES ASSUME NEW u \in Thread PROVE threads'[u].do = threads[u].do
    OBVIOUS
  <2>1. CASE u = t
    BY <1>4, <2>1
  <2>2. CASE u # t
    <3>1. threads'[u] = IF u \in S THEN [threads[u] EXCEPT !.with = "junk"] ELSE threads[u]
      BY <2>2 DEF GoesOn
    <3> QED
      BY <1>2, <3>1 DEF ThreadState
  <2> QED
    BY <2>1, <2>2
<1> QED
  BY <1>4, <1>5 DEF There

LEMMA SensitivityIs ==
  ASSUME NEW set \in SUBSET Buttons, NEW on
  PROVE  /\ Sensitivity(set, FALSE, on) = set \ {"open", "reset", "export", "erase"}
         /\ Sensitivity(set, TRUE, on) \subseteq Buttons
  BY DEF Sensitivity, Enabled, Buttons

-----------------------------------------------------------------------------
(***************************************************************************)
(* Types.                                                                  *)
(***************************************************************************)
LEMMA TypeInit == Init => TypeOK
<1> SUFFICES ASSUME Init PROVE TypeOK
  OBVIOUS
<1>1. MaxConnects \in Nat
  BY MaximaAreNat
<1>2. threads \in [Thread -> ThreadState]
  <2>1. NoThread \in ThreadState
    BY <1>1 DEF NoThread, ThreadState
  <2> QED
    BY <2>1 DEF Init
<1>3. idle \in Seq(Callbacks \cup {"args"})
  <2>1. <<>> \in Seq(Callbacks \cup {"args"}) /\ <<"args">> \in Seq(Callbacks \cup {"args"})
    OBVIOUS
  <2>2. idle = <<>> \/ idle = <<"args">>
    BY Zenon DEF Init
  <2> QED
    BY <2>1, <2>2
<1>4. Disconnected({"open"}) \subseteq Buttons /\ "none" \in Dialogs
  BY DEF Buttons, Dialogs, Disconnected
<1>5. sensitive \subseteq Buttons /\ dialog \in Dialogs
  BY <1>4 DEF Init
<1>6. sl \in 0 .. MaxConnects /\ opened \in 0 .. MaxConnects
  BY <1>1 DEF Init
<1>7. running \in BOOLEAN /\ clash \in BOOLEAN /\ behind \in BOOLEAN /\ wrong \in BOOLEAN
  BY Zenon DEF Init
<1>8. /\ named \in Files \cup {"none"} /\ file_mem \in Files \cup {"none", "junk", "chip"}
      /\ failed \subseteq {"load", "start"}
  BY DEF Init
<1> QED
  BY Zenon, <1>2, <1>3, <1>5, <1>6, <1>7, <1>8 DEF TypeOK

(* The threads keep their type when one starts, ends or goes on.           *)
LEMMA ThreadsTyped ==
  ASSUME TypeOK
  PROVE  /\ \A do \in Jobs : Start(do) => threads' \in [Thread -> ThreadState]
         /\ \A t \in Thread : Ends(t) => threads' \in [Thread -> ThreadState]
         /\ \A t \in Thread, d \in Files \cup {"none", "junk", "chip"}, S \in SUBSET Thread :
              GoesOn(t, d, S) => threads' \in [Thread -> ThreadState]
<1>1. MaxConnects \in Nat
  BY MaximaAreNat
<1>2. threads \in [Thread -> ThreadState] /\ sl \in 0 .. MaxConnects
  BY DEF TypeOK
<1>3. \A do \in Jobs : Starting(do) \in ThreadState
  BY <1>1 DEF Starting, ThreadState
<1>4. NoThread \in ThreadState
  BY <1>1 DEF NoThread, ThreadState
<1>5. \A do \in Jobs : Start(do) => threads' \in [Thread -> ThreadState]
  BY <1>2, <1>3 DEF Start
<1>6. \A t \in Thread : Ends(t) => threads' \in [Thread -> ThreadState]
  BY <1>2, <1>4 DEF Ends
<1>7. ASSUME NEW t \in Thread, NEW d \in Files \cup {"none", "junk", "chip"},
             NEW S \in SUBSET Thread, GoesOn(t, d, S)
      PROVE  threads' \in [Thread -> ThreadState]
  <2>1. \A w \in ThreadState : [w EXCEPT !.at = "busy", !.with = d, !.sl = sl] \in ThreadState
    BY <1>2 DEF ThreadState
  <2>2. \A w \in ThreadState : [w EXCEPT !.with = "junk"] \in ThreadState
    BY DEF ThreadState
  <2> QED
    BY <1>2, <1>7, <2>1, <2>2 DEF GoesOn
<1> QED
  BY Zenon, <1>5, <1>6, <1>7

(* What the main thread does keeps the types.                              *)
LEMMA MainTypes ==
  ASSUME TypeOK,
         \/ Connect \/ Disconnect \/ Reset \/ Quit \/ Callback
         \/ OpenDialog \/ Cancel \/ FlashFile \/ EraseFlash
         \/ \E f \in Files : ChooseFile(f) \/ DropFile(f)
  PROVE  TypeOK'
<1> DEFINE
      Flags == running \in BOOLEAN /\ clash \in BOOLEAN /\ behind \in BOOLEAN /\ wrong \in BOOLEAN
      Numbers == sl \in 0 .. MaxConnects /\ opened \in 0 .. MaxConnects
      Buffers == /\ named \in Files \cup {"none"}
                 /\ file_mem \in Files \cup {"none", "junk", "chip"}
                 /\ failed \subseteq {"load", "start"}
      Widgets == sensitive \subseteq Buttons /\ dialog \in Dialogs
      Others == threads \in [Thread -> ThreadState] /\ idle \in Seq(Callbacks \cup {"args"})
<1>1. Flags /\ Numbers /\ Buffers /\ Widgets /\ Others
  BY DEF TypeOK
<1>2. MaxConnects \in Nat /\ Jobs = {"file", "devmem", "flash", "erase"}
  BY MaximaAreNat DEF Jobs
<1>3. \A set \in SUBSET Buttons :
        /\ \A on : Sensitivity(set, FALSE, on) \subseteq Buttons
        /\ \A on : Sensitivity(set, TRUE, on) \subseteq Buttons
        /\ Disconnected(set) \subseteq Buttons
        /\ set \ {"connect"} \subseteq Buttons
        /\ (set \ {"connect"}) \cup {"flash"} \subseteq Buttons
  BY DEF Sensitivity, Enabled, Disconnected, Buttons
<1>4. {"none", "open", "flash", "erase", "export", "page"} \subseteq Dialogs
  BY DEF Dialogs
<1>5. (behind \in BOOLEAN /\ Behind) => behind' \in BOOLEAN
  BY Zenon DEF Behind
<1> USE DEF history, windows, buffers
<1>6. CASE Connect
  <2>1. Numbers'
    BY <1>1, <1>2, <1>6 DEF Connect
  <2>2. Widgets'
    <3> DEFINE set == (sensitive \ {"connect"}) \cup (IF named # "none" THEN {"flash"} ELSE {})
    <3>1. set \subseteq Buttons
      BY <1>1 DEF Buttons
    <3>2. sensitive' = Sensitivity(set, FALSE, sl') /\ dialog' = dialog
      BY <1>6 DEF Connect
    <3> HIDE DEF set
    <3> QED
      BY <1>1, <1>3, <3>1, <3>2
  <2>3. Others'
    BY <1>1, <1>2, <1>6, ThreadsTyped DEF Connect
  <2>4. Flags' /\ Buffers'
    BY Zenon, <1>1, <1>5, <1>6 DEF Connect
  <2> QED
    BY Zenon, <2>1, <2>2, <2>3, <2>4 DEF TypeOK
<1>7. CASE Disconnect
  <2>1. sl' = 0 /\ sensitive' = Disconnected(sensitive)
    BY Zenon, <1>7 DEF Disconnect
  <2>2. Numbers'
    BY <1>1, <1>2, <1>7, <2>1 DEF Disconnect
  <2>3. Widgets'
    BY <1>1, <1>3, <1>7, <2>1 DEF Disconnect
  <2>4. Flags' /\ Buffers' /\ Others'
    BY Zenon, <1>1, <1>5, <1>7 DEF Disconnect
  <2> QED
    BY Zenon, <2>2, <2>3, <2>4 DEF TypeOK
<1>8. CASE Reset \/ Quit
  BY Zenon, <1>1, <1>8 DEF TypeOK, Reset, Quit
<1>9. CASE OpenDialog \/ Cancel
  <2>1. dialog' \in Dialogs
    BY <1>4, <1>9 DEF OpenDialog, Cancel
  <2> QED
    BY Zenon, <1>1, <1>9, <2>1 DEF TypeOK, OpenDialog, Cancel
<1>10. ASSUME FlashFile \/ EraseFlash \/ \E f \in Files : LoadFile(f)
       PROVE  Widgets' /\ Others'
  <2>1. sensitive' = Sensitivity(sensitive, FALSE, sl) /\ dialog' = "none" /\ idle' = idle
    BY Zenon, <1>10 DEF FlashFile, EraseFlash, LoadFile
  <2>2. \E do \in Jobs : Start(do)
    BY <1>2, <1>10 DEF FlashFile, EraseFlash, LoadFile
  <2> QED
    BY <1>1, <1>3, <1>4, <2>1, <2>2, ThreadsTyped
<1>11. CASE FlashFile \/ EraseFlash
  <2>1. Flags' /\ Numbers' /\ Buffers'
    BY Zenon, <1>1, <1>5, <1>11 DEF FlashFile, EraseFlash
  <2> QED
    BY Zenon, <1>10, <1>11, <2>1 DEF TypeOK
<1>12. CASE \E f \in Files : ChooseFile(f) \/ DropFile(f)
  <2>1. PICK f \in Files : LoadFile(f) /\ (Behind \/ UNCHANGED behind)
    BY Zenon, <1>12 DEF ChooseFile, DropFile
  <2>2. named' = f
    BY Zenon, <2>1 DEF LoadFile
  <2>3. Buffers'
    BY <1>1, <2>1, <2>2 DEF LoadFile
  <2>4. Flags' /\ Numbers'
    BY Zenon, <1>1, <1>5, <2>1 DEF LoadFile
  <2> QED
    BY Zenon, <1>10, <2>1, <2>3, <2>4 DEF TypeOK
<1>13. CASE Callback
  <2>1. Flags' /\ Numbers' /\ Buffers'
    BY Zenon, <1>1, <1>13 DEF Callback
  <2>2. \/ sensitive' = Sensitivity(sensitive, FALSE, sl)
        \/ sensitive' = Sensitivity(sensitive, TRUE, sl)
    BY Zenon, <1>13 DEF Callback
  <2>3. Widgets'
    BY <1>1, <1>3, <1>13, <2>2 DEF Callback
  <2>4. Start("file") \/ UNCHANGED threads
    BY Zenon, <1>13 DEF Callback
  <2>5. Others'
    BY <1>1, <1>2, <1>13, <2>4, ThreadsTyped DEF Callback
  <2> QED
    BY Zenon, <2>1, <2>3, <2>5 DEF TypeOK
<1> QED
  BY <1>6, <1>7, <1>8, <1>9, <1>11, <1>12, <1>13

(* What a thread does keeps the types.                                     *)
LEMMA ThreadTypes ==
  ASSUME NEW t \in Thread, TypeOK, Works(t)
  PROVE  TypeOK'
<1> DEFINE
      Flags == running \in BOOLEAN /\ clash \in BOOLEAN /\ behind \in BOOLEAN /\ wrong \in BOOLEAN
      Main == /\ sl \in 0 .. MaxConnects /\ opened \in 0 .. MaxConnects
              /\ named \in Files \cup {"none"}
              /\ sensitive \subseteq Buttons /\ dialog \in Dialogs
      Buffer == /\ file_mem \in Files \cup {"none", "junk", "chip"}
                /\ failed \subseteq {"load", "start"}
      Others == threads \in [Thread -> ThreadState] /\ idle \in Seq(Callbacks \cup {"args"})
<1>1. Flags /\ Main /\ Buffer /\ Others
  BY DEF TypeOK
<1>2. threads[t] \in ThreadState
  BY <1>1
<1>3. threads[t].with \in Files \cup {"none", "junk", "chip"}
  BY <1>2 DEF ThreadState
<1> USE DEF history, windows, buffers
<1>4. Main'
  BY Zenon, <1>1 DEF Works, FileFails, FileBegins, FileEnds, FindsNone, Begins, Crashes,
     DevmemEnds, FlashEnds, EraseEnds, MainStays
<1>5. Flags'
  BY Zenon, <1>1 DEF Works, FileFails, FileBegins, FileEnds, FindsNone, Begins, Crashes,
     DevmemEnds, FlashEnds, EraseEnds, MainStays
<1>6. /\ file_mem' \in {file_mem, "junk", threads[t].with}
      /\ \/ failed' = failed \/ failed' = failed \cup {"load"} \/ failed' = failed \cup {"start"}
         \/ failed' = failed \ {"load"}
  BY DEF Works, FileFails, FileBegins, FileEnds, FindsNone, Begins, Crashes,
     DevmemEnds, FlashEnds, EraseEnds, MainStays
<1>7. Buffer'
  BY <1>1, <1>3, <1>6
<1>8. Others'
  <2>1. CASE Ends(t)
    <3>1. UNCHANGED idle \/ \E c \in Callbacks : idle' = Append(idle, c)
      BY <2>1 DEF Works, FileFails, FileUnread, FileBegins, FileEnds, FindsNone, Begins, Crashes,
         DevmemEnds, FlashEnds, EraseEnds, MainStays, Reports, Callbacks
    <3> QED
      BY <1>1, <2>1, <3>1, ThreadsTyped
  <2>2. CASE FileBegins(t)
    <3> DEFINE S == {u \in There : threads[u].at = "busy" /\ threads[u].do \in {"file", "flash"}}
    <3>1. GoesOn(t, named, S) /\ idle' = idle
      BY Zenon, <2>2 DEF FileBegins
    <3>2. S \in SUBSET Thread /\ named \in Files \cup {"none", "junk", "chip"}
      BY <1>1 DEF There
    <3> HIDE DEF S
    <3> QED
      BY <1>1, <3>1, <3>2, ThreadsTyped
  <2>3. CASE Begins(t)
    <3> DEFINE d == IF OnProgrammer # {} THEN "junk"
                    ELSE IF threads[t].do = "flash" THEN file_mem ELSE "chip"
    <3>1. GoesOn(t, d, OnProgrammer) /\ idle' = idle
      BY Zenon, <2>3 DEF Begins
    <3>2. OnProgrammer \in SUBSET Thread /\ d \in Files \cup {"none", "junk", "chip"}
      BY <1>1 DEF OnProgrammer, There
    <3> HIDE DEF d
    <3> QED
      BY <1>1, <3>1, <3>2, ThreadsTyped
  <2>4. CASE Crashes(t)
    BY Zenon, <1>1, <2>4 DEF Crashes
  <2> QED
    BY Zenon, <2>1, <2>2, <2>3, <2>4 DEF Works, FileFails, FileUnread, FileEnds, FindsNone,
       DevmemEnds, FlashEnds, EraseEnds, Reports
<1> QED
  BY Zenon, <1>4, <1>5, <1>7, <1>8 DEF TypeOK

LEMMA TypeStep == TypeOK /\ [Next]_vars => TypeOK'
<1> SUFFICES ASSUME TypeOK, [Next]_vars PROVE TypeOK'
  OBVIOUS
<1>1. CASE UNCHANGED vars
  BY Zenon, <1>1 DEF TypeOK, vars, windows, buffers, history
<1>2. CASE Next
  BY Zenon, <1>2, MainTypes, ThreadTypes DEF Next
<1> QED
  BY <1>1, <1>2

(* Every variable of the program and of its history keeps its type: the    *)
(* handlers of gui.c, their idle callbacks and the threads.                *)
THEOREM TypesHold == Spec => []TypeOK
  BY TypeInit, TypeStep, PTL DEF Spec

-----------------------------------------------------------------------------
(***************************************************************************)
(* Nothing behind the back of set_sensitivity.                             *)
(***************************************************************************)
LEMMA CalmInit == Init => Calm
<1> SUFFICES ASSUME Init PROVE Calm
  OBVIOUS
<1>1. There = {}
  BY DEF Init, There, NoThread
<1>2. (idle = <<>> /\ named = "none") \/ idle = <<"args">>
  BY Zenon DEF Init
<1>3. Args <=> idle = <<"args">>
  BY <1>2 DEF Args
<1>4. sensitive \subseteq {"open", "connect"} /\ dialog = "none" /\ file_mem = "none"
  BY DEF Init, Disconnected
<1>5. OneThread
  BY <1>1, <1>2 DEF OneThread
<1>6. GreyedOut
  BY <1>1, <1>2, <1>3, <1>4 DEF GreyedOut, Busy
<1>7. ~Args => Loaded
  BY <1>2, <1>3, <1>4 DEF Loaded
<1> QED
  BY <1>1, <1>5, <1>6, <1>7 DEF Calm, OnItsWay

(* With no thread there and nothing to hear of, one may start.             *)
LEMMA CalmStart ==
  ASSUME NEW do \in Jobs, TypeOK, Start(do), There = {}, idle' \in {<<>>, <<"args">>},
         {"open", "reset", "export", "erase"} \cap sensitive' = {},
         dialog' \notin {"open", "erase"},
         idle' = <<"args">> => do = "file" /\ sensitive' \subseteq {"open", "connect"},
         do = "file" \/ Loaded'
  PROVE  Calm'
<1>1. PICK m \in Thread : There' = {m} /\ threads'[m] = Starting(do)
  BY Started
<1>2. threads'[m].do = do /\ threads'[m].at = "start"
  BY <1>1 DEF Starting
<1>3. Args' => idle' = <<"args">>
  BY DEF Args
<1>4. OneThread'
  BY <1>1 DEF OneThread
<1>5. GreyedOut'
  BY <1>3 DEF GreyedOut
<1>6. OnItsWay'
  <2>1. Args' => do = "file"
    BY <1>3
  <2>2. \A t \in There' : t = m
    BY <1>1
  <2>3. m \in There'
    BY <1>1
  <2>4. do # "file" => Loaded'
    OBVIOUS
  <2> QED
    BY <1>2, <2>1, <2>2, <2>3, <2>4 DEF OnItsWay
<1> QED
  BY <1>4, <1>5, <1>6 DEF Calm

(* The thread that is there may end, whether it reports or not.            *)
LEMMA CalmEnd ==
  ASSUME NEW t \in There, TypeOK, Calm, Ends(t),
         idle' = idle \/ \E c \in Callbacks : idle' = Append(idle, c),
         UNCHANGED <<sensitive, dialog>>,
         Args \/ Loaded'
  PROVE  Calm'
<1>1. There = {t} /\ There' = {}
  <2>1. There = {t}
    BY DEF Calm, OneThread
  <2>2. t \in Thread
    BY DEF There
  <2> QED
    BY <2>1, <2>2, Ended
<1>2. idle = <<>> \/ idle = <<"args">>
  BY <1>1 DEF Calm, OneThread
<1>3. Busy /\ {"open", "reset", "export", "erase"} \cap sensitive = {}
           /\ dialog \notin {"open", "erase"}
           /\ (Args => sensitive \subseteq {"open", "connect"})
  BY <1>1 DEF Calm, GreyedOut, Busy
<1>4. CASE idle' = idle
  <2>1. Args' <=> Args
    BY <1>4 DEF Args
  <2>2. OneThread'
    BY <1>1, <1>2, <1>4 DEF OneThread
  <2>3. GreyedOut'
    BY <1>3, <2>1 DEF GreyedOut
  <2>4. OnItsWay'
    BY <1>1, <2>1 DEF OnItsWay
  <2> QED
    BY <2>2, <2>3, <2>4 DEF Calm
<1>5. ASSUME NEW c \in Callbacks, idle' = Append(idle, c) PROVE Calm'
  <2>1. idle = <<>> => idle' = <<c>>
    BY <1>5
  <2>2. idle = <<"args">> => idle' = <<"args", c>>
    BY <1>5, AppendOne
  <2>3. c # "args"
    BY DEF Callbacks
  <2>4. Args' <=> Args
    BY <1>2, <2>1, <2>2, <2>3 DEF Args
  <2>5. OneThread'
    BY <1>1, <1>2, <2>1, <2>2 DEF OneThread
  <2>6. GreyedOut'
    BY <1>3, <2>4 DEF GreyedOut
  <2>7. OnItsWay'
    BY <1>1, <2>4 DEF OnItsWay
  <2> QED
    BY <2>5, <2>6, <2>7 DEF Calm
<1> QED
  BY <1>4, <1>5

(* The thread that is there may go on, with the file that is named or with *)
(* what is in the buffer.                                                  *)
LEMMA CalmGoesOn ==
  ASSUME NEW t \in There, NEW d, NEW S, TypeOK, Calm, GoesOn(t, d, S),
         UNCHANGED <<sensitive, dialog, idle, named, failed>>,
         threads[t].do = "file" => d = named,
         threads[t].do = "flash" => d = named \/ "load" \in failed,
         threads[t].do = "file" \/ UNCHANGED file_mem
  PROVE  Calm'
<1>1. There = {t} /\ There' = {t}
  BY WentOn DEF Calm, OneThread
<1>2. threads'[t].do = threads[t].do /\ threads'[t].at = "busy" /\ threads'[t].with = d
  BY WentOn
<1>3. Args' <=> Args
  BY DEF Args
<1>4. OneThread'
  BY <1>1 DEF Calm, OneThread
<1>5. GreyedOut'
  BY <1>1, <1>3 DEF Calm, GreyedOut, Busy
<1>6. threads[t].do = "file" \/ (Loaded' <=> Loaded)
  BY DEF Loaded
<1>7. OnItsWay'
  BY <1>1, <1>2, <1>3, <1>6 DEF Calm, OnItsWay
<1> QED
  BY <1>4, <1>5, <1>7 DEF Calm

(* What greys out stands on what the threads and the callbacks are: nobody *)
(* is there, and nothing is greyed out for ever.                           *)
LEMMA CalmIdle ==
  ASSUME Calm, There = {}, There' = {}, idle' = <<>>, UNCHANGED threads, Loaded'
  PROVE  Calm'
<1>1. ~Args' /\ ~Busy'
  BY DEF Args, Busy
<1>2. OneThread' /\ GreyedOut'
  BY <1>1 DEF OneThread, GreyedOut
<1>3. OnItsWay'
  BY <1>1 DEF OnItsWay
<1> QED
  BY <1>2, <1>3 DEF Calm

(* No step of the main thread starts a second thread, closes the           *)
(* programmer under one, or takes the buffer from one, unless behind is    *)
(* set.                                                                    *)
LEMMA MainCalm ==
  ASSUME TypeOK, TypeOK', Calm, ~behind', OneAtATime, FlashedIsTheFile, ~behind,
         \/ Connect \/ Disconnect \/ Reset \/ Quit \/ Callback
         \/ OpenDialog \/ Cancel \/ FlashFile \/ EraseFlash
         \/ \E f \in Files : ChooseFile(f) \/ DropFile(f)
  PROVE  Calm' /\ ~clash' /\ ~wrong'
<1>1. ~clash /\ ~wrong
  BY Zenon DEF OneAtATime, FlashedIsTheFile
<1>2. Behind => There = {} /\ idle = <<>>
  BY Zenon DEF Behind, AtWork
<1>3. sensitive \in SUBSET Buttons
  BY DEF TypeOK
<1>4. There = {} /\ ~Args => Loaded
  BY DEF Calm, OnItsWay
<1>5. idle = <<>> => ~Args
  BY DEF Args
<1>6. OnProgrammer \subseteq There
  BY DEF OnProgrammer
<1> USE DEF history, windows, buffers
<1>7. CASE Connect
  <2>1. There = {} /\ idle = <<>> /\ idle' = <<>> /\ Start("devmem")
    BY Zenon, <1>2, <1>7 DEF Connect
  <2>2. ~clash' /\ ~wrong'
    BY Zenon, <1>1, <1>7 DEF Connect
  <2>3. Loaded'
    BY <1>4, <1>5, <1>7, <2>1 DEF Loaded, Connect
  <2>4. dialog' = "none"
    BY Zenon, <1>7 DEF Connect, Pressed
  <2>5. {"open", "reset", "export", "erase"} \cap sensitive' = {}
    <3> DEFINE set == (sensitive \ {"connect"}) \cup (IF named # "none" THEN {"flash"} ELSE {})
    <3>1. set \in SUBSET Buttons
      BY <1>3 DEF Buttons
    <3>2. sensitive' = Sensitivity(set, FALSE, sl')
      BY Zenon, <1>7 DEF Connect
    <3> HIDE DEF set
    <3> QED
      BY <3>1, <3>2, SensitivityIs
  <2>6. Calm'
    BY <2>1, <2>3, <2>4, <2>5, CalmStart DEF Jobs
  <2> QED
    BY <2>2, <2>6
<1>8. CASE Disconnect
  <2>1. There = {} /\ idle = <<>> /\ idle' = <<>> /\ UNCHANGED <<threads, file_mem, named, failed>>
    BY Zenon, <1>2, <1>8 DEF Disconnect
  <2>2. There' = {}
    BY <2>1 DEF There
  <2>3. OnProgrammer = {}
    BY <1>6, <2>1
  <2>4. ~clash' /\ ~wrong'
    BY Zenon, <1>1, <1>8, <2>3 DEF Disconnect
  <2>5. Loaded'
    BY <1>4, <1>5, <2>1 DEF Loaded
  <2> QED
    BY <2>1, <2>2, <2>4, <2>5, CalmIdle
<1>9. ASSUME UNCHANGED <<sensitive, named, file_mem, threads, idle, failed>>,
             Busy => dialog' \notin {"open", "erase"}, Args => dialog' # "erase"
      PROVE  Calm'
  <2>1. (There' = There) /\ (Args' <=> Args) /\ (Loaded' <=> Loaded)
    BY <1>9 DEF There, Args, Loaded
  <2>2. Busy' <=> Busy
    BY <1>9, <2>1 DEF Busy
  <2>3. OneThread'
    BY <1>9, <2>1 DEF Calm, OneThread
  <2>4. GreyedOut'
    BY <1>9, <2>1, <2>2 DEF Calm, GreyedOut
  <2>5. OnItsWay'
    BY <1>9, <2>1 DEF Calm, OnItsWay
  <2> QED
    BY <2>3, <2>4, <2>5 DEF Calm
<1>10. CASE Reset
  <2>1. There = {}
    BY <1>10 DEF Reset, Pressed, Calm, GreyedOut, Busy
  <2>2. OnProgrammer = {}
    BY <1>6, <2>1
  <2>3. ~clash' /\ ~wrong'
    BY Zenon, <1>1, <1>10, <2>2 DEF Reset
  <2>4. /\ UNCHANGED <<sensitive, dialog, named, file_mem, threads, idle, failed>>
        /\ dialog = "none"
    BY Zenon, <1>10 DEF Reset, Pressed
  <2> QED
    BY <1>9, <2>3, <2>4
<1>11. CASE Quit \/ Cancel
  <2>1. UNCHANGED <<clash, wrong>>
    BY Zenon, <1>11 DEF Quit, Cancel
  <2>2. UNCHANGED <<sensitive, named, file_mem, threads, idle, failed>> /\ dialog' = "none"
    BY Zenon, <1>11 DEF Quit, Cancel
  <2> QED
    BY Zenon, <1>1, <1>9, <2>1, <2>2
<1>12. CASE OpenDialog
  <2>1. ~clash' /\ ~wrong' /\ UNCHANGED <<sensitive, named, file_mem, threads, idle, failed>>
    BY Zenon, <1>1, <1>12 DEF OpenDialog
  <2>2. dialog' \in sensitive \/ dialog' = "page"
    BY Zenon, <1>12 DEF OpenDialog, Pressed
  <2> QED
    BY <1>9, <2>1, <2>2 DEF Calm, GreyedOut
<1>13. CASE FlashFile
  <2>1. There = {} /\ idle = <<>> /\ idle' = <<>> /\ Start("flash") /\ dialog' = "none"
    BY Zenon, <1>2, <1>13 DEF FlashFile
  <2>2. ~clash' /\ ~wrong'
    BY Zenon, <1>1, <1>13 DEF FlashFile
  <2>3. Loaded'
    BY <1>4, <1>5, <1>13, <2>1 DEF Loaded, FlashFile
  <2>4. {"open", "reset", "export", "erase"} \cap sensitive' = {}
    BY <1>3, <1>13, SensitivityIs DEF FlashFile
  <2>5. Calm'
    BY <2>1, <2>3, <2>4, CalmStart DEF Jobs
  <2> QED
    BY <2>2, <2>5
<1>14. CASE EraseFlash
  <2>1. ~Busy /\ ~Args /\ Start("erase") /\ dialog' = "none" /\ idle' = idle
    BY <1>14 DEF EraseFlash, Calm, GreyedOut
  <2>2. There = {} /\ idle = <<>>
    BY <2>1 DEF Busy, Args
  <2>3. ~clash' /\ ~wrong'
    BY Zenon, <1>1, <1>14 DEF EraseFlash
  <2>4. Loaded'
    BY <1>4, <1>14, <2>1, <2>2 DEF Loaded, EraseFlash
  <2>5. {"open", "reset", "export", "erase"} \cap sensitive' = {}
    BY <1>3, <1>14, SensitivityIs DEF EraseFlash
  <2>6. Calm'
    BY <2>1, <2>2, <2>4, <2>5, CalmStart DEF Jobs
  <2> QED
    BY <2>3, <2>6
<1>15. CASE \E f \in Files : ChooseFile(f) \/ DropFile(f)
  <2>1. PICK f \in Files : LoadFile(f) /\ (dialog = "open" \/ Behind)
    BY Zenon, <1>15 DEF ChooseFile, DropFile
  <2>2. There = {} /\ idle \in {<<>>, <<"args">>}
    BY <1>2, <2>1 DEF Calm, GreyedOut, Busy
  <2>3. Start("file") /\ dialog' = "none" /\ idle' = idle
    BY Zenon, <2>1 DEF LoadFile
  <2>4. ~clash' /\ ~wrong'
    BY Zenon, <1>1, <2>1 DEF LoadFile
  <2>5. sensitive' = sensitive \ {"open", "reset", "export", "erase"}
    BY <1>3, <2>1, SensitivityIs DEF LoadFile
  <2>6. idle = <<"args">> => sensitive \subseteq {"open", "connect"}
    BY DEF Calm, GreyedOut, Args
  <2>7. Calm'
    BY <2>2, <2>3, <2>5, <2>6, CalmStart DEF Jobs
  <2> QED
    BY <2>4, <2>7
<1>16. CASE Callback
  <2>1. ~clash' /\ ~wrong' /\ idle # <<>> /\ idle' = Tail(idle)
        /\ UNCHANGED <<dialog, named, file_mem, failed>>
    BY Zenon, <1>1, <1>16 DEF Callback
  <2>2. CASE Head(idle) = "args"
    <3>1. There = {} /\ dialog = "none" /\ Tail(idle) = <<>> /\ Start("file")
      BY Zenon, <1>16, <2>2 DEF Callback
    <3>2. {"open", "reset", "export", "erase"} \cap sensitive' = {}
      <4>1. sensitive' = Sensitivity(sensitive, FALSE, sl)
        BY Zenon, <1>16, <2>2 DEF Callback
      <4> QED
        BY <1>3, <4>1, SensitivityIs
    <3>3. Calm'
      BY <2>1, <3>1, <3>2, CalmStart DEF Jobs
    <3> QED
      BY <2>1, <3>3
  <2>3. CASE Head(idle) # "args"
    <3>1. UNCHANGED threads
      BY Zenon, <1>16, <2>3 DEF Callback
    <3>2. PICK c \in Callbacks : idle = <<c>>
      BY <2>1, <2>3 DEF Calm, OneThread
    <3>3. idle' = <<>>
      BY <2>1, <3>2
    <3>4. There = {} /\ ~Args
      BY <2>3, <3>2 DEF Calm, OneThread, Args
    <3>5. There' = {} /\ Loaded'
      BY <1>4, <2>1, <3>1, <3>4 DEF There, Loaded
    <3>6. Calm'
      BY <3>1, <3>3, <3>4, <3>5, CalmIdle
    <3> QED
      BY <2>1, <3>6
  <2> QED
    BY <2>2, <2>3
<1> QED
  BY <1>7, <1>8, <1>10, <1>11, <1>12, <1>13, <1>14, <1>15, <1>16

(* A thread finds nobody else on the programmer, and flash gets what is    *)
(* named.                                                                  *)
LEMMA ThreadCalm ==
  ASSUME NEW t \in Thread, TypeOK, Calm, ~behind, OneAtATime, FlashedIsTheFile, Works(t)
  PROVE  Calm' /\ ~clash' /\ ~wrong'
<1>1. ~clash /\ ~wrong
  BY Zenon DEF OneAtATime, FlashedIsTheFile
<1> USE DEF history, windows, buffers
<1>2. ~Crashes(t) => UNCHANGED <<sensitive, dialog, named>>
  BY Zenon DEF Works, FileFails, FileBegins, FileEnds, FindsNone, Begins,
     DevmemEnds, FlashEnds, EraseEnds, MainStays
<1>3. CASE Crashes(t)
  <2>1. /\ ~clash' /\ ~wrong'
        /\ UNCHANGED <<sensitive, dialog, named, file_mem, threads, idle, failed>>
    BY Zenon, <1>1, <1>3 DEF Crashes
  <2>2. (There' = There) /\ (Args' <=> Args) /\ (Loaded' <=> Loaded)
    BY <2>1 DEF There, Args, Loaded
  <2>3. OneThread' /\ GreyedOut'
    BY <2>1, <2>2 DEF Calm, OneThread, GreyedOut, Busy
  <2>4. OnItsWay'
    BY <2>1, <2>2 DEF Calm, OnItsWay
  <2> QED
    BY <2>1, <2>3, <2>4 DEF Calm
<1>4. ~Crashes(t) => t \in There
  BY DEF Works, FileFails, FileBegins, FileEnds, FindsNone, Begins,
     DevmemEnds, FlashEnds, EraseEnds, Is, There
<1>5. ASSUME t \in There, threads[t].do # "file" PROVE ~Args /\ Loaded
  <2>1. ~Args
    BY <1>5 DEF Calm, OnItsWay
  <2>2. \A u \in There : threads[u].do # "file"
    BY <1>5 DEF Calm, OneThread
  <2> QED
    BY <2>1, <2>2 DEF Calm, OnItsWay
<1>6. CASE FileFails(t)
  <2>1. Ends(t) /\ idle' = Append(idle, "file") /\ failed' = failed \cup {"load"}
        /\ UNCHANGED <<clash, wrong>> /\ t \in There /\ UNCHANGED <<sensitive, dialog>>
    BY <1>2, <1>4, <1>6 DEF FileFails, FileUnread, Reports, Crashes, Is
  <2>2. Loaded'
    BY <2>1 DEF Loaded
  <2>3. "file" \in Callbacks
    BY DEF Callbacks
  <2>4. Calm'
    BY Zenon, <2>1, <2>2, <2>3, CalmEnd
  <2> QED
    BY Zenon, <1>1, <2>1, <2>4
<1>7. CASE FileBegins(t)
  <2>1. PICK S : GoesOn(t, named, S)
    BY Zenon, <1>7 DEF FileBegins
  <2>2. t \in There /\ threads[t].do = "file"
    BY <1>7 DEF FileBegins, Is, There
  <2>3. UNCHANGED <<sensitive, dialog, idle, named, failed, clash, wrong>>
    BY Zenon, <1>7 DEF FileBegins, MainStays
  <2>4. Calm'
    BY <2>1, <2>2, <2>3, CalmGoesOn
  <2> QED
    BY Zenon, <1>1, <2>3, <2>4
<1>8. CASE FileEnds(t)
  <2>1. /\ t \in There /\ threads[t].do = "file" /\ threads[t].at = "busy"
        /\ Ends(t) /\ idle' = Append(idle, "file")
    BY <1>8 DEF FileEnds, Reports, Is, There
  <2>2. UNCHANGED <<sensitive, dialog, named, clash, wrong>>
    BY Zenon, <1>8 DEF FileEnds, MainStays
  <2>3. threads[t].with = named
    BY <2>1 DEF Calm, OnItsWay
  <2>4. file_mem' = threads[t].with \/ "load" \in failed'
    BY <1>8 DEF FileEnds
  <2>5. Loaded'
    BY <2>2, <2>3, <2>4 DEF Loaded
  <2>6. "file" \in Callbacks
    BY DEF Callbacks
  <2>7. Calm'
    BY Zenon, <2>1, <2>2, <2>5, <2>6, CalmEnd
  <2> QED
    BY Zenon, <1>1, <2>2, <2>7
<1>9. CASE FindsNone(t)
  <2>1. t \in There /\ threads[t].do # "file"
    BY <1>9 DEF FindsNone, Is, There
  <2>2. /\ Ends(t) /\ failed' = failed \cup {"start"}
        /\ UNCHANGED <<sensitive, dialog, named, file_mem, idle, clash, wrong>>
    BY Zenon, <1>9 DEF FindsNone, MainStays
  <2>3. Loaded'
    BY <1>5, <2>1, <2>2 DEF Loaded
  <2>4. Calm'
    BY <2>1, <2>2, <2>3, CalmEnd
  <2> QED
    BY Zenon, <1>1, <2>2, <2>4
<1>10. CASE Begins(t)
  <2>1. /\ t \in There /\ threads[t].do # "file" /\ threads[t].at = "start"
    BY <1>10 DEF Begins, Is, There
  <2>2. OnProgrammer = {}
    <3>1. There = {t}
      BY <2>1 DEF Calm, OneThread
    <3> QED
      BY <2>1, <3>1 DEF OnProgrammer, UsesProgrammer
  <2>3. /\ UNCHANGED <<sensitive, dialog, idle, named, file_mem, failed, wrong>>
        /\ clash' = (clash \/ OnProgrammer # {})
    BY Zenon, <1>10 DEF Begins, MainStays
  <2>4. ~clash' /\ ~wrong'
    BY Zenon, <1>1, <2>2, <2>3
  <2>5. PICK d, S : GoesOn(t, d, S) /\ (threads[t].do = "flash" => d = file_mem)
    BY <1>10, <2>2 DEF Begins
  <2>6. Calm'
    <3>1. threads[t].do = "flash" => d = named \/ "load" \in failed
      BY <1>5, <2>1, <2>5 DEF Loaded
    <3> QED
      BY <2>1, <2>3, <2>5, <3>1, CalmGoesOn
  <2> QED
    BY <2>4, <2>6
<1>11. CASE DevmemEnds(t) \/ FlashEnds(t) \/ EraseEnds(t)
  <2>1. t \in There /\ threads[t].do # "file"
    BY <1>11 DEF DevmemEnds, FlashEnds, EraseEnds, Is, There
  <2>2. Ends(t) /\ \E c \in Callbacks : idle' = Append(idle, c)
    BY <1>11 DEF DevmemEnds, FlashEnds, EraseEnds, Reports, Callbacks
  <2>3. UNCHANGED <<sensitive, dialog, named, file_mem, failed, clash>>
    BY Zenon, <1>11 DEF DevmemEnds, FlashEnds, EraseEnds, MainStays
  <2>4. Loaded'
    BY <1>5, <2>1, <2>3 DEF Loaded
  <2>5. Calm'
    BY Zenon, <2>1, <2>2, <2>3, <2>4, CalmEnd
  <2>6. CASE FlashEnds(t)
    <3>1. threads[t].do = "flash" /\ threads[t].at = "busy"
      BY <2>6 DEF FlashEnds, Is
    <3>2. threads[t].with = named \/ "load" \in failed
      BY <2>1, <3>1 DEF Calm, OnItsWay
    <3>3. wrong' = (wrong \/ (threads[t].with # named /\ "load" \notin failed))
      BY Zenon, <2>6 DEF FlashEnds
    <3>4. ~wrong'
      BY Zenon, <1>1, <3>2, <3>3
    <3> QED
      BY Zenon, <1>1, <2>3, <2>5, <3>4
  <2>7. CASE DevmemEnds(t) \/ EraseEnds(t)
    <3>1. wrong' = wrong
      BY Zenon, <2>7 DEF DevmemEnds, EraseEnds
    <3> QED
      BY Zenon, <1>1, <2>3, <2>5, <3>1
  <2> QED
    BY <1>11, <2>6, <2>7
<1> QED
  BY <1>3, <1>6, <1>7, <1>8, <1>9, <1>10, <1>11 DEF Works

-----------------------------------------------------------------------------
(***************************************************************************)
(* The theorems.                                                           *)
(***************************************************************************)
LEMMA InvInit == Init => Inv
<1> SUFFICES ASSUME Init PROVE Inv
  OBVIOUS
<1>1. ~clash /\ ~wrong
  BY Zenon DEF Init
<1> QED
  BY Zenon, <1>1, TypeInit, CalmInit DEF Inv, OneAtATime, FlashedIsTheFile

(* What was behind stays behind.                                           *)
LEMMA BehindStays ==
  ASSUME Next, behind
  PROVE  behind'
<1> USE DEF windows, buffers, history
<1>1. CASE \E t \in Thread : Works(t)
  BY Zenon, <1>1 DEF Works, FileFails, FileBegins, FileEnds, FindsNone, Begins, Crashes,
     DevmemEnds, FlashEnds, EraseEnds
<1>2. CASE \E f \in Files : ChooseFile(f) \/ DropFile(f)
  BY Zenon, <1>2 DEF ChooseFile, DropFile, Behind
<1>3. CASE Connect \/ Disconnect \/ Reset \/ Quit \/ Callback
  BY Zenon, <1>3 DEF Connect, Disconnect, Reset, Quit, Callback, Behind
<1>4. CASE OpenDialog \/ Cancel \/ FlashFile \/ EraseFlash
  BY Zenon, <1>4 DEF OpenDialog, Cancel, FlashFile, EraseFlash, Behind
<1> QED
  BY <1>1, <1>2, <1>3, <1>4 DEF Next

LEMMA InvStep == Inv /\ [Next]_vars => Inv'
<1> SUFFICES ASSUME Inv, [Next]_vars PROVE Inv'
  OBVIOUS
<1>1. TypeOK'
  BY TypeStep DEF Inv
<1>2. CASE UNCHANGED vars
  <2>1. UNCHANGED <<running, sl, sensitive, dialog, named, file_mem, threads, idle, opened,
                    failed, behind, clash, wrong>>
    BY Zenon, <1>2 DEF vars, windows, buffers, history
  <2>2. Calm' <=> Calm
    BY <2>1 DEF Calm, OneThread, GreyedOut, OnItsWay, There, Busy, Args, Loaded
  <2>3. (OneAtATime => OneAtATime') /\ (FlashedIsTheFile => FlashedIsTheFile')
        /\ (~behind' => ~behind)
    BY Zenon, <2>1 DEF OneAtATime, FlashedIsTheFile
  <2> QED
    BY Zenon, <1>1, <2>2, <2>3 DEF Inv
<1>3. CASE Next
  <2>1. CASE behind'
    BY Zenon, <1>1, <2>1 DEF Inv, OneAtATime, FlashedIsTheFile
  <2>2. CASE ~behind'
    <3>1. ~behind
      BY Zenon, <1>3, <2>2, BehindStays
    <3>2. TypeOK /\ Calm /\ OneAtATime /\ FlashedIsTheFile
      BY Zenon, <3>1 DEF Inv
    <3>3. CASE \E t \in Thread : Works(t)
      <4>1. Calm' /\ ~clash' /\ ~wrong'
        BY Zenon, <3>1, <3>2, <3>3, ThreadCalm
      <4> QED
        BY Zenon, <1>1, <4>1 DEF Inv, OneAtATime, FlashedIsTheFile
    <3>4. CASE ~\E t \in Thread : Works(t)
      <4>1. \/ Connect \/ Disconnect \/ Reset \/ Quit \/ Callback
            \/ OpenDialog \/ Cancel \/ FlashFile \/ EraseFlash
            \/ \E f \in Files : ChooseFile(f) \/ DropFile(f)
        BY Zenon, <1>3, <3>4 DEF Next
      <4>2. Calm' /\ ~clash' /\ ~wrong'
        BY Zenon, <1>1, <2>2, <3>1, <3>2, <4>1, MainCalm
      <4> QED
        BY Zenon, <1>1, <4>2 DEF Inv, OneAtATime, FlashedIsTheFile
    <3> QED
      BY <3>3, <3>4
  <2> QED
    BY <2>1, <2>2
<1> QED
  BY <1>2, <1>3

(* However many files and threads there are, two threads never use the     *)
(* programmer at once, and none uses one that was closed, unless a widget  *)
(* set_sensitivity leaves alone was used while a thread was at work        *)
(* (stlink_gui_set_sensitivity, src/.deprecated/src/stlink-gui/gui.c).     *)
THEOREM OneThreadAtATime == Spec => []OneAtATime
<1>1. Inv => OneAtATime
  BY DEF Inv
<1> QED
  BY InvInit, InvStep, <1>1, PTL DEF Spec

(* Under the same condition what is written is the file whose name is      *)
(* shown, if it could be loaded, though the name, the buffer and the write *)
(* are three threads' (load_file, stlink_gui_write_flash).                 *)
THEOREM TheFileIsFlashed == Spec => []FlashedIsTheFile
<1>1. Inv => FlashedIsTheFile
  BY DEF Inv
<1> QED
  BY InvInit, InvStep, <1>1, PTL DEF Spec
=============================================================================
