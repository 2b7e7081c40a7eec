----------------------------- MODULE StlinkGui -----------------------------
(***************************************************************************)
(* stlink-gui: the main loop with its buttons, and the threads it starts   *)
(* to read, write and erase flash and to read files.  They share gui->sl   *)
(* and the two buffers without a lock: what keeps them apart is which      *)
(* buttons are sensitive.  A handler, and an idle callback, is one step of *)
(* the main thread; a thread starts some time after g_thread_new, works in *)
(* a second step or in several, and reports by an idle callback.           *)
(***************************************************************************)
EXTENDS Integers, Sequences, FiniteSets, FiniteSetsExt

CONSTANTS
  Files,      \* files there are to open
  Hex,        \* those of them that are Intel-HEX
  MaxThreads, \* bound: threads that work or wait to be heard
  MaxConnects \* bound: how often Connect succeeds

ASSUME HexAreFiles == Hex \subseteq Files
ASSUME MaximaAreNat == {MaxThreads, MaxConnects} \subseteq Nat \ {0}

VARIABLES
  running,   \* whether the program is
  sl,        \* gui->sl: which connection, 0 for NULL
  sensitive, \* the buttons that can be pressed
  dialog,    \* the modal dialog that is open, or "none"
  named,     \* gui->filename
  file_mem,  \* what gui->file_mem holds: a file, "none", or "junk"
  threads,   \* what each thread does, how far it is, and what with
  idle,      \* callbacks for the main loop, in order
  \* history
  opened,    \* connections made so far
  failed,    \* "load": the last file could not be read, "start": a thread found no
             \* programmer
  behind,    \* a widget set_sensitivity leaves alone was used while a thread was there
  clash,     \* two threads used the programmer, or one that was closed
  wrong      \* something other than the file named was written, the file being loaded

windows == <<sensitive, dialog>>
buffers == <<named, file_mem>>
history == <<failed, behind, clash, wrong>>
vars == <<running, sl, windows, buffers, threads, idle, opened, history>>

-----------------------------------------------------------------------------
NoThread == [do |-> "none", at |-> "none", with |-> "none", sl |-> 0]
Thread == 1..MaxThreads
There == {t \in Thread : threads[t].do # "none"}
Free == Thread \ There
UsesProgrammer(w) == w.at = "busy" /\ w.do \in {"devmem", "flash", "erase"}
OnProgrammer == {t \in There : UsesProgrammer(threads[t])}

\* g_thread_new.
Starting(do) == [do |-> do, at |-> "start", with |-> "none", sl |-> 0]
Start(do) == /\ Free # {}
             /\ threads' = [threads EXCEPT ![Min(Free)] = Starting(do)]

\* MaxThreads bounds the threads at work and those not heard of.
Room == Cardinality(There) + Len(SelectSeq(idle, LAMBDA c : c # "args")) < MaxThreads

\* What set_sensitivity(TRUE) makes of the buttons: it takes no notice of who
\* else is at work.
Enabled(set, on) ==
    LET chip == {"reset", "export", "erase"}
    IN  IF on = 0 THEN (set \ chip) \cup {"open", "connect"}
        ELSE set \cup chip \cup {"open", "disconnect"}
                 \cup (IF named # "none" THEN {"flash"} ELSE {})

\* Faulty: another file may be opened while one is written.
SensitivityButOpen(set, now, on) ==
    IF now THEN Enabled(set, on) ELSE set \ {"reset", "export", "erase"}

\* stlink_gui_set_sensitivity: FALSE leaves connect, disconnect and flash alone.
Sensitivity(set, now, on) ==
    IF now THEN Enabled(set, on) ELSE set \ {"open", "reset", "export", "erase"}

\* stlink_gui_set_disconnected.
Disconnected(set) == (set \cup {"connect"}) \ {"disconnect", "flash", "reset", "export", "erase"}

\* A widget that is not covered was used, with a thread at work or not heard of.
AtWork == There # {} \/ idle # <<>>
Behind == behind' = (behind \/ AtWork)

Init ==
    /\ running = TRUE /\ sl = 0
    /\ sensitive = Disconnected({"open"}) /\ dialog = "none"
    /\ named \in Files \cup {"none"} /\ file_mem = "none"
    /\ threads = [t \in Thread |-> NoThread]
    /\ idle = IF named = "none" THEN <<>> ELSE <<"args">>
    /\ opened = 0
    /\ failed = {} /\ behind = FALSE /\ clash = FALSE
    /\ wrong = FALSE

-----------------------------------------------------------------------------
(***************************************************************************)
(* The main thread.                                                        *)
(***************************************************************************)
Pressed(b) == running /\ dialog = "none" /\ b \in sensitive

\* A connection starts with reading all of the flash.
Connect ==
    /\ Pressed("connect") /\ sl = 0 /\ opened < MaxConnects
    /\ opened' = opened + 1 /\ sl' = opened + 1
    /\ LET set == (sensitive \ {"connect"}) \cup (IF named # "none" THEN {"flash"} ELSE {})
       IN  sensitive' = Sensitivity(set, FALSE, sl')
    /\ Room /\ Start("devmem")
    /\ Behind
    /\ UNCHANGED <<running, dialog, buffers, idle, failed, clash, wrong>>

\* The programmer is closed under whoever uses it.
Disconnect ==
    /\ Pressed("disconnect")
    /\ clash' = (clash \/ (sl # 0 /\ OnProgrammer # {}))
    /\ sl' = 0 /\ sensitive' = Disconnected(sensitive)
    /\ Behind
    /\ UNCHANGED <<running, dialog, buffers, threads, idle, opened, failed, wrong>>

\* The dialogs of Open, Flash, Erase and Export.  Switching to the page of the
\* file opens the first of them when there is none, whatever is sensitive.
OpenDialog ==
    /\ \/ \E b \in {"open", "flash", "erase", "export"} : Pressed(b) /\ dialog' = b
       \/ running /\ dialog = "none" /\ named = "none" /\ dialog' = "page"
    /\ UNCHANGED <<running, sl, sensitive, buffers, threads, idle, opened, history>>

\* Or what was entered was not accepted; or the main thread has saved, in the
\* file chosen, what was last read of the flash.
Cancel ==
    /\ running /\ dialog # "none" /\ dialog' = "none"
    /\ UNCHANGED <<running, sl, sensitive, buffers, threads, idle, opened, history>>

\* A file was chosen, or dropped onto the window.
LoadFile(f) ==
    /\ named' = f
    /\ sensitive' = Sensitivity(sensitive, FALSE, sl) /\ dialog' = "none"
    /\ Room /\ Start("file")
    /\ UNCHANGED <<running, sl, file_mem, idle, opened, failed, clash, wrong>>

ChooseFile(f) == running /\ \/ dialog = "open" /\ UNCHANGED behind /\ LoadFile(f)
                            \/ dialog = "page" /\ Behind /\ LoadFile(f)

DropFile(f) == running /\ dialog = "none" /\ Behind /\ LoadFile(f)

\* The address that was entered is checked, and flash_base is written to.
FlashFile ==
    /\ running /\ dialog = "flash" /\ dialog' = "none"
    /\ sensitive' = Sensitivity(sensitive, FALSE, sl)
    /\ Room /\ Start("flash")
    /\ Behind
    /\ UNCHANGED <<running, sl, buffers, idle, opened, failed, clash, wrong>>

EraseFlash ==
    /\ running /\ dialog = "erase" /\ dialog' = "none"
    /\ sensitive' = Sensitivity(sensitive, FALSE, sl)
    /\ Room /\ Start("erase")
    /\ UNCHANGED <<running, sl, buffers, idle, opened, history>>

\* Out of debug mode, a reset, and back into SWD, in the main thread.
Reset ==
    /\ Pressed("reset")
    /\ clash' = (clash \/ OnProgrammer # {})
    /\ UNCHANGED <<running, sl, windows, buffers, threads, idle, opened, failed, behind, wrong>>

\* Nothing waits for the threads when the window goes.
Quit ==
    /\ running /\ dialog = "none" /\ running' = FALSE
    /\ UNCHANGED <<sl, windows, buffers, threads, idle, opened, history>>

\* The idle callbacks of a thread, and of a file named on the command line.
Callback ==
    /\ running /\ idle # <<>> /\ idle' = Tail(idle)
    /\ IF Head(idle) = "args"
       THEN /\ sensitive' = Sensitivity(sensitive, FALSE, sl) /\ Start("file")
            /\ behind' = (behind \/ There # {} \/ dialog # "none" \/ Tail(idle) # <<>>)
       ELSE /\ sensitive' = Sensitivity(sensitive, TRUE, sl) /\ UNCHANGED <<threads, behind>>
    /\ UNCHANGED <<running, sl, dialog, buffers, opened, failed, clash, wrong>>

-----------------------------------------------------------------------------
(***************************************************************************)
(* The threads.                                                            *)
(***************************************************************************)
Is(t, do, at) == running /\ threads[t].do = do /\ threads[t].at = at
Ends(t) == threads' = [threads EXCEPT ![t] = NoThread]
Reports(t, callback) == Ends(t) /\ idle' = Append(idle, callback)
MainStays == UNCHANGED <<running, sl, windows, named, opened>>

\* Thread t goes on, with d; what the threads in S are working with is spoiled.
GoesOn(t, d, S) ==
    threads' = [u \in Thread |->
                  IF u = t THEN [threads[t] EXCEPT !.at = "busy", !.with = d, !.sl = sl]
                  ELSE IF u \in S THEN [threads[u] EXCEPT !.with = "junk"] ELSE threads[u]]

\* Faulty: a file that cannot be opened is not reported to the main loop.
FileUnreadSilently(t) == Ends(t) /\ UNCHANGED idle

\* A file that cannot be opened or parsed leaves the buffer as it was.
FileUnread(t) == Reports(t, "file")

FileFails(t) ==
    /\ Is(t, "file", "start") /\ FileUnread(t)
    /\ failed' = failed \cup {"load"}
    /\ MainStays /\ UNCHANGED <<file_mem, behind, clash, wrong>>

\* The old buffer is freed under whoever uses it.
FileBegins(t) ==
    /\ Is(t, "file", "start")
    /\ file_mem' = "junk"
    /\ GoesOn(t, named, {u \in There : threads[u].at = "busy" /\ threads[u].do \in {"file", "flash"}})
    /\ MainStays /\ UNCHANGED <<idle, failed, behind, clash, wrong>>

\* An Intel-HEX file was parsed as a whole; reading another may break off.
FileEnds(t) ==
    /\ Is(t, "file", "busy") /\ Reports(t, "file")
    /\ \/ file_mem' = threads[t].with /\ failed' = failed \ {"load"}
       \/ /\ threads[t].with \notin Hex
          /\ failed' = failed \cup {"load"} /\ UNCHANGED file_mem
    /\ MainStays /\ UNCHANGED <<behind, clash, wrong>>

\* The thread's assertion that there is a programmer: without one it ends, and
\* nobody hears of it.
FindsNone(t) ==
    /\ \E do \in {"devmem", "flash", "erase"} : Is(t, do, "start")
    /\ sl = 0 /\ failed' = failed \cup {"start"}
    /\ Ends(t)
    /\ MainStays /\ UNCHANGED <<idle, file_mem, behind, clash, wrong>>

\* The file that is written is the one in the buffer when the thread gets there.
Begins(t) ==
    /\ \E do \in {"devmem", "flash", "erase"} : Is(t, do, "start")
    /\ sl # 0
    /\ clash' = (clash \/ OnProgrammer # {})
    /\ GoesOn(t, IF OnProgrammer # {} THEN "junk" ELSE IF threads[t].do = "flash" THEN file_mem ELSE "chip",
              OnProgrammer)
    /\ MainStays /\ UNCHANGED <<idle, file_mem, failed, behind, wrong>>

\* A thread whose programmer was closed: the one that reads asks for gui->sl
\* again for every block, the others have it in a call.
Bereft(t) == IF threads[t].do = "devmem" THEN sl = 0 ELSE threads[t].sl # sl
Crashes(t) ==
    /\ running /\ t \in OnProgrammer /\ Bereft(t)
    /\ running' = FALSE
    /\ UNCHANGED <<sl, windows, buffers, threads, idle, opened, history>>

\* A block that could not be read is taken for what q_buf holds: q_len, which
\* is looked at, is that of the last read that worked.
DevmemEnds(t) ==
    /\ Is(t, "devmem", "busy") /\ sl # 0 /\ Reports(t, "devmem")
    /\ MainStays /\ UNCHANGED <<file_mem, failed, behind, clash, wrong>>

\* Whether the write works or not, it was of what the thread took.
FlashEnds(t) ==
    /\ Is(t, "flash", "busy") /\ ~Bereft(t) /\ Reports(t, "restore")
    /\ wrong' = (wrong \/ (threads[t].with # named /\ "load" \notin failed))
    /\ MainStays /\ UNCHANGED <<file_mem, failed, behind, clash>>

EraseEnds(t) ==
    /\ Is(t, "erase", "busy") /\ ~Bereft(t) /\ Reports(t, "restore")
    /\ MainStays /\ UNCHANGED <<file_mem, failed, behind, clash, wrong>>

-----------------------------------------------------------------------------
Works(t) ==
    \/ FileFails(t) \/ FileBegins(t) \/ FileEnds(t)
    \/ FindsNone(t) \/ Begins(t) \/ Crashes(t)
    \/ DevmemEnds(t) \/ FlashEnds(t) \/ EraseEnds(t)

Next ==
    \/ Connect \/ Disconnect \/ Reset \/ Quit \/ Callback
    \/ OpenDialog \/ Cancel \/ FlashFile \/ EraseFlash
    \/ \E f \in Files : ChooseFile(f) \/ DropFile(f)
    \/ \E t \in Thread : Works(t)

Fairness == WF_vars(Callback) /\ \A t \in Thread : WF_vars(Works(t))
Spec == Init /\ [][Next]_vars /\ Fairness

-----------------------------------------------------------------------------
(***************************************************************************)
(* Properties.                                                             *)
(***************************************************************************)
\* Two threads never use the programmer at once, and none uses one that was
\* closed, unless a widget was used while a thread was at work that
\* set_sensitivity does not grey out: Connect, Disconnect, Flash, a dropped
\* file, the file's page, or a file of the command line that is late.  The
\* buttons it does grey out need no lock.
OneAtATime == clash => behind

\* What is written is the file whose name is shown, if that could be loaded,
\* though buffer and name are set by different threads and read by a third.
FlashedIsTheFile == wrong => behind

\* The buttons come back, whatever fails, and the program is never left with
\* all that start something greyed out for ever: but for a thread that found
\* no programmer, which calls nobody back.
ButtonsComeBack == []<>("open" \in sensitive \/ "start" \in failed \/ ~running)

\* What every thread asserts when it starts, g_return_val_if_fail(gui->sl != NULL).
WorkersFindTheProgrammer == "start" \notin failed
=============================================================================
