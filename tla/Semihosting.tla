---------------------------- MODULE Semihosting ----------------------------
(***************************************************************************)
(* do_semihosting of st-util: a call of the program, carried out on the    *)
(* host.  What a call comes to depends on what of the target's memory      *)
(* could be read or written and on what the host does, so each operator    *)
(* here is the set of its possible outcomes:                               *)
(*   ret    what do_semihosting leaves in *ret, for r0                     *)
(*   done   whether the host did what it was asked                         *)
(*   moved  how much of the buffer was moved                               *)
(*   saved  saved_errno                                                    *)
(*   due    the error the program is owed, if it asks next; 0 for none     *)
(* l holds the accesses to memory that fail: "args" for the block r1       *)
(* points at, "buffer" for what that names, "store" for writing it.        *)
(***************************************************************************)
EXTENDS Integers

Size == 2      \* how long the buffers are, in units a short read or write may stop between
Number == 99   \* what r0 held: the number of the call
Handle == 3    \* a file the host opens
Typed == 65    \* a character
EINVAL == 22
Errors == {5, EINVAL}  \* what errno may hold once a call was made

\* The calls a program makes.  Names and buffers fit into q_buf or do not.
SemihostingCalls ==
    [op : {"open"}, name : {"file", ":tt"}, mode : {0, 4, 8, 12, 13}, fits : BOOLEAN]
      \cup [op : {"write", "read", "remove"}, name : {"file"}, mode : {0}, fits : BOOLEAN]
      \cup [op : {"close", "seek", "errno", "writec", "readc", "write0", "flen"},
            name : {"file"}, mode : {0}, fits : {TRUE}]
FromTerminal == {c \in SemihostingCalls : c.op = "readc" \/ (c.op = "read" /\ c.fits)}

\* mem_read, mem_read_u8 and mem_write: what of them may fail.
Accesses(call) == CASE call.op \in {"open", "write", "remove"} -> {"args", "buffer"}
                    [] call.op = "read" -> {"args", "store"}
                    [] call.op \in {"close", "seek"} -> {"args"}
                    [] call.op \in {"writec", "write0"} -> {"buffer"}
                    [] OTHER -> {}

-----------------------------------------------------------------------------
(***************************************************************************)
(* The host is not asked, refuses, or does it.  errno says why it refused; *)
(* otherwise it says what it said before, to whatever part of st-util.     *)
(***************************************************************************)
Unasked(ret, saved) == {[ret |-> ret, done |-> FALSE, moved |-> 0, saved |-> saved, due |-> 0]}
RefusedWith(ret, errors) ==
    {[ret |-> ret, done |-> FALSE, moved |-> 0, saved |-> e, due |-> e] : e \in errors}
Granted(ret, moved) ==
    {[ret |-> ret, done |-> TRUE, moved |-> moved, saved |-> e, due |-> 0] : e \in Errors}

\* Names are read with the zero behind them, and must fit.
Unnamed(call, l) == ~call.fits \/ l # {}

\* Mode 12 passes, though open_mode_flags has none for it: a file is then opened
\* with whatever flags lie behind.
Open(call, saved, l) ==
    IF call.mode > 12 \/ Unnamed(call, l) THEN Unasked(-1, saved)
    ELSE IF call.name = "file" THEN Granted(Handle, 0) \cup RefusedWith(-1, Errors)
    ELSE IF call.mode = 12 THEN RefusedWith(-1, {EINVAL})
    ELSE {[ret |-> call.mode \div 4, done |-> TRUE, moved |-> 0, saved |-> saved, due |-> 0]}

Close(call, saved, l) == IF l # {} THEN Unasked(-1, saved)
                         ELSE Granted(0, 0) \cup RefusedWith(-1, Errors)
Seek(call, saved, l) == Close(call, saved, l)
Unlink(call, saved, l) == IF Unnamed(call, l) THEN Unasked(-1, saved)
                          ELSE Granted(0, 0) \cup RefusedWith(-1, Errors)

\* A short write is answered with minus what is left.
Write(call, saved, l) ==
    IF "args" \in l THEN Unasked(-1, saved)
    ELSE IF ~call.fits \/ "buffer" \in l THEN Unasked(Size, saved)
    ELSE RefusedWith(Size, Errors) \cup UNION {Granted(n - Size, n) : n \in 0..Size}

\* What was read and could not be stored is gone.
Read(call, saved, l) ==
    IF "args" \in l THEN Unasked(-1, saved)
    ELSE IF ~call.fits THEN Unasked(Size, saved)
    ELSE IF "store" \in l THEN Granted(Size, 0)
    ELSE RefusedWith(Size, Errors) \cup UNION {Granted(Size - n, n) : n \in 0..Size}

Errno(saved) == Unasked(saved, saved)

\* WRITEC, WRITE0 and what is not supported leave r0 alone.
Silent(saved) == Unasked(Number, saved)

\* do_semihosting
DoSemihosting(call, saved, l) ==
    CASE call.op = "open" -> Open(call, saved, l)
      [] call.op = "close" -> Close(call, saved, l)
      [] call.op = "write" -> Write(call, saved, l)
      [] call.op = "read" -> Read(call, saved, l)
      [] call.op = "errno" -> Errno(saved)
      [] call.op = "remove" -> Unlink(call, saved, l)
      [] call.op = "seek" -> Seek(call, saved, l)
      [] call.op = "readc" -> Unasked(Typed, saved)
      [] OTHER -> Silent(saved)

-----------------------------------------------------------------------------
(***************************************************************************)
(* What r0 has to tell the program: a handle, or how much was left, or     *)
(* that it was not done, and to ERRNO the error of the call before it if   *)
(* the host refused that.  Of a write that was short, nothing is said.     *)
(***************************************************************************)
Means(call, o, due, r0) ==
    CASE call.op = "open" -> IF o.done THEN r0 \in {0, 1, 2, Handle} ELSE r0 = -1
      [] call.op \in {"close", "seek", "remove"} -> IF o.done THEN r0 = 0 ELSE r0 = -1
      [] call.op = "write" -> IF o.done THEN o.moved = Size => r0 = 0 ELSE r0 \in {-1, Size}
      [] call.op = "read" -> IF o.done THEN r0 = Size - o.moved ELSE r0 \in {-1, Size}
      [] call.op = "errno" -> due # 0 => r0 = due
      [] call.op = "readc" -> r0 = Typed
      [] OTHER -> TRUE
=============================================================================
