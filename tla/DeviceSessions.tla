--------------------------- MODULE DeviceSessions ---------------------------
(***************************************************************************)
(* The life of a device, as the threads of one process live it:            *)
(* Discovery::enumerate and find, IDevice::create and ~Device of           *)
(* device.cpp, over open_programmer and the USB transport.  Each client is *)
(* a thread that makes one of these calls at a time.  A call is the        *)
(* sequence of steps between which another thread can run: the registry's  *)
(* two critical sections (claim, release), opening the transport, the      *)
(* exchanges with the programmer, and closing the transport again, in the  *)
(* order the code performs them on every path.                             *)
(*                                                                         *)
(* What the exchanges say is abstracted to whether they succeed; any of    *)
(* them may fail at any time, since a programmer can be unplugged.         *)
(***************************************************************************)
EXTENDS Naturals

CONSTANTS
  Client,    \* threads, each making one call at a time
  Probe,     \* the programmers; a programmer stands for its serial
  Location,  \* where one can be attached (a bus and address, a port)
  NoProbe,   \* nothing attached, or nothing connected
  NoSerial,  \* a serial that could not be read, or was not reported
  NoSheet,   \* a client that has not enumerated yet
  Nobody,    \* the owner of a key that is not in the registry
  MaxPlugs   \* bound: how many times something is plugged in

(* Serials and locations cannot be confused: key_of marks a location "@". *)
ASSUME NamesAreDistinct ==
  /\ Probe \cap Location = {}
  /\ NoProbe \notin Probe
  /\ NoSerial \notin Probe
  /\ Nobody \notin Client
ASSUME MaxPlugsIsNat == MaxPlugs \in Nat

VARIABLES
  at,        \* what is attached at each location
  plugs,     \* how often something has been plugged in
  registry,  \* the keys of open devices, process wide
  pc,        \* where each client is in its call
  sheet,     \* the BasicDeviceInfo each client last took from enumerate()
  conn,      \* the programmer each client's transport reaches
  todo       \* where a find() has still to look

world == <<at, plugs>>
vars == <<at, plugs, registry, pc, sheet, conn, todo>>

(* A BasicDeviceInfo: what was known of a programmer when it was listed. *)
Sheet == [serial : Probe \cup {NoSerial}, location : Location]

(* The serial, or else where the programmer is attached. *)
KeyOf(info) == IF info.serial = NoSerial THEN info.location ELSE info.serial

Key == Probe \cup Location

(* Not in a call, and without a device: what the last call returned. *)
Rest == {"idle", "busy", "failed"}

(* Between a claim() that succeeded and the release() that undoes it. *)
Owning == {"opening", "identifying", "reading", "live",
           "unclaim", "unclaim_open", "releasing"}

(* Released, but the transport is still to be destroyed. *)
Closing == {"closing", "dropping"}

Finding == {"sweeping", "looking"}

PC == Rest \cup Owning \cup Closing \cup Finding

Owns(c, k) == pc[c] \in Owning /\ KeyOf(sheet[c]) = k

Attached == {l \in Location : at[l] # NoProbe}

(* What enumerate may write for the programmer at l: reading its serial *)
(* costs an open, and a serial that could not be read is left empty.    *)
SheetsAt(l) == {[serial |-> s, location |-> l] : s \in {at[l], NoSerial}}

(* The operating system hands the interface to one handle at a time. *)
InterfaceFree(p) == \A d \in Client : conn[d] # p

Init ==
  /\ at \in [Location -> Probe \cup {NoProbe}]
  /\ \A l, m \in Location : at[l] = at[m] /\ l # m => at[l] = NoProbe
  /\ plugs = 0
  /\ registry = {}
  /\ pc = [c \in Client |-> "idle"]
  /\ sheet = [c \in Client |-> NoSheet]
  /\ conn = [c \in Client |-> NoProbe]
  /\ todo = [c \in Client |-> {}]

Goto(c, from, to) ==
  /\ pc[c] = from
  /\ pc' = [pc EXCEPT ![c] = to]

-----------------------------------------------------------------------------
(* The USB bus, which answers to nobody here.                              *)

(* A programmer is pulled out: a transport that reached it reaches nothing. *)
Unplug(l) ==
  /\ l \in Attached
  /\ at' = [at EXCEPT ![l] = NoProbe]
  /\ conn' = [c \in Client |-> IF conn[c] = at[l] THEN NoProbe ELSE conn[c]]
  /\ UNCHANGED <<plugs, registry, pc, sheet, todo>>

(* One that is not attached is plugged in, wherever there is room. *)
Plug(p, l) ==
  /\ plugs < MaxPlugs
  /\ l \notin Attached
  /\ \A m \in Location : at[m] # p
  /\ at' = [at EXCEPT ![l] = p]
  /\ plugs' = plugs + 1
  /\ UNCHANGED <<registry, pc, sheet, conn, todo>>

-----------------------------------------------------------------------------
(* Discovery::enumerate: the client keeps one of the sheets listed.        *)

(* Faulty: a device keeps the caller's sheet by reference, and a later *)
(* listing writes over it.                                             *)
EnumerateOverwrites(c) ==
  /\ pc[c] \in Rest \cup {"live"}
  /\ \E info \in UNION {SheetsAt(l) : l \in Attached} \cup {NoSheet} :
       sheet' = [sheet EXCEPT ![c] = info]
  /\ UNCHANGED <<world, registry, pc, conn, todo>>

Enumerate(c) ==
  /\ pc[c] \in Rest
  /\ \E l \in Attached : \E info \in SheetsAt(l) :
       sheet' = [sheet EXCEPT ![c] = info]
  /\ pc' = [pc EXCEPT ![c] = "idle"]
  /\ UNCHANGED <<world, registry, conn, todo>>

-----------------------------------------------------------------------------
(* IDevice::create.                                                        *)

(* Faulty: the failed insert is not noticed. *)
ClaimUnchecked(c) ==
  /\ pc[c] \in Rest
  /\ sheet[c] # NoSheet
  /\ pc' = [pc EXCEPT ![c] = "opening"]
  /\ registry' = registry \cup {KeyOf(sheet[c])}
  /\ UNCHANGED <<world, sheet, conn, todo>>

(* Faulty: Busy clears the claim it was refused for. *)
ClaimReleasesOnBusy(c) ==
  /\ pc[c] \in Rest
  /\ sheet[c] # NoSheet
  /\ LET key == KeyOf(sheet[c]) IN
       IF key \in registry
       THEN /\ pc' = [pc EXCEPT ![c] = "busy"]
            /\ registry' = registry \ {key}
       ELSE /\ pc' = [pc EXCEPT ![c] = "opening"]
            /\ registry' = registry \cup {key}
  /\ UNCHANGED <<world, sheet, conn, todo>>

(* claim() under the registry's mutex; Busy when the key is taken. *)
Claim(c) ==
  /\ pc[c] \in Rest
  /\ sheet[c] # NoSheet
  /\ LET key == KeyOf(sheet[c]) IN
       IF key \in registry
       THEN /\ pc' = [pc EXCEPT ![c] = "busy"]
            /\ UNCHANGED registry
       ELSE /\ pc' = [pc EXCEPT ![c] = "opening"]
            /\ registry' = registry \cup {key}
  /\ UNCHANGED <<world, sheet, conn, todo>>

(* open_transport looks for the sheet's location and nothing else. *)
OpenTransport(c) ==
  LET wanted == at[sheet[c].location] IN
  /\ Goto(c, "opening", "identifying")
  /\ wanted # NoProbe
  /\ InterfaceFree(wanted)
  /\ conn' = [conn EXCEPT ![c] = wanted]
  /\ UNCHANGED <<world, registry, sheet, todo>>

(* Nothing there, the interface is taken, or the open fails for its own reasons. *)
OpenFails(c) ==
  /\ Goto(c, "opening", "unclaim")
  /\ UNCHANGED <<world, registry, sheet, conn, todo>>

(* ask_version, the mode, and leaving DFU: all of open_programmer's exchanges. *)
Identify(c) ==
  /\ Goto(c, "identifying", "reading")
  /\ conn[c] # NoProbe
  /\ UNCHANGED <<world, registry, sheet, conn, todo>>

(* open_programmer owns the channel: it is closed before the error is returned. *)
IdentifyFails(c) ==
  /\ Goto(c, "identifying", "unclaim")
  /\ conn' = [conn EXCEPT ![c] = NoProbe]
  /\ UNCHANGED <<world, registry, sheet, todo>>

(* Faulty: the claim is undone by a guard that nobody dismisses on success. *)
ReadTheChipUnclaimed(c) ==
  /\ Goto(c, "reading", "live")
  /\ conn[c] # NoProbe
  /\ registry' = registry \ {KeyOf(sheet[c])}
  /\ UNCHANGED <<world, sheet, conn, todo>>

ReadTheChip(c) ==
  /\ Goto(c, "reading", "live")
  /\ conn[c] # NoProbe
  /\ UNCHANGED <<world, registry, sheet, conn, todo>>

(* Here create() itself owns the programmer, until it returns. *)
ReadTheChipFails(c) ==
  /\ Goto(c, "reading", "unclaim_open")
  /\ UNCHANGED <<world, registry, sheet, conn, todo>>

(* Faulty: the error path returns without release(). *)
UnclaimForgotten(c) ==
  /\ Goto(c, "unclaim", "failed")
  /\ UNCHANGED <<world, registry, sheet, conn, todo>>

(* release() after open_programmer failed: nothing is open any more. *)
Unclaim(c) ==
  /\ Goto(c, "unclaim", "failed")
  /\ registry' = registry \ {KeyOf(sheet[c])}
  /\ UNCHANGED <<world, sheet, conn, todo>>

(* release() after read_the_chip failed: the programmer is still open. *)
UnclaimOpen(c) ==
  /\ Goto(c, "unclaim_open", "closing")
  /\ registry' = registry \ {KeyOf(sheet[c])}
  /\ UNCHANGED <<world, sheet, conn, todo>>

(* create() returns its error, and its local programmer goes with it. *)
CloseFailed(c) ==
  /\ Goto(c, "closing", "failed")
  /\ conn' = [conn EXCEPT ![c] = NoProbe]
  /\ UNCHANGED <<world, registry, sheet, todo>>

-----------------------------------------------------------------------------
(* ~Device: debug is left, the key is released, the members are destroyed. *)

(* exit_debug, whatever it answers. *)
Destroy(c) ==
  /\ Goto(c, "live", "releasing")
  /\ UNCHANGED <<world, registry, sheet, conn, todo>>

Release(c) ==
  /\ Goto(c, "releasing", "dropping")
  /\ registry' = registry \ {KeyOf(sheet[c])}
  /\ UNCHANGED <<world, sheet, conn, todo>>

DropProgrammer(c) ==
  /\ Goto(c, "dropping", "idle")
  /\ conn' = [conn EXCEPT ![c] = NoProbe]
  /\ UNCHANGED <<world, registry, sheet, todo>>

-----------------------------------------------------------------------------
(* Discovery::find: every attached programmer the filter accepts is opened *)
(* in turn, without a claim.                                               *)

Find(c) ==
  /\ pc[c] \in Rest
  /\ pc' = [pc EXCEPT ![c] = "sweeping"]
  /\ \E accepted \in SUBSET Attached : todo' = [todo EXCEPT ![c] = accepted]
  /\ UNCHANGED <<world, registry, sheet, conn>>

FindOpen(c) ==
  /\ Goto(c, "sweeping", "looking")
  /\ \E l \in todo[c] :
       /\ at[l] # NoProbe
       /\ InterfaceFree(at[l])
       /\ conn' = [conn EXCEPT ![c] = at[l]]
       /\ todo' = [todo EXCEPT ![c] = @ \ {l}]
  /\ UNCHANGED <<world, registry, sheet>>

(* Faulty: a programmer that cannot be opened is tried again, for ever. *)
FindSkipsNothing(c) ==
  /\ pc[c] = "sweeping"
  /\ todo[c] # {}
  /\ UNCHANGED vars

(* A programmer that cannot be opened is passed over. *)
FindSkips(c) ==
  /\ pc[c] = "sweeping"
  /\ \E l \in todo[c] : todo' = [todo EXCEPT ![c] = @ \ {l}]
  /\ UNCHANGED <<world, registry, pc, sheet, conn>>

(* Whatever the chip said, the programmer goes at the end of the iteration. *)
Looked(c) ==
  /\ Goto(c, "looking", "sweeping")
  /\ conn' = [conn EXCEPT ![c] = NoProbe]
  /\ UNCHANGED <<world, registry, sheet, todo>>

FindReturns(c) ==
  /\ Goto(c, "sweeping", "idle")
  /\ todo[c] = {}
  /\ UNCHANGED <<world, registry, sheet, conn, todo>>

-----------------------------------------------------------------------------
Create(c) ==
  \/ Claim(c)
  \/ OpenTransport(c) \/ OpenFails(c)
  \/ Identify(c) \/ IdentifyFails(c)
  \/ ReadTheChip(c) \/ ReadTheChipFails(c)
  \/ Unclaim(c) \/ UnclaimOpen(c) \/ CloseFailed(c)

Destructor(c) == Destroy(c) \/ Release(c) \/ DropProgrammer(c)

Sweep(c) ==
  Find(c) \/ FindOpen(c) \/ FindSkips(c) \/ Looked(c) \/ FindReturns(c)

Next ==
  \/ \E l \in Location : Unplug(l)
  \/ \E p \in Probe, l \in Location : Plug(p, l)
  \/ \E c \in Client : Enumerate(c) \/ Create(c) \/ Destructor(c) \/ Sweep(c)

(* The steps a call takes on its own, once the caller has made it. *)
Proceeds(c) ==
  \/ OpenTransport(c) \/ OpenFails(c)
  \/ Identify(c) \/ IdentifyFails(c)
  \/ ReadTheChip(c) \/ ReadTheChipFails(c)
  \/ Unclaim(c) \/ UnclaimOpen(c) \/ CloseFailed(c)
  \/ Release(c) \/ DropProgrammer(c)
  \/ FindOpen(c) \/ FindSkips(c) \/ Looked(c) \/ FindReturns(c)

Spec == Init /\ [][Next]_vars

(* Every exchange carries a timeout and the scheduler runs every thread, so *)
(* a call that has begun goes on; no caller is obliged to begin one.        *)
FairSpec == Spec /\ \A c \in Client : WF_vars(Proceeds(c))

-----------------------------------------------------------------------------
(* Properties.                                                             *)

(* Every variable is what the code could hold, and every call in progress  *)
(* works from a sheet.                                                     *)
TypeOK ==
  /\ at \in [Location -> Probe \cup {NoProbe}]
  /\ plugs \in Nat
  /\ registry \subseteq Key
  /\ pc \in [Client -> PC]
  /\ sheet \in [Client -> Sheet \cup {NoSheet}]
  /\ conn \in [Client -> Probe \cup {NoProbe}]
  /\ todo \in [Client -> SUBSET Location]
  /\ \A c \in Client : pc[c] \in Owning \cup Closing => sheet[c] \in Sheet

(* The registry (device.cpp:438-464) holds exactly the keys of the creates *)
(* and devices in existence, each on behalf of one client: no key leaks    *)
(* when a create fails half way, none is erased under a device that still  *)
(* counts on it, and two devices never stand on one key.                   *)
RegistryIsExact ==
  /\ \A k \in registry : \E c \in Client : Owns(c, k)
  /\ \A c \in Client : pc[c] \in Owning => KeyOf(sheet[c]) \in registry
  /\ \A c, d \in Client :
       /\ pc[c] \in Owning
       /\ pc[d] \in Owning
       /\ KeyOf(sheet[c]) = KeyOf(sheet[d])
       => c = d

(* The registry is there so that a second device on one programmer is      *)
(* refused (device.cpp:431-436).  A create() that has its key and meets a  *)
(* programmer another thread has open, and so fails with an IO error where *)
(* Busy was due, meets a find(), which claims nothing; a device that gave  *)
(* its key back but is not closed yet; or one of the two works from a      *)
(* sheet that is not about the programmer: the serial could not be read,   *)
(* or the sheet is older than the bus.                                     *)
ClashHasAReason ==
  \A c, d \in Client :
    LET wanted == at[sheet[c].location] IN
      /\ c # d
      /\ pc[c] = "opening"
      /\ wanted # NoProbe
      /\ conn[d] = wanted
      => \/ pc[d] \in Closing \cup {"looking"}
         \/ sheet[c].serial # wanted
         \/ sheet[d].serial # wanted

(* A thread that is outside every call and has no device has no transport  *)
(* open and no sheet of a find() left over; when all threads are, the      *)
(* registry is empty.  Every error path of create() and find() cleans up.  *)
NothingLeftBehind ==
  /\ \A c \in Client : pc[c] \in Rest => conn[c] = NoProbe /\ todo[c] = {}
  /\ (\A c \in Client : pc[c] \in Rest) => registry = {}

(* Every create(), find() and destructor that has begun comes to its end,  *)
(* whatever the others do and whatever is unplugged.                       *)
CallsReturn ==
  \A c \in Client : pc[c] \notin Rest \cup {"live"} ~> pc[c] \in Rest \cup {"live"}

(* The registry as its callers see it: ProgrammerLease, where a key's      *)
(* owner is the client that works under it.                                *)
OwnerOf(k) ==
  IF \E c \in Client : Owns(c, k)
  THEN CHOOSE c \in Client : Owns(c, k)
  ELSE Nobody

Lease == INSTANCE ProgrammerLease WITH
  Free <- Nobody,
  owner <- [k \in Key |-> OwnerOf(k)],
  refused <- {c \in Client : pc[c] = "busy"}

(* Each step of the code grants, refuses or gives back as the lease        *)
(* allows: nobody is told Busy (device.cpp:732-735) about a key that no    *)
(* other thread holds, and no two are told yes.                            *)
ImplementsLease == Lease!LeaseSpec

=============================================================================
