-------------------------- MODULE ProgrammerLease --------------------------
(***************************************************************************)
(* What the registry of open devices promises to the callers of            *)
(* IDevice::create (device.h, "One device per programmer: creating a       *)
(* second for a programmer that is already open fails"): a programmer's    *)
(* key is leased to at most one client at a time, a client is refused only *)
(* while somebody else holds the lease, and only its holder gives it back. *)
(*                                                                         *)
(* Nothing here says how: no mutex, no USB, no order of destruction.       *)
(* DeviceSessions implements this.                                         *)
(***************************************************************************)

CONSTANTS
  Client,  \* who may ask
  Key,     \* what a programmer is told apart by
  Free     \* the owner of a key nobody holds, and no client

VARIABLES
  owner,   \* who holds each key
  refused  \* the clients whose last call was answered with Busy

leaseVars == <<owner, refused>>

LeaseInit ==
  /\ owner = [k \in Key |-> Free]
  /\ refused = {}

(* A free key goes to a client that holds none. *)
Grant(c, k) ==
  /\ owner[k] = Free
  /\ \A j \in Key : owner[j] # c
  /\ owner' = [owner EXCEPT ![k] = c]
  /\ refused' = refused \ {c}

(* Busy is answered only about a key that another client holds. *)
Refuse(c, k) ==
  /\ owner[k] \notin {Free, c}
  /\ refused' = refused \cup {c}
  /\ UNCHANGED owner

GiveBack(c, k) ==
  /\ owner[k] = c
  /\ owner' = [owner EXCEPT ![k] = Free]
  /\ UNCHANGED refused

(* A refused client turns to something else. *)
MoveOn(c) ==
  /\ c \in refused
  /\ refused' = refused \ {c}
  /\ UNCHANGED owner

LeaseNext ==
  \E c \in Client :
    \/ \E k \in Key : Grant(c, k) \/ Refuse(c, k) \/ GiveBack(c, k)
    \/ MoveOn(c)

LeaseSpec == LeaseInit /\ [][LeaseNext]_leaseVars

=============================================================================
