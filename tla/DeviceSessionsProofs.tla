------------------------ MODULE DeviceSessionsProofs ------------------------
(***************************************************************************)
(* For any number of threads, programmers and places to plug them in: the  *)
(* registry is exact, a create() that meets an open programmer does so for *)
(* one of the reasons there are, nothing is left behind, and the registry  *)
(* implements ProgrammerLease.                                             *)
(*                                                                         *)
(* RegistryIsExact is inductive once TypeOK is known, and so is            *)
(* ConnectedWhere, which says where in a call a transport may be open.     *)
(* ClashHasAReason and NothingLeftBehind follow from the three of them.    *)
(***************************************************************************)
EXTENDS DeviceSessions, TLAPS

(* Who may have a transport open, and who may have a sweep under way. *)
ConnectedWhere ==
  \A c \in Client :
    /\ conn[c] # NoProbe =>
         pc[c] \in {"identifying", "reading", "live", "unclaim_open",
                    "releasing", "closing", "dropping", "looking"}
    /\ todo[c] # {} => pc[c] \in Finding

(* No call is in progress at the start. *)
LEMMA TypeInit == Init => TypeOK
  BY DEF Init, TypeOK, PC, Rest, Owning, Closing, Sheet, Key

(* A sheet's key is a serial or a location. *)
LEMMA KeyIsKey == ASSUME NEW info \in Sheet PROVE KeyOf(info) \in Key
  BY DEF KeyOf, Sheet, Key

(* Each operation of a client, and of the bus, keeps to the types. *)
LEMMA TypeStep == TypeOK /\ [Next]_vars => TypeOK'
<1> SUFFICES ASSUME TypeOK, [Next]_vars PROVE TypeOK'
  OBVIOUS
<1> USE DEF TypeOK
<1>1. ASSUME NEW l \in Location, Unplug(l) PROVE TypeOK'
  BY <1>1, NamesAreDistinct DEF Unplug, Attached
<1>2. ASSUME NEW p \in Probe, NEW l \in Location, Plug(p, l) PROVE TypeOK'
  BY <1>2 DEF Plug
<1>3. ASSUME NEW c \in Client, Enumerate(c) PROVE TypeOK'
  <2>1. PICK l \in Attached : \E info \in SheetsAt(l) : sheet' = [sheet EXCEPT ![c] = info]
    BY <1>3 DEF Enumerate
  <2>2. SheetsAt(l) \subseteq Sheet
    BY <2>1 DEF SheetsAt, Sheet, Attached
  <2>3. sheet' \in [Client -> Sheet \cup {NoSheet}]
    BY <2>1, <2>2
  <2>4. pc' = [pc EXCEPT ![c] = "idle"] /\ UNCHANGED <<at, plugs, registry, conn, todo>>
    BY <1>3 DEF Enumerate, world
  <2>5. \A d \in Client : d # c => sheet'[d] = sheet[d] /\ pc'[d] = pc[d]
    BY <2>1, <2>4
  <2> QED
    BY <2>3, <2>4, <2>5 DEF PC, Rest, Owning, Closing, Finding
<1>4. ASSUME NEW c \in Client, Create(c) PROVE TypeOK'
  <2> USE <1>4 DEF world, Goto, PC, Rest, Owning, Closing, Finding
  <2>1. CASE Claim(c)
    <3>1. sheet[c] \in Sheet
      BY <2>1 DEF Claim
    <3> QED
      BY <2>1, <3>1, KeyIsKey DEF Claim
  <2>2. CASE OpenTransport(c)
    BY <2>2 DEF OpenTransport, Sheet
  <2>3. CASE OpenFails(c)
    BY <2>3 DEF OpenFails
  <2>4. CASE Identify(c)
    BY <2>4 DEF Identify
  <2>5. CASE IdentifyFails(c)
    BY <2>5 DEF IdentifyFails
  <2>6. CASE ReadTheChip(c)
    BY <2>6 DEF ReadTheChip
  <2>7. CASE ReadTheChipFails(c)
    BY <2>7 DEF ReadTheChipFails
  <2>8. CASE Unclaim(c)
    BY <2>8 DEF Unclaim
  <2>9. CASE UnclaimOpen(c)
    BY <2>9 DEF UnclaimOpen
  <2>10. CASE CloseFailed(c)
    BY <2>10 DEF CloseFailed
  <2> QED
    BY <2>1, <2>2, <2>3, <2>4, <2>5, <2>6, <2>7, <2>8, <2>9, <2>10 DEF Create
<1>5. ASSUME NEW c \in Client, Destructor(c) PROVE TypeOK'
  BY <1>5 DEF Destructor, Destroy, Release, DropProgrammer,
              world, Goto, PC, Rest, Owning, Closing, Finding
<1>6. ASSUME NEW c \in Client, Sweep(c) PROVE TypeOK'
  <2> USE <1>6 DEF world, Goto, PC, Rest, Owning, Closing, Finding
  <2>1. CASE Find(c)
    BY <2>1 DEF Find, Attached
  <2>2. CASE FindOpen(c)
    BY <2>2 DEF FindOpen
  <2>3. CASE FindSkips(c)
    BY <2>3 DEF FindSkips
  <2>4. CASE Looked(c)
    BY <2>4 DEF Looked
  <2>5. CASE FindReturns(c)
    BY <2>5 DEF FindReturns
  <2> QED
    BY <2>1, <2>2, <2>3, <2>4, <2>5 DEF Sweep
<1>7. CASE UNCHANGED vars
  BY <1>7 DEF vars
<1> QED
  BY <1>1, <1>2, <1>3, <1>4, <1>5, <1>6, <1>7 DEF Next

(* Every variable keeps to its type, and a call in progress has a sheet. *)
THEOREM TypeCorrect == Spec => []TypeOK
<1> QED
  BY TypeInit, TypeStep, PTL DEF Spec

-----------------------------------------------------------------------------
(* The registry.                                                           *)

(* At the start the registry is empty and nobody owns a key. *)
LEMMA RegistryInit == Init => RegistryIsExact
  BY DEF Init, RegistryIsExact, Owns, Owning

(* A step that leaves the registry and the sheets alone, and takes one     *)
(* client from one owning step to the next or changes no ownership at all. *)
LEMMA RegistryUntouched ==
  ASSUME TypeOK, RegistryIsExact, NEW c \in Client,
         UNCHANGED <<registry, sheet>>,
         \A d \in Client : d # c => pc'[d] = pc[d],
         pc[c] \in Owning <=> pc'[c] \in Owning
  PROVE  RegistryIsExact'
<1>1. \A d \in Client : pc[d] \in Owning <=> pc'[d] \in Owning
  OBVIOUS
<1>2. \A d \in Client, k \in registry : Owns(d, k) <=> Owns(d, k)'
  BY <1>1 DEF Owns
<1> QED
  BY <1>1, <1>2 DEF RegistryIsExact

(* An owner that gives its key back, and owns nothing after. *)
LEMMA RegistryReleased ==
  ASSUME TypeOK, RegistryIsExact, NEW c \in Client,
         pc[c] \in Owning,
         registry' = registry \ {KeyOf(sheet[c])},
         sheet' = sheet,
         \A d \in Client : d # c => pc'[d] = pc[d],
         pc'[c] \notin Owning
  PROVE  RegistryIsExact'
<1>1. \A d \in Client : pc'[d] \in Owning => d # c /\ pc[d] \in Owning
  OBVIOUS
<1>2. ASSUME NEW k \in registry' PROVE \E d \in Client : Owns(d, k)'
  <2>1. PICK d \in Client : Owns(d, k)
    BY DEF RegistryIsExact
  <2>2. d # c
    BY <2>1 DEF Owns
  <2> QED
    BY <2>1, <2>2 DEF Owns
<1>3. ASSUME NEW d \in Client, pc'[d] \in Owning PROVE KeyOf(sheet'[d]) \in registry'
  BY <1>1, <1>3 DEF RegistryIsExact
<1>4. \A d, e \in Client :
        /\ pc'[d] \in Owning
        /\ pc'[e] \in Owning
        /\ KeyOf(sheet'[d]) = KeyOf(sheet'[e])
        => d = e
  BY <1>1 DEF RegistryIsExact
<1> QED
  BY <1>2, <1>3, <1>4 DEF RegistryIsExact

(* Claim adds a key nobody owns, the three releases take their own away, *)
(* and no other operation touches ownership.                             *)
LEMMA RegistryStep == TypeOK /\ RegistryIsExact /\ [Next]_vars => RegistryIsExact'
<1> SUFFICES ASSUME TypeOK, RegistryIsExact, [Next]_vars PROVE RegistryIsExact'
  OBVIOUS
<1>1. ASSUME NEW l \in Location, Unplug(l) PROVE RegistryIsExact'
  BY <1>1 DEF Unplug, RegistryIsExact, Owns
<1>2. ASSUME NEW p \in Probe, NEW l \in Location, Plug(p, l) PROVE RegistryIsExact'
  BY <1>2 DEF Plug, RegistryIsExact, Owns
<1>3. ASSUME NEW c \in Client, Enumerate(c) PROVE RegistryIsExact'
  <2>1. /\ pc[c] \notin Owning
        /\ pc'[c] \notin Owning
        /\ \A d \in Client : d # c => pc'[d] = pc[d] /\ sheet'[d] = sheet[d]
        /\ registry' = registry
    BY <1>3 DEF Enumerate, Rest, Owning, TypeOK
  <2>2. \A d \in Client : pc'[d] \in Owning => d # c
    BY <2>1
  <2>3. \A d \in Client, k \in registry : Owns(d, k) <=> Owns(d, k)'
    BY <2>1 DEF Owns
  <2> QED
    BY <2>1, <2>2, <2>3 DEF RegistryIsExact
<1>4. ASSUME NEW c \in Client, Claim(c) PROVE RegistryIsExact'
  <2> DEFINE key == KeyOf(sheet[c])
  <2>1. /\ pc[c] \notin Owning
        /\ sheet' = sheet
        /\ \A d \in Client : d # c => pc'[d] = pc[d]
    BY <1>4 DEF Claim, Rest, Owning, TypeOK
  <2>2. CASE key \in registry
    <3>1. pc'[c] \notin Owning /\ registry' = registry
      BY <1>4, <2>2 DEF Claim, Owning, TypeOK
    <3> QED
      BY <2>1, <3>1, RegistryUntouched
  <2>3. CASE key \notin registry
    <3>1. pc'[c] = "opening" /\ registry' = registry \cup {key}
      BY <1>4, <2>3 DEF Claim, TypeOK
    <3>2. \A d \in Client : d # c /\ pc[d] \in Owning => KeyOf(sheet[d]) # key
      BY <2>3 DEF RegistryIsExact
    <3>3. \A k \in registry' : \E d \in Client : Owns(d, k)'
      <4> SUFFICES ASSUME NEW k \in registry' PROVE \E d \in Client : Owns(d, k)'
        OBVIOUS
      <4>1. CASE k = key
        BY <2>1, <3>1, <4>1 DEF Owns, Owning
      <4>2. CASE k \in registry
        <5>1. PICK d \in Client : Owns(d, k)
          BY <4>2 DEF RegistryIsExact
        <5> QED
          BY <5>1, <2>1 DEF Owns
      <4> QED
        BY <3>1, <4>1, <4>2
    <3>4. \A d \in Client : pc'[d] \in Owning => KeyOf(sheet'[d]) \in registry'
      BY <2>1, <3>1 DEF RegistryIsExact
    <3>5. \A d, e \in Client :
            /\ pc'[d] \in Owning
            /\ pc'[e] \in Owning
            /\ KeyOf(sheet'[d]) = KeyOf(sheet'[e])
            => d = e
      BY <2>1, <3>1, <3>2 DEF RegistryIsExact
    <3> QED
      BY <3>3, <3>4, <3>5 DEF RegistryIsExact
  <2> QED
    BY <2>2, <2>3
<1>5. ASSUME NEW c \in Client,
             \/ OpenTransport(c) \/ OpenFails(c) \/ Identify(c) \/ IdentifyFails(c)
             \/ ReadTheChip(c) \/ ReadTheChipFails(c) \/ CloseFailed(c)
             \/ Destroy(c) \/ DropProgrammer(c) \/ Sweep(c)
      PROVE RegistryIsExact'
  <2>1. /\ UNCHANGED <<registry, sheet>>
        /\ \A d \in Client : d # c => pc'[d] = pc[d]
        /\ pc[c] \in Owning <=> pc'[c] \in Owning
    BY <1>5 DEF OpenTransport, OpenFails, Identify, IdentifyFails, ReadTheChip,
       ReadTheChipFails, CloseFailed, Destroy, DropProgrammer, Sweep, Find,
       FindOpen, FindSkips, Looked, FindReturns, Goto, Rest, Owning, TypeOK
  <2> QED
    BY <2>1, RegistryUntouched
<1>6. ASSUME NEW c \in Client, Unclaim(c) \/ UnclaimOpen(c) \/ Release(c)
      PROVE RegistryIsExact'
  <2>1. /\ pc[c] \in Owning
        /\ registry' = registry \ {KeyOf(sheet[c])}
        /\ sheet' = sheet
        /\ \A d \in Client : d # c => pc'[d] = pc[d]
        /\ pc'[c] \notin Owning
    BY <1>6 DEF Unclaim, UnclaimOpen, Release, Goto, Owning, TypeOK
  <2> QED
    BY <2>1, RegistryReleased
<1>7. CASE UNCHANGED vars
  BY <1>7 DEF vars, RegistryIsExact, Owns
<1> QED
  BY <1>1, <1>2, <1>3, <1>4, <1>5, <1>6, <1>7 DEF Next, Create, Destructor

(* No key leaks, none is erased under its holder, none has two holders. *)
THEOREM RegistryCorrect == Spec => []RegistryIsExact
<1> QED
  BY TypeInit, TypeStep, RegistryInit, RegistryStep, PTL DEF Spec

-----------------------------------------------------------------------------
(* The connections.                                                        *)

(* The states of a call that may have a transport open. *)
Connected == {"identifying", "reading", "live", "unclaim_open",
              "releasing", "closing", "dropping", "looking"}

(* At the start nothing is connected. *)
LEMMA ConnectedInit == Init => ConnectedWhere
  BY DEF Init, ConnectedWhere

(* One client opens or closes its connection, and the others keep theirs. *)
LEMMA ConnectedByOne ==
  ASSUME ConnectedWhere, NEW c \in Client,
         \A d \in Client : d # c => conn'[d] = conn[d] /\ pc'[d] = pc[d] /\ todo'[d] = todo[d],
         conn'[c] = NoProbe \/ pc'[c] \in Connected,
         todo'[c] # {} => pc'[c] \in Finding
  PROVE  ConnectedWhere'
  BY DEF ConnectedWhere, Connected

(* A transport is opened and closed where the code says; the bus can only  *)
(* cut connections.                                                        *)
LEMMA ConnectedStep == TypeOK /\ ConnectedWhere /\ [Next]_vars => ConnectedWhere'
<1> SUFFICES ASSUME TypeOK, ConnectedWhere, [Next]_vars PROVE ConnectedWhere'
  OBVIOUS
<1>1. ASSUME NEW l \in Location, Unplug(l) PROVE ConnectedWhere'
  BY <1>1 DEF Unplug, ConnectedWhere
<1>2. ASSUME NEW p \in Probe, NEW l \in Location, Plug(p, l) PROVE ConnectedWhere'
  BY <1>2 DEF Plug, ConnectedWhere
<1>3. ASSUME NEW c \in Client, Enumerate(c) \/ Create(c) \/ Destructor(c) \/ Sweep(c)
      PROVE ConnectedWhere'
  <2>1. \A d \in Client :
          d # c => conn'[d] = conn[d] /\ pc'[d] = pc[d] /\ todo'[d] = todo[d]
    BY <1>3 DEF Enumerate, Create, Claim, OpenTransport, OpenFails, Identify, IdentifyFails,
       ReadTheChip, ReadTheChipFails, Unclaim, UnclaimOpen, CloseFailed, Destructor, Destroy,
       Release, DropProgrammer, Sweep, Find, FindOpen, FindSkips, Looked, FindReturns, Goto,
       world, TypeOK
  <2>2. conn[c] # NoProbe => pc[c] \in Connected
    BY DEF ConnectedWhere, Connected
  <2>3. todo[c] # {} => pc[c] \in Finding
    BY DEF ConnectedWhere
  <2>4. conn'[c] = NoProbe \/ pc'[c] \in Connected
    BY <1>3, <2>2 DEF Enumerate, Create, Claim, OpenTransport, OpenFails, Identify,
       IdentifyFails, ReadTheChip, ReadTheChipFails, Unclaim, UnclaimOpen, CloseFailed,
       Destructor, Destroy, Release, DropProgrammer, Sweep, Find, FindOpen, FindSkips, Looked,
       FindReturns, Goto, TypeOK, Connected, Rest
  <2>5. todo'[c] # {} => pc'[c] \in Finding
    BY <1>3, <2>3 DEF Enumerate, Create, Claim, OpenTransport, OpenFails, Identify,
       IdentifyFails, ReadTheChip, ReadTheChipFails, Unclaim, UnclaimOpen, CloseFailed,
       Destructor, Destroy, Release, DropProgrammer, Sweep, Find, FindOpen, FindSkips, Looked,
       FindReturns, Goto, TypeOK, Finding, Rest
  <2> QED
    BY <2>1, <2>4, <2>5, ConnectedByOne
<1>4. CASE UNCHANGED vars
  BY <1>4 DEF vars, ConnectedWhere
<1> QED
  BY <1>1, <1>2, <1>3, <1>4 DEF Next

(* A create() with a key of its own meets a programmer another thread has  *)
(* open: one that looks, one that has given back its key, or one of two    *)
(* that went by different names, of which one is not the programmer's.     *)
THEOREM ClashesHaveReasons == Spec => []ClashHasAReason
<1>1. TypeOK /\ RegistryIsExact /\ ConnectedWhere => ClashHasAReason
  <2> SUFFICES ASSUME TypeOK, RegistryIsExact, ConnectedWhere,
                      NEW c \in Client, NEW d \in Client,
                      c # d,
                      pc[c] = "opening",
                      at[sheet[c].location] # NoProbe,
                      conn[d] = at[sheet[c].location],
                      pc[d] \notin Closing \cup {"looking"},
                      sheet[c].serial = at[sheet[c].location],
                      sheet[d].serial = at[sheet[c].location]
               PROVE  FALSE
    BY DEF ClashHasAReason
  <2>1. pc[d] \in Owning
    BY DEF ConnectedWhere, Owning, Closing
  <2>2. sheet[c] \in Sheet /\ pc[c] \in Owning
    BY DEF TypeOK, Owning
  <2>3. at[sheet[c].location] \in Probe
    BY <2>2 DEF TypeOK, Sheet
  <2>4. KeyOf(sheet[c]) = KeyOf(sheet[d])
    BY <2>3, NamesAreDistinct DEF KeyOf
  <2> QED
    BY <2>1, <2>2, <2>4 DEF RegistryIsExact
<1> QED
  BY <1>1, TypeInit, TypeStep, RegistryInit, RegistryStep, ConnectedInit, ConnectedStep, PTL
     DEF Spec

(* Outside every call and without a device, nothing stays open or claimed. *)
THEOREM NothingStays == Spec => []NothingLeftBehind
<1>1. RegistryIsExact /\ ConnectedWhere => NothingLeftBehind
  <2> SUFFICES ASSUME RegistryIsExact, ConnectedWhere PROVE NothingLeftBehind
    OBVIOUS
  <2>1. \A c \in Client : pc[c] \in Rest => conn[c] = NoProbe /\ todo[c] = {}
    BY DEF ConnectedWhere, Rest, Finding
  <2>2. ASSUME \A c \in Client : pc[c] \in Rest PROVE registry = {}
    BY <2>2 DEF RegistryIsExact, Owns, Rest, Owning
  <2> QED
    BY <2>1, <2>2 DEF NothingLeftBehind
<1> QED
  BY <1>1, TypeInit, TypeStep, RegistryInit, RegistryStep, ConnectedInit, ConnectedStep, PTL
     DEF Spec

-----------------------------------------------------------------------------
(* The lease.                                                              *)

(* The two variables of ProgrammerLease, as DeviceSessions maps them. *)
Owner == [k \in Key |-> OwnerOf(k)]
Refused == {c \in Client : pc[c] = "busy"}

OwnersKnown ==
  /\ Owner \in [Key -> Client \cup {Nobody}]
  /\ \A k \in Key, c \in Client : Owner[k] = c <=> Owns(c, k)

(* Since no key has two owners, the CHOOSE of OwnerOf is no choice. *)
LEMMA OwnerIsKnown ==
  /\ RegistryIsExact => OwnersKnown
  /\ RegistryIsExact' => OwnersKnown'
<1>1. ASSUME RegistryIsExact PROVE OwnersKnown
  <2>1. ASSUME NEW k \in Key
        PROVE  /\ OwnerOf(k) \in Client \cup {Nobody}
               /\ \A c \in Client : OwnerOf(k) = c <=> Owns(c, k)
    <3>1. \A c, d \in Client : Owns(c, k) /\ Owns(d, k) => c = d
      BY <1>1 DEF RegistryIsExact, Owns
    <3> QED
      BY <3>1, NamesAreDistinct DEF OwnerOf
  <2> QED
    BY <2>1 DEF OwnersKnown, Owner
<1>2. ASSUME RegistryIsExact' PROVE OwnersKnown'
  <2>1. ASSUME NEW k \in Key
        PROVE  /\ OwnerOf(k)' \in Client \cup {Nobody}
               /\ \A c \in Client : OwnerOf(k)' = c <=> Owns(c, k)'
    <3>1. \A c, d \in Client : Owns(c, k)' /\ Owns(d, k)' => c = d
      BY <1>2 DEF RegistryIsExact, Owns
    <3> QED
      BY <3>1, NamesAreDistinct DEF OwnerOf
  <2> QED
    BY <2>1 DEF OwnersKnown, Owner
<1> QED
  BY <1>1, <1>2

(* The lease's view of a step in which nobody gains or loses a key. *)
LEMMA OwnerKept ==
  ASSUME OwnersKnown, OwnersKnown',
         \A d \in Client, k \in Key : Owns(d, k)' <=> Owns(d, k)
  PROVE  Owner' = Owner
<1>1. \A k \in Key : Owner'[k] = Owner[k]
  BY NamesAreDistinct DEF OwnersKnown
<1> QED
  BY <1>1 DEF OwnersKnown

(* A client takes a key nobody has, having none. *)
LEMMA OwnerGains ==
  ASSUME OwnersKnown, OwnersKnown', NEW c \in Client, NEW key \in Key,
         \A d \in Client : ~Owns(d, key),
         \A k \in Key : Owns(c, k)' <=> k = key,
         \A k \in Key : ~Owns(c, k),
         \A d \in Client, k \in Key : d # c => (Owns(d, k)' <=> Owns(d, k))
  PROVE  /\ Owner[key] = Nobody
         /\ \A k \in Key : Owner[k] # c
         /\ Owner' = [Owner EXCEPT ![key] = c]
<1>1. Owner[key] = Nobody /\ \A k \in Key : Owner[k] # c
  BY DEF OwnersKnown
<1>2. \A k \in Key : Owner'[k] = IF k = key THEN c ELSE Owner[k]
  BY NamesAreDistinct DEF OwnersKnown
<1> QED
  BY <1>1, <1>2 DEF OwnersKnown

(* A client gives up the only key it has. *)
LEMMA OwnerLoses ==
  ASSUME OwnersKnown, OwnersKnown', NEW c \in Client, NEW key \in Key,
         Owns(c, key),
         \A k \in Key : ~Owns(c, k)',
         \A d \in Client, k \in Key : d # c => (Owns(d, k)' <=> Owns(d, k))
  PROVE  /\ Owner[key] = c
         /\ Owner' = [Owner EXCEPT ![key] = Nobody]
<1>1. Owner[key] = c
  BY DEF OwnersKnown
<1>2. \A d \in Client : d # c => ~Owns(d, key)'
  BY <1>1 DEF OwnersKnown
<1>3. \A k \in Key : k # key => ~Owns(c, k)
  BY DEF Owns
<1>4. \A k \in Key : Owner'[k] = IF k = key THEN Nobody ELSE Owner[k]
  BY <1>2, <1>3, NamesAreDistinct DEF OwnersKnown
<1> QED
  BY <1>1, <1>4 DEF OwnersKnown

LEMMA LeaseInitially == Init => Lease!LeaseInit
<1> SUFFICES ASSUME Init PROVE Lease!LeaseInit
  OBVIOUS
<1>1. \A k \in Key : OwnerOf(k) = Nobody
  BY DEF Init, OwnerOf, Owns, Owning
<1>2. {c \in Client : pc[c] = "busy"} = {}
  BY DEF Init
<1> QED
  BY <1>1, <1>2 DEF Lease!LeaseInit


(* What a step of the code is to the lease. *)
Granted(c, k) ==
  /\ Owner[k] = Nobody /\ \A j \in Key : Owner[j] # c
  /\ Owner' = [Owner EXCEPT ![k] = c]
  /\ Refused' = Refused \ {c}

Refusal(c, k) ==
  /\ Owner[k] \notin {Nobody, c}
  /\ Refused' = Refused \cup {c}
  /\ Owner' = Owner

GivenBack(c, k) ==
  /\ Owner[k] = c
  /\ Owner' = [Owner EXCEPT ![k] = Nobody]
  /\ Refused' = Refused

MovedOn(c) == c \in Refused /\ Refused' = Refused \ {c} /\ Owner' = Owner

Unseen == Owner' = Owner /\ Refused' = Refused

LeaseMove ==
  \/ \E c \in Client, k \in Key : Granted(c, k) \/ Refusal(c, k) \/ GivenBack(c, k)
  \/ \E c \in Client : MovedOn(c)
  \/ Unseen

LEMMA LeaseMoves == LeaseMove => [Lease!LeaseNext]_Lease!leaseVars
<1> USE DEF Owner, Refused
<1>1. ASSUME NEW c \in Client, NEW k \in Key, Granted(c, k) PROVE Lease!Grant(c, k)
  BY <1>1 DEF Granted, Lease!Grant
<1>2. ASSUME NEW c \in Client, NEW k \in Key, Refusal(c, k) PROVE Lease!Refuse(c, k)
  BY <1>2 DEF Refusal, Lease!Refuse
<1>3. ASSUME NEW c \in Client, NEW k \in Key, GivenBack(c, k) PROVE Lease!GiveBack(c, k)
  BY <1>3 DEF GivenBack, Lease!GiveBack
<1>4. ASSUME NEW c \in Client, MovedOn(c) PROVE Lease!MoveOn(c)
  BY <1>4 DEF MovedOn, Lease!MoveOn
<1>5. Unseen => UNCHANGED Lease!leaseVars
  BY DEF Unseen, Lease!leaseVars
<1> QED
  BY <1>1, <1>2, <1>3, <1>4, <1>5 DEF LeaseMove, Lease!LeaseNext

(* A client that leaves its sheet and its ownership alone changes at most  *)
(* whether it is the one that was refused last.                            *)
LEMMA LeaseUntouched ==
  ASSUME TypeOK, OwnersKnown, OwnersKnown', NEW c \in Client,
         \A d \in Client : d # c => pc'[d] = pc[d] /\ sheet'[d] = sheet[d],
         pc[c] \in Owning <=> pc'[c] \in Owning,
         pc[c] \in Owning => sheet'[c] = sheet[c],
         pc'[c] # "busy"
  PROVE  LeaseMove
<1>1. Owner' = Owner
  <2>1. \A d \in Client, k \in Key : Owns(d, k)' <=> Owns(d, k)
    BY DEF Owns
  <2> QED
    BY <2>1, OwnerKept
<1>2. Refused' = Refused \ {c}
  BY DEF Refused
<1> QED
  BY <1>1, <1>2 DEF LeaseMove, MovedOn, Unseen

(* Claim grants or refuses, the three releases give back, and every other  *)
(* operation is at most a refused client turning to something else.        *)
LEMMA LeaseStep ==
  TypeOK /\ RegistryIsExact /\ RegistryIsExact' /\ [Next]_vars => LeaseMove
<1> SUFFICES ASSUME TypeOK, RegistryIsExact, RegistryIsExact', [Next]_vars PROVE LeaseMove
  OBVIOUS
<1>0. OwnersKnown /\ OwnersKnown'
  BY OwnerIsKnown
<1>1. CASE \/ UNCHANGED vars
           \/ \E l \in Location : Unplug(l)
           \/ \E p \in Probe, l \in Location : Plug(p, l)
  <2>1. UNCHANGED <<pc, sheet>>
    BY <1>1 DEF vars, Unplug, Plug
  <2>2. \A d \in Client, k \in Key : Owns(d, k)' <=> Owns(d, k)
    BY <2>1 DEF Owns
  <2>3. Owner' = Owner
    BY <1>0, <2>2, OwnerKept
  <2> QED
    BY <2>1, <2>3 DEF LeaseMove, Unseen, Refused
<1>2. ASSUME NEW c \in Client, Claim(c) PROVE LeaseMove
  <2> DEFINE key == KeyOf(sheet[c])
  <2>1. /\ pc[c] \notin Owning
        /\ sheet' = sheet
        /\ \A d \in Client : d # c => pc'[d] = pc[d]
        /\ key \in Key
    BY <1>2, KeyIsKey DEF Claim, Rest, Owning, TypeOK
  <2>2. CASE key \in registry
    <3>1. pc'[c] = "busy"
      BY <1>2, <2>2 DEF Claim, TypeOK
    <3>2. PICK d \in Client : Owns(d, key)
      BY <2>2 DEF RegistryIsExact
    <3>3. Owner[key] \notin {Nobody, c}
      BY <1>0, <2>1, <3>2, NamesAreDistinct DEF OwnersKnown, Owns
    <3>4. \A e \in Client, k \in Key : Owns(e, k)' <=> Owns(e, k)
      BY <2>1, <3>1 DEF Owns, Owning
    <3>5. Owner' = Owner
      BY <1>0, <3>4, OwnerKept
    <3>6. Refused' = Refused \cup {c}
      BY <2>1, <3>1 DEF Refused
    <3> QED
      BY <2>1, <3>3, <3>5, <3>6 DEF LeaseMove, Refusal
  <2>3. CASE key \notin registry
    <3>1. pc'[c] = "opening"
      BY <1>2, <2>3 DEF Claim, TypeOK
    <3>2. \A d \in Client : ~Owns(d, key)
      BY <2>3 DEF RegistryIsExact, Owns
    <3>3. /\ \A k \in Key : (Owns(c, k)' <=> k = key) /\ ~Owns(c, k)
          /\ \A d \in Client, k \in Key : d # c => (Owns(d, k)' <=> Owns(d, k))
      BY <2>1, <3>1 DEF Owns, Owning
    <3>4. /\ Owner[key] = Nobody /\ \A k \in Key : Owner[k] # c
          /\ Owner' = [Owner EXCEPT ![key] = c]
      BY <1>0, <2>1, <3>2, <3>3, OwnerGains
    <3>5. Refused' = Refused \ {c}
      BY <2>1, <3>1 DEF Refused
    <3> QED
      BY <2>1, <3>4, <3>5 DEF LeaseMove, Granted
  <2> QED
    BY <2>2, <2>3
<1>3. ASSUME NEW c \in Client, Unclaim(c) \/ UnclaimOpen(c) \/ Release(c)
      PROVE LeaseMove
  <2> DEFINE key == KeyOf(sheet[c])
  <2>1. /\ pc[c] \in Owning /\ pc[c] # "busy"
        /\ pc'[c] \notin Owning /\ pc'[c] # "busy"
        /\ sheet' = sheet
        /\ \A d \in Client : d # c => pc'[d] = pc[d]
    BY <1>3 DEF Unclaim, UnclaimOpen, Release, Goto, Owning, TypeOK
  <2>2. key \in Key /\ Owns(c, key)
    BY <2>1, KeyIsKey DEF TypeOK, Owns
  <2>3. /\ \A k \in Key : ~Owns(c, k)'
        /\ \A d \in Client, k \in Key : d # c => (Owns(d, k)' <=> Owns(d, k))
    BY <2>1 DEF Owns
  <2>4. Owner[key] = c /\ Owner' = [Owner EXCEPT ![key] = Nobody]
    BY <1>0, <2>2, <2>3, OwnerLoses
  <2>5. Refused' = Refused
    BY <2>1 DEF Refused
  <2> QED
    BY <2>2, <2>4, <2>5 DEF LeaseMove, GivenBack
<1>4. ASSUME NEW c \in Client,
             \/ Enumerate(c) \/ OpenTransport(c) \/ OpenFails(c)
             \/ Identify(c) \/ IdentifyFails(c)
             \/ ReadTheChip(c) \/ ReadTheChipFails(c) \/ CloseFailed(c)
             \/ Destroy(c) \/ DropProgrammer(c) \/ Sweep(c)
      PROVE LeaseMove
  <2>1. /\ \A d \in Client : d # c => pc'[d] = pc[d] /\ sheet'[d] = sheet[d]
        /\ pc[c] \in Owning <=> pc'[c] \in Owning
        /\ pc[c] \in Owning => sheet'[c] = sheet[c]
    BY <1>4 DEF Enumerate, OpenTransport, OpenFails, Identify, IdentifyFails, ReadTheChip,
       ReadTheChipFails, CloseFailed, Destroy, DropProgrammer, Sweep, Find,
       FindOpen, FindSkips, Looked, FindReturns, Goto, Rest, Owning, TypeOK
  <2>2. pc'[c] # "busy"
    BY <1>4 DEF Enumerate, OpenTransport, OpenFails, Identify, IdentifyFails, ReadTheChip,
       ReadTheChipFails, CloseFailed, Destroy, DropProgrammer, Sweep, Find,
       FindOpen, FindSkips, Looked, FindReturns, Goto, TypeOK
  <2> QED
    BY <1>0, <2>1, <2>2, LeaseUntouched
<1> QED
  BY <1>1, <1>2, <1>3, <1>4 DEF Next, Create, Destructor

(* DeviceSessions implements ProgrammerLease: whatever the threads and the *)
(* bus do, a key goes to one client at a time and Busy is said of a key    *)
(* that another client has, never of one whose holder is gone.             *)
THEOREM LeaseImplemented == Spec => ImplementsLease
<1>1. TypeOK /\ RegistryIsExact /\ RegistryIsExact' /\ [Next]_vars
        => [Lease!LeaseNext]_Lease!leaseVars
  BY LeaseStep, LeaseMoves
<1> QED
  BY <1>1, TypeCorrect, RegistryCorrect, LeaseInitially, PTL
     DEF Spec, ImplementsLease, Lease!LeaseSpec

=============================================================================
