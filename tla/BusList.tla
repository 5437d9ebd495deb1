------------------------------- MODULE BusList -------------------------------
(***************************************************************************)
(* The DLL's list of devices.  usb_find_devices scans the device names, a  *)
(* slot of the driver each, into a list of its own; devices that are on    *)
(* the bus already are taken off it again, devices that are gone off the   *)
(* bus, and what is left is opened, asked for its configurations and put   *)
(* on the bus.  The lists are linked through the structures themselves,    *)
(* which applications hold pointers to.  Devices come and go meanwhile.    *)
(* What is read from a device is parsed as in Descriptors.                 *)
(***************************************************************************)
EXTENDS Descriptors, FiniteSets

CONSTANTS NSlots,   \* device names \\.\libusb0-0001 and on
          Models,   \* vendor and product: the other part of a file name
          Nodes,    \* addresses of usb_device structures
          None      \* NULL, no device

ASSUME BusAssumption ==
  /\ NSlots \in Nat
  /\ IsFiniteSet(Nodes) /\ None \notin Nodes /\ None \notin Models

Slots == 1 .. NSlots

VARIABLES plugged,   \* the device in each slot
          heap,      \* the structures
          devices,   \* bus->devices
          found,     \* the list of the scan
          pc, slot,  \* where usb_find_devices is, and the slot it looks at
          cur,       \* the structure its loop is at
          changes,   \* what it counts, and then returns: -1 for -ENOMEM
          hub,       \* bus->root_dev is there
          children,  \* root_dev->children
          before,    \* the structures that were listed when it was called
          steady     \* no device came or went since, and none failed

vars == <<plugged, heap, devices, found, pc, slot, cur, changes, hub, children, before, steady>>

Address == Nodes \union {None}

Name == [slot : Slots, model : Models]

\* A structure; config is the model that its configurations were read from.
Node == [live : BOOLEAN, next : Address, prev : Address,
         name : Name \union {None}, config : Models \union {None}]

TypeOK ==
  /\ plugged \in [Slots -> Models \union {None}]
  /\ heap \in [Nodes -> Node]
  /\ devices \in Address /\ found \in Address /\ cur \in Address
  /\ pc \in {"idle", "scan", "compare", "add", "crashed"}
  /\ slot \in 1 .. NSlots + 1
  /\ changes \in -1 .. 2 * NSlots
  /\ hub \in BOOLEAN /\ children \in Seq(Nodes) /\ Len(children) <= NSlots
  /\ before \in SUBSET (Nodes \X Name) /\ steady \in BOOLEAN

\* Memory that malloc gives, set to 0.
Blank == [live |-> FALSE, next |-> None, prev |-> None, name |-> None, config |-> None]

\* One bus and no hub, as after usb_find_busses.
Init ==
  /\ plugged \in [Slots -> Models \union {None}]
  /\ heap = [n \in Nodes |-> Blank]
  /\ devices = None /\ found = None /\ cur = None
  /\ pc = "idle" /\ slot = 1 /\ changes = 0
  /\ hub = FALSE /\ children = <<>>
  /\ before = {} /\ steady = FALSE

-----------------------------------------------------------------------------
\* LIST_ADD: ent before what begin points to.
ListAdd(h, begin, ent) ==
  [n \in Nodes |->
     IF n = ent THEN [h[n] EXCEPT !.next = begin, !.prev = None]
     ELSE IF n = begin THEN [h[n] EXCEPT !.prev = ent]
     ELSE h[n]]

\* Mutant: the entry's pointers are cleared before its successor is told.
ListDelCleared(h, ent) ==
  [n \in Nodes |->
     IF n = ent THEN [h[n] EXCEPT !.next = None, !.prev = None]
     ELSE IF n = h[ent].prev THEN [h[n] EXCEPT !.next = h[ent].next]
     ELSE IF n = h[ent].next THEN [h[n] EXCEPT !.prev = ent]
     ELSE h[n]]

\* LIST_DEL: the neighbours of ent, and what begin points to then.
ListDel(h, ent) ==
  [n \in Nodes |->
     IF n = ent THEN [h[n] EXCEPT !.next = None, !.prev = None]
     ELSE IF n = h[ent].prev THEN [h[n] EXCEPT !.next = h[ent].next]
     ELSE IF n = h[ent].next THEN [h[n] EXCEPT !.prev = h[ent].prev]
     ELSE h[n]]

Begin(h, begin, ent) == IF h[ent].prev = None THEN h[ent].next ELSE begin

Free(h, n) == [h EXCEPT ![n] = Blank]

\* The entries of a list from begin on, by number.
Entries(begin) ==
  LET at[k \in 0 .. Cardinality(Nodes)] ==
        IF k = 0 THEN begin ELSE IF at[k - 1] = None THEN None ELSE heap[at[k - 1]].next
  IN at

Listed(begin) ==
  LET at == Entries(begin) IN {at[k] : k \in DOMAIN at} \ {None}

Names(begin) == {heap[n].name : n \in Listed(begin)}

-----------------------------------------------------------------------------
\* A device comes or goes.  Its slot is free when it comes.
Plug(s, m) ==
  /\ plugged[s] = None
  /\ plugged' = [plugged EXCEPT ![s] = m]
  /\ steady' = FALSE
  /\ UNCHANGED <<heap, devices, found, pc, slot, cur, changes, hub, children, before>>

Unplug(s) ==
  /\ plugged[s] # None
  /\ plugged' = [plugged EXCEPT ![s] = None]
  /\ steady' = FALSE
  /\ UNCHANGED <<heap, devices, found, pc, slot, cur, changes, hub, children, before>>

\* usb_find_devices is called.
FindDevices ==
  /\ pc = "idle"
  /\ pc' = "scan" /\ slot' = 1 /\ found' = None /\ changes' = 0
  /\ before' = {<<n, heap[n].name>> : n \in Listed(devices)}
  /\ steady' = TRUE
  /\ UNCHANGED <<plugged, heap, devices, cur, hub, children>>

\* usb_os_find_devices, a slot: a structure is allocated, and freed again when
\* the slot cannot be opened or gives no device descriptor.
Scan ==
  /\ pc = "scan" /\ slot \in Slots
  /\ slot' = slot + 1
  /\ \E n \in Nodes :
       /\ ~ heap[n].live
       /\ \/ /\ plugged[slot] # None
             /\ LET node == [Blank EXCEPT !.live = TRUE,
                                          !.name = [slot |-> slot, model |-> plugged[slot]]]
                IN heap' = ListAdd([heap EXCEPT ![n] = node], found, n)
             /\ found' = n
             /\ UNCHANGED steady
          \/ /\ steady' = (steady /\ plugged[slot] = None)
             /\ UNCHANGED <<heap, found>>
  /\ UNCHANGED <<plugged, devices, pc, cur, changes, hub, children, before>>

\* No memory: -ENOMEM, and nobody has the list of the scan any more.
ScanFails ==
  /\ pc = "scan" /\ slot \in Slots
  /\ pc' = "idle" /\ changes' = -1 /\ found' = None /\ steady' = FALSE
  /\ UNCHANGED <<plugged, heap, devices, slot, cur, hub, children, before>>

Scanned ==
  /\ pc = "scan" /\ slot = NSlots + 1
  /\ pc' = "compare" /\ cur' = devices
  /\ UNCHANGED <<plugged, heap, devices, found, slot, changes, hub, children, before, steady>>

\* Mutant: the slot alone tells whether it is the device that was there.
SameSlot(n, m) == heap[n].name.slot = heap[m].name.slot

\* The file names are the same.
Same(n, m) == heap[n].name = heap[m].name

\* Mutant: of the two structures of a device, the old one is freed.
StillThereReplaced ==
  /\ pc = "compare" /\ cur # None
  /\ \E n \in Listed(found) :
       /\ Same(cur, n)
       /\ LET h == ListDel(ListDel(heap, n), cur) IN
          heap' = ListAdd(Free([h EXCEPT ![n].config = heap[cur].config], cur),
                          Begin(heap, devices, cur), n)
       /\ found' = Begin(heap, found, n)
       /\ devices' = n
  /\ cur' = heap[cur].next
  /\ UNCHANGED <<plugged, pc, slot, changes, hub, children, before, steady>>

\* A device on the bus that was found again: its new structure goes.
StillThere ==
  /\ pc = "compare" /\ cur # None
  /\ \E n \in Listed(found) :
       /\ Same(cur, n)
       /\ heap' = Free(ListDel(heap, n), n)
       /\ found' = Begin(heap, found, n)
  /\ cur' = heap[cur].next
  /\ UNCHANGED <<plugged, devices, pc, slot, changes, hub, children, before, steady>>

\* One that was not.
Gone ==
  /\ pc = "compare" /\ cur # None /\ \A n \in Listed(found) : ~ Same(cur, n)
  /\ heap' = Free(ListDel(heap, cur), cur)
  /\ devices' = Begin(heap, devices, cur)
  /\ cur' = heap[cur].next
  /\ changes' = changes + 1
  /\ UNCHANGED <<plugged, found, pc, slot, hub, children, before, steady>>

Compared ==
  /\ pc = "compare" /\ cur = None
  /\ pc' = "add" /\ cur' = found
  /\ UNCHANGED <<plugged, heap, devices, found, slot, changes, hub, children, before, steady>>

\* Mutant: the change is counted before the configurations are known.
AddCountsAll ==
  /\ pc = "add" /\ cur # None
  /\ found' = Begin(heap, found, cur)
  /\ cur' = heap[cur].next
  /\ changes' = changes + 1
  /\ \E m \in {plugged[heap[cur].name.slot], None} :
       LET h == [ListDel(heap, cur) EXCEPT ![cur].config = m] IN
       IF m # None
       THEN heap' = ListAdd(h, devices, cur) /\ devices' = cur /\ UNCHANGED steady
       ELSE heap' = h /\ steady' = FALSE /\ UNCHANGED devices
  /\ UNCHANGED <<plugged, pc, slot, hub, children, before>>

\* A new device is opened, by its slot, and asked for its configurations.  One
\* that gives none is left off the bus, and its structure off every list.
Add ==
  /\ pc = "add" /\ cur # None
  /\ found' = Begin(heap, found, cur)
  /\ cur' = heap[cur].next
  /\ \E m \in {plugged[heap[cur].name.slot], None} :
       LET h == [ListDel(heap, cur) EXCEPT ![cur].config = m] IN
       IF m # None
       THEN /\ heap' = ListAdd(h, devices, cur) /\ devices' = cur
            /\ changes' = changes + 1
            /\ UNCHANGED steady
       ELSE heap' = h /\ steady' = FALSE /\ UNCHANGED <<devices, changes>>
  /\ UNCHANGED <<plugged, pc, slot, hub, children, before>>

\* usb_os_determine_children, when the hub is there or memory for it is: the
\* hub's children are those on the bus, in their order.
DetermineChildren ==
  /\ pc = "add" /\ cur = None
  /\ pc' = "idle" /\ hub' = TRUE
  /\ children' = [k \in 1 .. Cardinality(Listed(devices)) |-> Entries(devices)[k - 1]]
  /\ UNCHANGED <<plugged, heap, devices, found, slot, cur, changes, before, steady>>

NoMemoryForHub ==
  /\ pc = "add" /\ cur = None /\ ~ hub
  /\ pc' = "idle"
  /\ UNCHANGED <<plugged, heap, devices, found, slot, cur, changes, hub, children, before, steady>>

\* Without memory for the children, they are written through NULL.
NoMemoryForChildren ==
  /\ pc = "add" /\ cur = None /\ devices # None
  /\ pc' = "crashed" /\ hub' = TRUE /\ children' = <<>>
  /\ UNCHANGED <<plugged, heap, devices, found, slot, cur, changes, before, steady>>

Next ==
  \/ \E s \in Slots : Unplug(s) \/ \E m \in Models : Plug(s, m)
  \/ FindDevices
  \/ Scan
  \/ ScanFails
  \/ Scanned
  \/ StillThere
  \/ Gone
  \/ Compared
  \/ Add
  \/ DetermineChildren
  \/ NoMemoryForHub
  \/ NoMemoryForChildren

Spec == Init /\ [][Next]_vars

-----------------------------------------------------------------------------
WellFormed(begin) ==
  /\ Entries(begin)[Cardinality(Nodes)] = None
  /\ begin # None => heap[begin].prev = None
  /\ \A n \in Listed(begin) :
       /\ heap[n].live
       /\ heap[n].next # None => heap[heap[n].next].prev = n

\* LIST_ADD and LIST_DEL at work on two lists: at every step both are well
\* formed, apart, and made of live structures, and the loop is at one of them.
\* Between calls the hub's children are the devices on the bus, and nothing
\* but structures that never were on the bus is lost.
ListsWellFormed ==
  /\ WellFormed(devices) /\ WellFormed(found)
  /\ Listed(devices) \intersect Listed(found) = {}
  /\ cur # None => heap[cur].live
  /\ pc = "idle" =>
       /\ hub => Listed(devices) = {children[k] : k \in DOMAIN children}
       /\ \A n \in Nodes : heap[n].live /\ n \notin Listed(devices) => heap[n].config = None

\* The lists, with the types of everything else.
ListsSafe == TypeOK /\ ListsWellFormed

\* After a call during which nothing came, went or failed, the bus has the
\* devices that are plugged in, whatever happened in earlier calls.
ScanIsExact ==
  pc = "idle" /\ changes # -1 /\ steady =>
    Names(devices) = {[slot |-> s, model |-> plugged[s]] : s \in {x \in Slots : plugged[x] # None}}

\* functions.sgml: a call returns the "total of new device and devices
\* removed".  After -ENOMEM there are none.
CountIsExact ==
  LET old == {b[2] : b \in before}
      new == Names(devices)
  IN pc = "idle" => (IF changes = -1 THEN 0 ELSE changes) = Cardinality(old \ new) + Cardinality(new \ old)

\* usb_find_devices finds what is there, once.
ExactScan == ScanIsExact /\ CountIsExact

\* A device that stays on the bus keeps its structure: pointers that an
\* application took from the bus stay valid.
SeenIsKept ==
  \A b \in before : pc = "idle" /\ b[2] \in Names(devices) =>
    b[1] \in Listed(devices) /\ heap[b[1]].live /\ heap[b[1]].name = b[2]

\* usb_fetch_and_parse_descriptors: whichever configurations the devices on the
\* bus have, an application finds them there as they are: each setting with
\* its interface, each endpoint with its setting, each descriptor of a class
\* with what it follows.
ConfigsAsTheyAre == devices # None => Misread = {}

\* usb_free_dev, when a device is gone: its configurations are freed, as far as
\* usb_destroy_configuration goes, and nothing else.
ConfigsAreFreed == pc = "compare" => Unfreed = {}
=============================================================================
