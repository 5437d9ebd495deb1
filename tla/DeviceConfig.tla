---------------------------- MODULE DeviceConfig ----------------------------
(***************************************************************************)
(* The configuration of a device as the driver caches it (dev->config) and *)
(* the ioctls that read and write it: set_configuration, get_descriptor,   *)
(* set_interface, get_interface_ex, claim_interface, release_interface,    *)
(* reset_device, and IRP_MJ_CREATE and CLOSE.  Ioctls run on threads of    *)
(* their own and take no lock; a request to the device blocks.  What a     *)
(* thread reads before such a request, or before it acts on it, may have   *)
(* changed.                                                                *)
(*                                                                         *)
(* Configuration c has index c - 1 and bConfigurationValue c.  Descriptors *)
(* are blocks of pool memory, which is reused.  A request that times out   *)
(* (call_usbd_ex) ends with STATUS_TIMEOUT, which NT_SUCCESS takes for a   *)
(* success: the block is then used with what the memory held before.       *)
(***************************************************************************)
EXTENDS Integers, FiniteSets

CONSTANTS Threads,      \* threads that run ioctls
          Files,        \* file objects
          Configs,      \* the device's configurations
          Interfaces,   \* interface numbers, from 0
          InterfacesOf, \* the interfaces of each configuration
          AltsOf,       \* and the settings that each of them has
          Alts,         \* the settings that are asked for
          Pool,         \* addresses of the memory pool
          Ops,          \* the requests that threads make
          None          \* NULL: no file object, no descriptor

NoConfig == 0

ASSUME ConfigAssumption ==
  /\ Configs \subseteq Nat \ {0}
  /\ 0 \in Interfaces /\ Interfaces \subseteq Nat
  /\ \A j \in Interfaces : 0 .. j \subseteq Interfaces
  /\ InterfacesOf \in [Configs -> SUBSET Interfaces]
  /\ AltsOf \in [Configs -> [Interfaces -> SUBSET Alts]]
  /\ \A c \in Configs : \A i \in InterfacesOf[c] : 0 \in AltsOf[c][i]
  /\ 0 \in Alts
  /\ None \notin Files \union Pool

VARIABLES value,       \* dev->config.value
          index,       \* dev->config.index + 1: 0 when there is none
          descriptor,  \* dev->config.descriptor
          handle,      \* dev->config.handle: the configuration it stands for
          pipes,       \* dev->config.interfaces[i]: valid, and the pipes of which setting
          bound,       \* dev->config.interfaces[i].file_object
          pool,        \* what the blocks hold
          device,      \* the configuration and settings of the device itself
          open,        \* the open files
          granted,     \* the claims that files have been granted and not lost since
          th           \* the threads

config == <<value, index, descriptor, handle>>
vars == <<config, pipes, bound, pool, device, open, granted, th>>

Invalid == [config |-> NoConfig, alt |-> 0]   \* interfaces[i].valid = FALSE

Settings == [config : Configs, alt : Alts] \union {Invalid}

\* A block of the pool: the configuration value in it, and whether the device or
\* the cache has filled it whole.  A block that is not whole holds what the
\* memory held; NoConfig stands for a value 0.
Block == [config : Configs \union {NoConfig}, whole : BOOLEAN]

Unused == [config |-> NoConfig, whole |-> TRUE]    \* not allocated
Unfilled == [config |-> NoConfig, whole |-> FALSE]
NotWhole == [config : Configs \union {NoConfig}, whole : {FALSE}]
Whole(c) == [config |-> c, whole |-> TRUE]

\* The device, until its port is cycled.  A configuring request that times out
\* may have been carried out or not: what the device then has is not sure.
Configured(c) ==
  [config |-> c, alt |-> [i \in Interfaces |-> 0], present |-> TRUE, sure |-> TRUE]

Doubtful == [Configured(NoConfig) EXCEPT !.sure = FALSE]
Gone == [Configured(NoConfig) EXCEPT !.present = FALSE]

Steps ==
  {"idle", "set_config", "unconfigure", "timed_out", "lookup", "fetch", "cache", "compare", "select",
   "selected", "pipes", "free_old", "assign", "set_alt", "alt_call", "alt_set", "get_alt", "got_alt",
   "claim", "bind", "release", "unbind", "reset", "cycle", "close", "close_unbind"}

\* A thread: its request, the file and the arguments; desc is the block it
\* works with, conf the configuration it has read, found the one at the index it
\* has found.  History: the configuration it was asked for, and whether a
\* request of it timed out.
ThreadType ==
  [pc : Steps, op : Ops \union {None}, file : Files \union {None},
   conf : Configs \union {NoConfig}, found : Configs \union {NoConfig},
   asked : Configs \union {NoConfig}, late : BOOLEAN, form : {"value", "index", "active"},
   intf : Interfaces \union {i + 1 : i \in Interfaces}, alt : Alts, desc : Pool \union {None}]

TypeOK ==
  /\ value \in Configs \union {NoConfig} /\ index \in Configs \union {NoConfig}
  /\ descriptor \in Pool \union {None} /\ handle \in Configs \union {NoConfig}
  /\ pipes \in [Interfaces -> Settings]
  /\ bound \in [Interfaces -> Files \union {None}]
  /\ pool \in [Pool -> Block]
  /\ device \in [config : Configs \union {NoConfig}, alt : [Interfaces -> Alts],
                 present : BOOLEAN, sure : BOOLEAN]
  /\ open \subseteq Files
  /\ granted \subseteq Files \X Interfaces
  /\ th \in [Threads -> ThreadType]

AnyInterface == CHOOSE i \in Interfaces : TRUE

Resting == [pc |-> "idle", op |-> None, file |-> None, conf |-> NoConfig, found |-> NoConfig,
            asked |-> NoConfig, late |-> FALSE, form |-> "value",
            intf |-> AnyInterface, alt |-> 0, desc |-> None]

Init ==
  /\ value = NoConfig /\ index = NoConfig /\ descriptor = None /\ handle = NoConfig
  /\ pipes = [i \in Interfaces |-> Invalid]
  /\ bound = [i \in Interfaces |-> None]
  /\ pool = [a \in Pool |-> Unused]
  /\ device = Configured(NoConfig)
  /\ open = {} /\ granted = {}
  /\ th = [t \in Threads |-> Resting]

-----------------------------------------------------------------------------
Goto(t, step) == th' = [th EXCEPT ![t].pc = step]

Finish(t) == th' = [th EXCEPT ![t] = Resting]

\* An ioctl arrives on an open file.
Begin(t, op, f, c, form, i, a) ==
  /\ th[t].pc = "idle" /\ op \in Ops /\ f \in open
  /\ th' = [th EXCEPT ![t] = [pc |-> CASE op = "set_configuration" -> "set_config"
                                       [] op = "get_descriptor" -> "lookup"
                                       [] op = "set_interface" -> "set_alt"
                                       [] op = "get_interface" -> "get_alt"
                                       [] op = "claim_interface" -> "claim"
                                       [] op = "release_interface" -> "release"
                                       [] op = "reset_device" -> "reset",
                              op |-> op, file |-> f, conf |-> c, found |-> c,
                              asked |-> c, late |-> FALSE, form |-> form,
                              intf |-> i, alt |-> a, desc |-> None]]
  /\ UNCHANGED <<config, pipes, bound, pool, device, open, granted>>

\* Each request with the arguments that matter to it.
Request(t) ==
  \E f \in open :
    \/ \E c \in Configs \union {NoConfig}, form \in {"value", "index", "active"} :
         /\ c = NoConfig => form = "value"
         /\ form = "active" => c = 1
         /\ Begin(t, "set_configuration", f, c, form, AnyInterface, 0)
    \/ \E c \in Configs : Begin(t, "get_descriptor", f, c, "index", AnyInterface, 0)
    \/ \E i \in Interfaces, a \in Alts :
         Begin(t, "set_interface", f, NoConfig, "value", i, a)
    \/ \E i \in Interfaces, op \in {"get_interface", "claim_interface", "release_interface"} :
         Begin(t, op, f, NoConfig, "value", i, 0)
    \/ Begin(t, "reset_device", f, NoConfig, "value", AnyInterface, 0)

\* IRP_MJ_CREATE.
Create(f) ==
  /\ f \notin open /\ \A t \in Threads : th[t].file # f
  /\ open' = open \union {f}
  /\ UNCHANGED <<config, pipes, bound, pool, device, granted, th>>

\* IRP_MJ_CLOSE comes when no request on the file is left.
Close(t, f) ==
  /\ th[t].pc = "idle" /\ f \in open /\ \A u \in Threads : th[u].file # f
  /\ open' = open \ {f}
  /\ granted' = {g \in granted : g[1] # f}
  /\ th' = [th EXCEPT ![t] = [Resting EXCEPT !.pc = "close", !.file = f, !.intf = 0]]
  /\ UNCHANGED <<config, pipes, bound, pool, device>>

\* release_all_interfaces, one interface after the other: the test ...
CloseTest(t) ==
  LET i == th[t].intf IN
  /\ th[t].pc = "close"
  /\ IF i \notin Interfaces THEN Finish(t)
     ELSE IF bound[i] = th[t].file THEN Goto(t, "close_unbind")
     ELSE th' = [th EXCEPT ![t].intf = i + 1]
  /\ UNCHANGED <<config, pipes, bound, pool, device, open, granted>>

\* Mutant: the loop over the interfaces ends with the first that was bound.
CloseUnbindFirst(t) ==
  /\ th[t].pc = "close_unbind"
  /\ bound' = [bound EXCEPT ![th[t].intf] = None]
  /\ Finish(t)
  /\ UNCHANGED <<config, pipes, pool, device, open, granted>>

\* ... and the assignment.
CloseUnbind(t) ==
  /\ th[t].pc = "close_unbind"
  /\ bound' = [bound EXCEPT ![th[t].intf] = None]
  /\ th' = [th EXCEPT ![t].pc = "close", ![t].intf = @ + 1]
  /\ UNCHANGED <<config, pipes, pool, device, open, granted>>

-----------------------------------------------------------------------------
\* set_configuration returns at once when the cache has the configuration.
SetConfigCheck(t) ==
  LET c == th[t].conf
      cached == \/ th[t].form = "value" /\ c # NoConfig /\ value = c
                \/ th[t].form = "index" /\ value # NoConfig /\ index = c
  IN
  /\ th[t].pc = "set_config"
  /\ IF cached THEN Finish(t) ELSE Goto(t, IF c = NoConfig THEN "unconfigure" ELSE "lookup")
  /\ UNCHANGED <<config, pipes, bound, pool, device, open, granted>>

\* Configuration 0: the device first, then the cache; the descriptor stays.
\* Where the request times out its status is returned, a success.
Unconfigure(t) ==
  /\ th[t].pc = "unconfigure"
  /\ \/ /\ device.present
        /\ device' = Configured(NoConfig)
        /\ Goto(t, "selected")
     \/ /\ device.present
        /\ device' = Doubtful
        /\ Goto(t, "timed_out")
     \/ Finish(t) /\ UNCHANGED device
  /\ UNCHANGED <<config, pipes, bound, pool, open, granted>>

TimedOut(t) ==
  /\ th[t].pc = "timed_out"
  /\ Finish(t)
  /\ UNCHANGED <<config, pipes, bound, pool, device, open, granted>>

\* get_descriptor serves the configuration at the cached index from the cache
\* and asks the device for any other.
Hit(i) == descriptor # None /\ index = i

\* get_config_descriptor searches the indices for a header with the value; a
\* header that could not be read in time may hold it by chance.
Matches(t, i, late) ==
  IF th[t].form # "value" THEN i = th[t].conf
  ELSE IF Hit(i) THEN pool[descriptor].config = th[t].conf
  ELSE late \/ i = th[t].conf

\* A copy of the cached descriptor; of a freed one, what the memory holds.
CachedCopy == IF pool[descriptor] = Unused THEN Unfilled ELSE pool[descriptor]

\* set_configuration takes a block for the descriptor found, and fails without
\* one or where none is found.
Lookup(t) ==
  /\ th[t].pc = "lookup"
  /\ IF th[t].op = "set_configuration"
     THEN \/ \E a \in Pool, i \in Configs, late \in BOOLEAN :
               /\ pool[a] = Unused /\ Matches(t, i, late)
               /\ late => device.present /\ ~Hit(i)
               /\ pool' = [pool EXCEPT ![a] = IF Hit(i) THEN CachedCopy ELSE Unfilled]
               /\ th' = [th EXCEPT ![t].desc = a, ![t].found = i, ![t].late = late,
                                   ![t].pc = IF Hit(i) THEN "compare" ELSE "fetch"]
          \/ Finish(t) /\ UNCHANGED pool
     ELSE (IF Hit(th[t].conf) THEN Finish(t) ELSE Goto(t, "fetch")) /\ UNCHANGED pool
  /\ UNCHANGED <<config, pipes, bound, device, open, granted>>

\* Mutant: the descriptor is not freed on an error path.
FailKeepsBlock(t) == Finish(t) /\ UNCHANGED pool

\* The block of the request, if it has one, is to hold b.
Fill(t, b) == pool' = [a \in Pool |-> IF a = th[t].desc THEN b ELSE pool[a]]

\* The end of a request that gives its block back.
Fail(t) == Fill(t, Unused) /\ Finish(t)

\* The descriptor has been asked for.
GoOn(t, late) ==
  IF th[t].op = "set_configuration"
  THEN th' = [th EXCEPT ![t].pc = "compare", ![t].late = late]
  ELSE Finish(t)

\* The device fails, answers, or does not answer in time, which is a success
\* with an unfilled block; so is, in part, one whose size was not read in time.
\* The first whole answer to a driver without a cached descriptor is cached,
\* whichever configuration it is of.
Fetch(t) ==
  /\ th[t].pc = "fetch"
  /\ \/ Fail(t)
     \/ /\ device.present
        /\ Fill(t, Whole(th[t].found))
        /\ IF descriptor = None THEN Goto(t, "cache") ELSE GoOn(t, th[t].late)
     \/ /\ device.present
        /\ \E b \in NotWhole : Fill(t, b)
        /\ GoOn(t, TRUE)
  /\ UNCHANGED <<config, pipes, bound, device, open, granted>>

Cache(t) ==
  /\ th[t].pc = "cache"
  /\ \/ /\ \E a \in Pool :
             /\ pool[a] = Unused
             /\ pool' = [pool EXCEPT ![a] = Whole(th[t].found)]
             /\ descriptor' = a
        /\ value' = NoConfig /\ index' = th[t].found
        /\ GoOn(t, th[t].late)
     \/ Fail(t) /\ UNCHANGED <<value, index, descriptor>>
  /\ UNCHANGED <<handle, pipes, bound, device, open, granted>>

\* The block may have the value that is cached already.  Where it is not whole
\* its interfaces are not found, or the bus driver gets what the memory holds.
Compare(t) ==
  LET b == pool[th[t].desc]
      Proceed(step) == th' = [th EXCEPT ![t].pc = step, ![t].conf = b.config] /\ UNCHANGED pool
  IN
  /\ th[t].pc = "compare"
  /\ IF value = b.config THEN Proceed("free_old")
     ELSE \/ b.config # NoConfig /\ Proceed("select")
          \/ (b.config = NoConfig \/ ~b.whole) /\ Fail(t)
  /\ UNCHANGED <<config, pipes, bound, device, open, granted>>

\* URB_FUNCTION_SELECT_CONFIGURATION; one that times out is a failure here.
Select(t) ==
  /\ th[t].pc = "select"
  /\ \/ /\ device.present
        /\ device' = Configured(th[t].conf)
        /\ Goto(t, "selected")
        /\ UNCHANGED pool
     \/ Fail(t) /\ (UNCHANGED device \/ (device.present /\ device' = Doubtful))
  /\ UNCHANGED <<config, pipes, bound, open, granted>>

\* Mutant: the owners of the interfaces survive a new configuration.
SelectedKeepsOwners(t) ==
  /\ th[t].pc = "selected"
  /\ handle' = th[t].conf
  /\ pipes' = [i \in Interfaces |-> Invalid]
  /\ IF th[t].conf = NoConfig THEN value' = NoConfig /\ Finish(t)
     ELSE Goto(t, "pipes") /\ UNCHANGED value
  /\ UNCHANGED <<index, descriptor, bound, pool, device, open, granted>>

\* The handle, and clear_pipe_info: no interface is valid, none is bound.
Selected(t) ==
  /\ th[t].pc = "selected"
  /\ handle' = th[t].conf
  /\ pipes' = [i \in Interfaces |-> Invalid]
  /\ bound' = [i \in Interfaces |-> None]
  /\ granted' = {}
  /\ IF th[t].conf = NoConfig THEN value' = NoConfig /\ Finish(t)
     ELSE Goto(t, "pipes") /\ UNCHANGED value
  /\ UNCHANGED <<index, descriptor, pool, device, open>>

\* update_pipe_info for each interface of the configuration.
UpdatePipes(t) ==
  LET c == th[t].conf IN
  /\ th[t].pc = "pipes"
  /\ pipes' = [i \in Interfaces |->
                 IF i \in InterfacesOf[c] THEN [config |-> c, alt |-> 0] ELSE pipes[i]]
  /\ Goto(t, "free_old")
  /\ UNCHANGED <<config, bound, pool, device, open, granted>>

\* UpdateContextConfigDescriptor frees the descriptor it finds ...
FreeOld(t) ==
  /\ th[t].pc = "free_old"
  /\ pool' = [a \in Pool |-> IF a = descriptor /\ a # th[t].desc THEN Unused ELSE pool[a]]
  /\ Goto(t, "assign")
  /\ UNCHANGED <<config, pipes, bound, device, open, granted>>

\* Mutant: a reset frees the descriptor and leaves the pointer.
AssignKeepsPointer(t) ==
  /\ th[t].pc = "assign"
  /\ descriptor' = IF th[t].desc = None THEN descriptor ELSE th[t].desc
  /\ value' = th[t].conf /\ index' = th[t].found
  /\ Finish(t)
  /\ UNCHANGED <<handle, pipes, bound, pool, device, open, granted>>

\* ... and puts its own in place: none, with the value 0, after a reset.
Assign(t) ==
  /\ th[t].pc = "assign"
  /\ descriptor' = th[t].desc /\ value' = th[t].conf /\ index' = th[t].found
  /\ Finish(t)
  /\ UNCHANGED <<handle, pipes, bound, pool, device, open, granted>>

\* reset_device_ex: a port reset leaves the device configured, unless it fails ...
Reset(t) ==
  /\ th[t].pc = "reset"
  /\ \/ UNCHANGED device
     \/ device.present /\ device' = Configured(NoConfig)
  /\ Goto(t, "cycle")
  /\ UNCHANGED <<config, pipes, bound, pool, open, granted>>

\* ... and a port cycle that succeeds unplugs it: it comes back as another
\* device.  What the type of the reset leaves out has no effect, like a step that
\* fails.  In any case the cache is dropped.
CyclePort(t) ==
  /\ th[t].pc = "cycle"
  /\ UNCHANGED device \/ device' = Gone
  /\ Goto(t, "free_old")
  /\ UNCHANGED <<config, pipes, bound, pool, open, granted>>

-----------------------------------------------------------------------------
Described == value # NoConfig /\ descriptor # None

\* The interface is in the cached descriptor, with the setting ...
Found(i, a) ==
  /\ Described
  /\ pool[descriptor].whole /\ pool[descriptor].config # NoConfig
  /\ i \in InterfacesOf[pool[descriptor].config]
  /\ a \in AltsOf[pool[descriptor].config][i]

\* ... or in what the memory of one that is not whole holds.
MayBeFound(i, a) == Found(i, a) \/ (Described /\ ~pool[descriptor].whole)

\* set_interface: the descriptor is searched and the handle read.
SetAltCheck(t) ==
  /\ th[t].pc = "set_alt"
  /\ \/ /\ MayBeFound(th[t].intf, th[t].alt)
        /\ th' = [th EXCEPT ![t].pc = "alt_call", ![t].conf = handle]
     \/ ~Found(th[t].intf, th[t].alt) /\ Finish(t)
  /\ UNCHANGED <<config, pipes, bound, pool, device, open, granted>>

\* URB_FUNCTION_SELECT_INTERFACE: the handle must be that of the device's
\* configuration, and the interface one of it that has the setting.  One that
\* times out is a failure here.
SetAltCall(t) ==
  LET c == th[t].conf IN
  /\ th[t].pc = "alt_call"
  /\ \/ /\ c # NoConfig /\ th[t].intf \in InterfacesOf[c] /\ th[t].alt \in AltsOf[c][th[t].intf]
        /\ \/ device.config = c
              /\ device' = [device EXCEPT !.alt[th[t].intf] = th[t].alt]
           \/ ~device.sure /\ UNCHANGED device
        /\ Goto(t, "alt_set")
     \/ Finish(t) /\ (UNCHANGED device \/ (device.present /\ device' = Doubtful))
  /\ UNCHANGED <<config, pipes, bound, pool, open, granted>>

\* Mutant: the pipes of the old setting stay.
AltSetForgotten(t) ==
  /\ th[t].pc = "alt_set"
  /\ Finish(t)
  /\ UNCHANGED <<config, pipes, bound, pool, device, open, granted>>

\* Mutant: the setting's number is taken for an index that starts at 1.
AltSetOffByOne(t) ==
  /\ th[t].pc = "alt_set"
  /\ pipes' = [pipes EXCEPT ![th[t].intf] = [config |-> th[t].conf, alt |-> th[t].alt + 1]]
  /\ Finish(t)
  /\ UNCHANGED <<config, bound, pool, device, open, granted>>

\* update_pipe_info, which leaves the owner alone.
AltSet(t) ==
  /\ th[t].pc = "alt_set"
  /\ pipes' = [pipes EXCEPT ![th[t].intf] = [config |-> th[t].conf, alt |-> th[t].alt]]
  /\ Finish(t)
  /\ UNCHANGED <<config, bound, pool, device, open, granted>>

\* get_interface_ex keeps a pointer into the descriptor over its request.
GetAltCheck(t) ==
  /\ th[t].pc = "get_alt"
  /\ \/ /\ MayBeFound(th[t].intf, th[t].alt)
        /\ th' = [th EXCEPT ![t].pc = "got_alt", ![t].desc = descriptor]
     \/ ~Found(th[t].intf, th[t].alt) /\ Finish(t)
  /\ UNCHANGED <<config, pipes, bound, pool, device, open, granted>>

GotAlt(t) ==
  /\ th[t].pc = "got_alt"
  /\ Finish(t)
  /\ UNCHANGED <<config, pipes, bound, pool, device, open, granted>>

\* Mutant: an interface that is bound may be claimed.
ClaimCheckIgnoresOwner(t) ==
  /\ th[t].pc = "claim"
  /\ IF value # NoConfig /\ pipes[th[t].intf] # Invalid THEN Goto(t, "bind") ELSE Finish(t)
  /\ UNCHANGED <<config, pipes, bound, pool, device, open, granted>>

\* claim_interface: the tests ...
ClaimCheck(t) ==
  LET i == th[t].intf IN
  /\ th[t].pc = "claim"
  /\ IF value # NoConfig /\ pipes[i] # Invalid /\ bound[i] = None
     THEN Goto(t, "bind") ELSE Finish(t)
  /\ UNCHANGED <<config, pipes, bound, pool, device, open, granted>>

\* ... and the assignment.
Bind(t) ==
  /\ th[t].pc = "bind"
  /\ bound' = [bound EXCEPT ![th[t].intf] = th[t].file]
  /\ granted' = granted \union {<<th[t].file, th[t].intf>>}
  /\ Finish(t)
  /\ UNCHANGED <<config, pipes, pool, device, open>>

\* release_interface: the tests, and the assignment.
ReleaseCheck(t) ==
  LET i == th[t].intf IN
  /\ th[t].pc = "release"
  /\ IF value # NoConfig /\ pipes[i] # Invalid /\ bound[i] = th[t].file
     THEN Goto(t, "unbind") ELSE Finish(t)
  /\ UNCHANGED <<config, pipes, bound, pool, device, open, granted>>

Unbind(t) ==
  /\ th[t].pc = "unbind"
  /\ bound' = [bound EXCEPT ![th[t].intf] = None]
  /\ granted' = granted \ {<<th[t].file, th[t].intf>>}
  /\ Finish(t)
  /\ UNCHANGED <<config, pipes, pool, device, open>>

ConfigStep(t) ==
  \/ SetConfigCheck(t)
  \/ Unconfigure(t)
  \/ TimedOut(t)
  \/ Lookup(t)
  \/ Fetch(t)
  \/ Cache(t)
  \/ Compare(t)
  \/ Select(t)
  \/ Selected(t)
  \/ UpdatePipes(t)
  \/ FreeOld(t)
  \/ Assign(t)
  \/ Reset(t)
  \/ CyclePort(t)

InterfaceStep(t) ==
  \/ SetAltCheck(t)
  \/ SetAltCall(t)
  \/ AltSet(t)
  \/ GetAltCheck(t)
  \/ GotAlt(t)
  \/ ClaimCheck(t)
  \/ Bind(t)
  \/ ReleaseCheck(t)
  \/ Unbind(t)
  \/ CloseTest(t)
  \/ CloseUnbind(t)

Next ==
  \/ \E f \in Files : Create(f)
  \/ \E t \in Threads : Request(t) \/ ConfigStep(t) \/ InterfaceStep(t)
  \/ \E t \in Threads, f \in Files : Close(t, f)

Spec == Init /\ [][Next]_vars

-----------------------------------------------------------------------------
Quiet == \A t \in Threads : th[t].pc = "idle"

\* IRP_MJ_CLOSE: "release all interfaces bound to this file object": whatever
\* other threads do meanwhile, no interface stays bound to a closed file.
ClosedFilesHoldNothing ==
  \A i \in Interfaces : bound[i] # None /\ bound[i] \notin open =>
    \E t \in Threads :
      th[t].pc \in {"close", "close_unbind"} /\ th[t].file = bound[i] /\ th[t].intf <= i

\* The blocks a thread is about to read or free are in use: config.descriptor
\* is not read after another thread has freed it, and not freed twice.
UsesLive ==
  \A t \in Threads :
    /\ th[t].pc \in {"lookup", "set_alt", "get_alt", "free_old"} /\ descriptor # None =>
         pool[descriptor] # Unused
    /\ th[t].pc = "got_alt" => pool[th[t].desc] # Unused

\* Between requests the pool holds the cached descriptor and nothing else.
NothingLeaked ==
  Quiet => {a \in Pool : pool[a] # Unused} = {descriptor} \ {None}

\* ExAllocatePool and ExFreePool of descriptors: no use after free, no double
\* free, no leak, on any path through the requests.
MemorySafe == UsesLive /\ NothingLeaked

\* Between requests a cached configuration has a descriptor, a handle and pipes of
\* its own, and is the device's with the settings that are selected, unless a
\* request that timed out left that open.  Its descriptor and its index are right
\* where the descriptor was read whole.
CacheAgrees ==
  Quiet /\ value # NoConfig =>
    /\ handle = value
    /\ descriptor # None /\ pool[descriptor].config = value
    /\ pool[descriptor].whole => index = value
    /\ \A i \in Interfaces : pipes[i] # Invalid <=> i \in InterfacesOf[value]
    /\ device.sure =>
         /\ device.config = value
         /\ \A i \in InterfacesOf[value] : pipes[i] = [config |-> value, alt |-> device.alt[i]]

\* Between requests only valid interfaces are bound: what is claimed can be
\* released.
BoundIsValid == Quiet => \A i \in Interfaces : bound[i] # None => pipes[i] # Invalid

\* dev->config as a whole is the device's own.
CacheSafe == CacheAgrees /\ BoundIsValid

C == INSTANCE Claims WITH owners <- [i \in Interfaces |-> {f \in Files : <<f, i>> \in granted}]

\* The claims are those of an exclusive owner.
ImplementsClaims == C!Spec

\* usb_claim_interface, -EBUSY "Interface is not available to be claimed": two
\* files never both hold a claim on an interface.
ExclusiveClaim ==
  \A i \in Interfaces : Cardinality({f \in Files : <<f, i>> \in granted}) <= 1
=============================================================================
