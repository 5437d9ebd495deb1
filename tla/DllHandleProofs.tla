-------------------------- MODULE DllHandleProofs --------------------------
(***************************************************************************)
(* The driver's configuration and interfaces, and the library's handles    *)
(* over them, for any number of threads, files, handles, configurations    *)
(* and interfaces.                                                         *)
(*                                                                         *)
(* The driver, whatever the interleaving: types, and that a closed file    *)
(* holds nothing.  The argument for the second: a request runs on an open  *)
(* file, so only open files are bound; a close goes through the interfaces *)
(* in order, and what it has passed stays free of its file.  Then, as long *)
(* as requests do not overlap: no descriptor is used after it was freed or *)
(* leaked, the cached configuration is the device's, timeouts and resets   *)
(* included, and an interface has one owner.                               *)
(*                                                                         *)
(* The requests of the library: every control message and every transfer   *)
(* there can be arrives, whatever the size of the request's header.        *)
(*                                                                         *)
(* The handles: the library's calls are requests that the driver's model   *)
(* knows, so what holds of the driver holds below the library.  And what a *)
(* handle remembers: as long as requests do not overlap it is what the     *)
(* driver has, unless something else has changed it or a timeout was taken *)
(* for a success.                                                          *)
(***************************************************************************)
EXTENDS DllHandle, FiniteSetTheorems, TLAPS

-----------------------------------------------------------------------------
(* The configuration and the interfaces of the driver.                     *)

Closing == {"close", "close_unbind"}

\* A request runs on an open file.
RequestsOnOpenFiles ==
  \A t \in Threads : th[t].pc \notin Closing \union {"idle"} => th[t].file \in open

\* Only a close goes past the last interface.
OnInterfaces == \A t \in Threads : th[t].pc # "close" => th[t].intf \in Interfaces

\* Pipes are those of a configuration.
NeedsConfig == {"pipes", "alt_set"}

PipesOfConfig == \A t \in Threads : th[t].pc \in NeedsConfig => th[t].conf # NoConfig

\* A set_configuration has a block for the descriptor that it reads.
NeedsBlock(r) == r.pc = "compare" \/ (r.pc \in {"fetch", "cache"} /\ r.op = "set_configuration")

HasBlock == \A t \in Threads : NeedsBlock(th[t]) => th[t].desc \in Pool

ThreadInv == RequestsOnOpenFiles /\ OnInterfaces /\ PipesOfConfig /\ HasBlock

IInv == TypeOK /\ ThreadInv /\ ClosedFilesHoldNothing

-----------------------------------------------------------------------------
\* Interface numbers start at 0 and have no gaps.
LEMMA InterfaceFacts ==
  /\ AnyInterface \in Interfaces
  /\ 0 \in Interfaces
  /\ \A i \in Interfaces : i \in Nat
  /\ \A j \in Interfaces, i \in Nat : i <= j => i \in Interfaces
  BY ConfigAssumption DEF AnyInterface

\* A thread at rest.
LEMMA RestingFacts ==
  /\ Resting \in ThreadType
  /\ Resting.file = None /\ Resting.pc = "idle" /\ Resting.intf \in Interfaces
  BY InterfaceFacts, ConfigAssumption DEF Resting, ThreadType, Steps, NoConfig

\* A thread that goes to another step keeps its file and its arguments.
LEMMA StepFacts ==
  ASSUME NEW r \in ThreadType, NEW s \in Steps
  PROVE  /\ [r EXCEPT !.pc = s] \in ThreadType
         /\ [r EXCEPT !.pc = s].file = r.file
         /\ [r EXCEPT !.pc = s].intf = r.intf
         /\ [r EXCEPT !.pc = s].conf = r.conf
         /\ [r EXCEPT !.pc = s].op = r.op
         /\ [r EXCEPT !.pc = s].desc = r.desc
         /\ [r EXCEPT !.pc = s].pc = s
  BY DEF ThreadType

\* One that learns something keeps its type.
LEMMA FieldFacts ==
  ASSUME NEW r \in ThreadType
  PROVE  /\ \A s \in Steps : [r EXCEPT !.pc = s] \in ThreadType
         /\ \A a \in Pool \union {None} : [r EXCEPT !.desc = a] \in ThreadType
         /\ \A c \in Configs \union {NoConfig} :
              [r EXCEPT !.conf = c] \in ThreadType /\ [r EXCEPT !.found = c] \in ThreadType
         /\ \A b \in BOOLEAN : [r EXCEPT !.late = b] \in ThreadType
         /\ \A f \in Files : [r EXCEPT !.file = f] \in ThreadType
         /\ \A i \in Interfaces : [r EXCEPT !.intf = i] \in ThreadType
<1>1. \A s \in Steps : [r EXCEPT !.pc = s] \in ThreadType
  BY DEF ThreadType
<1>2. \A a \in Pool \union {None} : [r EXCEPT !.desc = a] \in ThreadType
  BY DEF ThreadType
<1>3. \A c \in Configs \union {NoConfig} : [r EXCEPT !.conf = c] \in ThreadType
  BY DEF ThreadType
<1>4. \A c \in Configs \union {NoConfig} : [r EXCEPT !.found = c] \in ThreadType
  BY DEF ThreadType
<1>5. \A b \in BOOLEAN : [r EXCEPT !.late = b] \in ThreadType
  BY DEF ThreadType
<1>6. \A f \in Files : [r EXCEPT !.file = f] \in ThreadType
  BY DEF ThreadType
<1>7. \A i \in Interfaces : [r EXCEPT !.intf = i] \in ThreadType
  BY DEF ThreadType
<1>8. QED
  BY <1>1, <1>2, <1>3, <1>4, <1>5, <1>6, <1>7

-----------------------------------------------------------------------------
\* Thread t goes from one step of a request to another, or to its end.
RequestMove(t) ==
  /\ th[t].pc \notin Closing
  /\ \E r \in ThreadType :
       /\ th' = [th EXCEPT ![t] = r]
       /\ r.pc \notin Closing /\ r.intf \in Interfaces
       /\ r.pc # "idle" => r.file \in open
       /\ r.pc \in NeedsConfig => r.conf # NoConfig
       /\ NeedsBlock(r) => r.desc \in Pool

LEMMA GotoIsRequestMove ==
  ASSUME IInv, NEW t \in Threads, NEW s \in Steps \ Closing, Goto(t, s),
         th[t].pc \notin Closing \union {"idle"}, s \in NeedsConfig => th[t].conf # NoConfig,
         s # "compare", s \in {"fetch", "cache"} => th[t].op # "set_configuration" \/ NeedsBlock(th[t])
  PROVE  RequestMove(t)
<1> DEFINE r == [th[t] EXCEPT !.pc = s]
<1>1. th[t] \in ThreadType /\ th[t].file \in open /\ th[t].intf \in Interfaces
  BY DEF IInv, TypeOK, ThreadInv, RequestsOnOpenFiles, OnInterfaces, Closing
<1>2. /\ r \in ThreadType /\ r.file = th[t].file /\ r.conf = th[t].conf /\ r.pc = s
      /\ r.intf = th[t].intf /\ r.op = th[t].op /\ r.desc = th[t].desc
  BY <1>1, StepFacts
<1>3. th' = [th EXCEPT ![t] = r]
  BY DEF Goto
<1> HIDE DEF r
<1>4. NeedsBlock(r) => r.desc \in Pool
  BY <1>2 DEF IInv, ThreadInv, HasBlock, NeedsBlock
<1>5. QED
  BY <1>1, <1>2, <1>3, <1>4 DEF RequestMove

LEMMA FinishIsRequestMove ==
  ASSUME IInv, NEW t \in Threads, Finish(t), th[t].pc \notin Closing
  PROVE  RequestMove(t)
  BY RestingFacts DEF Finish, RequestMove, Closing, NeedsConfig, NeedsBlock

\* The files and the interfaces over a step of a request: what is bound was
\* bound before or is bound to an open file.
FilesKept ==
  /\ open' = open
  /\ \A i \in Interfaces : bound'[i] = bound[i] \/ bound'[i] = None \/ bound'[i] \in open

\* What a device can be.
DeviceStates ==
  [config : Configs \union {NoConfig}, alt : [Interfaces -> Alts], present : BOOLEAN, sure : BOOLEAN]

LEMMA DeviceFacts ==
  /\ \A c \in Configs \union {NoConfig} : Configured(c) \in DeviceStates
  /\ Doubtful \in DeviceStates /\ Gone \in DeviceStates
  /\ \A d \in DeviceStates, i \in Interfaces, a \in Alts : [d EXCEPT !.alt[i] = a] \in DeviceStates
<1>1. \A c \in Configs \union {NoConfig} : Configured(c) \in DeviceStates
  BY ConfigAssumption DEF Configured, DeviceStates
<1>2. \A d \in DeviceStates :
        [d EXCEPT !.sure = FALSE] \in DeviceStates /\ [d EXCEPT !.present = FALSE] \in DeviceStates
  BY DEF DeviceStates
<1>3. \A d \in DeviceStates, i \in Interfaces, a \in Alts : [d EXCEPT !.alt[i] = a] \in DeviceStates
  BY DEF DeviceStates
<1>4. QED
  BY <1>1, <1>2, <1>3 DEF Doubtful, Gone

\* What a block can hold.
LEMMA BlockFacts ==
  /\ Unused \in Block /\ Unfilled \in Block /\ NotWhole \subseteq Block
  /\ \A c \in Configs \union {NoConfig} : Whole(c) \in Block
  /\ \A b \in Block : b.config \in Configs \union {NoConfig}
  /\ \A b \in NotWhole : ~b.whole
  /\ ~Unfilled.whole /\ Unused.whole /\ Unused.config = NoConfig
  /\ \A c \in Configs : Whole(c) # Unused
  BY ConfigAssumption DEF Unused, Unfilled, NotWhole, Whole, Block, NoConfig

\* The types of everything but the threads.
StateTypes ==
  /\ value \in Configs \union {NoConfig} /\ index \in Configs \union {NoConfig}
  /\ descriptor \in Pool \union {None} /\ handle \in Configs \union {NoConfig}
  /\ pipes \in [Interfaces -> Settings]
  /\ bound \in [Interfaces -> Files \union {None}]
  /\ pool \in [Pool -> Block]
  /\ device \in DeviceStates
  /\ open \subseteq Files
  /\ granted \subseteq Files \X Interfaces

LEMMA RequestMoveKeepsInv ==
  ASSUME IInv, NEW t \in Threads, RequestMove(t), FilesKept, StateTypes'
  PROVE  IInv'
<1> USE DEF FilesKept
<1>1. PICK r \in ThreadType :
        /\ th' = [th EXCEPT ![t] = r]
        /\ r.pc \notin Closing /\ r.intf \in Interfaces
        /\ r.pc # "idle" => r.file \in open
        /\ r.pc \in NeedsConfig => r.conf # NoConfig
        /\ NeedsBlock(r) => r.desc \in Pool
  BY DEF RequestMove
<1>2. th' \in [Threads -> ThreadType] /\ th'[t] = r /\ \A u \in Threads : u # t => th'[u] = th[u]
  BY <1>1 DEF IInv, TypeOK
<1>3. th[t].pc \notin Closing
  BY DEF RequestMove
<1>4. ClosedFilesHoldNothing'
  <2> SUFFICES ASSUME NEW i \in Interfaces, bound'[i] # None, bound'[i] \notin open'
               PROVE  \E u \in Threads : /\ th'[u].pc \in {"close", "close_unbind"}
                                         /\ th'[u].file = bound'[i] /\ th'[u].intf <= i
    BY DEF ClosedFilesHoldNothing
  <2>1. bound'[i] = bound[i] /\ bound[i] # None /\ bound[i] \notin open
    OBVIOUS
  <2>2. PICK u \in Threads : /\ th[u].pc \in {"close", "close_unbind"}
                             /\ th[u].file = bound[i] /\ th[u].intf <= i
    BY <2>1 DEF IInv, ClosedFilesHoldNothing
  <2>3. u # t
    BY <1>3, <2>2 DEF Closing
  <2>4. QED
    BY <1>2, <2>1, <2>2, <2>3
<1>5. RequestsOnOpenFiles'
  BY <1>1, <1>2, <1>3 DEF IInv, ThreadInv, RequestsOnOpenFiles
<1>6. OnInterfaces'
  BY <1>1, <1>2 DEF IInv, ThreadInv, OnInterfaces, Closing
<1>7. PipesOfConfig'
  BY <1>1, <1>2 DEF IInv, ThreadInv, PipesOfConfig
<1>8. TypeOK'
  BY <1>2 DEF StateTypes, TypeOK, DeviceStates
<1>9. HasBlock'
  BY <1>1, <1>2 DEF IInv, ThreadInv, HasBlock, NeedsBlock
<1>10. QED
  BY <1>4, <1>5, <1>6, <1>7, <1>8, <1>9 DEF IInv, ThreadInv

\* A step that changes no more than the thread.
LEMMA QuietStepKeepsInv ==
  ASSUME IInv, NEW t \in Threads, RequestMove(t),
         UNCHANGED <<config, pipes, bound, pool, device, open, granted>>
  PROVE  IInv'
<1>1. StateTypes'
  BY DEF IInv, TypeOK, StateTypes, config, DeviceStates
<1>2. FilesKept
  BY DEF FilesKept
<1>3. QED
  BY <1>1, <1>2, RequestMoveKeepsInv

-----------------------------------------------------------------------------
LEMMA InitInv == Init => IInv
<1> SUFFICES ASSUME Init PROVE IInv
  OBVIOUS
<1>1. th \in [Threads -> ThreadType] /\ \A t \in Threads : th[t] = Resting
  BY RestingFacts DEF Init
<1>2. StateTypes
  BY ConfigAssumption, DeviceFacts, BlockFacts DEF Init, StateTypes, Settings
<1>3. TypeOK
  BY <1>1, <1>2 DEF TypeOK, StateTypes, DeviceStates
<1>4. ThreadInv
  BY <1>1, RestingFacts
     DEF ThreadInv, RequestsOnOpenFiles, OnInterfaces, PipesOfConfig, NeedsConfig, HasBlock,
         NeedsBlock
<1>5. ClosedFilesHoldNothing
  BY DEF Init, ClosedFilesHoldNothing
<1>6. QED
  BY <1>3, <1>4, <1>5 DEF IInv

Requests ==
  {"set_configuration", "get_descriptor", "set_interface", "get_interface",
   "claim_interface", "release_interface", "reset_device"}

LEMMA BeginKeepsInv ==
  ASSUME IInv, NEW t \in Threads, NEW op \in Requests, NEW f \in open,
         NEW c \in Configs \union {NoConfig}, NEW form \in {"value", "index", "active"},
         NEW i \in Interfaces, NEW a \in Alts, Begin(t, op, f, c, form, i, a)
  PROVE  IInv'
<1> DEFINE pc == CASE op = "set_configuration" -> "set_config"
                   [] op = "get_descriptor" -> "lookup"
                   [] op = "set_interface" -> "set_alt"
                   [] op = "get_interface" -> "get_alt"
                   [] op = "claim_interface" -> "claim"
                   [] op = "release_interface" -> "release"
                   [] op = "reset_device" -> "reset"
           r == [pc |-> pc, op |-> op, file |-> f, conf |-> c, found |-> c, asked |-> c,
                 late |-> FALSE, form |-> form, intf |-> i, alt |-> a, desc |-> None]
<1>1. th' = [th EXCEPT ![t] = r] /\ op \in Ops /\ th[t].pc = "idle"
  BY DEF Begin
<1>2. pc \in Steps /\ pc \notin Closing /\ pc \notin NeedsConfig /\ pc \notin {"fetch", "cache", "compare"}
  BY DEF Requests, Steps, Closing, NeedsConfig
<1> HIDE DEF pc
<1>3. f \in Files
  BY DEF IInv, TypeOK
<1>4. r \in ThreadType /\ r.pc = pc /\ r.file = f /\ r.intf = i
  BY <1>1, <1>2, <1>3 DEF ThreadType
<1> HIDE DEF r
<1>5. RequestMove(t)
  BY <1>1, <1>2, <1>4 DEF RequestMove, Closing, NeedsBlock
<1>6. UNCHANGED <<config, pipes, bound, pool, device, open, granted>>
  BY DEF Begin
<1>7. QED
  BY <1>5, <1>6, QuietStepKeepsInv

LEMMA RequestKeepsInv ==
  ASSUME IInv, NEW t \in Threads, Request(t)
  PROVE  IInv'
<1> USE InterfaceFacts, ConfigAssumption
<1>1. PICK f \in open :
    \/ \E c \in Configs \union {NoConfig}, form \in {"value", "index", "active"} :
         /\ c = NoConfig => form = "value"
         /\ form = "active" => c = 1
         /\ Begin(t, "set_configuration", f, c, form, AnyInterface, 0)
    \/ \E c \in Configs : Begin(t, "get_descriptor", f, c, "index", AnyInterface, 0)
    \/ \E i \in Interfaces, a \in Alts :
         Begin(t, "set_interface", f, NoConfig, "value", i, a)
    \/ \E i \in Interfaces, op \in {"get_interface", "claim_interface", "release_interface"} :
         Begin(t, op, f, NoConfig, "value", i, 0)
    \/ Begin(t, "reset_device", f, NoConfig, "value", AnyInterface, 0)
  BY DEF Request
<1>2. \E op \in Requests, c \in Configs \union {NoConfig}, form \in {"value", "index", "active"},
         i \in Interfaces, a \in Alts : Begin(t, op, f, c, form, i, a)
  <2>1. CASE \E c \in Configs \union {NoConfig}, form \in {"value", "index", "active"} :
               Begin(t, "set_configuration", f, c, form, AnyInterface, 0)
    BY <2>1 DEF Requests
  <2>2. CASE \E c \in Configs : Begin(t, "get_descriptor", f, c, "index", AnyInterface, 0)
    BY <2>2 DEF Requests
  <2>3. CASE \E i \in Interfaces, a \in Alts :
               Begin(t, "set_interface", f, NoConfig, "value", i, a)
    BY <2>3 DEF Requests
  <2>4. CASE \E i \in Interfaces, op \in {"get_interface", "claim_interface", "release_interface"} :
               Begin(t, op, f, NoConfig, "value", i, 0)
    <3>1. PICK i \in Interfaces, op \in {"get_interface", "claim_interface", "release_interface"} :
                 Begin(t, op, f, NoConfig, "value", i, 0)
      BY <2>4
    <3>2. op \in Requests /\ NoConfig \in Configs \union {NoConfig} /\ "value" \in {"value", "index", "active"}
      BY DEF Requests
    <3>3. QED
      BY <3>1, <3>2
  <2>5. CASE Begin(t, "reset_device", f, NoConfig, "value", AnyInterface, 0)
    BY <2>5 DEF Requests
  <2>6. QED
    BY <1>1, <2>1, <2>2, <2>3, <2>4, <2>5
<1>3. QED
  BY <1>2, BeginKeepsInv

-----------------------------------------------------------------------------
\* The steps of a request that change no more than the thread.
LEMMA TestsKeepInv ==
  ASSUME IInv, NEW t \in Threads,
         \/ SetConfigCheck(t) \/ TimedOut(t) \/ SetAltCheck(t)
         \/ GetAltCheck(t) \/ GotAlt(t) \/ ClaimCheck(t) \/ ReleaseCheck(t)
  PROVE  IInv'
<1> USE DEF Closing, NeedsConfig
<1>1. TypeOK /\ th[t] \in ThreadType
  BY DEF IInv, TypeOK
<1>2. UNCHANGED <<config, pipes, bound, pool, device, open, granted>>
  BY DEF SetConfigCheck, TimedOut, SetAltCheck, GetAltCheck, GotAlt, ClaimCheck,
         ReleaseCheck
<1>3. /\ th[t].pc \notin Closing \union {"idle"}
      /\ th[t].file \in open /\ th[t].intf \in Interfaces
  BY DEF IInv, ThreadInv, RequestsOnOpenFiles, OnInterfaces,
         SetConfigCheck, TimedOut, SetAltCheck, GetAltCheck, GotAlt, ClaimCheck,
         ReleaseCheck
<1>4. RequestMove(t)
  <2>1. CASE Finish(t)
    BY <1>1, <1>3, <2>1, FinishIsRequestMove
  <2>2. CASE \E s \in Steps \ (Closing \union NeedsConfig \union {"fetch", "cache", "compare"}) : Goto(t, s)
    BY <1>1, <1>3, <2>2, GotoIsRequestMove
  <2>3. CASE th' = [th EXCEPT ![t].pc = "alt_call", ![t].conf = handle]
    <3> DEFINE r == [[th[t] EXCEPT !.pc = "alt_call"] EXCEPT !.conf = handle]
    <3>0. r \in ThreadType
      BY <1>1, FieldFacts DEF Steps, TypeOK
    <3>1. r.file = th[t].file /\ r.intf = th[t].intf /\ r.pc = "alt_call"
      BY <1>1 DEF ThreadType
    <3>2. th' = [th EXCEPT ![t] = r]
      BY <1>1, <2>3 DEF ThreadType, TypeOK
    <3> HIDE DEF r
    <3>3. QED
      BY <1>3, <3>0, <3>1, <3>2 DEF RequestMove, NeedsBlock
  <2>4. CASE th' = [th EXCEPT ![t].pc = "got_alt", ![t].desc = descriptor]
    <3> DEFINE r == [[th[t] EXCEPT !.pc = "got_alt"] EXCEPT !.desc = descriptor]
    <3>0. r \in ThreadType
      BY <1>1, FieldFacts DEF Steps, TypeOK
    <3>1. r.file = th[t].file /\ r.intf = th[t].intf /\ r.pc = "got_alt"
      BY <1>1 DEF ThreadType
    <3>2. th' = [th EXCEPT ![t] = r]
      BY <1>1, <2>4 DEF ThreadType, TypeOK
    <3> HIDE DEF r
    <3>3. QED
      BY <1>3, <3>0, <3>1, <3>2 DEF RequestMove, NeedsBlock
  <2>5. QED
    BY <2>1, <2>2, <2>3, <2>4
       DEF SetConfigCheck, TimedOut, SetAltCheck, GetAltCheck, GotAlt, ClaimCheck,
           ReleaseCheck, Steps
<1>5. QED
  BY <1>2, <1>4, QuietStepKeepsInv

\* The steps that change the device and nothing the driver keeps.
LEMMA DeviceStepsKeepInv ==
  ASSUME IInv, NEW t \in Threads,
         Unconfigure(t) \/ SetAltCall(t) \/ Select(t) \/ Reset(t) \/ CyclePort(t)
  PROVE  IInv'
<1> USE DEF Closing, NeedsConfig
<1>1. TypeOK /\ th[t] \in ThreadType
  BY DEF IInv, TypeOK
<1>2. /\ th[t].pc \notin Closing \union {"idle"}
      /\ th[t].file \in open /\ th[t].intf \in Interfaces
  BY DEF IInv, ThreadInv, RequestsOnOpenFiles, OnInterfaces,
         Unconfigure, SetAltCall, Select, Reset, CyclePort
<1>3. RequestMove(t)
  <2>1. CASE Finish(t)
    BY <1>1, <1>2, <2>1, FinishIsRequestMove
  <2>2. CASE \E s \in {"selected", "timed_out", "cycle", "free_old"} : Goto(t, s)
    BY <1>1, <1>2, <2>2, GotoIsRequestMove DEF Steps
  <2>3. CASE Goto(t, "alt_set") /\ th[t].conf # NoConfig
    BY <1>1, <1>2, <2>3, GotoIsRequestMove DEF Steps
  <2>4. QED
    BY <2>1, <2>2, <2>3 DEF Unconfigure, SetAltCall, Select, Reset, CyclePort, Fail
<1>4. device' \in DeviceStates
  <2>1. /\ device \in DeviceStates /\ th[t].alt \in Alts /\ th[t].conf \in Configs \union {NoConfig}
        /\ NoConfig \in Configs \union {NoConfig}
    BY <1>1 DEF TypeOK, ThreadType, DeviceStates
  <2>2. \/ device' = device \/ device' = Doubtful \/ device' = Gone
        \/ device' = Configured(NoConfig) \/ device' = Configured(th[t].conf)
        \/ device' = [device EXCEPT !.alt[th[t].intf] = th[t].alt]
    BY DEF Unconfigure, SetAltCall, Select, Reset, CyclePort
  <2>3. QED
    BY <1>2, <2>1, <2>2, DeviceFacts
<1>5. pool' \in [Pool -> Block]
  BY <1>1, BlockFacts DEF Unconfigure, SetAltCall, Select, Reset, CyclePort, Fail, Fill, TypeOK
<1>6. UNCHANGED <<config, pipes, bound, open, granted>>
  BY DEF Unconfigure, SetAltCall, Select, Reset, CyclePort
<1>7. StateTypes' /\ FilesKept
  BY <1>1, <1>4, <1>5, <1>6 DEF TypeOK, StateTypes, FilesKept, config, DeviceStates
<1>8. QED
  BY <1>3, <1>7, RequestMoveKeepsInv

\* The thread as a step of a descriptor's request leaves it.
Reading == {"fetch", "cache", "compare", "select", "free_old", "assign"}

LEMMA ReadingIsRequestMove ==
  ASSUME IInv, NEW t \in Threads, NEW r \in ThreadType, th' = [th EXCEPT ![t] = r],
         th[t].pc \notin Closing \union {"idle"},
         r.pc \in Reading, r.file = th[t].file, r.intf = th[t].intf,
         NeedsBlock(r) => r.desc \in Pool
  PROVE  RequestMove(t)
<1>1. th[t].file \in open /\ th[t].intf \in Interfaces
  BY DEF IInv, ThreadInv, RequestsOnOpenFiles, OnInterfaces, Closing
<1>2. QED
  BY <1>1 DEF RequestMove, Reading, Closing, NeedsConfig

\* The steps that change the pool and the descriptor.
LEMMA DescriptorStepsKeepInv ==
  ASSUME IInv, NEW t \in Threads,
         Lookup(t) \/ Fetch(t) \/ Cache(t) \/ Compare(t) \/ FreeOld(t) \/ Assign(t)
  PROVE  IInv'
<1>1. TypeOK /\ th[t] \in ThreadType
  BY DEF IInv, TypeOK
<1>2. /\ th[t].pc \notin Closing \union {"idle"}
      /\ th[t].file \in open /\ th[t].intf \in Interfaces
  BY DEF IInv, ThreadInv, RequestsOnOpenFiles, OnInterfaces,
         Lookup, Fetch, Cache, Compare, FreeOld, Assign, Closing
<1>B. \A a \in Pool : pool[a] \in Block /\ pool[a].config \in Configs \union {NoConfig}
  BY <1>1, BlockFacts DEF TypeOK
<1>3. RequestMove(t)
  <2>1. CASE Finish(t)
    BY <1>1, <1>2, <2>1, FinishIsRequestMove
  <2>2. CASE \/ Goto(t, "assign")
             \/ Goto(t, "fetch") /\ th[t].op # "set_configuration"
             \/ Goto(t, "cache") /\ th[t].pc = "fetch"
    BY <1>1, <1>2, <2>2, GotoIsRequestMove DEF Steps, Closing, NeedsConfig, NeedsBlock
  <2>3. CASE \E a \in Pool, i \in Configs, late \in BOOLEAN, s \in Reading :
               th' = [th EXCEPT ![t].desc = a, ![t].found = i, ![t].late = late, ![t].pc = s]
    <3>1. PICK a \in Pool, i \in Configs, late \in BOOLEAN, s \in Reading :
                 th' = [th EXCEPT ![t].desc = a, ![t].found = i, ![t].late = late, ![t].pc = s]
      BY <2>3
    <3> DEFINE r == [[[[th[t] EXCEPT !.desc = a] EXCEPT !.found = i] EXCEPT !.late = late] EXCEPT !.pc = s]
    <3>0. r \in ThreadType
      <4>1. s \in Steps
        BY DEF Steps, Reading
      <4>2. QED
        BY <1>1, <4>1, FieldFacts
    <3>2. r.file = th[t].file /\ r.intf = th[t].intf /\ r.pc = s /\ r.desc \in Pool
      BY <1>1 DEF ThreadType
    <3>3. th' = [th EXCEPT ![t] = r]
      BY <1>1, <3>1 DEF ThreadType, TypeOK
    <3> HIDE DEF r
    <3>4. QED
      BY <1>2, <3>0, <3>2, <3>3, ReadingIsRequestMove
  <2>4. CASE \E late \in BOOLEAN : /\ th' = [th EXCEPT ![t].pc = "compare", ![t].late = late]
                                   /\ th[t].desc \in Pool
    <3>1. PICK late \in BOOLEAN : th' = [th EXCEPT ![t].pc = "compare", ![t].late = late]
      BY <2>4
    <3> DEFINE r == [[th[t] EXCEPT !.pc = "compare"] EXCEPT !.late = late]
    <3>0. r \in ThreadType
      BY <1>1, FieldFacts DEF Steps
    <3>2. r.file = th[t].file /\ r.intf = th[t].intf /\ r.pc = "compare" /\ r.desc \in Pool
      BY <1>1, <2>4 DEF ThreadType
    <3>3. th' = [th EXCEPT ![t] = r]
      BY <1>1, <3>1 DEF ThreadType, TypeOK
    <3> HIDE DEF r
    <3>4. QED
      BY <1>2, <3>0, <3>2, <3>3, ReadingIsRequestMove DEF Reading
  <2>5. CASE \E c \in Configs \union {NoConfig}, s \in {"select", "free_old"} :
               th' = [th EXCEPT ![t].pc = s, ![t].conf = c]
    <3>1. PICK c \in Configs \union {NoConfig}, s \in {"select", "free_old"} :
                 th' = [th EXCEPT ![t].pc = s, ![t].conf = c]
      BY <2>5
    <3> DEFINE r == [[th[t] EXCEPT !.pc = s] EXCEPT !.conf = c]
    <3>0. r \in ThreadType
      BY <1>1, FieldFacts DEF Steps
    <3>2. r.file = th[t].file /\ r.intf = th[t].intf /\ r.pc = s
      BY <1>1 DEF ThreadType
    <3>3. th' = [th EXCEPT ![t] = r]
      BY <1>1, <3>1 DEF ThreadType, TypeOK
    <3> HIDE DEF r
    <3>4. QED
      BY <1>2, <3>0, <3>2, <3>3, ReadingIsRequestMove DEF Reading, NeedsBlock
  <2>6. th[t].late \in BOOLEAN
    BY <1>1 DEF ThreadType
  <2>7. CASE Lookup(t)
    <3>1. CASE th[t].op = "set_configuration"
      <4>1. CASE Finish(t)
        BY <2>1, <4>1
      <4>2. CASE \E a \in Pool, i \in Configs, late \in BOOLEAN :
               /\ pool[a] = Unused /\ Matches(t, i, late)
               /\ late => device.present /\ ~Hit(i)
               /\ pool' = [pool EXCEPT ![a] = IF Hit(i) THEN CachedCopy ELSE Unfilled]
               /\ th' = [th EXCEPT ![t].desc = a, ![t].found = i, ![t].late = late,
                                   ![t].pc = IF Hit(i) THEN "compare" ELSE "fetch"]
        <5>1. PICK a \in Pool, i \in Configs, late \in BOOLEAN :
                 th' = [th EXCEPT ![t].desc = a, ![t].found = i, ![t].late = late,
                                  ![t].pc = IF Hit(i) THEN "compare" ELSE "fetch"]
          BY <4>2
        <5>2. PICK step \in Reading : step = IF Hit(i) THEN "compare" ELSE "fetch"
          BY DEF Reading
        <5>3. QED
          BY <2>3, <5>1, <5>2
      <4>3. QED
        BY <2>7, <3>1, <4>1, <4>2 DEF Lookup
    <3>2. CASE th[t].op # "set_configuration"
      BY <2>1, <2>2, <2>7, <3>2 DEF Lookup
    <3>3. QED
      BY <3>1, <3>2
  <2>8. CASE Fetch(t) \/ Cache(t)
    <3>1. th[t].op = "set_configuration" => th[t].desc \in Pool
      BY <2>8 DEF IInv, ThreadInv, HasBlock, NeedsBlock, Fetch, Cache
    <3>2. QED
      BY <2>1, <2>2, <2>4, <2>6, <2>8, <3>1 DEF Fetch, Cache, Fail, GoOn
  <2>9. CASE Compare(t)
    <3>1. th[t].desc \in Pool
      BY <2>9 DEF IInv, ThreadInv, HasBlock, NeedsBlock, Compare
    <3>2. pool[th[t].desc].config \in Configs \union {NoConfig}
      BY <1>B, <3>1
    <3>3. QED
      BY <2>1, <2>5, <2>9, <3>2 DEF Compare, Fail
  <2>10. CASE FreeOld(t) \/ Assign(t)
    BY <2>1, <2>2, <2>10 DEF FreeOld, Assign
  <2>11. QED
    BY <2>7, <2>8, <2>9, <2>10
<1>4. pool' \in [Pool -> Block]
  <2>1. pool \in [Pool -> Block]
    BY <1>1 DEF TypeOK
  <2>2. \A b \in Block : Fill(t, b) => pool' \in [Pool -> Block]
    BY <2>1 DEF Fill
  <2>3. CASE Lookup(t)
    <3>1. \A i : Hit(i) => CachedCopy \in Block
      BY <1>1, <1>B, BlockFacts DEF Hit, CachedCopy, TypeOK
    <3>2. QED
      BY <2>1, <2>3, <3>1, BlockFacts DEF Lookup
  <2>4. th[t].found \in Configs \union {NoConfig}
    BY <1>1 DEF ThreadType
  <2>5. CASE Fetch(t)
    BY <2>2, <2>4, <2>5, BlockFacts DEF Fetch, Fail
  <2>6. CASE Cache(t)
    BY <2>1, <2>2, <2>4, <2>6, BlockFacts DEF Cache, Fail
  <2>7. CASE Compare(t)
    BY <2>1, <2>2, <2>7, BlockFacts DEF Compare, Fail
  <2>8. CASE FreeOld(t) \/ Assign(t)
    BY <2>1, <2>8, BlockFacts DEF FreeOld, Assign
  <2>9. QED
    BY <2>3, <2>5, <2>6, <2>7, <2>8
<1>5. /\ value' \in Configs \union {NoConfig} /\ index' \in Configs \union {NoConfig}
      /\ descriptor' \in Pool \union {None} /\ handle' = handle
  BY <1>1 DEF Lookup, Fetch, Cache, Compare, FreeOld, Assign, TypeOK, ThreadType, config
<1>6. UNCHANGED <<pipes, bound, device, open, granted>>
  BY DEF Lookup, Fetch, Cache, Compare, FreeOld, Assign
<1>7. StateTypes' /\ FilesKept
  BY <1>1, <1>4, <1>5, <1>6 DEF TypeOK, StateTypes, FilesKept, DeviceStates
<1>8. QED
  BY <1>3, <1>7, RequestMoveKeepsInv

\* The steps that change the pipes and the owners.
LEMMA InterfaceStepsKeepInv ==
  ASSUME IInv, NEW t \in Threads,
         Selected(t) \/ UpdatePipes(t) \/ AltSet(t) \/ Bind(t) \/ Unbind(t)
  PROVE  IInv'
<1> USE DEF Closing, NeedsConfig
<1>1. TypeOK /\ th[t] \in ThreadType
  BY DEF IInv, TypeOK
<1>2. /\ th[t].pc \notin Closing \union {"idle"}
      /\ th[t].file \in open /\ th[t].intf \in Interfaces
  BY DEF IInv, ThreadInv, RequestsOnOpenFiles, OnInterfaces,
         Selected, UpdatePipes, AltSet, Bind, Unbind
<1>3. th[t].pc \in NeedsConfig => th[t].conf \in Configs
  BY <1>1 DEF IInv, ThreadInv, PipesOfConfig, ThreadType
<1>4. RequestMove(t)
  <2>1. CASE Finish(t)
    BY <1>1, <1>2, <2>1, FinishIsRequestMove
  <2>2. CASE Goto(t, "pipes") /\ th[t].conf # NoConfig
    BY <1>1, <1>2, <2>2, GotoIsRequestMove DEF Steps
  <2>3. CASE Goto(t, "free_old")
    BY <1>1, <1>2, <2>3, GotoIsRequestMove DEF Steps
  <2>4. QED
    BY <2>1, <2>2, <2>3 DEF Selected, UpdatePipes, AltSet, Bind, Unbind
<1>5. pipes' \in [Interfaces -> Settings]
  <2>1. pipes \in [Interfaces -> Settings] /\ Invalid \in Settings /\ 0 \in Alts
    BY <1>1, ConfigAssumption DEF TypeOK, Settings
  <2>2. \A c \in Configs, a \in Alts : [config |-> c, alt |-> a] \in Settings
    BY DEF Settings
  <2>3. CASE UpdatePipes(t)
    BY <1>3, <2>1, <2>2, <2>3 DEF UpdatePipes
  <2>4. CASE AltSet(t)
    <3>1. [config |-> th[t].conf, alt |-> th[t].alt] \in Settings
      BY <1>1, <1>3, <2>2, <2>4 DEF AltSet, ThreadType
    <3>2. QED
      BY <2>1, <2>4, <3>1 DEF AltSet
  <2>5. CASE Selected(t)
    BY <2>1, <2>5 DEF Selected
  <2>6. CASE Bind(t) \/ Unbind(t)
    BY <2>1, <2>6 DEF Bind, Unbind
  <2>7. QED
    BY <2>3, <2>4, <2>5, <2>6
<1>6. bound' \in [Interfaces -> Files \union {None}]
  BY <1>1 DEF Selected, UpdatePipes, AltSet, Bind, Unbind, TypeOK, ThreadType
<1>7. th[t].file \in Files
  BY <1>1, <1>2 DEF TypeOK
<1>8. FilesKept
  <2>1. open' = open
    BY DEF Selected, UpdatePipes, AltSet, Bind, Unbind
  <2>2. ASSUME NEW i \in Interfaces
        PROVE  bound'[i] = bound[i] \/ bound'[i] = None \/ bound'[i] \in open
    <3>1. CASE Bind(t)
      BY <1>1, <1>2, <3>1 DEF Bind, TypeOK
    <3>2. CASE Unbind(t) \/ Selected(t)
      BY <1>1, <3>2 DEF Unbind, Selected, TypeOK
    <3>3. CASE UpdatePipes(t) \/ AltSet(t)
      BY <3>3 DEF UpdatePipes, AltSet
    <3>4. QED
      BY <3>1, <3>2, <3>3
  <2>3. QED
    BY <2>1, <2>2 DEF FilesKept
<1>9. granted' \subseteq Files \X Interfaces
  BY <1>1, <1>2, <1>7 DEF Selected, UpdatePipes, AltSet, Bind, Unbind, TypeOK
<1>10. /\ value' \in Configs \union {NoConfig} /\ handle' \in Configs \union {NoConfig}
       /\ UNCHANGED <<index, descriptor, pool, device, open>>
  BY <1>1 DEF Selected, UpdatePipes, AltSet, Bind, Unbind, TypeOK, ThreadType, config
<1>11. StateTypes'
  BY <1>1, <1>5, <1>6, <1>9, <1>10 DEF TypeOK, StateTypes, DeviceStates
<1>12. QED
  BY <1>4, <1>8, <1>11, RequestMoveKeepsInv

-----------------------------------------------------------------------------
\* A new file has no request and no interface on it.
LEMMA CreateKeepsInv ==
  ASSUME IInv, NEW f \in Files, Create(f)
  PROVE  IInv'
<1>1. open' = open \union {f}
  BY DEF Create
<1>2. UNCHANGED <<config, pipes, bound, pool, device, granted, th>>
  BY DEF Create
<1>3. TypeOK'
  BY <1>1, <1>2 DEF IInv, TypeOK, config
<1>4. ThreadInv'
  BY <1>1, <1>2 DEF IInv, ThreadInv, RequestsOnOpenFiles, OnInterfaces, PipesOfConfig, HasBlock
<1>5. ClosedFilesHoldNothing'
  BY <1>1, <1>2 DEF IInv, ClosedFilesHoldNothing
<1>6. QED
  BY <1>3, <1>4, <1>5 DEF IInv

\* The file that is closed has its interfaces before it.
LEMMA CloseKeepsInv ==
  ASSUME IInv, NEW t \in Threads, NEW f \in Files, Close(t, f)
  PROVE  IInv'
<1> DEFINE r == [Resting EXCEPT !.pc = "close", !.file = f, !.intf = 0]
<1>0. r = [[[Resting EXCEPT !.pc = "close"] EXCEPT !.file = f] EXCEPT !.intf = 0]
  BY DEF Resting
<1>1. /\ r \in ThreadType /\ r.file = f /\ r.pc = "close" /\ r.intf = 0
  <2>1. r \in ThreadType
    BY <1>0, InterfaceFacts, RestingFacts, FieldFacts DEF Steps
  <2>2. r.file = f /\ r.pc = "close" /\ r.intf = 0
    BY DEF Resting
  <2>3. QED
    BY <2>1, <2>2
<1>2. th' = [th EXCEPT ![t] = r] /\ th[t].pc = "idle"
  BY DEF Close
<1> HIDE DEF r
<1>3. th' \in [Threads -> ThreadType] /\ th'[t] = r /\ \A u \in Threads : u # t => th'[u] = th[u]
  BY <1>1, <1>2 DEF IInv, TypeOK
<1>4. open' = open \ {f} /\ \A u \in Threads : th[u].file # f
  BY DEF Close
<1>5. UNCHANGED <<config, pipes, bound, pool, device>> /\ granted' \subseteq granted
  BY DEF Close
<1>6. TypeOK'
  BY <1>3, <1>4, <1>5 DEF IInv, TypeOK, config
<1>7. ThreadInv'
  BY <1>1, <1>3, <1>4
     DEF IInv, ThreadInv, RequestsOnOpenFiles, OnInterfaces, PipesOfConfig, Closing, NeedsConfig,
         HasBlock, NeedsBlock
<1>8. ClosedFilesHoldNothing'
  <2> SUFFICES ASSUME NEW i \in Interfaces, bound'[i] # None, bound'[i] \notin open'
               PROVE  \E u \in Threads : /\ th'[u].pc \in {"close", "close_unbind"}
                                         /\ th'[u].file = bound'[i] /\ th'[u].intf <= i
    BY DEF ClosedFilesHoldNothing
  <2>1. bound'[i] = bound[i]
    BY <1>5
  <2>2. CASE bound[i] = f
    BY <1>1, <1>3, <2>1, <2>2, InterfaceFacts
  <2>3. CASE bound[i] # f
    <3>1. bound[i] \notin open
      BY <1>4, <2>1, <2>3
    <3>2. PICK u \in Threads : /\ th[u].pc \in {"close", "close_unbind"}
                               /\ th[u].file = bound[i] /\ th[u].intf <= i
      BY <2>1, <3>1 DEF IInv, ClosedFilesHoldNothing
    <3>3. u # t
      BY <1>2, <3>2
    <3>4. QED
      BY <1>3, <2>1, <3>2, <3>3
  <2>4. QED
    BY <2>2, <2>3
<1>9. QED
  BY <1>6, <1>7, <1>8 DEF IInv

\* A step of a close, to r: what it leaves behind is not bound to its file.
ClosingMove(t, r) ==
  /\ th[t].pc \in Closing /\ r \in ThreadType /\ th' = [th EXCEPT ![t] = r]
  /\ (r.pc = "idle" /\ r.file = None) \/ (r.pc \in Closing /\ r.file = th[t].file)
  /\ r.pc # "close" => r.intf \in Interfaces
  /\ UNCHANGED <<config, pipes, pool, device, open, granted>>
  /\ bound' \in [Interfaces -> Files \union {None}]
  /\ \A i \in Interfaces :
       /\ bound'[i] = bound[i] \/ bound'[i] = None
       /\ bound'[i] = th[t].file /\ bound'[i] # None /\ th[t].intf <= i =>
            r.file = th[t].file /\ r.intf <= i

LEMMA ClosingMoveKeepsInv ==
  ASSUME IInv, NEW t \in Threads, NEW r, ClosingMove(t, r)
  PROVE  IInv'
<1> USE DEF ClosingMove
<1>1. th' \in [Threads -> ThreadType] /\ th'[t] = r /\ \A u \in Threads : u # t => th'[u] = th[u]
  BY DEF IInv, TypeOK
<1>2. TypeOK'
  BY <1>1 DEF IInv, TypeOK, config
<1>3. ThreadInv'
  BY <1>1
     DEF IInv, ThreadInv, RequestsOnOpenFiles, OnInterfaces, PipesOfConfig, Closing, NeedsConfig,
         HasBlock, NeedsBlock
<1>4. ClosedFilesHoldNothing'
  <2> SUFFICES ASSUME NEW i \in Interfaces, bound'[i] # None, bound'[i] \notin open'
               PROVE  \E u \in Threads : /\ th'[u].pc \in {"close", "close_unbind"}
                                         /\ th'[u].file = bound'[i] /\ th'[u].intf <= i
    BY DEF ClosedFilesHoldNothing
  <2>1. bound'[i] = bound[i] /\ bound[i] \notin open
    OBVIOUS
  <2>2. PICK u \in Threads : /\ th[u].pc \in {"close", "close_unbind"}
                             /\ th[u].file = bound[i] /\ th[u].intf <= i
    BY <2>1 DEF IInv, ClosedFilesHoldNothing
  <2>3. CASE u = t
    <3>1. r.file = bound'[i] /\ r.intf <= i
      BY <2>1, <2>2, <2>3
    <3>2. r.pc \in Closing
      BY <3>1
    <3>3. QED
      BY <1>1, <3>1, <3>2 DEF Closing
  <2>4. CASE u # t
    BY <1>1, <2>1, <2>2, <2>4
  <2>5. QED
    BY <2>3, <2>4
<1>5. QED
  BY <1>2, <1>3, <1>4 DEF IInv

LEMMA CloseTestKeepsInv ==
  ASSUME IInv, NEW t \in Threads, CloseTest(t)
  PROVE  IInv'
<1>1. TypeOK /\ th[t] \in ThreadType /\ th[t].pc = "close"
  BY DEF IInv, TypeOK, CloseTest
<1>2. UNCHANGED <<config, pipes, bound, pool, device, open, granted>>
  BY DEF CloseTest
<1>3. bound' \in [Interfaces -> Files \union {None}]
  BY <1>1, <1>2 DEF TypeOK
<1>4. th[t].intf \in Nat
  BY <1>1, InterfaceFacts DEF ThreadType
<1>5. CASE th[t].intf \notin Interfaces
  <2> DEFINE r == Resting
  <2>1. th' = [th EXCEPT ![t] = r]
    BY <1>5 DEF CloseTest, Finish
  <2>2. \A i \in Interfaces : bound'[i] = bound[i] /\ ~ (th[t].intf <= i)
    BY <1>2, <1>4, <1>5, InterfaceFacts
  <2>3. r \in ThreadType /\ r.file = None /\ r.pc = "idle" /\ r.intf \in Interfaces
    BY RestingFacts
  <2> HIDE DEF r
  <2>4. ClosingMove(t, r)
    BY <1>1, <1>2, <1>3, <2>1, <2>2, <2>3 DEF ClosingMove, Closing
  <2>5. QED
    BY <2>4, ClosingMoveKeepsInv
<1>6. CASE th[t].intf \in Interfaces /\ bound[th[t].intf] = th[t].file
  <2> DEFINE r == [th[t] EXCEPT !.pc = "close_unbind"]
  <2>1. th' = [th EXCEPT ![t] = r]
    BY <1>6 DEF CloseTest, Goto
  <2>2. "close_unbind" \in Steps
    BY DEF Steps
  <2>3. /\ r \in ThreadType /\ r.file = th[t].file /\ r.pc = "close_unbind"
        /\ r.intf = th[t].intf
    BY <1>1, <2>2, StepFacts
  <2> HIDE DEF r
  <2>4. ClosingMove(t, r)
    BY <1>1, <1>2, <1>3, <1>6, <2>1, <2>3 DEF ClosingMove, Closing
  <2>5. QED
    BY <2>4, ClosingMoveKeepsInv
<1>7. CASE th[t].intf \in Interfaces /\ bound[th[t].intf] # th[t].file
  <2> DEFINE r == [th[t] EXCEPT !.intf = th[t].intf + 1]
  <2>1. th' = [th EXCEPT ![t] = r]
    BY <1>7 DEF CloseTest
  <2>2. /\ r \in ThreadType /\ r.file = th[t].file /\ r.pc = "close"
        /\ r.intf = th[t].intf + 1
    BY <1>1, <1>7 DEF ThreadType
  <2> HIDE DEF r
  <2>3. \A i \in Interfaces : bound[i] = th[t].file /\ th[t].intf <= i => th[t].intf + 1 <= i
    BY <1>4, <1>7, InterfaceFacts
  <2>4. ClosingMove(t, r)
    BY <1>1, <1>2, <1>3, <2>1, <2>2, <2>3 DEF ClosingMove, Closing
  <2>5. QED
    BY <2>4, ClosingMoveKeepsInv
<1>8. QED
  BY <1>5, <1>6, <1>7

LEMMA CloseUnbindKeepsInv ==
  ASSUME IInv, NEW t \in Threads, CloseUnbind(t)
  PROVE  IInv'
<1>1. TypeOK /\ th[t] \in ThreadType /\ th[t].pc = "close_unbind"
  BY DEF IInv, TypeOK, CloseUnbind
<1>2. th[t].intf \in Interfaces
  BY <1>1 DEF IInv, ThreadInv, OnInterfaces
<1> DEFINE r == [[th[t] EXCEPT !.pc = "close"] EXCEPT !.intf = th[t].intf + 1]
<1>3. th' = [th EXCEPT ![t] = r]
  BY <1>1 DEF CloseUnbind, TypeOK, ThreadType
<1>4. r \in ThreadType /\ r.file = th[t].file /\ r.pc = "close" /\ r.intf = th[t].intf + 1
  BY <1>1, <1>2 DEF ThreadType, Steps
<1> HIDE DEF r
<1>5. UNCHANGED <<config, pipes, pool, device, open, granted>>
  BY DEF CloseUnbind
<1>6. /\ bound' \in [Interfaces -> Files \union {None}]
      /\ bound'[th[t].intf] = None
      /\ \A i \in Interfaces : i # th[t].intf => bound'[i] = bound[i]
  BY <1>1, <1>2 DEF CloseUnbind, TypeOK
<1>7. \A i \in Interfaces : i # th[t].intf /\ th[t].intf <= i => th[t].intf + 1 <= i
  BY <1>2, InterfaceFacts
<1>8. ClosingMove(t, r)
  BY <1>1, <1>3, <1>4, <1>5, <1>6, <1>7 DEF ClosingMove, Closing
<1>9. QED
  BY <1>8, ClosingMoveKeepsInv

-----------------------------------------------------------------------------
\* The invariant is inductive.
LEMMA NextInv == IInv /\ [Next]_vars => IInv'
<1> SUFFICES ASSUME IInv, [Next]_vars PROVE IInv'
  OBVIOUS
<1>1. CASE \E f \in Files : Create(f)
  BY <1>1, CreateKeepsInv
<1>2. CASE \E t \in Threads : Request(t)
  BY <1>2, RequestKeepsInv
<1>3. CASE \E t \in Threads : ConfigStep(t)
  BY <1>3, TestsKeepInv, DeviceStepsKeepInv, DescriptorStepsKeepInv, InterfaceStepsKeepInv
     DEF ConfigStep
<1>4. CASE \E t \in Threads : InterfaceStep(t)
  BY <1>4, TestsKeepInv, DeviceStepsKeepInv, InterfaceStepsKeepInv, CloseTestKeepsInv,
     CloseUnbindKeepsInv
     DEF InterfaceStep
<1>5. CASE \E t \in Threads, f \in Files : Close(t, f)
  BY <1>5, CloseKeepsInv
<1>6. CASE UNCHANGED vars
  BY <1>6
     DEF vars, config, IInv, TypeOK, ThreadInv, RequestsOnOpenFiles, OnInterfaces,
         PipesOfConfig, HasBlock, ClosedFilesHoldNothing
<1>7. QED
  BY <1>1, <1>2, <1>3, <1>4, <1>5, <1>6 DEF Next

\* The inductive invariant holds in every behaviour of the ioctls.
THEOREM Invariant == Spec => []IInv
<1>1. QED
  BY InitInv, NextInv, PTL DEF Spec

\* The cached configuration, the owners, the pool and the threads keep their
\* types, for any number of threads, files and interfaces.
THEOREM TypeCorrect == Spec => []TypeOK
<1>1. IInv => TypeOK
  BY DEF IInv
<1>2. QED
  BY <1>1, Invariant, PTL

\* IRP_MJ_CLOSE releases all interfaces of the file and no claim that is under
\* way binds one again, although neither takes a lock: ioctls on a file are
\* over before it is closed.
THEOREM ClosedFilesCorrect == Spec => []ClosedFilesHoldNothing
<1>1. IInv => ClosedFilesHoldNothing
  BY DEF IInv
<1>2. QED
  BY <1>1, Invariant, PTL
-----------------------------------------------------------------------------
(* Requests that do not overlap.  The argument: between requests the       *)
(* driver's copy is the device's and the pool holds the cached descriptor  *)
(* alone; within one, each step of the request says what is its own and    *)
(* what of the copy is out of date.                                        *)

\* At most one request is under way at any time.
OneAtATime ==
  \A t, u \in Threads : th[t].pc # "idle" /\ th[u].pc # "idle" => t = u

Owning == {"compare", "select", "selected", "pipes"}

Early == {"set_config", "unconfigure", "timed_out", "lookup"}   \* no block yet

\* The request of a thread fits its step; while it has not timed out and was
\* for a value, it is about the configuration it was asked for.
Shape(r) ==
  /\ r.pc = "idle" => r = Resting
  /\ r.pc \in {"set_config", "unconfigure", "timed_out"} \union Owning => r.op = "set_configuration"
  /\ r.pc \in {"lookup", "fetch", "cache"} => r.op \in {"set_configuration", "get_descriptor"}
  /\ r.pc \in {"free_old", "assign"} => r.op \in {"set_configuration", "reset_device"}
  /\ r.pc \in {"set_alt", "alt_call", "alt_set"} => r.op = "set_interface"
  /\ r.pc \in {"get_alt", "got_alt"} => r.op = "get_interface"
  /\ r.pc \in {"claim", "bind"} => r.op = "claim_interface"
  /\ r.pc \in {"release", "unbind"} => r.op = "release_interface"
  /\ r.pc \in {"reset", "cycle"} => r.op = "reset_device"
  /\ r.pc \in Closing => r.op = None /\ r.conf = NoConfig /\ r.desc = None
  /\ r.op = "reset_device" => r.conf = NoConfig /\ r.found = NoConfig
  /\ r.pc \in {"unconfigure", "timed_out"} => r.conf = NoConfig
  /\ r.pc \in {"select", "pipes"} => r.conf # NoConfig
  /\ r.pc \in {"fetch", "cache"} => r.found # NoConfig
  /\ r.pc = "lookup" /\ r.op = "get_descriptor" => r.found # NoConfig
  /\ r.op \notin {"set_configuration", "get_interface"} => r.desc = None
  /\ r.pc \in Early => r.desc = None /\ r.conf = r.asked
  /\ r.op = "set_configuration" /\ r.pc \notin Early \union Closing \union {"idle"} =>
       (r.desc # None \/ (r.pc = "selected" /\ r.conf = NoConfig))
  /\ r.pc = "selected" /\ r.conf = NoConfig => r.desc = None
  /\ r.op = "set_configuration" /\ r.form = "value" /\ ~r.late =>
       /\ r.pc \in {"fetch", "cache"} => r.found = r.asked
       /\ r.pc \in {"select", "selected", "pipes", "free_old", "assign"} => r.conf = r.asked

\* The block that a request has to free or to put in place.
Owns(r, a) == r.op = "set_configuration" /\ a = r.desc

\* The blocks in use are the cached descriptor and the request's own.
Memory(r) ==
  /\ \A a \in Pool : pool[a] # Unused <=> (a = descriptor /\ r.pc # "assign") \/ Owns(r, a)
  /\ \A a \in Pool : Owns(r, a) => a # descriptor
  /\ r.pc = "cache" => descriptor = None
  /\ r.pc = "got_alt" => r.desc = descriptor /\ descriptor # None

\* A block that was filled whole has the configuration with index c.
Right(b, c) == b.whole => b.config = c

Contents(r) ==
  /\ descriptor # None /\ r.pc # "assign" => Right(pool[descriptor], index)
  /\ r.op = "set_configuration" /\ r.pc = "cache" => pool[r.desc] = Whole(r.found)
  /\ r.pc = "compare" =>
       /\ Right(pool[r.desc], r.found)
       /\ r.form = "value" /\ ~r.late => pool[r.desc].config = r.asked
  /\ /\ r.op = "set_configuration" /\ r.desc # None
     /\ r.pc \in {"select", "selected", "pipes", "free_old", "assign"}
     => Right(pool[r.desc], r.found) /\ pool[r.desc].config = r.conf

\* The driver's handle and pipes are those of configuration c, and the device
\* has it, as far as that is sure.
Holds(c) ==
  /\ handle = c
  /\ \A i \in Interfaces : pipes[i] # Invalid <=> i \in InterfacesOf[c]
  /\ device.sure =>
       /\ device.config = c
       /\ \A i \in InterfacesOf[c] : pipes[i] = [config |-> c, alt |-> device.alt[i]]

Unsettled == {"selected", "pipes", "free_old", "assign", "alt_set", "cycle"}

Cached(r) ==
  /\ r.pc \notin Unsettled /\ value # NoConfig =>
       descriptor # None /\ pool[descriptor].config = value /\ Holds(value)
  /\ r.pc \in {"selected", "pipes"} => device = Configured(r.conf)
  /\ r.pc = "pipes" =>
       handle = r.conf /\ \A i \in Interfaces : pipes[i] = Invalid /\ bound[i] = None
  /\ r.pc \in {"free_old", "assign"} /\ r.op = "set_configuration" /\ r.conf # NoConfig =>
       Holds(r.conf)
  /\ r.pc \in {"alt_call", "alt_set"} => value # NoConfig /\ r.conf = value
  /\ r.pc = "alt_set" =>
       /\ handle = value /\ descriptor # None /\ pool[descriptor].config = value
       /\ r.intf \in InterfacesOf[value]
       /\ \A i \in Interfaces : pipes[i] # Invalid <=> i \in InterfacesOf[value]
       /\ device.sure =>
            /\ device.config = value /\ device.alt[r.intf] = r.alt
            /\ \A i \in InterfacesOf[value] \ {r.intf} :
                 pipes[i] = [config |-> value, alt |-> device.alt[i]]

Owners(r) ==
  /\ \A i \in Interfaces : bound[i] # None => pipes[i] # Invalid
  /\ r.pc = "bind" => pipes[r.intf] # Invalid /\ bound[r.intf] = None
  /\ r.pc \in {"unbind", "close_unbind"} => bound[r.intf] = r.file
  /\ r.pc \in Closing => r.file \notin open
  /\ \A f \in Files, i \in Interfaces : <<f, i>> \in granted => f \in open /\ bound[i] = f

Safe(r) == Shape(r) /\ Memory(r) /\ Contents(r) /\ Cached(r) /\ Owners(r)

SerialInv ==
  /\ Quiet => Safe(Resting)
  /\ \A t \in Threads : th[t].pc = "idle" => th[t] = Resting
  /\ \A t \in Threads : th[t].pc # "idle" => Safe(th[t])

-----------------------------------------------------------------------------
(* The steps, each from the record r of its thread to the record s.        *)

Serves(t, r, s) == TypeOK /\ TypeOK' /\ r = th[t] /\ s = th'[t] /\ Safe(r)

\* What a request is does not change.
Same(r, s) ==
  /\ s.op = r.op /\ s.file = r.file /\ s.asked = r.asked /\ s.form = r.form
  /\ s.intf = r.intf /\ s.alt = r.alt

\* The thread goes on with its request.
Moves(r, s, step) ==
  /\ s.pc = step /\ Same(r, s)
  /\ s.conf = r.conf /\ s.found = r.found /\ s.late = r.late /\ s.desc = r.desc

LEMMA GotoMoves ==
  ASSUME TypeOK, NEW t \in Threads, NEW r, NEW s, r = th[t], s = th'[t], NEW step, Goto(t, step)
  PROVE Moves(r, s, step)
BY DEF Goto, Moves, Same, TypeOK, ThreadType

LEMMA FinishRests ==
  ASSUME TypeOK, NEW t \in Threads, NEW s, s = th'[t], Finish(t)
  PROVE s = Resting
BY DEF Finish, TypeOK

LEMMA RestingFields ==
  /\ Resting.pc = "idle" /\ Resting.op = None /\ Resting.file = None /\ Resting.conf = NoConfig
  /\ Resting.found = NoConfig /\ Resting.asked = NoConfig /\ Resting.late = FALSE
  /\ Resting.intf = AnyInterface /\ Resting.alt = 0 /\ Resting.desc = None
BY DEF Resting

\* No block of the pool is None.
LEMMA Blocks == \A a \in Pool : a # None
  BY ConfigAssumption

\* A thread's block is one of the pool, or none.
LEMMA DescFacts ==
  ASSUME NEW r \in ThreadType
  PROVE  /\ r.desc # None => r.desc \in Pool
         /\ r.conf \in Configs \union {NoConfig} /\ r.found \in Configs \union {NoConfig}
         /\ r.late \in BOOLEAN /\ r.intf \in Nat
  BY InterfaceFacts DEF ThreadType

\* A freshly configured device, and one that it is not sure of.
LEMMA ConfiguredFacts ==
  /\ \A c : /\ Configured(c).config = c /\ Configured(c).sure
            /\ \A i \in Interfaces : Configured(c).alt[i] = 0
  /\ ~Doubtful.sure
  BY DEF Configured, Doubtful

\* A request ends that has changed nothing, or left open what the device has,
\* and gives its block back.
LEMMA EndSafe ==
  ASSUME NEW t \in Threads, NEW r \in ThreadType, NEW s \in ThreadType, Serves(t, r, s),
         Finish(t), r.pc \notin Unsettled,
         UNCHANGED <<config, pipes, bound, open, granted>>, device' = device \/ device' = Doubtful,
         \A a \in Pool : pool'[a] = IF Owns(r, a) THEN Unused ELSE pool[a]
  PROVE Safe(s)'
<1> USE RestingFields DEF Serves
<1>1. s = Resting
  BY FinishRests
<1>2. Shape(s)'
  BY <1>1, ConfigAssumption DEF Shape, Closing, Early, Owning
<1>3. Memory(s)'
  BY <1>1, Blocks, ConfigAssumption DEF Safe, Memory, Owns, Unsettled, config
<1>4. descriptor # None => descriptor \in Pool /\ pool'[descriptor] = pool[descriptor]
  BY DEF Safe, Memory, TypeOK
<1>5. Contents(s)'
  BY <1>1, <1>4, ConfigAssumption DEF Safe, Contents, Right, Unsettled, config
<1>6. value # NoConfig => descriptor # None /\ pool[descriptor].config = value /\ Holds(value)
  BY DEF Safe, Cached
<1>7. value # NoConfig => Holds(value)'
  BY <1>6, ConfiguredFacts DEF Holds, config
<1>8. Cached(s)'
  BY <1>1, <1>4, <1>6, <1>7, ConfigAssumption DEF Cached, Unsettled, config
<1>9. Owners(s)'
  BY <1>1 DEF Safe, Owners, Closing
<1>10. QED
  BY <1>2, <1>3, <1>5, <1>8, <1>9 DEF Safe

\* A request that has no block ends.
LEMMA RestSafe ==
  ASSUME NEW t \in Threads, NEW r \in ThreadType, NEW s \in ThreadType, Serves(t, r, s),
         Finish(t), r.pc \notin Unsettled, r.op # "set_configuration" \/ r.desc = None,
         UNCHANGED <<config, pipes, bound, pool, open, granted>>, device' = device \/ device' = Doubtful
  PROVE Safe(s)'
<1>1. \A a \in Pool : pool'[a] = IF Owns(r, a) THEN Unused ELSE pool[a]
  BY Blocks DEF Owns
<1>2. QED
  BY <1>1, EndSafe

\* A request fails.
LEMMA FailSafe ==
  ASSUME NEW t \in Threads, NEW r \in ThreadType, NEW s \in ThreadType, Serves(t, r, s),
         Fail(t), r.pc \in {"fetch", "cache", "compare", "select"},
         UNCHANGED <<config, pipes, bound, open, granted>>, device' = device \/ device' = Doubtful
  PROVE Safe(s)'
<1>1. \A a \in Pool : pool'[a] = IF Owns(r, a) THEN Unused ELSE pool[a]
  <2>1. r.op # "set_configuration" => r.desc = None
    BY DEF Serves, Safe, Shape, Early, Owning
  <2>2. QED
    BY <2>1, ConfigAssumption DEF Fail, Fill, Owns, Serves
<1>2. QED
  BY <1>1, EndSafe DEF Fail, Unsettled

\* set_configuration of what is cached ends; any other goes on.
LEMMA SetConfigCheckSafe ==
  ASSUME NEW t \in Threads, NEW r \in ThreadType, NEW s \in ThreadType, Serves(t, r, s),
         SetConfigCheck(t)
  PROVE Safe(s)'
<1> USE DEF Serves, SetConfigCheck
<1>1. r.pc = "set_config" /\ r.op = "set_configuration" /\ r.desc = None
  BY DEF Safe, Shape, Early, Closing
<1>2. CASE Finish(t)
  BY <1>1, <1>2, RestSafe DEF Unsettled
<1>3. ASSUME NEW step \in {"unconfigure", "lookup"}, Goto(t, step),
             step = "unconfigure" => r.conf = NoConfig
      PROVE Safe(s)'
  <2>1. Moves(r, s, step)
    BY <1>3, GotoMoves
  <2>2. UNCHANGED <<config, pipes, bound, pool, device, open, granted>>
    OBVIOUS
  <2> HIDE DEF SetConfigCheck
  <2>3. Shape(s)'
    BY <1>1, <1>3, <2>1, <2>2
       DEF Safe, Shape, Owning, Early, Closing, Moves, Same
  <2>4. Memory(s)'
    BY <1>1, <1>3, <2>1, <2>2
       DEF Safe, Shape, Memory, Owns, Owning, Early, Closing, Moves, Same, config
  <2>5. Contents(s)'
    BY <1>1, <1>3, <2>1, <2>2
       DEF Safe, Shape, Memory, Contents, Right, Owns, Owning, Early, Closing, Moves, Same, config
  <2>6. Cached(s)'
    BY <1>1, <1>3, <2>1, <2>2
       DEF Safe, Shape, Memory, Cached, Holds, Unsettled, Owns, Owning, Early, Closing, Moves, Same, config
  <2>7. Owners(s)'
    BY <1>1, <1>3, <2>1, <2>2
       DEF Safe, Shape, Cached, Owners, Owning, Early, Closing, Moves, Same
  <2>8. QED
    BY <2>3, <2>4, <2>5, <2>6, <2>7 DEF Safe
<1>4. QED
  BY <1>2, <1>3

\* The device is unconfigured, or refuses, or does not answer.
LEMMA UnconfigureSafe ==
  ASSUME NEW t \in Threads, NEW r \in ThreadType, NEW s \in ThreadType, Serves(t, r, s),
         Unconfigure(t)
  PROVE Safe(s)'
<1> USE DEF Serves, Unconfigure
<1>1. r.pc = "unconfigure" /\ r.op = "set_configuration" /\ r.desc = None /\ r.conf = NoConfig
  BY DEF Safe, Shape, Early, Closing
<1>2. CASE Finish(t) /\ UNCHANGED device
  BY <1>1, <1>2, RestSafe DEF Unsettled
<1>3. UNCHANGED <<config, pipes, bound, pool, open, granted>>
  OBVIOUS
<1>4. CASE device' = Configured(NoConfig) /\ Goto(t, "selected")
  <2>1. Moves(r, s, "selected")
    BY <1>4, GotoMoves
  <2> HIDE DEF Unconfigure
  <2>2. Shape(s)'
    BY <1>1, <1>3, <1>4, <2>1
       DEF Safe, Shape, Owning, Early, Closing, Moves, Same
  <2>3. Memory(s)'
    BY <1>1, <1>3, <1>4, <2>1
       DEF Safe, Shape, Memory, Owns, Owning, Early, Closing, Moves, Same, config
  <2>4. Contents(s)'
    BY <1>1, <1>3, <1>4, <2>1
       DEF Safe, Shape, Memory, Contents, Right, Owns, Owning, Early, Closing, Moves, Same, config
  <2>5. Cached(s)'
    BY <1>1, <1>3, <1>4, <2>1
       DEF Safe, Shape, Memory, Cached, Holds, Unsettled, Owns, Owning, Early, Closing, Moves, Same, config
  <2>6. Owners(s)'
    BY <1>1, <1>3, <1>4, <2>1
       DEF Safe, Shape, Cached, Owners, Owning, Early, Closing, Moves, Same
  <2>7. QED
    BY <2>2, <2>3, <2>4, <2>5, <2>6 DEF Safe
<1>5. CASE device' = Doubtful /\ Goto(t, "timed_out")
  <2>1. Moves(r, s, "timed_out")
    BY <1>5, GotoMoves
  <2> HIDE DEF Unconfigure
  <2>2. Shape(s)'
    BY <1>1, <1>3, <1>5, <2>1
       DEF Safe, Shape, Owning, Early, Closing, Moves, Same
  <2>3. Memory(s)'
    BY <1>1, <1>3, <1>5, <2>1
       DEF Safe, Shape, Memory, Owns, Owning, Early, Closing, Moves, Same, config
  <2>4. Contents(s)'
    BY <1>1, <1>3, <1>5, <2>1
       DEF Safe, Shape, Memory, Contents, Right, Owns, Owning, Early, Closing, Moves, Same, config
  <2>5. Cached(s)'
    BY <1>1, <1>3, <1>5, <2>1, ConfiguredFacts
       DEF Safe, Shape, Memory, Cached, Holds, Unsettled, Owns, Owning, Early, Closing, Moves, Same, config
  <2>6. Owners(s)'
    BY <1>1, <1>3, <1>5, <2>1
       DEF Safe, Shape, Cached, Owners, Owning, Early, Closing, Moves, Same
  <2>7. QED
    BY <2>2, <2>3, <2>4, <2>5, <2>6 DEF Safe
<1>6. QED
  BY <1>2, <1>4, <1>5

\* A request that timed out ends.
LEMMA TimedOutSafe ==
  ASSUME NEW t \in Threads, NEW r \in ThreadType, NEW s \in ThreadType, Serves(t, r, s),
         TimedOut(t)
  PROVE Safe(s)'
<1>1. r.pc = "timed_out" /\ r.desc = None
  BY DEF Safe, Shape, Early, Closing, Serves, TimedOut
<1>2. QED
  BY <1>1, RestSafe DEF Unsettled, TimedOut

\* A block is taken, for set_configuration, and a descriptor looked for.
LEMMA LookupSafe ==
  ASSUME NEW t \in Threads, NEW r \in ThreadType, NEW s \in ThreadType, Serves(t, r, s),
         Lookup(t)
  PROVE Safe(s)'
<1> USE DEF Serves
<1>1. /\ r.pc = "lookup" /\ r.desc = None
      /\ r.op \in {"set_configuration", "get_descriptor"}
  BY DEF Safe, Shape, Early, Closing, Lookup
<1>2. UNCHANGED <<config, pipes, bound, device, open, granted>>
  BY DEF Lookup
<1>3. CASE Finish(t) /\ UNCHANGED pool
  BY <1>1, <1>2, <1>3, RestSafe DEF Unsettled
<1>4. CASE Goto(t, "fetch") /\ UNCHANGED pool /\ r.op # "set_configuration"
  <2>1. Moves(r, s, "fetch")
    BY <1>4, GotoMoves
  <2>2. Shape(s)'
    BY <1>1, <1>2, <1>4, <2>1
       DEF Safe, Shape, Owning, Early, Closing, Moves, Same
  <2>3. Memory(s)'
    BY <1>1, <1>2, <1>4, <2>1
       DEF Safe, Shape, Memory, Owns, Owning, Early, Closing, Moves, Same, config
  <2>4. Contents(s)'
    BY <1>1, <1>2, <1>4, <2>1
       DEF Safe, Shape, Memory, Contents, Right, Owns, Owning, Early, Closing, Moves, Same, config
  <2>5. Cached(s)'
    BY <1>1, <1>2, <1>4, <2>1
       DEF Safe, Shape, Memory, Cached, Holds, Unsettled, Owns, Owning, Early, Closing, Moves, Same, config
  <2>6. Owners(s)'
    BY <1>1, <1>2, <1>4, <2>1
       DEF Safe, Shape, Cached, Owners, Owning, Early, Closing, Moves, Same
  <2>7. QED
    BY <2>2, <2>3, <2>4, <2>5, <2>6 DEF Safe
<1>5. ASSUME NEW a \in Pool, NEW i \in Configs, NEW late \in BOOLEAN, r.op = "set_configuration",
             pool[a] = Unused, Matches(t, i, late), late => ~Hit(i),
             pool' = [pool EXCEPT ![a] = IF Hit(i) THEN CachedCopy ELSE Unfilled],
             th' = [th EXCEPT ![t].desc = a, ![t].found = i, ![t].late = late,
                              ![t].pc = IF Hit(i) THEN "compare" ELSE "fetch"]
      PROVE Safe(s)'
  <2>1. /\ s.pc = (IF Hit(i) THEN "compare" ELSE "fetch") /\ Same(r, s)
        /\ s.conf = r.conf /\ s.desc = a /\ s.found = i /\ s.late = late
    BY <1>5 DEF TypeOK, ThreadType, Same
  <2>2. /\ \A b \in Pool : b # a => pool'[b] = pool[b]
        /\ pool'[a] = IF Hit(i) THEN pool[descriptor] ELSE Unfilled
    <3>1. Hit(i) => pool[descriptor] # Unused
      BY <1>1 DEF Hit, Safe, Memory, TypeOK
    <3>2. QED
      BY <1>5, <3>1 DEF TypeOK, CachedCopy
  <2>3. a # None /\ i # NoConfig
    BY ConfigAssumption DEF NoConfig
  <2>4. descriptor # None => descriptor \in Pool /\ descriptor # a /\ pool[descriptor] # Unused
    BY <1>1, <1>5 DEF Safe, Memory, TypeOK
  <2>5. Unfilled # Unused /\ ~Unfilled.whole
    BY DEF Unfilled, Unused
  <2>6. r.form = "value" /\ ~late => IF Hit(i) THEN pool[descriptor].config = r.conf ELSE i = r.conf
    BY <1>5 DEF Matches
  <2>7. r.conf = r.asked
    BY <1>1, <1>5 DEF Safe, Shape, Early, Closing
  <2>8. Hit(i) => descriptor # None /\ index = i
    BY DEF Hit
  <2>9. pool'[a] # Unused /\ \A b \in Pool : ~Owns(r, b)
    BY <1>1, <2>2, <2>4, <2>5, <2>8, Blocks DEF Owns
  <2>10. s.pc \in {"compare", "fetch"} /\ s.op = "set_configuration"
    BY <1>5, <2>1 DEF Same
  <2>11. Shape(s)'
    BY <1>1, <1>5, <2>1, <2>3, <2>6, <2>7
       DEF Safe, Shape, Owning, Early, Closing, Moves, Same
  <2>12. Memory(s)'
    BY <1>1, <1>2, <2>1, <2>2, <2>4, <2>9, <2>10
       DEF Safe, Shape, Memory, Owns, Owning, Early, Closing, Moves, Same, config
  <2>13. Contents(s)'
    BY <1>1, <1>2, <2>1, <2>2, <2>3, <2>4, <2>5, <2>6, <2>7, <2>8
       DEF Safe, Shape, Memory, Contents, Right, Owns, Owning, Early, Closing, Moves, Same, config
  <2>14. Cached(s)'
    BY <1>1, <1>2, <2>1, <2>2, <2>4
       DEF Safe, Shape, Memory, Cached, Holds, Unsettled, Owns, Owning, Early, Closing, Moves, Same, config
  <2>15. Owners(s)'
    BY <1>1, <1>2, <2>1
       DEF Safe, Shape, Cached, Owners, Owning, Early, Closing, Moves, Same
  <2>16. QED
    BY <2>11, <2>12, <2>13, <2>14, <2>15 DEF Safe
<1>6. QED
  BY <1>1, <1>3, <1>4, <1>5 DEF Lookup

\* The device answers, or refuses, or does not answer in time.
LEMMA FetchSafe ==
  ASSUME NEW t \in Threads, NEW r \in ThreadType, NEW s \in ThreadType, Serves(t, r, s),
         Fetch(t)
  PROVE Safe(s)'
<1> USE DEF Serves
<1>1. r.pc = "fetch" /\ r.found \in Configs /\ r.op \in {"set_configuration", "get_descriptor"}
  BY DescFacts DEF Safe, Shape, Early, Closing, Fetch
<1>2. UNCHANGED <<config, pipes, bound, device, open, granted>>
  BY DEF Fetch
<1>3. CASE Fail(t)
  BY <1>1, <1>2, <1>3, FailSafe
<1>4. ASSUME NEW b \in Block, b # Unused, Fill(t, b)
      PROVE  /\ \A a \in Pool : pool'[a] = IF Owns(r, a) THEN b ELSE pool[a]
             /\ \A a \in Pool : pool'[a] # Unused <=> pool[a] # Unused
             /\ descriptor # None => pool'[descriptor] = pool[descriptor]
             /\ r.op = "set_configuration" => r.desc \in Pool /\ pool'[r.desc] = b
  <2>1. r.op # "set_configuration" => r.desc = None
    BY <1>1 DEF Safe, Shape, Early, Closing
  <2>2. r.op = "set_configuration" => r.desc \in Pool
    BY <1>1, DescFacts DEF Safe, Shape, Early, Closing
  <2>3. \A a \in Pool : pool'[a] = IF Owns(r, a) THEN b ELSE pool[a]
    BY <1>4, <2>1, Blocks DEF Fill, Owns
  <2>4. \A a \in Pool : Owns(r, a) => pool[a] # Unused /\ a # descriptor
    BY DEF Safe, Memory
  <2>5. descriptor # None => descriptor \in Pool
    BY DEF TypeOK
  <2>6. \A a \in Pool : pool'[a] # Unused <=> pool[a] # Unused
    BY <1>4, <2>3, <2>4
  <2>7. QED
    BY <2>2, <2>3, <2>4, <2>5, <2>6 DEF Owns
<1>5. CASE Fill(t, Whole(r.found)) /\ descriptor = None /\ Goto(t, "cache")
  <2>1. Moves(r, s, "cache")
    BY <1>5, GotoMoves
  <2>2. /\ Whole(r.found) \in Block /\ Whole(r.found) # Unused
        /\ Whole(r.found).config = r.found
    BY <1>1, BlockFacts DEF Whole
  <2>3. /\ \A a \in Pool : pool'[a] # Unused <=> pool[a] # Unused
        /\ r.op = "set_configuration" => r.desc \in Pool /\ pool'[r.desc] = Whole(r.found)
    BY <1>4, <1>5, <2>2
  <2>4. Shape(s)'
    BY <1>1, <1>2, <1>5, <2>1, <2>3
       DEF Safe, Shape, Owning, Early, Closing, Moves, Same
  <2>5. Memory(s)'
    BY <1>1, <1>2, <1>5, <2>1, <2>3
       DEF Safe, Shape, Memory, Owns, Owning, Early, Closing, Moves, Same, config
  <2>6. Contents(s)'
    BY <1>1, <1>2, <1>5, <2>1, <2>3
       DEF Safe, Shape, Memory, Contents, Right, Owns, Owning, Early, Closing, Moves, Same, config
  <2>7. Cached(s)'
    BY <1>1, <1>2, <1>5, <2>1, <2>3
       DEF Safe, Shape, Memory, Cached, Holds, Unsettled, Owns, Owning, Early, Closing, Moves, Same, config
  <2>8. Owners(s)'
    BY <1>1, <1>2, <1>5, <2>1, <2>3
       DEF Safe, Shape, Cached, Owners, Owning, Early, Closing, Moves, Same
  <2>9. QED
    BY <2>4, <2>5, <2>6, <2>7, <2>8 DEF Safe
<1>6. ASSUME NEW b \in Block, b # Unused, Fill(t, b), NEW late \in BOOLEAN, GoOn(t, late),
             (b = Whole(r.found) /\ late = r.late) \/ (~b.whole /\ late)
      PROVE Safe(s)'
  <2>1. /\ \A a \in Pool : pool'[a] # Unused <=> pool[a] # Unused
        /\ descriptor # None => pool'[descriptor] = pool[descriptor]
        /\ r.op = "set_configuration" => r.desc \in Pool /\ pool'[r.desc] = b
    BY <1>4, <1>6
  <2>2. CASE r.op = "set_configuration"
    <3>1. /\ s.pc = "compare" /\ Same(r, s) /\ s.conf = r.conf /\ s.found = r.found
          /\ s.late = late /\ s.desc = r.desc
      BY <1>6, <2>2 DEF GoOn, Same, TypeOK, ThreadType
    <3>2. b.whole => b.config = r.found /\ late = r.late
      BY <1>6 DEF Whole
    <3>3. ~late => b.config = r.found /\ late = r.late
      BY <1>6 DEF Whole
    <3>4. r.form = "value" /\ ~r.late => r.found = r.asked
      BY <1>1, <2>2 DEF Safe, Shape, Early, Closing
    <3>5. Shape(s)'
      BY <1>1, <2>2, <3>1, <3>3, ConfigAssumption
         DEF Safe, Shape, Owning, Early, Closing, Moves, Same
    <3>6. Memory(s)'
      BY <1>1, <1>2, <2>1, <2>2, <3>1
         DEF Safe, Shape, Memory, Owns, Owning, Early, Closing, Moves, Same, config
    <3>7. Contents(s)'
      BY <1>1, <1>2, <2>1, <2>2, <3>1, <3>2, <3>3, <3>4
         DEF Safe, Shape, Memory, Contents, Right, Owns, Owning, Early, Closing, Moves, Same, config
    <3>8. Cached(s)'
      BY <1>1, <1>2, <2>1, <2>2, <3>1
         DEF Safe, Shape, Memory, Cached, Holds, Unsettled, Owns, Owning, Early, Closing, Moves, Same, config
    <3>9. Owners(s)'
      BY <1>1, <1>2, <2>1, <2>2, <3>1
         DEF Safe, Shape, Cached, Owners, Owning, Early, Closing, Moves, Same
    <3>10. QED
      BY <3>5, <3>6, <3>7, <3>8, <3>9 DEF Safe
  <2>3. CASE r.op # "set_configuration"
    <3>1. Finish(t)
      BY <1>6, <2>3 DEF GoOn
    <3>2. r.desc = None
      BY <1>1, <2>3 DEF Safe, Shape, Early, Closing
    <3>3. pool' = pool
      BY <1>6, <3>2, Blocks DEF Fill, TypeOK
    <3>4. QED
      BY <1>1, <1>2, <2>3, <3>1, <3>2, <3>3, RestSafe DEF Unsettled
  <2>4. QED
    BY <2>2, <2>3
<1>7. ASSUME Fill(t, Whole(r.found)), GoOn(t, r.late) PROVE Safe(s)'
  <2>1. Whole(r.found) \in Block /\ Whole(r.found) # Unused /\ r.late \in BOOLEAN
    BY <1>1, BlockFacts, DescFacts
  <2>2. QED
    BY <1>6, <1>7, <2>1
<1>8. ASSUME NEW b \in NotWhole, Fill(t, b), GoOn(t, TRUE) PROVE Safe(s)'
  <2>1. b \in Block /\ b # Unused /\ ~b.whole
    BY BlockFacts DEF NotWhole, Unused
  <2>2. QED
    BY <1>6, <1>8, <2>1
<1>9. QED
  BY <1>3, <1>5, <1>7, <1>8 DEF Fetch

\* The first descriptor is cached, or memory runs out.
LEMMA CacheKeepsSafe ==
  ASSUME NEW t \in Threads, NEW r \in ThreadType, NEW s \in ThreadType, Serves(t, r, s),
         Cache(t)
  PROVE Safe(s)'
<1> USE DEF Serves
<1>1. r.pc = "cache" /\ r.found \in Configs /\ r.op \in {"set_configuration", "get_descriptor"}
  BY DescFacts DEF Safe, Shape, Early, Closing, Cache
<1>2. descriptor = None /\ value = NoConfig
  BY <1>1 DEF Safe, Memory, Cached, Unsettled
<1>3. UNCHANGED <<handle, pipes, bound, device, open, granted>>
  BY DEF Cache
<1>4. CASE Fail(t) /\ UNCHANGED <<value, index, descriptor>>
  BY <1>1, <1>3, <1>4, FailSafe DEF config
<1>5. ASSUME NEW a \in Pool, pool[a] = Unused, pool' = [pool EXCEPT ![a] = Whole(r.found)],
             descriptor' = a, value' = NoConfig, index' = r.found, GoOn(t, r.late)
      PROVE Safe(s)'
  <2>1. a # None /\ Whole(r.found) # Unused /\ Whole(r.found).config = r.found
    BY <1>1, ConfigAssumption, BlockFacts DEF Whole
  <2>2. /\ \A b \in Pool : b # a => pool'[b] = pool[b]
        /\ pool'[a] = Whole(r.found)
    BY <1>5 DEF TypeOK
  <2>3. CASE r.op = "set_configuration"
    <3>1. /\ s.pc = "compare" /\ Same(r, s) /\ s.conf = r.conf /\ s.found = r.found
          /\ s.late = r.late /\ s.desc = r.desc
      BY <1>5, <2>3 DEF GoOn, Same, TypeOK, ThreadType
    <3>2. r.desc \in Pool /\ pool[r.desc] = Whole(r.found) /\ r.desc # a /\ pool'[r.desc] = Whole(r.found)
      <4>1. r.desc \in Pool /\ pool[r.desc] = Whole(r.found)
        BY <1>1, <2>3, DescFacts DEF Safe, Shape, Early, Closing, Contents
      <4>2. QED
        BY <1>5, <2>1, <2>2, <4>1
    <3>3. r.form = "value" /\ ~r.late => r.found = r.asked
      BY <1>1, <2>3 DEF Safe, Shape, Early, Closing
    <3>4. Shape(s)'
      BY <1>1, <1>2, <1>3, <1>5, <2>1, <2>2, <2>3, <3>1, <3>2
         DEF Safe, Shape, Owning, Early, Closing, Moves, Same
    <3>5. Memory(s)'
      BY <1>1, <1>2, <1>5, <2>1, <2>2, <2>3, <3>1, <3>2, Blocks
         DEF Safe, Shape, Memory, Owns, Owning, Early, Closing, Moves, Same, config
    <3>6. Contents(s)'
      BY <1>1, <1>5, <2>1, <2>2, <2>3, <3>1, <3>2, <3>3
         DEF Safe, Shape, Memory, Contents, Right, Owns, Owning, Early, Closing, Moves, Same, config
    <3>7. Cached(s)'
      BY <1>1, <1>2, <1>3, <1>5, <2>1, <2>2, <2>3, <3>1, <3>2
         DEF Safe, Shape, Memory, Cached, Holds, Unsettled, Owns, Owning, Early, Closing, Moves, Same, config
    <3>8. Owners(s)'
      BY <1>1, <1>2, <1>3, <1>5, <2>1, <2>2, <2>3, <3>1, <3>2
         DEF Safe, Shape, Cached, Owners, Owning, Early, Closing, Moves, Same
    <3>9. QED
      BY <3>4, <3>5, <3>6, <3>7, <3>8 DEF Safe
  <2>4. CASE r.op # "set_configuration"
    <3>1. s = Resting
      BY <1>5, <2>4, FinishRests DEF GoOn
    <3>2. Shape(s)'
      BY <3>1, RestingFields, ConfigAssumption DEF Shape, Closing, Early, Owning
    <3>3. Memory(s)'
      BY <1>1, <1>2, <1>5, <2>1, <2>2, <2>4, <3>1, RestingFields, ConfigAssumption DEF Safe, Memory, Owns
    <3>4. Contents(s)'
      BY <1>5, <2>1, <2>2, <3>1, RestingFields, ConfigAssumption DEF Contents, Right
    <3>5. Cached(s)'
      BY <1>5, <3>1, RestingFields, ConfigAssumption DEF Cached, Unsettled
    <3>6. Owners(s)'
      BY <1>3, <3>1, RestingFields DEF Safe, Owners, Closing
    <3>7. QED
      BY <3>2, <3>3, <3>4, <3>5, <3>6 DEF Safe
  <2>5. QED
    BY <2>3, <2>4
<1>6. QED
  BY <1>4, <1>5 DEF Cache

\* The block has the cached configuration, or another, or is refused.
LEMMA CompareSafe ==
  ASSUME NEW t \in Threads, NEW r \in ThreadType, NEW s \in ThreadType, Serves(t, r, s),
         Compare(t)
  PROVE Safe(s)'
<1> DEFINE b == pool[r.desc]
<1> USE DEF Serves
<1>1. r.pc = "compare" /\ r.op = "set_configuration" /\ r.desc \in Pool
  BY DescFacts DEF Safe, Shape, Early, Closing, Owning, Compare
<1>2. UNCHANGED <<config, pipes, bound, device, open, granted>>
  BY DEF Compare
<1>3. CASE Fail(t)
  BY <1>1, <1>2, <1>3, FailSafe
<1>4. ASSUME NEW step \in {"free_old", "select"},
             th' = [th EXCEPT ![t].pc = step, ![t].conf = b.config], pool' = pool,
             step = "free_old" => value = b.config, step = "select" => b.config # NoConfig
      PROVE Safe(s)'
  <2>1. /\ s.pc = step /\ Same(r, s) /\ s.conf = b.config /\ s.found = r.found
        /\ s.late = r.late /\ s.desc = r.desc
    BY <1>4 DEF TypeOK, ThreadType, Same
  <2>2. Right(b, r.found) /\ (r.form = "value" /\ ~r.late => b.config = r.asked)
    BY <1>1 DEF Safe, Contents
  <2>3. b \in Block
    BY <1>1 DEF TypeOK
  <2> HIDE DEF b
  <2>4. pool' = pool /\ pool'[r.desc] = b /\ step \in {"free_old", "select"}
    BY <1>4 DEF b
  <2>5. step = "free_old" => value = b.config
    BY <1>4
  <2>6. step = "select" => b.config # NoConfig
    BY <1>4
  <2>7. value # NoConfig => Holds(value)'
    BY <1>1, <1>2 DEF Safe, Cached, Holds, Unsettled, config
  <2>8. value' = value /\ descriptor' = descriptor /\ index' = index
    BY <1>2 DEF config
  <2>9. Shape(s)'
    BY <1>1, <2>1, <2>2, <2>4, <2>6
       DEF Safe, Shape, Owning, Early, Closing, Moves, Same
  <2>10. Memory(s)'
    BY <1>1, <2>1, <2>4, <2>8
       DEF Safe, Shape, Memory, Owns, Owning, Early, Closing, Moves, Same, config
  <2>11. Contents(s)'
    BY <1>1, <2>1, <2>2, <2>4, <2>8
       DEF Safe, Shape, Memory, Contents, Right, Owns, Owning, Early, Closing, Moves, Same, config
  <2>12. Cached(s)'
    BY <1>1, <2>1, <2>4, <2>5, <2>7, <2>8
       DEF Safe, Shape, Memory, Cached, Holds, Unsettled, Owns, Owning, Early, Closing, Moves, Same, config
  <2>13. Owners(s)'
    BY <1>1, <1>2, <2>1, <2>4
       DEF Safe, Shape, Cached, Owners, Owning, Early, Closing, Moves, Same
  <2>14. QED
    BY <2>9, <2>10, <2>11, <2>12, <2>13 DEF Safe
<1>5. CASE value = b.config /\ th' = [th EXCEPT ![t].pc = "free_old", ![t].conf = b.config] /\ pool' = pool
  BY <1>4, <1>5
<1>6. CASE b.config # NoConfig /\ th' = [th EXCEPT ![t].pc = "select", ![t].conf = b.config] /\ pool' = pool
  BY <1>4, <1>6
<1>7. QED
  BY <1>3, <1>5, <1>6 DEF Compare

\* The device takes the configuration, or refuses it.
LEMMA SelectSafe ==
  ASSUME NEW t \in Threads, NEW r \in ThreadType, NEW s \in ThreadType, Serves(t, r, s),
         Select(t)
  PROVE Safe(s)'
<1> USE DEF Serves
<1>1. r.pc = "select" /\ r.conf # NoConfig /\ r.op = "set_configuration"
  BY DEF Safe, Shape, Early, Closing, Owning, Select
<1>2. UNCHANGED <<config, pipes, bound, open, granted>>
  BY DEF Select
<1>3. CASE Fail(t) /\ (device' = device \/ device' = Doubtful)
  BY <1>1, <1>2, <1>3, FailSafe
<1>4. CASE device' = Configured(r.conf) /\ Goto(t, "selected") /\ UNCHANGED pool
  <2>1. Moves(r, s, "selected")
    BY <1>4, GotoMoves
  <2>2. Shape(s)'
    BY <1>1, <1>2, <1>4, <2>1
       DEF Safe, Shape, Owning, Early, Closing, Moves, Same
  <2>3. Memory(s)'
    BY <1>1, <1>2, <1>4, <2>1
       DEF Safe, Shape, Memory, Owns, Owning, Early, Closing, Moves, Same, config
  <2>4. Contents(s)'
    BY <1>1, <1>2, <1>4, <2>1
       DEF Safe, Shape, Memory, Contents, Right, Owns, Owning, Early, Closing, Moves, Same, config
  <2>5. Cached(s)'
    BY <1>1, <1>2, <1>4, <2>1
       DEF Safe, Shape, Memory, Cached, Holds, Unsettled, Owns, Owning, Early, Closing, Moves, Same, config
  <2>6. Owners(s)'
    BY <1>1, <1>2, <1>4, <2>1
       DEF Safe, Shape, Cached, Owners, Owning, Early, Closing, Moves, Same
  <2>7. QED
    BY <2>2, <2>3, <2>4, <2>5, <2>6 DEF Safe
<1>5. QED
  BY <1>3, <1>4 DEF Select

\* The handle is noted, the pipes and the owners are dropped.
LEMMA SelectedSafe ==
  ASSUME NEW t \in Threads, NEW r \in ThreadType, NEW s \in ThreadType, Serves(t, r, s),
         Selected(t)
  PROVE Safe(s)'
<1> USE DEF Serves
<1>1. r.pc = "selected" /\ r.op = "set_configuration"
  BY DEF Safe, Shape, Early, Closing, Owning, Selected
<1>2. /\ device = Configured(r.conf) /\ handle' = r.conf /\ granted' = {}
      /\ \A i \in Interfaces : pipes'[i] = Invalid /\ bound'[i] = None
      /\ UNCHANGED <<index, descriptor, pool, device, open>>
  BY <1>1 DEF Safe, Cached, Selected
<1>3. CASE r.conf = NoConfig /\ value' = NoConfig /\ Finish(t)
  <2>1. s = Resting /\ r.desc = None
    BY <1>1, <1>3, FinishRests DEF Safe, Shape, Early, Closing
  <2>2. Shape(s)'
    BY <2>1, RestingFields, ConfigAssumption DEF Shape, Closing, Early, Owning
  <2>3. Memory(s)'
    BY <1>1, <1>2, <2>1, RestingFields, Blocks, ConfigAssumption DEF Safe, Memory, Owns
  <2>4. Contents(s)'
    BY <1>1, <1>2, <2>1, RestingFields, ConfigAssumption DEF Safe, Contents, Right
  <2>5. Cached(s)'
    BY <1>3, <2>1, RestingFields, ConfigAssumption DEF Cached, Unsettled
  <2>6. Owners(s)'
    BY <1>2, <2>1, RestingFields DEF Owners, Closing
  <2>7. QED
    BY <2>2, <2>3, <2>4, <2>5, <2>6 DEF Safe
<1>4. CASE r.conf # NoConfig /\ Goto(t, "pipes") /\ UNCHANGED value
  <2>1. Moves(r, s, "pipes")
    BY <1>4, GotoMoves
  <2>2. Shape(s)'
    BY <1>1, <1>2, <1>4, <2>1
       DEF Safe, Shape, Owning, Early, Closing, Moves, Same
  <2>3. Memory(s)'
    BY <1>1, <1>2, <1>4, <2>1
       DEF Safe, Shape, Memory, Owns, Owning, Early, Closing, Moves, Same, config
  <2>4. Contents(s)'
    BY <1>1, <1>2, <1>4, <2>1
       DEF Safe, Shape, Memory, Contents, Right, Owns, Owning, Early, Closing, Moves, Same, config
  <2>5. Cached(s)'
    BY <1>1, <1>2, <1>4, <2>1
       DEF Safe, Shape, Memory, Cached, Holds, Unsettled, Owns, Owning, Early, Closing, Moves, Same, config
  <2>6. Owners(s)'
    BY <1>1, <1>2, <1>4, <2>1
       DEF Safe, Shape, Cached, Owners, Owning, Early, Closing, Moves, Same
  <2>7. QED
    BY <2>2, <2>3, <2>4, <2>5, <2>6 DEF Safe
<1>5. QED
  BY <1>3, <1>4 DEF Selected

\* The pipes of the new configuration.
LEMMA UpdatePipesSafe ==
  ASSUME NEW t \in Threads, NEW r \in ThreadType, NEW s \in ThreadType, Serves(t, r, s),
         UpdatePipes(t)
  PROVE Safe(s)'
<1> USE DEF Serves
<1>1. r.pc = "pipes" /\ r.op = "set_configuration" /\ r.conf \in Configs
  BY DescFacts DEF Safe, Shape, Early, Closing, Owning, UpdatePipes
<1>2. /\ device = Configured(r.conf) /\ handle = r.conf
      /\ \A i \in Interfaces : pipes[i] = Invalid /\ bound[i] = None
  BY <1>1 DEF Safe, Cached
<1>3. UNCHANGED <<config, bound, pool, device, open, granted>>
  BY DEF UpdatePipes
<1>4. \A i \in Interfaces : pipes'[i] = IF i \in InterfacesOf[r.conf]
                                       THEN [config |-> r.conf, alt |-> 0] ELSE Invalid
  BY <1>1, <1>2 DEF UpdatePipes
<1>5. [config |-> r.conf, alt |-> 0] # Invalid
  BY <1>1, ConfigAssumption DEF Invalid, NoConfig
<1>6. \A i \in InterfacesOf[r.conf] : i \in Interfaces
  BY <1>1, ConfigAssumption
<1>7. Holds(r.conf)'
  BY <1>2, <1>3, <1>4, <1>5, <1>6, ConfiguredFacts DEF Holds, config
<1>8. Moves(r, s, "free_old")
  BY GotoMoves DEF UpdatePipes
<1>9. Shape(s)'
  BY <1>1, <1>3, <1>8
     DEF Safe, Shape, Owning, Early, Closing, Moves, Same
<1>10. Memory(s)'
  BY <1>1, <1>3, <1>8
     DEF Safe, Shape, Memory, Owns, Owning, Early, Closing, Moves, Same, config
<1>11. Contents(s)'
  BY <1>1, <1>3, <1>8
     DEF Safe, Shape, Memory, Contents, Right, Owns, Owning, Early, Closing, Moves, Same, config
<1>12. Cached(s)'
  BY <1>1, <1>3, <1>7, <1>8
     DEF Safe, Shape, Memory, Cached, Holds, Unsettled, Owns, Owning, Early, Closing, Moves, Same, config
<1>13. Owners(s)'
  BY <1>1, <1>2, <1>3, <1>8
     DEF Safe, Shape, Cached, Owners, Owning, Early, Closing, Moves, Same
<1>14. QED
  BY <1>9, <1>10, <1>11, <1>12, <1>13 DEF Safe

\* The old descriptor is freed.
LEMMA FreeOldSafe ==
  ASSUME NEW t \in Threads, NEW r \in ThreadType, NEW s \in ThreadType, Serves(t, r, s),
         FreeOld(t)
  PROVE Safe(s)'
<1> USE DEF Serves
<1>1. r.pc = "free_old" /\ r.op \in {"set_configuration", "reset_device"}
  BY DEF Safe, Shape, Early, Closing, FreeOld
<1>2. Moves(r, s, "assign")
  BY GotoMoves DEF FreeOld
<1>3. UNCHANGED <<config, pipes, bound, device, open, granted>>
  BY DEF FreeOld
<1>4. \A a \in Pool : pool'[a] = IF a = descriptor /\ a # r.desc THEN Unused ELSE pool[a]
  BY DEF FreeOld
<1>5. r.op = "set_configuration" => r.desc \in Pool /\ pool'[r.desc] = pool[r.desc]
  BY <1>1, <1>4, DescFacts DEF Safe, Shape, Early, Closing
<1>6. r.op = "reset_device" => r.conf = NoConfig /\ r.desc = None
  BY DEF Safe, Shape, Early, Closing
<1>7. Shape(s)'
  BY <1>1, <1>2, <1>3, <1>5, <1>6
     DEF Safe, Shape, Owning, Early, Closing, Moves, Same
<1>8. Memory(s)'
  BY <1>1, <1>2, <1>3, <1>4, <1>5, <1>6, Blocks
     DEF Safe, Shape, Memory, Owns, Owning, Early, Closing, Moves, Same, config
<1>9. Contents(s)'
  BY <1>1, <1>2, <1>3, <1>5, <1>6
     DEF Safe, Shape, Memory, Contents, Right, Owns, Owning, Early, Closing, Moves, Same, config
<1>10. Cached(s)'
  BY <1>1, <1>2, <1>3, <1>5, <1>6
     DEF Safe, Shape, Memory, Cached, Holds, Unsettled, Owns, Owning, Early, Closing, Moves, Same, config
<1>11. Owners(s)'
  BY <1>1, <1>2, <1>3, <1>5, <1>6
     DEF Safe, Shape, Cached, Owners, Owning, Early, Closing, Moves, Same
<1>12. QED
  BY <1>7, <1>8, <1>9, <1>10, <1>11 DEF Safe

\* The new one is put in place.
LEMMA AssignSafe ==
  ASSUME NEW t \in Threads, NEW r \in ThreadType, NEW s \in ThreadType, Serves(t, r, s),
         Assign(t)
  PROVE Safe(s)'
<1> USE DEF Serves
<1>1. r.pc = "assign" /\ r.op \in {"set_configuration", "reset_device"}
  BY DEF Safe, Shape, Early, Closing, Assign
<1>2. s = Resting
  BY FinishRests DEF Assign
<1>3. /\ descriptor' = r.desc /\ value' = r.conf /\ index' = r.found
      /\ UNCHANGED <<handle, pipes, bound, pool, device, open, granted>>
  BY DEF Assign
<1>4. Shape(s)'
  BY <1>2, RestingFields, ConfigAssumption DEF Shape, Closing, Early, Owning
<1>5. Owners(s)'
  BY <1>2, <1>3, RestingFields DEF Safe, Owners, Closing
<1>6. CASE r.op = "set_configuration"
  <2>1. /\ r.desc \in Pool /\ pool[r.desc].config = r.conf /\ Right(pool[r.desc], r.found)
        /\ r.conf # NoConfig => Holds(r.conf)
    BY <1>1, <1>6, DescFacts DEF Safe, Shape, Early, Closing, Contents, Cached
  <2>2. Memory(s)'
    BY <1>1, <1>2, <1>3, <1>6, <2>1, RestingFields, Blocks, ConfigAssumption DEF Safe, Memory, Owns
  <2>3. Contents(s)'
    BY <1>2, <1>3, <2>1, RestingFields, ConfigAssumption DEF Contents, Right
  <2>4. Cached(s)'
    BY <1>2, <1>3, <2>1, RestingFields, Blocks, ConfigAssumption DEF Cached, Holds, Unsettled
  <2>5. QED
    BY <1>4, <1>5, <2>2, <2>3, <2>4 DEF Safe
<1>7. CASE r.op = "reset_device"
  <2>1. r.conf = NoConfig /\ r.desc = None
    BY <1>7 DEF Safe, Shape, Early, Closing
  <2>2. Memory(s)'
    BY <1>1, <1>2, <1>3, <1>7, <2>1, RestingFields, Blocks, ConfigAssumption DEF Safe, Memory, Owns
  <2>3. Contents(s)'
    BY <1>2, <1>3, <2>1, RestingFields, ConfigAssumption DEF Contents, Right
  <2>4. Cached(s)'
    BY <1>2, <1>3, <2>1, RestingFields, ConfigAssumption DEF Cached, Unsettled
  <2>5. QED
    BY <1>4, <1>5, <2>2, <2>3, <2>4 DEF Safe
<1>8. QED
  BY <1>1, <1>6, <1>7

\* A reset goes on to cycle the port.
LEMMA ResetSafe ==
  ASSUME NEW t \in Threads, NEW r \in ThreadType, NEW s \in ThreadType, Serves(t, r, s),
         Reset(t)
  PROVE Safe(s)'
<1> USE DEF Serves
<1>1. r.pc = "reset" /\ r.op = "reset_device" /\ r.conf = NoConfig /\ r.desc = None
  BY DEF Safe, Shape, Early, Closing, Reset
<1>2. Moves(r, s, "cycle")
  BY GotoMoves DEF Reset
<1>3. UNCHANGED <<config, pipes, bound, pool, open, granted>>
  BY DEF Reset
<1>4. Shape(s)'
  BY <1>1, <1>2, <1>3
     DEF Safe, Shape, Owning, Early, Closing, Moves, Same
<1>5. Memory(s)'
  BY <1>1, <1>2, <1>3
     DEF Safe, Shape, Memory, Owns, Owning, Early, Closing, Moves, Same, config
<1>6. Contents(s)'
  BY <1>1, <1>2, <1>3
     DEF Safe, Shape, Memory, Contents, Right, Owns, Owning, Early, Closing, Moves, Same, config
<1>7. Cached(s)'
  BY <1>1, <1>2, <1>3
     DEF Safe, Shape, Memory, Cached, Holds, Unsettled, Owns, Owning, Early, Closing, Moves, Same, config
<1>8. Owners(s)'
  BY <1>1, <1>2, <1>3
     DEF Safe, Shape, Cached, Owners, Owning, Early, Closing, Moves, Same
<1>9. QED
  BY <1>4, <1>5, <1>6, <1>7, <1>8 DEF Safe

\* A port cycle goes on to drop what is cached.
LEMMA CyclePortSafe ==
  ASSUME NEW t \in Threads, NEW r \in ThreadType, NEW s \in ThreadType, Serves(t, r, s),
         CyclePort(t)
  PROVE Safe(s)'
<1> USE DEF Serves
<1>1. r.pc = "cycle" /\ r.op = "reset_device" /\ r.conf = NoConfig /\ r.desc = None
  BY DEF Safe, Shape, Early, Closing, CyclePort
<1>2. Moves(r, s, "free_old")
  BY GotoMoves DEF CyclePort
<1>3. UNCHANGED <<config, pipes, bound, pool, open, granted>>
  BY DEF CyclePort
<1>4. Shape(s)'
  BY <1>1, <1>2, <1>3
     DEF Safe, Shape, Owning, Early, Closing, Moves, Same
<1>5. Memory(s)'
  BY <1>1, <1>2, <1>3
     DEF Safe, Shape, Memory, Owns, Owning, Early, Closing, Moves, Same, config
<1>6. Contents(s)'
  BY <1>1, <1>2, <1>3
     DEF Safe, Shape, Memory, Contents, Right, Owns, Owning, Early, Closing, Moves, Same, config
<1>7. Cached(s)'
  BY <1>1, <1>2, <1>3
     DEF Safe, Shape, Memory, Cached, Holds, Unsettled, Owns, Owning, Early, Closing, Moves, Same, config
<1>8. Owners(s)'
  BY <1>1, <1>2, <1>3
     DEF Safe, Shape, Cached, Owners, Owning, Early, Closing, Moves, Same
<1>9. QED
  BY <1>4, <1>5, <1>6, <1>7, <1>8 DEF Safe

\* set_interface finds the interface and reads the handle, or ends.
LEMMA SetAltCheckSafe ==
  ASSUME NEW t \in Threads, NEW r \in ThreadType, NEW s \in ThreadType, Serves(t, r, s),
         SetAltCheck(t)
  PROVE Safe(s)'
<1> USE DEF Serves
<1>1. r.pc = "set_alt" /\ r.op = "set_interface" /\ r.desc = None
  BY DEF Safe, Shape, Early, Closing, SetAltCheck
<1>2. UNCHANGED <<config, pipes, bound, pool, device, open, granted>>
  BY DEF SetAltCheck
<1>3. CASE Finish(t)
  BY <1>1, <1>2, <1>3, RestSafe DEF Unsettled
<1>4. CASE /\ value # NoConfig
           /\ th' = [th EXCEPT ![t].pc = "alt_call", ![t].conf = handle]
  <2>1. /\ s.pc = "alt_call" /\ Same(r, s) /\ s.conf = handle /\ s.found = r.found
        /\ s.late = r.late /\ s.desc = r.desc
    BY <1>4 DEF TypeOK, ThreadType, Same
  <2>2. handle = value
    BY <1>1, <1>4 DEF Safe, Cached, Holds, Unsettled
  <2>3. Shape(s)'
    BY <1>1, <1>2, <1>4, <2>1, <2>2
       DEF Safe, Shape, Owning, Early, Closing, Moves, Same
  <2>4. Memory(s)'
    BY <1>1, <1>2, <1>4, <2>1, <2>2
       DEF Safe, Shape, Memory, Owns, Owning, Early, Closing, Moves, Same, config
  <2>5. Contents(s)'
    BY <1>1, <1>2, <1>4, <2>1, <2>2
       DEF Safe, Shape, Memory, Contents, Right, Owns, Owning, Early, Closing, Moves, Same, config
  <2>6. Cached(s)'
    BY <1>1, <1>2, <1>4, <2>1, <2>2
       DEF Safe, Shape, Memory, Cached, Holds, Unsettled, Owns, Owning, Early, Closing, Moves, Same, config
  <2>7. Owners(s)'
    BY <1>1, <1>2, <1>4, <2>1, <2>2
       DEF Safe, Shape, Cached, Owners, Owning, Early, Closing, Moves, Same
  <2>8. QED
    BY <2>3, <2>4, <2>5, <2>6, <2>7 DEF Safe
<1>5. QED
  BY <1>3, <1>4 DEF SetAltCheck, MayBeFound, Found, Described

\* The device takes the setting, or refuses it.
LEMMA SetAltCallSafe ==
  ASSUME NEW t \in Threads, NEW r \in ThreadType, NEW s \in ThreadType, Serves(t, r, s),
         SetAltCall(t)
  PROVE Safe(s)'
<1> USE DEF Serves
<1>1. r.pc = "alt_call" /\ r.op = "set_interface" /\ r.desc = None
  BY DEF Safe, Shape, Early, Closing, SetAltCall
<1>2. UNCHANGED <<config, pipes, bound, pool, open, granted>>
  BY DEF SetAltCall
<1>3. CASE Finish(t) /\ (device' = device \/ device' = Doubtful)
  BY <1>1, <1>2, <1>3, RestSafe DEF Unsettled
<1>4. /\ value # NoConfig /\ r.conf = value /\ Holds(value)
      /\ descriptor # None /\ pool[descriptor].config = value
  BY <1>1 DEF Safe, Cached, Unsettled
<1>5. CASE /\ r.intf \in InterfacesOf[r.conf] /\ Goto(t, "alt_set")
           /\ \/ device.config = r.conf /\ device' = [device EXCEPT !.alt[r.intf] = r.alt]
              \/ ~device.sure /\ UNCHANGED device
  <2>1. Moves(r, s, "alt_set")
    BY <1>5, GotoMoves
  <2>2. r.intf \in Interfaces
    BY <1>4, <1>5, ConfigAssumption DEF TypeOK, NoConfig
  <2>3. /\ device'.sure = device.sure
        /\ device.sure => /\ device'.config = device.config /\ device'.alt[r.intf] = r.alt
                          /\ \A i \in Interfaces \ {r.intf} : device'.alt[i] = device.alt[i]
    BY <1>5, <2>2 DEF TypeOK
  <2>4. \A i \in InterfacesOf[value] : i \in Interfaces
    BY <1>4, ConfigAssumption DEF TypeOK, NoConfig
  <2>5. /\ r.intf \in InterfacesOf[value] /\ handle = value
        /\ \A i \in Interfaces : pipes[i] # Invalid <=> i \in InterfacesOf[value]
        /\ device'.sure =>
             /\ device'.config = value /\ device'.alt[r.intf] = r.alt
             /\ \A i \in InterfacesOf[value] \ {r.intf} :
                  pipes[i] = [config |-> value, alt |-> device'.alt[i]]
    BY <1>4, <1>5, <2>3, <2>4 DEF Holds
  <2>6. Shape(s)'
    BY <1>1, <1>2, <1>4, <2>1, <2>5
       DEF Safe, Shape, Owning, Early, Closing, Moves, Same
  <2>7. Memory(s)'
    BY <1>1, <1>2, <1>4, <2>1, <2>5
       DEF Safe, Shape, Memory, Owns, Owning, Early, Closing, Moves, Same, config
  <2>8. Contents(s)'
    BY <1>1, <1>2, <1>4, <2>1, <2>5
       DEF Safe, Shape, Memory, Contents, Right, Owns, Owning, Early, Closing, Moves, Same, config
  <2>9. Cached(s)'
    BY <1>1, <1>2, <1>4, <2>1, <2>5
       DEF Safe, Shape, Memory, Cached, Holds, Unsettled, Owns, Owning, Early, Closing, Moves, Same, config
  <2>10. Owners(s)'
    BY <1>1, <1>2, <1>4, <2>1, <2>5
       DEF Safe, Shape, Cached, Owners, Owning, Early, Closing, Moves, Same
  <2>11. QED
    BY <2>6, <2>7, <2>8, <2>9, <2>10 DEF Safe
<1>6. QED
  BY <1>3, <1>5 DEF SetAltCall

\* The pipes of the setting.
LEMMA AltSetSafe ==
  ASSUME NEW t \in Threads, NEW r \in ThreadType, NEW s \in ThreadType, Serves(t, r, s),
         AltSet(t)
  PROVE Safe(s)'
<1> USE DEF Serves
<1>1. r.pc = "alt_set" /\ r.op = "set_interface" /\ r.desc = None
  BY DEF Safe, Shape, Early, Closing, AltSet
<1>2. s = Resting
  BY FinishRests DEF AltSet
<1>3. /\ value # NoConfig /\ r.conf = value /\ r.intf \in InterfacesOf[value]
      /\ handle = value /\ descriptor # None /\ pool[descriptor].config = value
      /\ \A i \in Interfaces : pipes[i] # Invalid <=> i \in InterfacesOf[value]
      /\ device.sure =>
           /\ device.config = value /\ device.alt[r.intf] = r.alt
           /\ \A i \in InterfacesOf[value] \ {r.intf} :
                pipes[i] = [config |-> value, alt |-> device.alt[i]]
  BY <1>1 DEF Safe, Cached
<1>4. r.intf \in Interfaces
  BY <1>3, ConfigAssumption DEF TypeOK, NoConfig
<1>5. /\ pipes'[r.intf] = [config |-> value, alt |-> r.alt] /\ pipes'[r.intf] # Invalid
      /\ \A i \in Interfaces \ {r.intf} : pipes'[i] = pipes[i]
      /\ UNCHANGED <<config, bound, pool, device, open, granted>>
  BY <1>3, <1>4 DEF TypeOK, Invalid, AltSet
<1>6. \A i \in InterfacesOf[value] : i \in Interfaces
  BY <1>3, ConfigAssumption DEF TypeOK, NoConfig
<1>7. Holds(value)'
  BY <1>3, <1>4, <1>5, <1>6 DEF Holds, config
<1>8. Shape(s)'
  BY <1>2, RestingFields, ConfigAssumption DEF Shape, Closing, Early, Owning
<1>9. Memory(s)'
  BY <1>1, <1>2, <1>5, RestingFields, Blocks, ConfigAssumption DEF Safe, Memory, Owns, config
<1>10. Contents(s)'
  BY <1>1, <1>2, <1>5, RestingFields, ConfigAssumption DEF Safe, Contents, Right, config
<1>11. Cached(s)'
  BY <1>2, <1>3, <1>5, <1>7, RestingFields DEF Cached, Unsettled, config
<1>12. Owners(s)'
  BY <1>2, <1>4, <1>5, RestingFields DEF Safe, Owners, Closing
<1>13. QED
  BY <1>8, <1>9, <1>10, <1>11, <1>12 DEF Safe

\* get_interface finds the interface, and asks the device.
LEMMA GetAltSafe ==
  ASSUME NEW t \in Threads, NEW r \in ThreadType, NEW s \in ThreadType, Serves(t, r, s),
         GetAltCheck(t) \/ GotAlt(t)
  PROVE Safe(s)'
<1> USE DEF Serves
<1>1. r.pc \in {"get_alt", "got_alt"} /\ r.op = "get_interface"
  BY DEF Safe, Shape, Early, Closing, GetAltCheck, GotAlt
<1>2. UNCHANGED <<config, pipes, bound, pool, device, open, granted>>
  BY DEF GetAltCheck, GotAlt
<1>3. CASE Finish(t)
  BY <1>1, <1>2, <1>3, RestSafe DEF Unsettled
<1>4. CASE /\ r.pc = "get_alt" /\ descriptor # None
           /\ th' = [th EXCEPT ![t].pc = "got_alt", ![t].desc = descriptor]
  <2>1. /\ s.pc = "got_alt" /\ Same(r, s) /\ s.conf = r.conf /\ s.found = r.found
        /\ s.late = r.late /\ s.desc = descriptor
    BY <1>4 DEF TypeOK, ThreadType, Same
  <2>2. Shape(s)'
    BY <1>1, <1>2, <1>4, <2>1
       DEF Safe, Shape, Owning, Early, Closing, Moves, Same
  <2>3. Memory(s)'
    BY <1>1, <1>2, <1>4, <2>1
       DEF Safe, Shape, Memory, Owns, Owning, Early, Closing, Moves, Same, config
  <2>4. Contents(s)'
    BY <1>1, <1>2, <1>4, <2>1
       DEF Safe, Shape, Memory, Contents, Right, Owns, Owning, Early, Closing, Moves, Same, config
  <2>5. Cached(s)'
    BY <1>1, <1>2, <1>4, <2>1
       DEF Safe, Shape, Memory, Cached, Holds, Unsettled, Owns, Owning, Early, Closing, Moves, Same, config
  <2>6. Owners(s)'
    BY <1>1, <1>2, <1>4, <2>1
       DEF Safe, Shape, Cached, Owners, Owning, Early, Closing, Moves, Same
  <2>7. QED
    BY <2>2, <2>3, <2>4, <2>5, <2>6 DEF Safe
<1>5. QED
  BY <1>3, <1>4 DEF GetAltCheck, GotAlt, MayBeFound, Found, Described

\* A claim finds a valid interface without an owner, a release one of its own.
LEMMA TestsSafe ==
  ASSUME NEW t \in Threads, NEW r \in ThreadType, NEW s \in ThreadType, Serves(t, r, s),
         ClaimCheck(t) \/ ReleaseCheck(t)
  PROVE Safe(s)'
<1> USE DEF Serves
<1>1. /\ r.pc \in {"claim", "release"} /\ r.desc = None
      /\ r.op = IF r.pc = "claim" THEN "claim_interface" ELSE "release_interface"
  BY DEF Safe, Shape, Early, Closing, ClaimCheck, ReleaseCheck
<1>2. UNCHANGED <<config, pipes, bound, pool, device, open, granted>>
  BY DEF ClaimCheck, ReleaseCheck
<1>3. CASE Finish(t)
  BY <1>1, <1>2, <1>3, RestSafe DEF Unsettled
<1>4. CASE Goto(t, "bind") /\ r.pc = "claim" /\ pipes[r.intf] # Invalid /\ bound[r.intf] = None
  <2>1. Moves(r, s, "bind")
    BY <1>4, GotoMoves
  <2>2. Shape(s)'
    BY <1>1, <1>2, <1>4, <2>1
       DEF Safe, Shape, Owning, Early, Closing, Moves, Same
  <2>3. Memory(s)'
    BY <1>1, <1>2, <1>4, <2>1
       DEF Safe, Shape, Memory, Owns, Owning, Early, Closing, Moves, Same, config
  <2>4. Contents(s)'
    BY <1>1, <1>2, <1>4, <2>1
       DEF Safe, Shape, Memory, Contents, Right, Owns, Owning, Early, Closing, Moves, Same, config
  <2>5. Cached(s)'
    BY <1>1, <1>2, <1>4, <2>1
       DEF Safe, Shape, Memory, Cached, Holds, Unsettled, Owns, Owning, Early, Closing, Moves, Same, config
  <2>6. Owners(s)'
    BY <1>1, <1>2, <1>4, <2>1
       DEF Safe, Shape, Cached, Owners, Owning, Early, Closing, Moves, Same
  <2>7. QED
    BY <2>2, <2>3, <2>4, <2>5, <2>6 DEF Safe
<1>5. CASE Goto(t, "unbind") /\ r.pc = "release" /\ bound[r.intf] = r.file
  <2>1. Moves(r, s, "unbind")
    BY <1>5, GotoMoves
  <2>2. Shape(s)'
    BY <1>1, <1>2, <1>5, <2>1
       DEF Safe, Shape, Owning, Early, Closing, Moves, Same
  <2>3. Memory(s)'
    BY <1>1, <1>2, <1>5, <2>1
       DEF Safe, Shape, Memory, Owns, Owning, Early, Closing, Moves, Same, config
  <2>4. Contents(s)'
    BY <1>1, <1>2, <1>5, <2>1
       DEF Safe, Shape, Memory, Contents, Right, Owns, Owning, Early, Closing, Moves, Same, config
  <2>5. Cached(s)'
    BY <1>1, <1>2, <1>5, <2>1
       DEF Safe, Shape, Memory, Cached, Holds, Unsettled, Owns, Owning, Early, Closing, Moves, Same, config
  <2>6. Owners(s)'
    BY <1>1, <1>2, <1>5, <2>1
       DEF Safe, Shape, Cached, Owners, Owning, Early, Closing, Moves, Same
  <2>7. QED
    BY <2>2, <2>3, <2>4, <2>5, <2>6 DEF Safe
<1>6. QED
  BY <1>3, <1>4, <1>5 DEF ClaimCheck, ReleaseCheck

\* The claim is granted.
LEMMA BindSafe ==
  ASSUME NEW t \in Threads, NEW r \in ThreadType, NEW s \in ThreadType, Serves(t, r, s),
         Bind(t), r.intf \in Interfaces, r.file \in open
  PROVE Safe(s)'
<1> USE DEF Serves
<1>1. r.pc = "bind" /\ r.op = "claim_interface" /\ r.desc = None
  BY DEF Safe, Shape, Early, Closing, Bind
<1>2. s = Resting
  BY FinishRests DEF Bind
<1>3. UNCHANGED <<config, pipes, pool, device, open>>
  BY DEF Bind
<1>4. /\ pipes[r.intf] # Invalid /\ bound[r.intf] = None
      /\ bound'[r.intf] = r.file
      /\ \A i \in Interfaces \ {r.intf} : bound'[i] = bound[i]
  BY <1>1 DEF Safe, Owners, TypeOK, Bind
<1>5. r.file # None
  BY ConfigAssumption DEF TypeOK
<1>6. \A f \in Files, i \in Interfaces :
        <<f, i>> \in granted' => f \in open /\ bound'[i] = f
  <2> SUFFICES ASSUME NEW f \in Files, NEW i \in Interfaces, <<f, i>> \in granted'
               PROVE  f \in open /\ bound'[i] = f
    OBVIOUS
  <2>1. CASE <<f, i>> \in granted
    <3>1. f \in open /\ bound[i] = f /\ f # None
      BY <2>1, ConfigAssumption DEF Safe, Owners
    <3>2. QED
      BY <1>4, <3>1
  <2>2. CASE f = r.file /\ i = r.intf
    BY <1>4, <2>2
  <2>3. QED
    BY <2>1, <2>2 DEF Bind
<1>7. Shape(s)'
  BY <1>2, RestingFields, ConfigAssumption DEF Shape, Closing, Early, Owning
<1>8. Memory(s)'
  BY <1>1, <1>2, <1>3, RestingFields, Blocks, ConfigAssumption DEF Safe, Memory, Owns, config
<1>9. Contents(s)'
  BY <1>1, <1>2, <1>3, RestingFields, ConfigAssumption DEF Safe, Contents, Right, config
<1>10. Cached(s)'
  BY <1>1, <1>2, <1>3, RestingFields, ConfigAssumption DEF Safe, Cached, Holds, Unsettled, config
<1>11. Owners(s)'
  BY <1>2, <1>3, <1>4, <1>5, <1>6, RestingFields DEF Safe, Owners, Closing
<1>12. QED
  BY <1>7, <1>8, <1>9, <1>10, <1>11 DEF Safe

\* An interface is given up.
LEMMA UnbindSafe ==
  ASSUME NEW t \in Threads, NEW r \in ThreadType, NEW s \in ThreadType, Serves(t, r, s),
         Unbind(t), r.intf \in Interfaces
  PROVE Safe(s)'
<1> USE DEF Serves
<1>1. r.pc = "unbind" /\ r.op = "release_interface" /\ r.desc = None
  BY DEF Safe, Shape, Early, Closing, Unbind
<1>2. s = Resting
  BY FinishRests DEF Unbind
<1>3. UNCHANGED <<config, pipes, pool, device, open>>
  BY DEF Unbind
<1>4. /\ bound[r.intf] = r.file /\ bound'[r.intf] = None
      /\ \A i \in Interfaces \ {r.intf} : bound'[i] = bound[i]
      /\ granted' = granted \ {<<r.file, r.intf>>}
  BY <1>1 DEF Safe, Owners, TypeOK, Unbind
<1>5. Shape(s)'
  BY <1>2, RestingFields, ConfigAssumption DEF Shape, Closing, Early, Owning
<1>6. Memory(s)'
  BY <1>1, <1>2, <1>3, RestingFields, Blocks, ConfigAssumption DEF Safe, Memory, Owns, config
<1>7. Contents(s)'
  BY <1>1, <1>2, <1>3, RestingFields, ConfigAssumption DEF Safe, Contents, Right, config
<1>8. Cached(s)'
  BY <1>1, <1>2, <1>3, RestingFields, ConfigAssumption DEF Safe, Cached, Holds, Unsettled, config
<1>9. Owners(s)'
  BY <1>2, <1>3, <1>4, RestingFields DEF Safe, Owners, Closing
<1>10. QED
  BY <1>5, <1>6, <1>7, <1>8, <1>9 DEF Safe

\* A close goes to the next interface.
LEMMA CloseTestSafe ==
  ASSUME NEW t \in Threads, NEW r \in ThreadType, NEW s \in ThreadType, Serves(t, r, s),
         CloseTest(t)
  PROVE Safe(s)'
<1> USE DEF Serves
<1>1. r.pc = "close" /\ r.op = None
  BY DEF Safe, Shape, Early, Closing, CloseTest
<1>2. r.conf = NoConfig /\ r.desc = None
  BY <1>1 DEF Safe, Shape, Early, Closing
<1>3. UNCHANGED <<config, pipes, bound, pool, device, open, granted>>
  BY DEF CloseTest
<1>4. CASE Finish(t)
  BY <1>1, <1>2, <1>3, <1>4, RestSafe DEF Unsettled
<1>5. CASE Goto(t, "close_unbind") /\ bound[r.intf] = r.file
  <2>1. Moves(r, s, "close_unbind")
    BY <1>5, GotoMoves
  <2>2. Shape(s)'
    BY <1>1, <1>2, <1>3, <1>5, <2>1
       DEF Safe, Shape, Owning, Early, Closing, Moves, Same
  <2>3. Memory(s)'
    BY <1>1, <1>2, <1>3, <1>5, <2>1
       DEF Safe, Shape, Memory, Owns, Owning, Early, Closing, Moves, Same, config
  <2>4. Contents(s)'
    BY <1>1, <1>2, <1>3, <1>5, <2>1
       DEF Safe, Shape, Memory, Contents, Right, Owns, Owning, Early, Closing, Moves, Same, config
  <2>5. Cached(s)'
    BY <1>1, <1>2, <1>3, <1>5, <2>1
       DEF Safe, Shape, Memory, Cached, Holds, Unsettled, Owns, Owning, Early, Closing, Moves, Same, config
  <2>6. Owners(s)'
    BY <1>1, <1>2, <1>3, <1>5, <2>1
       DEF Safe, Shape, Cached, Owners, Owning, Early, Closing, Moves, Same
  <2>7. QED
    BY <2>2, <2>3, <2>4, <2>5, <2>6 DEF Safe
<1>6. CASE th' = [th EXCEPT ![t].intf = r.intf + 1]
  <2>1. /\ s.pc = "close" /\ s.op = r.op /\ s.file = r.file /\ s.conf = r.conf /\ s.desc = r.desc
        /\ s.found = r.found /\ s.late = r.late /\ s.form = r.form /\ s.asked = r.asked
    BY <1>1, <1>6 DEF TypeOK, ThreadType
  <2>2. Shape(s)'
    BY <1>1, <1>2, <1>3, <2>1
       DEF Safe, Shape, Owning, Early, Closing, Moves, Same
  <2>3. Memory(s)'
    BY <1>1, <1>2, <1>3, <2>1
       DEF Safe, Shape, Memory, Owns, Owning, Early, Closing, Moves, Same, config
  <2>4. Contents(s)'
    BY <1>1, <1>2, <1>3, <2>1
       DEF Safe, Shape, Memory, Contents, Right, Owns, Owning, Early, Closing, Moves, Same, config
  <2>5. Cached(s)'
    BY <1>1, <1>2, <1>3, <2>1
       DEF Safe, Shape, Memory, Cached, Holds, Unsettled, Owns, Owning, Early, Closing, Moves, Same, config
  <2>6. Owners(s)'
    BY <1>1, <1>2, <1>3, <2>1
       DEF Safe, Shape, Cached, Owners, Owning, Early, Closing, Moves, Same
  <2>7. QED
    BY <2>2, <2>3, <2>4, <2>5, <2>6 DEF Safe
<1>7. QED
  BY <1>4, <1>5, <1>6 DEF CloseTest

\* An interface of the closed file is free.
LEMMA CloseUnbindSafe ==
  ASSUME NEW t \in Threads, NEW r \in ThreadType, NEW s \in ThreadType, Serves(t, r, s),
         CloseUnbind(t), r.intf \in Interfaces
  PROVE Safe(s)'
<1> USE DEF Serves
<1>1. r.pc = "close_unbind" /\ r.op = None
  BY DEF Safe, Shape, Early, Closing, CloseUnbind
<1>2. r.conf = NoConfig /\ r.desc = None
  BY <1>1 DEF Safe, Shape, Early, Closing
<1>3. /\ s.pc = "close" /\ s.op = r.op /\ s.file = r.file /\ s.conf = r.conf /\ s.desc = r.desc
      /\ s.found = r.found /\ s.late = r.late /\ s.form = r.form /\ s.asked = r.asked
  BY DEF TypeOK, ThreadType, CloseUnbind
<1>4. UNCHANGED <<config, pipes, pool, device, open, granted>>
  BY DEF CloseUnbind
<1>5. /\ bound[r.intf] = r.file /\ r.file \notin open /\ bound'[r.intf] = None
      /\ \A i \in Interfaces \ {r.intf} : bound'[i] = bound[i]
  BY <1>1 DEF Safe, Owners, TypeOK, Closing, CloseUnbind
<1>6. Shape(s)'
  BY <1>1, <1>2, <1>3, <1>4
     DEF Safe, Shape, Owning, Early, Closing, Moves, Same
<1>7. Memory(s)'
  BY <1>1, <1>2, <1>3, <1>4
     DEF Safe, Shape, Memory, Owns, Owning, Early, Closing, Moves, Same, config
<1>8. Contents(s)'
  BY <1>1, <1>2, <1>3, <1>4
     DEF Safe, Shape, Memory, Contents, Right, Owns, Owning, Early, Closing, Moves, Same, config
<1>9. Cached(s)'
  BY <1>1, <1>2, <1>3, <1>4, <1>5
     DEF Safe, Shape, Memory, Cached, Holds, Unsettled, Owns, Owning, Early, Closing, Moves, Same, config
<1>10. Owners(s)'
  BY <1>1, <1>3, <1>4, <1>5
     DEF Safe, Shape, Cached, Owners, Owning, Early, Closing, Moves, Same
<1>11. QED
  BY <1>6, <1>7, <1>8, <1>9, <1>10 DEF Safe

-----------------------------------------------------------------------------
(* The step of one thread while the others rest.                           *)

\* A thread that takes a step leaves the others alone.
LEMMA OthersRest ==
  ASSUME TypeOK, OneAtATime, NEW t \in Threads, ConfigStep(t) \/ InterfaceStep(t)
  PROVE  th[t].pc # "idle" /\ \A u \in Threads : u # t => th[u].pc = "idle" /\ th'[u] = th[u]
<1>1. th[t].pc # "idle" /\ \E r : th' = [th EXCEPT ![t] = r]
  <2>1. CASE ConfigStep(t)
    BY <2>1 DEF ConfigStep, SetConfigCheck, Unconfigure, TimedOut, Lookup, Fetch, Cache, Compare,
       Select, Selected, UpdatePipes, FreeOld, Assign, Reset, CyclePort, Fail, GoOn, Goto, Finish
  <2>2. CASE InterfaceStep(t)
    BY <2>2 DEF InterfaceStep, SetAltCheck, SetAltCall, AltSet, GetAltCheck, GotAlt, ClaimCheck,
       Bind, ReleaseCheck, Unbind, CloseTest, CloseUnbind, Goto, Finish
  <2>3. QED
    BY <2>1, <2>2
<1>2. QED
  BY <1>1 DEF OneAtATime, TypeOK

LEMMA StepKeepsSerial ==
  ASSUME IInv, IInv', SerialInv, OneAtATime, NEW t \in Threads, ConfigStep(t) \/ InterfaceStep(t)
  PROVE  SerialInv'
<1>1. PICK r \in ThreadType, s \in ThreadType : r = th[t] /\ s = th'[t]
  BY DEF IInv, TypeOK
<1>2. r.pc # "idle" /\ \A u \in Threads : u # t => th[u].pc = "idle" /\ th'[u] = th[u]
  BY <1>1, OthersRest DEF IInv
<1>3. Serves(t, r, s)
  BY <1>1, <1>2 DEF IInv, SerialInv, Serves
<1>4. r.pc # "close" => r.intf \in Interfaces
  BY <1>1 DEF IInv, ThreadInv, OnInterfaces
<1>5. r.pc \notin Closing => r.file \in open
  BY <1>1, <1>2 DEF IInv, ThreadInv, RequestsOnOpenFiles
<1>6. Safe(s)'
  <2>1. CASE ConfigStep(t)
    BY <1>3, <2>1, SetConfigCheckSafe, UnconfigureSafe, TimedOutSafe, LookupSafe, FetchSafe,
       CacheKeepsSafe, CompareSafe, SelectSafe, SelectedSafe, UpdatePipesSafe, FreeOldSafe,
       AssignSafe, ResetSafe, CyclePortSafe
       DEF ConfigStep
  <2>2. CASE Bind(t) \/ Unbind(t) \/ CloseUnbind(t)
    <3>1. r.intf \in Interfaces /\ (Bind(t) => r.file \in open)
      BY <1>1, <1>4, <1>5, <2>2 DEF Bind, Unbind, CloseUnbind, Closing
    <3>2. QED
      BY <1>3, <2>2, <3>1, BindSafe, UnbindSafe, CloseUnbindSafe
  <2>3. CASE \/ SetAltCheck(t) \/ SetAltCall(t) \/ AltSet(t) \/ GetAltCheck(t) \/ GotAlt(t)
             \/ ClaimCheck(t) \/ ReleaseCheck(t) \/ CloseTest(t)
    BY <1>3, <2>3, SetAltCheckSafe, SetAltCallSafe, AltSetSafe, GetAltSafe, TestsSafe, CloseTestSafe
  <2>4. QED
    BY <2>1, <2>2, <2>3 DEF InterfaceStep
<1>7. s.pc = "idle" => s = Resting
  BY <1>6 DEF Safe, Shape
<1>8. \A u \in Threads : u # t => th'[u] = Resting
  BY <1>2 DEF SerialInv
<1>9. QED
  BY <1>1, <1>6, <1>7, <1>8, RestingFields DEF SerialInv, Quiet

\* A request begins when no other is under way.
LEMMA BeginSafe ==
  ASSUME TypeOK, TypeOK', Safe(Resting), NEW t \in Threads, NEW s \in ThreadType, s = th'[t],
         NEW op \in Requests, NEW f \in open, NEW c \in Configs \union {NoConfig},
         NEW form, NEW i \in Interfaces, NEW a \in Alts, Begin(t, op, f, c, form, i, a),
         op = "get_descriptor" => c # NoConfig, op = "reset_device" => c = NoConfig
  PROVE  Safe(s)'
<1> DEFINE pc == CASE op = "set_configuration" -> "set_config"
                   [] op = "get_descriptor" -> "lookup"
                   [] op = "set_interface" -> "set_alt"
                   [] op = "get_interface" -> "get_alt"
                   [] op = "claim_interface" -> "claim"
                   [] op = "release_interface" -> "release"
                   [] op = "reset_device" -> "reset"
<1>1. /\ s.pc = pc /\ s.op = op /\ s.file = f /\ s.conf = c /\ s.found = c /\ s.asked = c
      /\ s.intf = i /\ s.alt = a /\ s.desc = None
  BY DEF Begin, TypeOK
<1>2. \/ op = "set_configuration" /\ pc = "set_config"
      \/ op = "get_descriptor" /\ pc = "lookup"
      \/ op = "set_interface" /\ pc = "set_alt"
      \/ op = "get_interface" /\ pc = "get_alt"
      \/ op = "claim_interface" /\ pc = "claim"
      \/ op = "release_interface" /\ pc = "release"
      \/ op = "reset_device" /\ pc = "reset"
  BY DEF Requests
<1> HIDE DEF pc
<1>3. UNCHANGED <<config, pipes, bound, pool, device, open, granted>>
  BY DEF Begin
<1>4. Shape(s)'
  BY <1>1, <1>2 DEF Shape, Owning, Early, Closing
<1>5. Memory(s)'
  BY <1>1, <1>2, <1>3, RestingFields, Blocks DEF Safe, Memory, Owns, config
<1>6. Contents(s)'
  BY <1>1, <1>2, <1>3, RestingFields, Blocks DEF Safe, Contents, Right, config
<1>7. Cached(s)'
  BY <1>1, <1>2, <1>3, RestingFields DEF Safe, Cached, Holds, Unsettled, config
<1>8. Owners(s)'
  BY <1>1, <1>2, <1>3, RestingFields DEF Safe, Owners, Closing
<1>9. QED
  BY <1>4, <1>5, <1>6, <1>7, <1>8 DEF Safe

LEMMA RequestKeepsSerial ==
  ASSUME IInv, IInv', SerialInv, OneAtATime', NEW t \in Threads, Request(t)
  PROVE  SerialInv'
<1> USE InterfaceFacts, ConfigAssumption
<1>1. TypeOK /\ TypeOK'
  BY DEF IInv
<1>2. PICK f \in open :
    \/ \E c \in Configs \union {NoConfig}, form \in {"value", "index", "active"} :
         Begin(t, "set_configuration", f, c, form, AnyInterface, 0)
    \/ \E c \in Configs : Begin(t, "get_descriptor", f, c, "index", AnyInterface, 0)
    \/ \E i \in Interfaces, a \in Alts :
         Begin(t, "set_interface", f, NoConfig, "value", i, a)
    \/ \E i \in Interfaces, op \in {"get_interface", "claim_interface", "release_interface"} :
         Begin(t, op, f, NoConfig, "value", i, 0)
    \/ Begin(t, "reset_device", f, NoConfig, "value", AnyInterface, 0)
  BY DEF Request
<1>3. PICK op \in Requests, c \in Configs \union {NoConfig}, form \in {"value", "index", "active"},
           i \in Interfaces, a \in Alts :
        /\ Begin(t, op, f, c, form, i, a)
        /\ op = "get_descriptor" => c # NoConfig
        /\ op = "reset_device" => c = NoConfig
  <2>1. \A c \in Configs : c # NoConfig
    BY DEF NoConfig
  <2>2. CASE \E c \in Configs \union {NoConfig}, form \in {"value", "index", "active"} :
               Begin(t, "set_configuration", f, c, form, AnyInterface, 0)
    BY <2>2 DEF Requests
  <2>3. CASE \E c \in Configs : Begin(t, "get_descriptor", f, c, "index", AnyInterface, 0)
    BY <2>1, <2>3 DEF Requests
  <2>4. CASE \E i \in Interfaces, a \in Alts :
               Begin(t, "set_interface", f, NoConfig, "value", i, a)
    BY <2>4 DEF Requests
  <2>5. CASE \E i \in Interfaces, op \in {"get_interface", "claim_interface", "release_interface"} :
               Begin(t, op, f, NoConfig, "value", i, 0)
    <3>1. PICK i \in Interfaces, op \in {"get_interface", "claim_interface", "release_interface"} :
            Begin(t, op, f, NoConfig, "value", i, 0)
      BY <2>5
    <3>2. op \in Requests /\ op # "get_descriptor" /\ op # "reset_device"
      BY DEF Requests
    <3>3. QED
      BY <3>1, <3>2
  <2>6. CASE Begin(t, "reset_device", f, NoConfig, "value", AnyInterface, 0)
    BY <2>6 DEF Requests
  <2>7. QED
    BY <1>2, <2>2, <2>3, <2>4, <2>5, <2>6
<1>4. PICK s \in ThreadType : s = th'[t]
  BY <1>1 DEF TypeOK
<1>5. th[t].pc = "idle" /\ s.pc # "idle" /\ \A u \in Threads : u # t => th'[u] = th[u]
  BY <1>1, <1>3, <1>4 DEF Begin, TypeOK, Requests
<1>6. \A u \in Threads : u # t => th[u].pc = "idle"
  BY <1>4, <1>5 DEF OneAtATime
<1>7. Safe(Resting)
  BY <1>5, <1>6 DEF SerialInv, Quiet
<1>8. Safe(s)'
  BY <1>1, <1>3, <1>4, <1>7, BeginSafe
<1>9. QED
  BY <1>4, <1>5, <1>6, <1>8 DEF SerialInv, Quiet

\* A new file changes nothing for the request that is under way.
LEMMA CreateKeepsSerial ==
  ASSUME SerialInv, NEW f \in Files, Create(f)
  PROVE  SerialInv'
<1>1. UNCHANGED <<config, pipes, bound, pool, device, granted, th>> /\ open' = open \union {f}
  BY DEF Create
<1>2. ASSUME NEW r, Safe(r), r.file # f PROVE Safe(r)'
  <2>1. Shape(r)' /\ Memory(r)'
    BY <1>1, <1>2 DEF Safe, Shape, Memory, Owns, Owning, Early, Closing, config
  <2>2. Contents(r)' /\ Cached(r)'
    BY <1>1, <1>2 DEF Safe, Contents, Right, Cached, Holds, Unsettled, config
  <2>3. Owners(r)'
    BY <1>1, <1>2 DEF Safe, Owners, Closing
  <2>4. QED
    BY <2>1, <2>2, <2>3 DEF Safe
<1>3. \A t \in Threads : th[t].file # f
  BY DEF Create
<1>4. QED
  BY <1>1, <1>2, <1>3, RestingFields, ConfigAssumption DEF SerialInv, Quiet

LEMMA CloseKeepsSerial ==
  ASSUME IInv, IInv', SerialInv, OneAtATime', NEW t \in Threads, NEW f \in Files, Close(t, f)
  PROVE  SerialInv'
<1>1. TypeOK /\ TypeOK' /\ th[t].pc = "idle"
  BY DEF IInv, Close
<1>2. PICK s \in ThreadType : s = th'[t]
  BY <1>1 DEF TypeOK
<1>3. /\ s.pc = "close" /\ s.file = f /\ s.op = None /\ s.conf = NoConfig /\ s.found = NoConfig
      /\ s.desc = None
      /\ \A u \in Threads : u # t => th'[u] = th[u]
  BY <1>1, <1>2 DEF Close, TypeOK, Resting
<1>4. /\ UNCHANGED <<config, pipes, bound, pool, device>> /\ open' = open \ {f}
      /\ \A g \in Files, i \in Interfaces :
           <<g, i>> \in granted' => g # f /\ <<g, i>> \in granted
  BY DEF Close
<1>5. \A u \in Threads : u # t => th[u].pc = "idle"
  BY <1>2, <1>3 DEF OneAtATime
<1>6. Safe(Resting)
  BY <1>1, <1>5 DEF SerialInv, Quiet
<1>7. Safe(s)'
  <2>1. Shape(s)'
    BY <1>3, ConfigAssumption DEF Shape, Owning, Early, Closing
  <2>2. Memory(s)'
    BY <1>3, <1>4, <1>6, RestingFields, Blocks DEF Safe, Memory, Owns, config
  <2>3. Contents(s)'
    BY <1>3, <1>4, <1>6, RestingFields, Blocks DEF Safe, Contents, Right, config
  <2>4. Cached(s)'
    BY <1>3, <1>4, <1>6, RestingFields DEF Safe, Cached, Holds, Unsettled, config
  <2>5. Owners(s)'
    BY <1>1, <1>3, <1>4, <1>6, RestingFields DEF Safe, Owners, Closing, TypeOK
  <2>6. QED
    BY <2>1, <2>2, <2>3, <2>4, <2>5 DEF Safe
<1>8. QED
  BY <1>2, <1>3, <1>5, <1>7 DEF SerialInv, Quiet

\* With nothing configured all is well.
LEMMA InitSerial == Init => SerialInv
<1> SUFFICES ASSUME Init PROVE SerialInv
  OBVIOUS
<1>1. Safe(Resting)
  <2>1. Shape(Resting)
    BY RestingFields DEF Shape, Owning, Early, Closing
  <2>2. Memory(Resting) /\ Contents(Resting)
    BY RestingFields, Blocks DEF Init, Memory, Contents, Owns
  <2>3. Cached(Resting) /\ Owners(Resting)
    BY RestingFields DEF Init, Cached, Owners, Unsettled, Closing
  <2>4. QED
    BY <2>1, <2>2, <2>3 DEF Safe
<1>2. QED
  BY <1>1, RestingFields DEF SerialInv, Init

\* The invariant of requests that do not overlap is inductive.
LEMMA NextSerial ==
  ASSUME IInv, IInv', SerialInv, OneAtATime, OneAtATime', [Next]_vars
  PROVE  SerialInv'
<1>1. CASE \E f \in Files : Create(f)
  BY <1>1, CreateKeepsSerial
<1>2. CASE \E t \in Threads : Request(t)
  BY <1>2, RequestKeepsSerial
<1>3. CASE \E t \in Threads : ConfigStep(t) \/ InterfaceStep(t)
  BY <1>3, StepKeepsSerial
<1>4. CASE \E t \in Threads, f \in Files : Close(t, f)
  BY <1>4, CloseKeepsSerial
<1>5. CASE UNCHANGED vars
  <2>1. UNCHANGED <<value, index, descriptor, handle, pipes, bound, pool, device, open, granted, th>>
    BY <1>5 DEF vars, config
  <2>2. ASSUME NEW r, Safe(r) PROVE Safe(r)'
    <3>1. Shape(r)' /\ Memory(r)'
      BY <2>1, <2>2 DEF Safe, Shape, Memory, Owns
    <3>2. Contents(r)' /\ Cached(r)'
      BY <2>1, <2>2 DEF Safe, Contents, Right, Cached, Holds
    <3>3. Owners(r)'
      BY <2>1, <2>2 DEF Safe, Owners
    <3>4. QED
      BY <3>1, <3>2, <3>3 DEF Safe
  <2>3. QED
    BY <2>1, <2>2 DEF SerialInv, Quiet
<1>6. QED
  BY <1>1, <1>2, <1>3, <1>4, <1>5 DEF Next

\* The invariant holds as long as requests do not overlap.
THEOREM SerialInvariant == Spec /\ []OneAtATime => []SerialInv
<1>1. IInv /\ IInv' /\ SerialInv /\ OneAtATime /\ OneAtATime' /\ [Next]_vars => SerialInv'
  BY NextSerial
<1>2. QED
  BY <1>1, InitSerial, Invariant, PTL DEF Spec

\* Descriptors are not used after they were freed, not freed twice and not
\* leaked, on any path through any sequence of requests, for any device.
\* Requests that overlap break this: no ioctl takes a lock.
THEOREM MemoryCorrect == Spec /\ []OneAtATime => []MemorySafe
<1>1. TypeOK /\ SerialInv => MemorySafe
  <2> SUFFICES ASSUME TypeOK, SerialInv PROVE MemorySafe
    OBVIOUS
  <2>1. UsesLive
    <3> SUFFICES ASSUME NEW t \in Threads, th[t].pc # "idle"
                 PROVE  /\ /\ th[t].pc \in {"lookup", "set_alt", "get_alt", "free_old"}
                           /\ descriptor # None
                           => pool[descriptor] # Unused
                        /\ th[t].pc = "got_alt" => pool[th[t].desc] # Unused
      BY DEF UsesLive
    <3>1. Memory(th[t]) /\ descriptor \in Pool \union {None}
      BY DEF SerialInv, Safe, TypeOK
    <3>2. QED
      BY <3>1 DEF Memory
  <2>2. NothingLeaked
    <3> SUFFICES ASSUME Quiet PROVE {a \in Pool : pool[a] # Unused} = {descriptor} \ {None}
      BY DEF NothingLeaked
    <3>1. Memory(Resting) /\ descriptor \in Pool \union {None}
      BY DEF SerialInv, Safe, TypeOK
    <3>2. \A a \in Pool : pool[a] # Unused <=> a = descriptor
      BY <3>1, RestingFields, Blocks DEF Memory, Owns
    <3>3. QED
      BY <3>1, <3>2, Blocks
  <2>3. QED
    BY <2>1, <2>2 DEF MemorySafe
<1>2. QED
  BY <1>1, TypeCorrect, SerialInvariant, PTL

\* Between requests the cached configuration has a handle, a descriptor and pipes
\* of its own, and is the device's with the settings that are selected, unless a
\* request that timed out left open what the device has; and only valid interfaces
\* are bound.  So it is whichever requests have failed half way, timed out with a
\* status of success, or reset the device and cycled its port, for any device.
THEOREM CacheCorrect == Spec /\ []OneAtATime => []CacheSafe
<1>1. SerialInv => CacheSafe
  <2>1. SerialInv /\ Quiet => Contents(Resting) /\ Cached(Resting) /\ Owners(Resting)
    BY DEF SerialInv, Safe
  <2>2. SerialInv => CacheAgrees
    BY <2>1, RestingFields DEF CacheAgrees, Contents, Right, Cached, Holds, Unsettled
  <2>3. SerialInv => BoundIsValid
    BY <2>1 DEF BoundIsValid, Owners
  <2>4. QED
    BY <2>2, <2>3 DEF CacheSafe
<1>2. QED
  BY <1>1, SerialInvariant, PTL

-----------------------------------------------------------------------------
(* Claims.                                                                 *)

Claimants == [i \in Interfaces |-> {f \in Files : <<f, i>> \in granted}]

\* A file that claims an interface has been granted it alone; the steps that
\* change what is granted are those of the abstract owner.
LEMMA StepImplementsClaims ==
  ASSUME IInv, SerialInv, OneAtATime, [Next]_vars
  PROVE  C!Next \/ UNCHANGED Claimants
<1>1. \A f \in Files, i \in Interfaces : C!Grant(f, i) \/ C!GiveUp(f, i) => C!Next
  BY DEF C!Next
<1>2. ASSUME NEW f \in Files, NEW t \in Threads, Close(t, f) PROVE C!Next
  <2>1. granted' = {g \in granted : g[1] # f}
    BY <1>2 DEF Close
  <2>2. \A i \in Interfaces :
          {g \in Files : <<g, i>> \in granted'} = {g \in Files : <<g, i>> \in granted} \ {f}
    BY <2>1
  <2>3. C!GiveUpAll(f)
    BY <2>2 DEF C!GiveUpAll
  <2>4. QED
    BY <2>3 DEF C!Next
<1>3. ASSUME NEW t \in Threads, Selected(t) PROVE C!Next
  <2>1. granted' = {}
    BY <1>3 DEF Selected
  <2>2. C!Reconfigure
    BY <2>1 DEF C!Reconfigure
  <2>3. QED
    BY <2>2 DEF C!Next
<1>4. ASSUME NEW t \in Threads, Bind(t) PROVE C!Next
  <2>1. PICK f \in Files, j \in Interfaces : f = th[t].file /\ j = th[t].intf
    BY <1>4 DEF Bind, IInv, TypeOK, ThreadInv, RequestsOnOpenFiles, OnInterfaces, Closing
  <2>2. \A g \in Files : <<g, j>> \notin granted
    <3>1. Owners(th[t]) /\ bound[j] = None
      BY <1>4, <2>1 DEF Bind, SerialInv, Safe, Owners
    <3>2. \A g \in Files : <<g, j>> \in granted => bound[j] = g
      BY <3>1 DEF Owners
    <3>3. QED
      BY <3>1, <3>2, ConfigAssumption
  <2>3. granted' = granted \union {<<f, j>>}
    BY <1>4, <2>1 DEF Bind
  <2>4. C!Grant(f, j)
    <3>1. {g \in Files : <<g, j>> \in granted} = {}
      BY <2>2
    <3>2. \A i \in Interfaces : {g \in Files : <<g, i>> \in granted'} =
            IF i = j THEN {f} ELSE {g \in Files : <<g, i>> \in granted}
      BY <2>1, <2>2, <2>3
    <3>3. QED
      BY <2>1, <3>1, <3>2 DEF C!Grant
  <2>5. QED
    BY <1>1, <2>4
<1>5. ASSUME NEW t \in Threads, Unbind(t) PROVE C!Next \/ UNCHANGED Claimants
  <2>1. PICK f \in Files, j \in Interfaces : f = th[t].file /\ j = th[t].intf
    BY <1>5 DEF Unbind, IInv, TypeOK, ThreadInv, RequestsOnOpenFiles, OnInterfaces, Closing
  <2>2. \A g \in Files : <<g, j>> \in granted => g = f
    <3>1. Owners(th[t]) /\ bound[j] = f
      BY <1>5, <2>1 DEF Unbind, SerialInv, Safe, Owners
    <3>2. QED
      BY <2>1, <3>1 DEF Owners
  <2>3. granted' = granted \ {<<f, j>>}
    BY <1>5, <2>1 DEF Unbind
  <2>4. CASE <<f, j>> \in granted
    <3>1. {g \in Files : <<g, j>> \in granted} = {f}
      BY <2>1, <2>2, <2>4
    <3>2. \A i \in Interfaces : {g \in Files : <<g, i>> \in granted'} =
            IF i = j THEN {} ELSE {g \in Files : <<g, i>> \in granted}
      BY <2>1, <2>2, <2>3
    <3>3. C!GiveUp(f, j)
      BY <2>1, <3>1, <3>2 DEF C!GiveUp
    <3>4. QED
      BY <1>1, <3>3
  <2>5. CASE <<f, j>> \notin granted
    <3>1. granted' = granted
      BY <2>3, <2>5
    <3>2. QED
      BY <3>1 DEF Claimants
  <2>6. QED
    BY <2>4, <2>5
<1>6. CASE UNCHANGED granted
  BY <1>6 DEF Claimants
<1>7. ASSUME NEW t \in Threads, ConfigStep(t) \/ InterfaceStep(t)
      PROVE  UNCHANGED granted \/ Selected(t) \/ Bind(t) \/ Unbind(t)
  BY <1>7 DEF ConfigStep, InterfaceStep, SetConfigCheck, Unconfigure, TimedOut, Lookup, Fetch,
     Cache, Compare, Select, UpdatePipes, FreeOld, Assign, Reset, CyclePort, SetAltCheck, SetAltCall,
     AltSet, GetAltCheck, GotAlt, ClaimCheck, ReleaseCheck, CloseTest, CloseUnbind
<1>8. \A t \in Threads : Request(t) => UNCHANGED granted
  BY DEF Request, Begin
<1>9. \A f \in Files : Create(f) => UNCHANGED granted
  BY DEF Create
<1>10. UNCHANGED vars => UNCHANGED granted
  BY DEF vars
<1>11. QED
  BY <1>2, <1>3, <1>4, <1>5, <1>6, <1>7, <1>8, <1>9, <1>10 DEF Next

\* usb_claim_interface: as long as requests do not overlap, the driver is an
\* exclusive owner of each interface, who keeps it until it is given up, its
\* file is closed or the device is configured anew.
THEOREM ClaimsRefinement == Spec /\ []OneAtATime => ImplementsClaims
<1>1. Init => C!Init
  BY DEF Init, C!Init
<1>2. IInv /\ SerialInv /\ OneAtATime /\ [Next]_vars => [C!Next]_Claimants
  BY StepImplementsClaims
<1>3. Spec /\ []OneAtATime => C!Spec
  BY <1>1, <1>2, Invariant, SerialInvariant, PTL DEF Spec, C!Spec, Claimants
<1>4. QED
  BY <1>3 DEF ImplementsClaims

\* usb_claim_interface, -EBUSY: then two files never both hold a claim on an
\* interface.  Two claims that overlap can.
THEOREM ClaimsExclusive == Spec /\ []OneAtATime => []ExclusiveClaim
<1>1. IInv /\ SerialInv => ExclusiveClaim
  <2> SUFFICES ASSUME IInv, SerialInv, NEW i \in Interfaces
               PROVE  Cardinality({f \in Files : <<f, i>> \in granted}) <= 1
    BY DEF ExclusiveClaim
  <2>1. \A f \in Files : <<f, i>> \in granted => bound[i] = f
    <3>1. \E r : Owners(r)
      BY DEF SerialInv, Safe, Quiet
    <3>2. QED
      BY <3>1 DEF Owners
  <2> DEFINE holders == {f \in Files : <<f, i>> \in granted}
  <2>2. holders = {} \/ holders = {bound[i]}
    BY <2>1
  <2> HIDE DEF holders
  <2>3. Cardinality(holders) = 0 \/ Cardinality(holders) = 1
    BY <2>2, FS_EmptySet, FS_Singleton
  <2>4. QED
    BY <2>3 DEF holders
<1>2. QED
  BY <1>1, Invariant, SerialInvariant, PTL

-----------------------------------------------------------------------------
(* What is claimed.                                                        *)

\* An open file that an interface is bound to has been granted it.
BoundIsGranted == \A i \in Interfaces : bound[i] \in open => <<bound[i], i>> \in granted

LEMMA NextBoundIsGranted ==
  ASSUME IInv, BoundIsGranted, [Next]_vars
  PROVE  BoundIsGranted'
<1> USE DEF BoundIsGranted
<1>1. TypeOK
  BY DEF IInv
<1>2. ASSUME NEW f \in Files, Create(f) PROVE BoundIsGranted'
  <2>1. \A i \in Interfaces : bound[i] = f => bound[i] # None /\ bound[i] \notin open
    BY <1>2, ConfigAssumption DEF Create
  <2>2. \A i \in Interfaces : bound[i] # f
    BY <1>2, <2>1 DEF Create, IInv, ClosedFilesHoldNothing
  <2>3. QED
    BY <1>2, <2>2 DEF Create
<1>3. ASSUME NEW t \in Threads, NEW f \in Files, Close(t, f) PROVE BoundIsGranted'
  BY <1>3 DEF Close
<1>4. ASSUME NEW t \in Threads, Request(t) PROVE BoundIsGranted'
  BY <1>4 DEF Request, Begin
<1>5. ASSUME NEW t \in Threads, ConfigStep(t) PROVE BoundIsGranted'
  <2>1. CASE Selected(t)
    BY <1>1, <2>1, ConfigAssumption DEF Selected, TypeOK
  <2>2. CASE ~Selected(t)
    BY <1>5, <2>2 DEF ConfigStep, SetConfigCheck, Unconfigure, TimedOut, Lookup, Fetch, Cache,
       Compare, Select, UpdatePipes, FreeOld, Assign, Reset, CyclePort
  <2>3. QED
    BY <2>1, <2>2
<1>6. ASSUME NEW t \in Threads, InterfaceStep(t) PROVE BoundIsGranted'
  <2>1. CASE Bind(t)
    BY <1>1, <2>1 DEF Bind, TypeOK
  <2>2. CASE Unbind(t) \/ CloseUnbind(t)
    <3>1. \A i \in Interfaces : bound'[i] \in open =>
            i # th[t].intf /\ bound'[i] = bound[i]
      BY <1>1, <2>2, ConfigAssumption DEF Unbind, CloseUnbind, TypeOK
    <3>2. QED
      BY <2>2, <3>1 DEF Unbind, CloseUnbind
  <2>3. CASE ~Bind(t) /\ ~Unbind(t) /\ ~CloseUnbind(t)
    BY <1>6, <2>3 DEF InterfaceStep, SetAltCheck, SetAltCall, AltSet, GetAltCheck, GotAlt, ClaimCheck,
       ReleaseCheck, CloseTest
  <2>4. QED
    BY <2>1, <2>2, <2>3
<1>7. CASE UNCHANGED vars
  BY <1>7 DEF vars
<1>8. QED
  BY <1>2, <1>3, <1>4, <1>5, <1>6, <1>7 DEF Next

LEMMA InitBoundIsGranted == Init => BoundIsGranted
  BY DEF Init, BoundIsGranted

\* A step ends a request or leaves what it is.
Stays(r, s) ==
  \/ s = Resting
  \/ /\ s.file = r.file /\ s.op = r.op /\ s.form = r.form
     /\ s.pc \in Closing <=> r.pc \in Closing
     /\ s.pc \notin Closing => s.intf = r.intf

LEMMA StepStays ==
  ASSUME TypeOK, NEW t \in Threads, ConfigStep(t) \/ InterfaceStep(t)
  PROVE  Stays(th[t], th'[t])
<1>1. th \in [Threads -> ThreadType] /\ th[t] \in ThreadType
  BY DEF TypeOK
<1>2. Finish(t) => th'[t] = Resting
  BY <1>1 DEF Finish
<1>3. ASSUME NEW step, Goto(t, step), step \in Closing <=> th[t].pc \in Closing
      PROVE  Stays(th[t], th'[t])
  BY <1>1, <1>3 DEF Goto, Stays, ThreadType
<1>4. CASE \/ Unconfigure(t) \/ TimedOut(t) \/ Select(t) \/ Selected(t) \/ UpdatePipes(t)
           \/ FreeOld(t) \/ Assign(t) \/ Reset(t) \/ CyclePort(t)
  <2>1. \/ Finish(t)
        \/ /\ th[t].pc \notin Closing
           /\ \E step \in {"timed_out", "selected", "pipes", "free_old", "assign", "cycle"} :
                Goto(t, step)
    BY <1>4 DEF Unconfigure, TimedOut, Select, Selected, UpdatePipes, FreeOld, Assign, Reset,
       CyclePort, Fail, Closing
  <2>2. QED
    BY <1>2, <1>3, <2>1 DEF Closing, Stays
<1>5. CASE SetConfigCheck(t)
  <2>1. \/ Finish(t)
        \/ th[t].pc \notin Closing /\ \E step \in {"unconfigure", "lookup"} : Goto(t, step)
    BY <1>5 DEF SetConfigCheck, Closing
  <2>2. QED
    BY <1>2, <1>3, <2>1 DEF Closing, Stays
<1>6. CASE Lookup(t)
  <2>1. CASE th[t].op = "set_configuration"
    <3>1. CASE Finish(t)
      BY <1>2, <3>1 DEF Stays
    <3>2. CASE \E a \in Pool, i \in Configs, late \in BOOLEAN :
                 /\ pool[a] = Unused /\ Matches(t, i, late)
                 /\ late => device.present /\ ~Hit(i)
                 /\ pool' = [pool EXCEPT ![a] = IF Hit(i) THEN CachedCopy ELSE Unfilled]
                 /\ th' = [th EXCEPT ![t].desc = a, ![t].found = i, ![t].late = late,
                                     ![t].pc = IF Hit(i) THEN "compare" ELSE "fetch"]
      <4>1. PICK a \in Pool, i \in Configs, late \in BOOLEAN :
              th' = [th EXCEPT ![t].desc = a, ![t].found = i, ![t].late = late,
                               ![t].pc = IF Hit(i) THEN "compare" ELSE "fetch"]
        BY <3>2
      <4>2. PICK step \in {"compare", "fetch"} : step = IF Hit(i) THEN "compare" ELSE "fetch"
        OBVIOUS
      <4>3. /\ th'[t].file = th[t].file /\ th'[t].op = th[t].op /\ th'[t].form = th[t].form
            /\ th'[t].intf = th[t].intf /\ th'[t].pc = step
        BY <1>1, <4>1, <4>2 DEF ThreadType
      <4>4. QED
        BY <1>6, <4>2, <4>3 DEF Lookup, Stays, Closing
    <3>3. QED
      BY <1>6, <2>1, <3>1, <3>2 DEF Lookup
  <2>2. CASE th[t].op # "set_configuration"
    <3>1. th[t].pc \notin Closing /\ (Finish(t) \/ Goto(t, "fetch"))
      BY <1>6, <2>2 DEF Lookup, Closing
    <3>2. QED
      BY <1>2, <1>3, <3>1 DEF Closing, Stays
  <2>3. QED
    BY <2>1, <2>2
<1>7. CASE Fetch(t) \/ Cache(t)
  <2>1. /\ th[t].pc \notin Closing
        /\ Finish(t) \/ Goto(t, "cache") \/ \E late : GoOn(t, late)
    BY <1>7 DEF Fetch, Cache, Fail, Closing
  <2>2. ASSUME NEW late, th' = [th EXCEPT ![t].pc = "compare", ![t].late = late]
        PROVE  Stays(th[t], th'[t])
    BY <1>1, <2>1, <2>2 DEF Stays, ThreadType, Closing
  <2>3. QED
    BY <1>2, <1>3, <2>1, <2>2 DEF GoOn, Stays, Closing
<1>8. CASE Compare(t)
  <2>1. /\ th[t].pc \notin Closing
        /\ \/ Finish(t)
           \/ \E c : \E step \in {"free_old", "select"} : th' = [th EXCEPT ![t].pc = step, ![t].conf = c]
    BY <1>8 DEF Compare, Fail, Closing
  <2>2. ASSUME NEW step \in {"free_old", "select"}, NEW c,
               th' = [th EXCEPT ![t].pc = step, ![t].conf = c]
        PROVE  Stays(th[t], th'[t])
    BY <1>1, <2>1, <2>2 DEF Stays, ThreadType, Closing
  <2>3. QED
    BY <1>2, <2>1, <2>2 DEF Stays
<1>9. CASE SetAltCheck(t) \/ GetAltCheck(t)
  <2>1. /\ th[t].pc \notin Closing
        /\ \/ Finish(t)
           \/ th' = [th EXCEPT ![t].pc = "alt_call", ![t].conf = handle]
           \/ th' = [th EXCEPT ![t].pc = "got_alt", ![t].desc = descriptor]
    BY <1>9 DEF SetAltCheck, GetAltCheck, Closing
  <2>2. CASE th' = [th EXCEPT ![t].pc = "alt_call", ![t].conf = handle]
    BY <1>1, <2>1, <2>2 DEF Stays, ThreadType, Closing
  <2>3. CASE th' = [th EXCEPT ![t].pc = "got_alt", ![t].desc = descriptor]
    BY <1>1, <2>1, <2>3 DEF Stays, ThreadType, Closing
  <2>4. QED
    BY <1>2, <2>1, <2>2, <2>3 DEF Stays
<1>10. CASE \/ SetAltCall(t) \/ AltSet(t) \/ GotAlt(t) \/ ClaimCheck(t) \/ Bind(t)
            \/ ReleaseCheck(t) \/ Unbind(t)
  <2>1. \/ Finish(t)
        \/ th[t].pc \notin Closing /\ \E step \in {"alt_set", "bind", "unbind"} : Goto(t, step)
    BY <1>10 DEF SetAltCall, AltSet, GotAlt, ClaimCheck, Bind, ReleaseCheck, Unbind, Closing
  <2>2. QED
    BY <1>2, <1>3, <2>1 DEF Closing, Stays
<1>11. CASE CloseTest(t) \/ CloseUnbind(t)
  <2>1. /\ th[t].pc \in Closing
        /\ \/ Finish(t) \/ Goto(t, "close_unbind")
           \/ th' = [th EXCEPT ![t].intf = th[t].intf + 1]
           \/ th' = [th EXCEPT ![t].pc = "close", ![t].intf = th[t].intf + 1]
    BY <1>1, <1>11 DEF CloseTest, CloseUnbind, Closing
  <2>2. CASE th' = [th EXCEPT ![t].intf = th[t].intf + 1]
    BY <1>1, <2>1, <2>2 DEF Stays, ThreadType, Closing
  <2>3. CASE th' = [th EXCEPT ![t].pc = "close", ![t].intf = th[t].intf + 1]
    BY <1>1, <2>1, <2>3 DEF Stays, ThreadType, Closing
  <2>4. QED
    BY <1>2, <1>3, <2>1, <2>2, <2>3 DEF Stays, Closing
<1>12. QED
  BY <1>4, <1>5, <1>6, <1>7, <1>8, <1>9, <1>10, <1>11 DEF ConfigStep, InterfaceStep

\* What a step does to the configuration, to the claims and to the settings.
LEMMA StepEffects ==
  ASSUME IInv, SerialInv, OneAtATime, NEW t \in Threads, ConfigStep(t) \/ InterfaceStep(t)
  PROVE  /\ value' # value => th[t].pc \in {"selected", "assign"} /\ th'[t] = Resting
         /\ th[t].pc \in {"selected", "assign"} /\ th'[t] = Resting => value' = th[t].conf
         /\ th[t].pc = "set_config" /\ th[t].form = "value" /\ th'[t] = Resting => value = th[t].conf
         /\ th[t].pc = "selected" => granted' = {}
         /\ th[t].pc = "bind" =>
              th'[t] = Resting /\ granted' = granted \union {<<th[t].file, th[t].intf>>}
         /\ th[t].pc = "unbind" =>
              /\ th'[t] = Resting /\ granted' = granted \ {<<th[t].file, th[t].intf>>}
              /\ bound[th[t].intf] = th[t].file
         /\ th[t].pc \notin {"selected", "bind", "unbind"} => granted' = granted
         /\ th[t].pc \in {"claim", "bind"} => pipes' = pipes
         /\ th[t].pc = "alt_set" => pipes'[th[t].intf].alt = th[t].alt
<1>1. TypeOK /\ th[t] \in ThreadType /\ th[t].pc # "idle"
  BY OthersRest DEF IInv, TypeOK
<1>2. Cached(th[t]) /\ Owners(th[t])
  BY <1>1 DEF SerialInv, Safe
<1>3. th[t].pc = "cache" => value = NoConfig
  BY <1>1 DEF SerialInv, Safe, Memory, Cached, Unsettled
<1>4. CASE SetConfigCheck(t)
  <2>1. CASE Finish(t)
    BY <1>1, <1>4, <2>1, RestingFields DEF SetConfigCheck, Goto, Finish, config, TypeOK, ThreadType
  <2>2. CASE Goto(t, IF th[t].conf = NoConfig THEN "unconfigure" ELSE "lookup")
    BY <1>1, <1>4, <2>2, RestingFields DEF SetConfigCheck, Goto, config, TypeOK, ThreadType
  <2>3. QED
    BY <1>4, <2>1, <2>2 DEF SetConfigCheck
<1>5. CASE \/ Unconfigure(t) \/ TimedOut(t) \/ Lookup(t) \/ Fetch(t) \/ Compare(t) \/ Select(t)
           \/ UpdatePipes(t) \/ FreeOld(t) \/ Reset(t) \/ CyclePort(t)
  <2>1. /\ value' = value /\ granted' = granted
        /\ th[t].pc \in {"unconfigure", "timed_out", "lookup", "fetch", "compare", "select", "pipes",
                         "free_old", "reset", "cycle"}
    BY <1>5 DEF Unconfigure, TimedOut, Lookup, Fetch, Compare, Select, UpdatePipes, FreeOld, Reset,
       CyclePort, config
  <2>2. QED
    BY <2>1
<1>6. CASE Cache(t)
  <2>1. value' = value /\ granted' = granted /\ th[t].pc = "cache"
    BY <1>3, <1>6 DEF Cache
  <2>2. QED
    BY <2>1
<1>7. CASE Selected(t)
  BY <1>1, <1>7, RestingFields DEF Selected, Goto, Finish, TypeOK, ThreadType
<1>8. CASE Assign(t)
  BY <1>1, <1>8 DEF Assign, Finish, TypeOK
<1>9. CASE Bind(t) \/ Unbind(t)
  BY <1>1, <1>2, <1>9 DEF Bind, Unbind, Finish, config, TypeOK, Owners
<1>10. CASE AltSet(t)
  <2>1. th[t].intf \in Interfaces
    BY <1>10 DEF AltSet, IInv, ThreadInv, OnInterfaces
  <2>2. pipes'[th[t].intf].alt = th[t].alt
    BY <1>1, <1>10, <2>1 DEF AltSet, TypeOK
  <2>3. value' = value /\ granted' = granted /\ th[t].pc = "alt_set"
    BY <1>10 DEF AltSet, config
  <2>4. QED
    BY <2>2, <2>3
<1>11. CASE \/ SetAltCheck(t) \/ SetAltCall(t) \/ GetAltCheck(t) \/ GotAlt(t)
            \/ ClaimCheck(t) \/ ReleaseCheck(t) \/ CloseTest(t) \/ CloseUnbind(t)
  <2>1. /\ value' = value /\ granted' = granted /\ pipes' = pipes
        /\ th[t].pc \in {"set_alt", "alt_call", "get_alt", "got_alt", "claim", "release", "close",
                         "close_unbind"}
    BY <1>11 DEF SetAltCheck, SetAltCall, GetAltCheck, GotAlt, ClaimCheck, ReleaseCheck, CloseTest,
       CloseUnbind, config
  <2>2. QED
    BY <2>1
<1>12. QED
  BY <1>4, <1>5, <1>6, <1>7, <1>8, <1>9, <1>10, <1>11 DEF ConfigStep, InterfaceStep

\* Only the thread that makes the request is disturbed.
LEMMA RequestMoves ==
  ASSUME TypeOK, NEW t \in Threads, Request(t)
  PROVE  th'[t].pc # "idle" /\ \A u \in Threads : u # t => th'[u] = th[u]
<1>1. PICK op, f, c, form, i, a : op \in Requests /\ Begin(t, op, f, c, form, i, a)
  BY DEF Request, Requests
<1>2. QED
  BY <1>1 DEF Begin, TypeOK, Requests

-----------------------------------------------------------------------------
(* Words and bytes.                                                        *)

\* The bytes of a word make it up again.
LEMMA WordOfBytes == \A n \in Int : 256 * High(n) + Low(n) = Word(n)
BY DEF High, Low, Word

\* A word is a natural number, a byte is itself.
LEMMA WordFacts ==
  /\ \A n \in Int : Word(n) \in Nat
  /\ \A n \in 0 .. 255 : Low(n) = n
BY DEF Word, Low

-----------------------------------------------------------------------------
(* Control messages.                                                       *)

Coded == {0, 1, 3, 6, 7, 8, 9, 10, 11}

\* The control codes of the standard requests.
LEMMA CodeFacts ==
  /\ StandardCode[0] = "get_status" /\ StandardCode[1] = "clear_feature"
  /\ StandardCode[3] = "set_feature" /\ StandardCode[6] = "get_descriptor"
  /\ StandardCode[7] = "set_descriptor" /\ StandardCode[8] = "get_configuration"
  /\ StandardCode[9] = "set_configuration" /\ StandardCode[10] = "get_interface"
  /\ StandardCode[11] = "set_interface"
  /\ \A r \in (0 .. 255) \ Coded : StandardCode[r] = "none"
BY DEF StandardCode, Coded

\* No two requests have one code.
LEMMA CodeIsUnique ==
  ASSUME NEW r \in 0 .. 255, StandardCode[r] # "none"
  PROVE (CHOOSE s \in 0 .. 255 : StandardCode[s] = StandardCode[r]) = r
<1>1. r \in Coded
  BY CodeFacts
<1>2. ASSUME NEW s \in 0 .. 255, StandardCode[s] = StandardCode[r] PROVE s = r
  <2>1. s \in Coded
    BY <1>2, CodeFacts
  <2>2. QED
    BY <1>1, <1>2, <2>1, CodeFacts DEF Coded
<1>3. QED
  BY <1>2

\* What a URB's setup packet is.
Expected(p) == [in |-> p.in, type |-> p.type, recipient |-> p.recipient, request |-> p.request,
                value |-> p.value, index |-> p.index, length |-> p.size]

\* sizeof(libusb_request) is a natural number, and fits the bound of dispatch_ioctl.
LEMMA HeaderFacts ==
  /\ MaxReadWrite \in Nat /\ Header \in Nat
  /\ 1 <= Header /\ Header <= MaxReadWrite
<1>1. MaxReadWrite \in Nat
  BY DEF MaxReadWrite
<1>2. Header \in 1 .. MaxReadWrite
  BY RequestsAssumption
<1>3. QED
  BY <1>1, <1>2

\* What is asked for by a well-formed request that has a way is accepted.
LEMMA LengthsFit ==
  ASSUME NEW p \in Packet, WellFormed(p), HasAWay(p),
         Ioctl(p).input = (IF p.in THEN Header ELSE Header + p.size),
         Ioctl(p).output = (IF p.in THEN p.size ELSE 0)
  PROVE LengthsOk(Ioctl(p))
<1>1. p.in \in BOOLEAN /\ p.size \in Nat
  BY DEF Packet
<1>2. p.size <= MaxReadWrite
  <2>1. p.size = Word(p.size)
    BY DEF WellFormed
  <2>2. Word(p.size) <= MaxReadWrite
    BY <1>1 DEF Word, MaxReadWrite
  <2>3. QED
    BY <2>1, <2>2
<1>3. ~p.in => p.size + Header <= MaxReadWrite
  BY DEF HasAWay
<1>4. CASE p.in
  <2>1. Ioctl(p).input = Header /\ Ioctl(p).output = p.size
    BY <1>4
  <2>2. QED
    BY <1>1, <1>2, <2>1, HeaderFacts DEF LengthsOk
<1>5. CASE ~p.in
  <2>1. Ioctl(p).input = p.size + Header /\ Ioctl(p).output = 0
    BY <1>1, <1>5, HeaderFacts
  <2>2. p.size + Header \in Header .. MaxReadWrite
    BY <1>1, <1>3, <1>5, HeaderFacts
  <2>3. QED
    BY <2>1, <2>2, HeaderFacts DEF LengthsOk
<1>6. QED
  BY <1>4, <1>5

\* dispatch_ioctl has one handler for the requests of classes and vendors.
LEMMA DispatchVendor ==
  ASSUME NEW r, r.code \in {"vendor_read", "vendor_write"}
  PROVE Dispatch(r) = IF LengthsOk(r) THEN VendorClassRequest(r) ELSE Rejected
<1>1. CASE LengthsOk(r)
  BY <1>1 DEF Dispatch
<1>2. CASE ~LengthsOk(r)
  BY <1>2 DEF Dispatch
<1>3. QED
  BY <1>1, <1>2

\* A class or vendor request arrives.
LEMMA VendorArrives ==
  ASSUME NEW p \in Packet, p.type \in {"class", "vendor"} PROVE Arrives(p)
<1> DEFINE code == IF p.in THEN "vendor_read" ELSE "vendor_write"
           urb == [function |-> p.type, recipient |-> p.recipient, request |-> p.request,
                   value |-> Word(p.value), index |-> Word(p.index), length |-> p.size, in |-> p.in]
<1>1. /\ p.in \in BOOLEAN /\ p.recipient \in 0 .. 31 /\ p.request \in 0 .. 255
      /\ p.value \in Int /\ p.index \in Int /\ p.size \in Nat
  BY DEF Packet
<1>2. Header \in 1 .. MaxReadWrite
  BY RequestsAssumption
<1>3. /\ Ioctl(p).code = code /\ Ioctl(p).type = p.type /\ Ioctl(p).recipient = p.recipient
      /\ Ioctl(p).request = p.request /\ Ioctl(p).value = p.value /\ Ioctl(p).index = p.index
      /\ Ioctl(p).input = (IF p.in THEN Header ELSE Header + p.size)
      /\ Ioctl(p).output = (IF p.in THEN p.size ELSE 0)
  BY DEF Ioctl, CodeOf
<1>4. Low(p.request) = p.request
  BY <1>1, WordFacts
<1>5. p.size = IF code = "vendor_read" THEN Ioctl(p).output ELSE Ioctl(p).input - Header
  <2>1. Header \in Nat
    BY HeaderFacts
  <2>2. CASE p.in
    BY <1>3, <2>2
  <2>3. CASE ~p.in
    <3>1. Ioctl(p).input = Header + p.size
      BY <1>3, <2>3
    <3>2. Ioctl(p).input - Header = p.size
      BY <1>1, <2>1, <3>1
    <3>3. QED
      BY <2>3, <3>2
  <2>4. QED
    BY <2>2, <2>3
<1>6. VendorClassRequest(Ioctl(p)) = IF p.type = "class" /\ p.recipient > Other THEN Rejected ELSE urb
  <2>1. (Ioctl(p).code = "vendor_read") = p.in
    BY <1>1, <1>3
  <2>2. QED
    BY <1>3, <1>4, <1>5, <2>1 DEF VendorClassRequest
<1>7. Sent(p) = IF LengthsOk(Ioctl(p)) THEN VendorClassRequest(Ioctl(p)) ELSE Rejected
  <2>1. CodeOf(p) # "none"
    BY DEF CodeOf
  <2>2. Ioctl(p).code \in {"vendor_read", "vendor_write"}
    BY <1>3
  <2>3. QED
    BY <2>1, <2>2, DispatchVendor DEF Sent
<1>8. Setup(urb) = [in |-> p.in, type |-> p.type, recipient |-> p.recipient, request |-> p.request,
                    value |-> Word(p.value), index |-> Word(p.index), length |-> p.size]
  BY DEF Setup
<1>9. urb # Rejected
  BY DEF Rejected
<1>10. ASSUME WellFormed(p), HasAWay(p) PROVE Sent(p) = urb /\ Setup(urb) = Expected(p)
  <2>1. LengthsOk(Ioctl(p))
    BY <1>3, <1>10, LengthsFit
  <2>2. ~(p.type = "class" /\ p.recipient > Other)
    BY <1>1, <1>10 DEF HasAWay, Other
  <2>3. Word(p.value) = p.value /\ Word(p.index) = p.index
    BY <1>10 DEF WellFormed
  <2>4. QED
    BY <1>6, <1>7, <1>8, <2>1, <2>2, <2>3 DEF Expected
<1>11. ASSUME Sent(p) # Rejected
       PROVE /\ Setup(Sent(p)).type = p.type /\ Setup(Sent(p)).request = p.request
             /\ Setup(Sent(p)).length <= p.size /\ (Setup(Sent(p)).in => p.in)
  <2>1. Sent(p) = urb
    BY <1>6, <1>7, <1>11
  <2>2. QED
    BY <1>1, <1>8, <2>1 DEF Expected
<1>12. QED
  BY <1>9, <1>10, <1>11 DEF Arrives, Expected

ReadCodes == {"get_status", "get_descriptor", "get_configuration", "get_interface"}

StandardPacket(r, c, v, i, n) ==
  [in |-> StandardCode[r] \in ReadCodes, type |-> "standard", recipient |-> c, request |-> r,
   value |-> v, index |-> i, length |-> n]

\* The setup packet of a standard request's URB names the request.
LEMMA StandardSetup ==
  ASSUME NEW r \in 0 .. 255, StandardCode[r] # "none", NEW c, NEW v, NEW i, NEW n
  PROVE Setup(Urb(StandardCode[r], c, v, i, n)) = StandardPacket(r, c, v, i, n)
<1>1. StandardCode[r] \notin {"class", "vendor"}
  <2>1. r \in Coded
    BY CodeFacts
  <2>2. QED
    BY <2>1, CodeFacts DEF Coded
<1>2. Urb(StandardCode[r], c, v, i, n).function = StandardCode[r]
  BY DEF Urb
<1>3. (CHOOSE s \in 0 .. 255 : StandardCode[s] = StandardCode[r]) = r
  BY CodeIsUnique
<1>4. QED
  BY <1>1, <1>2, <1>3 DEF Setup, Urb, ReadCodes, StandardPacket

\* What the driver makes of a standard request.
LEMMA StandardSent ==
  ASSUME NEW p \in Packet, p.type = "standard", StandardCode[p.request] # "none"
  PROVE LET code == StandardCode[p.request]
            r == Ioctl(p)
        IN /\ ~LengthsOk(r) => Sent(p) = Rejected
           /\ LengthsOk(r) =>
                /\ code = "get_status" => Sent(p) = GetStatus(r)
                /\ code \in {"set_feature", "clear_feature"} => Sent(p) = Feature(r)
                /\ code = "get_descriptor" => Sent(p) = GetDescriptor(r)
                /\ code = "set_descriptor" => Sent(p) = SetDescriptor(r)
                /\ code = "get_configuration" => Sent(p) = GetConfiguration(r)
                /\ code = "set_configuration" => Sent(p) = SetConfiguration(r)
                /\ code = "get_interface" => Sent(p) = GetInterface(r)
                /\ code = "set_interface" => Sent(p) = SetInterface(r)
<1>1. Ioctl(p).code = StandardCode[p.request] /\ CodeOf(p) = StandardCode[p.request]
  BY DEF Ioctl, CodeOf
<1>2. QED
  BY <1>1 DEF Sent, Dispatch

\* A standard request becomes this URB or none, and does so as it should when
\* it is well-formed.
Becomes(p, c, v, i, n) ==
  LET code == StandardCode[p.request]
  IN /\ n \in Nat
     /\ Sent(p) \in {Rejected, Urb(code, c, v, i, n)}
     /\ Sent(p) # Rejected => n <= p.size /\ (code \in ReadCodes => p.in)
     /\ WellFormed(p) /\ HasAWay(p) =>
          /\ Sent(p) # Rejected
          /\ p.in = (code \in ReadCodes)
          /\ c = p.recipient /\ v = p.value /\ i = p.index /\ n = p.size

\* It arrives.
LEMMA UrbArrives ==
  ASSUME NEW p \in Packet, p.type = "standard", StandardCode[p.request] # "none",
         NEW c, NEW v, NEW i, NEW n, Becomes(p, c, v, i, n)
  PROVE Arrives(p)
<1>1. p.request \in 0 .. 255 /\ p.in \in BOOLEAN
  BY DEF Packet
<1> DEFINE setup == StandardPacket(p.request, c, v, i, n)
<1>2. Setup(Urb(StandardCode[p.request], c, v, i, n)) = setup
  BY <1>1, StandardSetup
<1>3. ASSUME Sent(p) # Rejected
      PROVE /\ Setup(Sent(p)) = setup /\ n <= p.size
            /\ StandardCode[p.request] \in ReadCodes => p.in
  BY <1>2, <1>3 DEF Becomes
<1>4. ASSUME WellFormed(p), HasAWay(p)
      PROVE /\ Sent(p) # Rejected
            /\ setup = [in |-> p.in, type |-> p.type, recipient |-> p.recipient,
                        request |-> p.request, value |-> p.value, index |-> p.index,
                        length |-> p.size]
  BY <1>4 DEF Becomes, StandardPacket
<1>5. QED
  BY <1>1, <1>3, <1>4 DEF Arrives, StandardPacket

\* A standard request arrives.
LEMMA StandardArrives ==
  ASSUME NEW p \in Packet, p.type = "standard", StandardCode[p.request] # "none"
  PROVE Arrives(p)
<1> DEFINE code == StandardCode[p.request]
<1>1. /\ p.in \in BOOLEAN /\ p.recipient \in 0 .. 31 /\ p.request \in 0 .. 255
      /\ p.value \in Int /\ p.index \in Int /\ p.size \in Nat
  BY DEF Packet
<1>2. Header \in 1 .. MaxReadWrite
  BY RequestsAssumption
<1>3. /\ Ioctl(p).code = code /\ Ioctl(p).type = p.type /\ Ioctl(p).recipient = p.recipient
      /\ Ioctl(p).request = p.request /\ Ioctl(p).value = p.value /\ Ioctl(p).index = p.index
      /\ Ioctl(p).kind = High(p.value) /\ Ioctl(p).number = Low(p.value)
      /\ Ioctl(p).input = (IF p.in THEN Header ELSE Header + p.size)
      /\ Ioctl(p).output = (IF p.in THEN p.size ELSE 0)
  BY DEF Ioctl, CodeOf
<1>4. 256 * High(p.value) + Low(p.value) = Word(p.value)
  BY <1>1, WordOfBytes
<1>5. code \in {"get_status", "set_feature", "clear_feature", "get_descriptor", "set_descriptor",
                "get_configuration", "set_configuration", "get_interface", "set_interface"}
  <2>1. p.request \in Coded
    BY <1>1, CodeFacts
  <2>2. QED
    BY <2>1, CodeFacts DEF Coded
<1>6. ASSUME WellFormed(p), HasAWay(p)
      PROVE /\ LengthsOk(Ioctl(p))
            /\ p.value = Word(p.value) /\ p.index = Word(p.index)
            /\ p.in = (code \in ReadCodes)
            /\ code = "get_status" => p.value = 0 /\ p.size = 2
            /\ code \in {"set_feature", "clear_feature"} => p.size = 0
            /\ code = "get_configuration" => p.recipient = 0 /\ p.value = 0 /\ p.index = 0 /\ p.size = 1
            /\ code = "set_configuration" => p.recipient = 0 /\ p.index = 0 /\ p.size = 0
            /\ code = "get_interface" => p.recipient = 1 /\ p.value = 0 /\ p.size = 1
            /\ code = "set_interface" => p.recipient = 1 /\ p.size = 0
            /\ p.recipient <= Other
            /\ code \in {"get_descriptor", "set_descriptor"} => p.recipient <= Endpoint /\ p.size > 0
            /\ code = "get_descriptor" => ~OutOfRange(Ioctl(p))
  <2>1. LengthsOk(Ioctl(p))
    BY <1>3, <1>6, LengthsFit
  <2>2. QED
    BY <1>6, <2>1 DEF WellFormed, HasAWay, ReadCodes
<1> HIDE DEF code
<1> USE <1>1, <1>2, <1>3, <1>4, <1>6
<1>U. \A c, v, i, n : Urb(code, c, v, i, n) # Rejected
  BY DEF Urb, Rejected, code
<1>S. code = StandardCode[p.request]
  BY DEF code
<1>7. CASE code = "get_status"
  <2> DEFINE urb == Urb(code, p.recipient, 0, Word(p.index), 2)
  <2>1. /\ Sent(p) \in {Rejected, urb}
        /\ Sent(p) # Rejected => p.in /\ 2 <= p.size
        /\ LengthsOk(Ioctl(p)) /\ p.in /\ p.size >= 2 /\ p.recipient <= Other => Sent(p) = urb
    BY <1>7, StandardSent DEF code, GetStatus, Device, Other
  <2>2. Becomes(p, p.recipient, 0, Word(p.index), 2)
    BY <1>7, <1>S, <1>U, <2>1 DEF Becomes, ReadCodes, Other, Endpoint
  <2>3. QED
    BY <2>2, UrbArrives
<1>8. CASE code \in {"set_feature", "clear_feature"}
  <2> DEFINE urb == Urb(code, p.recipient, Word(p.value), Word(p.index), 0)
  <2>1. /\ Sent(p) \in {Rejected, urb}
        /\ Sent(p) # Rejected => 0 <= p.size
        /\ LengthsOk(Ioctl(p)) /\ p.recipient <= Other => Sent(p) = urb
    BY <1>8, StandardSent DEF code, Feature, Device, Other
  <2>2. Becomes(p, p.recipient, Word(p.value), Word(p.index), 0)
    BY <1>8, <1>S, <1>U, <2>1 DEF Becomes, ReadCodes, Other, Endpoint
  <2>3. QED
    BY <2>2, UrbArrives
<1>9. CASE code = "get_descriptor"
  <2> DEFINE urb == Urb(code, p.recipient, Word(p.value), Word(p.index), p.size)
  <2>1. /\ Sent(p) \in {Rejected, urb}
        /\ Sent(p) # Rejected => p.in
        /\ LengthsOk(Ioctl(p)) /\ p.in /\ p.size > 0 /\ p.recipient <= Endpoint /\ ~OutOfRange(Ioctl(p))
             => Sent(p) = urb
    BY <1>9, StandardSent DEF code, GetDescriptor, Device, Endpoint
  <2>2. Becomes(p, p.recipient, Word(p.value), Word(p.index), p.size)
    BY <1>9, <1>S, <1>U, <2>1 DEF Becomes, ReadCodes, Other, Endpoint
  <2>3. QED
    BY <2>2, UrbArrives
<1>10. CASE code = "set_descriptor"
  <2> DEFINE urb == Urb(code, p.recipient, Word(p.value), Word(p.index), p.size)
  <2>1. /\ Sent(p) \in {Rejected, urb}
        /\ Sent(p) # Rejected => ~p.in
        /\ LengthsOk(Ioctl(p)) /\ ~p.in /\ p.size > 0 /\ p.recipient <= Endpoint => Sent(p) = urb
    BY <1>10, StandardSent DEF code, SetDescriptor, Device, Endpoint
  <2>2. Becomes(p, p.recipient, Word(p.value), Word(p.index), p.size)
    BY <1>10, <1>S, <1>U, <2>1 DEF Becomes, ReadCodes, Other, Endpoint
  <2>3. QED
    BY <2>2, UrbArrives
<1>11. CASE code = "get_configuration"
  <2> DEFINE urb == Urb(code, 0, 0, 0, 1)
  <2>1. /\ Sent(p) \in {Rejected, urb}
        /\ Sent(p) # Rejected => p.in /\ 1 <= p.size
        /\ LengthsOk(Ioctl(p)) /\ p.in /\ p.size >= 1 => Sent(p) = urb
    BY <1>11, StandardSent DEF code, GetConfiguration
  <2>2. Becomes(p, 0, 0, 0, 1)
    BY <1>11, <1>S, <1>U, <2>1 DEF Becomes, ReadCodes, Other, Endpoint
  <2>3. QED
    BY <2>2, UrbArrives
<1>12. CASE code = "set_configuration"
  <2> DEFINE urb == Urb(code, 0, p.value, 0, 0)
  <2>1. /\ Sent(p) \in {Rejected, urb}
        /\ Sent(p) # Rejected => 0 <= p.size
        /\ LengthsOk(Ioctl(p)) => Sent(p) = urb
    BY <1>12, StandardSent DEF code, SetConfiguration
  <2>2. Becomes(p, 0, p.value, 0, 0)
    BY <1>12, <1>S, <1>U, <2>1 DEF Becomes, ReadCodes, Other, Endpoint
  <2>3. QED
    BY <2>2, UrbArrives
<1>13. CASE code = "get_interface"
  <2> DEFINE urb == Urb(code, 1, 0, Word(p.index), 1)
  <2>1. /\ Sent(p) \in {Rejected, urb}
        /\ Sent(p) # Rejected => p.in /\ 1 <= p.size
        /\ LengthsOk(Ioctl(p)) /\ p.in /\ p.size >= 1 => Sent(p) = urb
    BY <1>13, StandardSent DEF code, GetInterface
  <2>2. Becomes(p, 1, 0, Word(p.index), 1)
    BY <1>13, <1>S, <1>U, <2>1 DEF Becomes, ReadCodes, Other, Endpoint
  <2>3. QED
    BY <2>2, UrbArrives
<1>14. CASE code = "set_interface"
  <2> DEFINE urb == Urb(code, 1, p.value, p.index, 0)
  <2>1. /\ Sent(p) \in {Rejected, urb}
        /\ Sent(p) # Rejected => 0 <= p.size
        /\ LengthsOk(Ioctl(p)) => Sent(p) = urb
    BY <1>14, StandardSent DEF code, SetInterface
  <2>2. Becomes(p, 1, p.value, p.index, 0)
    BY <1>14, <1>S, <1>U, <2>1 DEF Becomes, ReadCodes, Other, Endpoint
  <2>3. QED
    BY <2>2, UrbArrives
<1>15. QED
  BY <1>5, <1>7, <1>8, <1>9, <1>10, <1>11, <1>12, <1>13, <1>14

\* Every control message there can be arrives.
LEMMA EveryMessageArrives == \A p \in Packet : Arrives(p)
<1> SUFFICES ASSUME NEW p \in Packet PROVE Arrives(p)
  OBVIOUS
<1>1. CASE CodeOf(p) = "none"
  <2>1. Sent(p) = Rejected
    BY <1>1 DEF Sent
  <2>2. ~WellFormed(p)
    BY <1>1 DEF CodeOf, WellFormed, Packet
  <2>3. QED
    BY <2>1, <2>2 DEF Arrives
<1>2. CASE CodeOf(p) # "none" /\ p.type = "standard"
  BY <1>2, StandardArrives DEF CodeOf
<1>3. CASE CodeOf(p) # "none" /\ p.type # "standard"
  BY <1>3, VendorArrives DEF CodeOf, Packet
<1>4. QED
  BY <1>1, <1>2, <1>3

-----------------------------------------------------------------------------
(* Transfers.                                                              *)

\* The whole packets of a buffer leave out less than one.
LEMMA WholePackets ==
  ASSUME NEW n \in Nat \ {0}, NEW s \in Nat
  PROVE (s \div n) * n \in (s - n + 1) .. s
<1>1. s = n * (s \div n) + (s % n) /\ s % n \in 0 .. n - 1
  OBVIOUS
<1>2. QED
  BY <1>1

\* The URB of a transfer, if there is one.
LEMMA UrbCreated ==
  ASSUME NEW function \in {"bulk", "isochronous"}, NEW in \in BOOLEAN, NEW packet \in Int, NEW size \in Nat,
         NEW u, u = CreateUrb(function, in, packet, size)
  PROVE /\ function = "bulk" => u # Rejected
        /\ u # Rejected =>
             /\ u.in = in /\ u.function = function
             /\ function = "isochronous" => u.packets * u.packet \in (size - u.packet + 1) .. size
<1>1. CASE function = "bulk"
  BY <1>1 DEF CreateUrb, Rejected
<1>2. CASE function = "isochronous" /\ packet > 0 /\ size \div packet \in 1 .. MaxIsoPackets
  <2>1. (size \div packet) * packet \in (size - packet + 1) .. size
    BY <1>2, WholePackets
  <2>2. QED
    BY <1>2, <2>1 DEF CreateUrb
<1>3. CASE function = "isochronous" /\ ~(packet > 0 /\ size \div packet \in 1 .. MaxIsoPackets)
  BY <1>3 DEF CreateUrb
<1>4. QED
  BY <1>1, <1>2, <1>3

\* Every transfer there can be is sent as it should be.
LEMMA EveryTransferArrives == \A x \in Transfer : WellSent(x)
<1> SUFFICES ASSUME NEW x \in Transfer PROVE WellSent(x)
  OBVIOUS
<1> DEFINE s == [code |-> IF x.kind = "isochronous" THEN "isochronous" ELSE "bulk",
                 read |-> Reads(x), packet |-> x.pktsize]
           function == IF x.pipe.type = "isochronous" THEN "isochronous" ELSE "bulk"
           fits == IF x.kind = "isochronous" THEN x.pipe.type = "isochronous" ELSE x.pipe.type # "control"
           buffer == x.size > 0 \/ (~Reads(x) /\ x.kind # "isochronous")
           packet == IF x.pktsize = 0 THEN x.pipe.packet ELSE x.pktsize
           goes == /\ Reads(x) = x.pipe.in /\ buffer /\ fits /\ (Reads(x) => x.pipe.packet > 0)
           urb == CreateUrb(function, Reads(x), packet, x.size)
<1>1. /\ x.pipe \in Pipe /\ x.size \in Nat /\ x.pktsize \in Int
      /\ x.kind \in {"bulk", "interrupt", "isochronous"}
  BY DEF Transfer
<1>2. /\ x.pipe.in \in BOOLEAN /\ x.pipe.packet \in Nat
      /\ x.pipe.type \in {"control", "isochronous", "bulk", "interrupt"}
  BY <1>1 DEF Pipe
<1>3. Reads(x) \in BOOLEAN /\ packet \in Int
  BY <1>1, <1>2 DEF Reads
<1>4. Transferred(x) = IF goes THEN urb ELSE Rejected
  <2>1. CASE Reads(x) # x.pipe.in
    BY <2>1 DEF Transferred, SetupAsync
  <2>2. CASE Reads(x) = x.pipe.in
    <3>1. SetupAsync(x) = s /\ s # Rejected
      BY <2>2 DEF SetupAsync, Rejected
    <3>2. Transferred(x) = TransferUrb(s, x.pipe, x.size)
      BY <3>1 DEF Transferred
    <3>3. QED
      BY <1>1, <2>2, <3>2 DEF TransferUrb
  <2>3. QED
    BY <2>1, <2>2
<1>5. /\ function = "bulk" => urb # Rejected
      /\ urb # Rejected =>
           /\ urb.in = Reads(x) /\ urb.function = function
           /\ function = "isochronous" =>
                urb.packets * urb.packet \in (x.size - urb.packet + 1) .. x.size
  BY <1>1, <1>3, UrbCreated
<1> HIDE DEF urb, s
<1>6. QED
  BY <1>1, <1>2, <1>3, <1>4, <1>5 DEF WellSent

-----------------------------------------------------------------------------
(* The handles.                                                            *)

\* What the library remembers.
LibType ==
  [config : Configs \union {NoConfig}, interface : Interfaces \union {NoInterface},
   altsetting : Alts \union {NoSetting}]

LibTypes ==
  /\ lib \in [Handles -> LibType]
  /\ call \in [Handles -> Calls \union {"none"}]
  /\ drift \in [Handles -> SUBSET {"config", "claims", "setting"}]

HandleInv == IInv /\ LibTypes

\* A control message that the driver takes as a request of its own.
LEMMA OwnRequestFacts ==
  ASSUME NEW r \in OwnRequests
  PROVE /\ r.op \in {"set_configuration", "set_interface", "get_descriptor"}
        /\ r.form = IF r.op = "get_descriptor" THEN "index" ELSE "value"
        /\ r.op = "get_descriptor" => r.conf \in Configs
        /\ r.op # "get_descriptor" => r.conf \in Configs \union {NoConfig}
        /\ r.op = "set_interface" => r.conf = NoConfig
        /\ r.op # "set_interface" => r.intf = AnyInterface /\ r.alt = 0
        /\ r.intf \in Interfaces /\ r.alt \in Alts
<1>1. PICK u : /\ r = OwnRequest(u)
               /\ \/ u.function \in {"set_configuration", "set_interface"}
                  \/ u.function = "get_descriptor"
  BY DEF OwnRequests
<1>2. /\ r.conf \in Configs \/ (r.conf = NoConfig /\ r.op # "get_descriptor")
      /\ r.intf \in Interfaces /\ r.alt \in Alts
  BY DEF OwnRequests
<1>3. CASE u.function = "set_configuration"
  BY <1>1, <1>2, <1>3 DEF OwnRequest
<1>4. CASE u.function = "set_interface"
  BY <1>1, <1>2, <1>4 DEF OwnRequest
<1>5. CASE u.function = "get_descriptor"
  BY <1>1, <1>2, <1>5 DEF OwnRequest
<1>6. QED
  BY <1>1, <1>3, <1>4, <1>5

\* The calls of the library are requests of the driver.
LEMMA CallIsRequest ==
  ASSUME NEW t \in Threads, NEW h \in Handles, HandleInv, HandleCall(t, h)
  PROVE Request(t) \/ Close(t, h)
<1>1. lib[h].interface \in Interfaces \union {NoInterface}
  BY DEF HandleInv, LibTypes, LibType
<1>2. CASE ConfigureHandle(t, h)
  <2>1. PICK c \in Configs \union {NoConfig} :
          h \in open /\ Begin(t, "set_configuration", h, c, "value", AnyInterface, 0)
    BY <1>2 DEF ConfigureHandle, Free
  <2>2. QED
    BY <2>1 DEF Request
<1>3. CASE ClaimInterface(t, h)
  <2>1. PICK i \in Interfaces :
          h \in open /\ Begin(t, "claim_interface", h, NoConfig, "value", i, 0)
    BY <1>3 DEF ClaimInterface, Free
  <2>2. QED
    BY <2>1 DEF Request
<1>4. CASE ReleaseInterface(t, h)
  <2>1. PICK i \in Interfaces :
          h \in open /\ Begin(t, "release_interface", h, NoConfig, "value", i, 0)
    BY <1>4 DEF ReleaseInterface, Free
  <2>2. QED
    BY <2>1 DEF Request
<1>5. CASE SetAltInterface(t, h)
  <2>1. PICK a \in Alts :
          h \in open /\ Begin(t, "set_interface", h, NoConfig, "value", lib[h].interface, a)
    BY <1>5 DEF SetAltInterface, Free
  <2>2. lib[h].interface \in Interfaces
    BY <1>1, <1>5 DEF SetAltInterface
  <2>3. QED
    BY <2>1, <2>2 DEF Request
<1>6. CASE ControlMsg(t, h)
  <2>1. PICK r \in OwnRequests : h \in open /\ Begin(t, r.op, h, r.conf, r.form, r.intf, r.alt)
    BY <1>6 DEF ControlMsg, Free
  <2>2. CASE r.op = "set_configuration"
    BY <2>1, <2>2, OwnRequestFacts DEF Request
  <2>3. CASE r.op = "set_interface"
    BY <2>1, <2>3, OwnRequestFacts DEF Request
  <2>4. CASE r.op = "get_descriptor"
    BY <2>1, <2>4, OwnRequestFacts DEF Request
  <2>5. QED
    BY <2>2, <2>3, <2>4, OwnRequestFacts
<1>7. CASE ResetDevice(t, h)
  BY <1>7 DEF ResetDevice, Free, Request
<1>8. CASE CloseRelease(t, h)
  <2>1. lib[h].interface \in Interfaces
    BY <1>1, <1>8 DEF CloseRelease
  <2>2. QED
    BY <1>8, <2>1 DEF CloseRelease, Free, Request
<1>9. CASE CloseHandle(t, h)
  BY <1>9 DEF CloseHandle
<1>10. QED
  BY <1>2, <1>3, <1>4, <1>5, <1>6, <1>7, <1>8, <1>9 DEF HandleCall

\* A step below the library is one of the driver's model, or none.
LEMMA HandleStepIsDriverStep == HandleInv /\ [HandleNext]_allVars => [Next]_vars
<1> SUFFICES ASSUME HandleInv, [HandleNext]_allVars PROVE [Next]_vars
  OBVIOUS
<1>1. Handles \subseteq Files
  BY HandlesAssumption
<1>2. ASSUME NEW h \in Handles, Open(h) \/ ReadCached(h) PROVE [Next]_vars
  BY <1>1, <1>2 DEF Open, ReadCached, Next
<1>3. ASSUME NEW t \in Threads, NEW h \in Handles, HandleCall(t, h) PROVE Next
  BY <1>1, <1>3, CallIsRequest DEF Next
<1>4. ASSUME NEW t \in Threads, Driver(t) PROVE Next
  BY <1>4 DEF Driver, Next
<1>5. ASSUME NEW t \in Threads, OtherProgram(t) PROVE Next
  BY <1>5 DEF OtherProgram, Next
<1>6. QED
  BY <1>2, <1>3, <1>4, <1>5 DEF HandleNext, allVars

\* What the library takes from the driver's answers is of its types: the byte
\* that is taken for a char either is a configuration or is dropped.
LEMMA AnswerTypes ==
  ASSUME NEW t \in Threads, NEW h \in Handles, HandleInv, Answer(t, h)
  PROVE lib' \in [Handles -> LibType] /\ call' \in [Handles -> Calls \union {"none"}]
<1>1. lib[h] \in LibType /\ lib \in [Handles -> LibType] /\ call \in [Handles -> Calls \union {"none"}]
  BY DEF HandleInv, LibTypes
<1>2. /\ th[t].asked \in Configs \union {NoConfig} /\ th[t].alt \in Alts
      /\ th[t].pc # "close" => th[t].intf \in Interfaces
  BY DEF HandleInv, IInv, TypeOK, ThreadType, ThreadInv, OnInterfaces
<1>3. Succeeds(t) => th[t].intf \in Interfaces
  BY <1>2 DEF Succeeds
<1>4. Succeeds(t) => Learned(t, h) \in LibType
  <2>1. [Fresh EXCEPT !.config = th[t].asked] \in LibType
    BY <1>2 DEF LibType, Fresh
  <2>2. Succeeds(t) => [lib[h] EXCEPT !.interface = th[t].intf, !.altsetting = 0] \in LibType
    BY <1>1, <1>3, ConfigAssumption DEF LibType
  <2>3. [lib[h] EXCEPT !.interface = NoInterface, !.altsetting = NoSetting] \in LibType
    BY <1>1 DEF LibType
  <2>4. [lib[h] EXCEPT !.altsetting = th[t].alt] \in LibType
    BY <1>1, <1>2 DEF LibType
  <2>5. QED
    BY <1>1, <2>1, <2>2, <2>3, <2>4 DEF Learned
<1>5. lib' \in [Handles -> LibType]
  BY <1>1, <1>4 DEF Answer
<1>6. call' \in [Handles -> Calls \union {"none"}]
  BY <1>1 DEF Answer, Ended, Calls
<1>7. QED
  BY <1>5, <1>6

\* Every step keeps the library's types.
LEMMA LibTypesKept ==
  ASSUME HandleInv, [HandleNext]_allVars
  PROVE LibTypes'
<1>1. LibTypes /\ value \in Configs \union {NoConfig}
  BY DEF HandleInv, IInv, TypeOK
<1>2. ASSUME NEW h \in Handles, Open(h) PROVE LibTypes'
  BY <1>1, <1>2 DEF Open, LibTypes, LibType, Fresh, Calls
<1>3. ASSUME NEW h \in Handles, ReadCached(h) PROVE LibTypes'
  <2>1. PICK answer \in {AsChar(value), -1} :
          lib' = IF answer > 0 THEN [lib EXCEPT ![h].config = answer] ELSE lib
    BY <1>3 DEF ReadCached
  <2>2. answer > 0 => answer \in Configs
    BY <1>1, HandlesAssumption DEF AsChar, NoConfig
  <2>3. lib' \in [Handles -> LibType]
    <3>1. answer > 0 => [lib[h] EXCEPT !.config = answer] \in LibType
      BY <1>1, <2>2 DEF LibTypes, LibType
    <3>2. QED
      BY <1>1, <2>1, <3>1 DEF LibTypes
  <2>4. QED
    BY <1>1, <1>3, <2>3 DEF ReadCached, LibTypes
<1>4. ASSUME NEW t \in Threads, NEW h \in Handles, HandleCall(t, h) PROVE LibTypes'
  <2>1. CASE CloseHandle(t, h)
    BY <1>1, <2>1 DEF CloseHandle, LibTypes, LibType, Fresh
  <2>2. CASE ~CloseHandle(t, h)
    <3>1. \E name \in Calls : Calling(h, name)
      BY <1>4, <2>2 DEF HandleCall, ConfigureHandle, ClaimInterface, ReleaseInterface,
         SetAltInterface, ControlMsg, ResetDevice, CloseRelease, Calls
    <3>2. QED
      BY <1>1, <3>1 DEF Calling, LibTypes
  <2>3. QED
    BY <2>1, <2>2
<1>5. ASSUME NEW t \in Threads, Driver(t) PROVE LibTypes'
  <2>1. /\ lib' \in [Handles -> LibType]
        /\ call' \in [Handles -> Calls \union {"none"}]
    <3>1. CASE th'[t] = Resting /\ th[t].file \in Handles
      BY <1>5, <3>1, AnswerTypes DEF Driver
    <3>2. CASE ~(th'[t] = Resting /\ th[t].file \in Handles)
      BY <1>1, <1>5, <3>2 DEF Driver, LibTypes
    <3>3. QED
      BY <3>1, <3>2
  <2>2. ASSUME NEW g \in Handles
        PROVE  ConfigDrift(t, g) \union ClaimsDrift(t, g) \union SettingDrift(t, g)
                 \in SUBSET {"config", "claims", "setting"}
    BY <1>1 DEF ConfigDrift, ClaimsDrift, SettingDrift, LibTypes
  <2>3. QED
    BY <1>5, <2>1, <2>2 DEF Driver, LibTypes
<1>6. ASSUME NEW t \in Threads, OtherProgram(t) PROVE LibTypes'
  BY <1>1, <1>6 DEF OtherProgram, LibTypes
<1>7. CASE UNCHANGED allVars
  BY <1>1, <1>7 DEF allVars, handleVars, LibTypes
<1>8. QED
  BY <1>2, <1>3, <1>4, <1>5, <1>6, <1>7 DEF HandleNext

\* The invariant of the driver and the types of the library are inductive.
LEMMA HandleInvHolds == HandleSpec => []HandleInv
<1>1. HandleInit => HandleInv
  <2> SUFFICES ASSUME HandleInit PROVE HandleInv
    OBVIOUS
  <2>1. IInv
    BY InitInv DEF HandleInit
  <2>2. LibTypes
    BY DEF HandleInit, LibTypes, LibType, Fresh
  <2>3. QED
    BY <2>1, <2>2 DEF HandleInv
<1>2. HandleInv /\ [HandleNext]_allVars => HandleInv'
  BY HandleStepIsDriverStep, NextInv, LibTypesKept DEF HandleInv
<1>3. QED
  BY <1>1, <1>2, PTL DEF HandleSpec

\* The library and its driver are a driver: whatever the calls on the handles,
\* the ioctls they make are those that the model of the driver has.
THEOREM LibraryImplementsDriver == HandleSpec => Spec
<1>1. HandleInit => Init
  BY DEF HandleInit
<1>2. QED
  BY <1>1, HandleInvHolds, HandleStepIsDriverStep, PTL DEF HandleSpec, Spec

\* So usb_close, which goes on when the release fails, leaves no interface
\* bound to its file.
THEOREM ClosedHandlesHoldNothing == HandleSpec => []ClosedFilesHoldNothing
BY LibraryImplementsDriver, ClosedFilesCorrect, PTL

\* What the library remembers has its types: a configuration and an interface
\* that there are, or none.
THEOREM HandleTypesCorrect == HandleSpec => []HandleTypeOK
<1>1. HandleInv => HandleTypeOK
  BY DEF HandleInv, IInv, LibTypes, LibType, HandleTypeOK
<1>2. QED
  BY <1>1, HandleInvHolds, PTL

\* usb_control_msg: whatever a request's header takes and whatever control
\* messages there are, a well-formed one reaches the device as it was given.
THEOREM ControlMessagesArrive == HandleSpec => []ControlArrives
<1>1. Packets \subseteq Packet
  BY RequestsAssumption
<1>2. ControlArrives
  BY <1>1, EveryMessageArrives DEF ControlArrives, MessagesArrive, Misdirected
<1>3. QED
  BY <1>2, PTL

\* And every transfer that is sent is one that its pipe can take.
THEOREM TransfersAllArrive == HandleSpec => []TransferArrives
<1>1. Transfers \subseteq Transfer
  BY RequestsAssumption
<1>2. TransferArrives
  BY <1>1, EveryTransferArrives DEF TransferArrives, TransfersArrive, Missent
<1>3. QED
  BY <1>2, PTL

-----------------------------------------------------------------------------
(* What the library remembers, as long as requests do not overlap.         *)

\* The call that a handle is in is the one whose request is under way.
CallFits(name, op, form, i, l) ==
  /\ name \in Calls \ {"open", "close_handle"}
  /\ name = "set_configuration" => op = "set_configuration" /\ form = "value"
  /\ name = "claim_interface" => op = "claim_interface"
  /\ name \in {"release_interface", "close"} => op = "release_interface"
  /\ name = "set_altinterface" => op = "set_interface" /\ i = l.interface

CallsFit ==
  \A h \in Handles, t \in Threads : th[t].file = h =>
    IF th[t].pc \in Closing THEN call[h] = "none"
    ELSE CallFits(call[h], th[t].op, th[t].form, th[t].intf, lib[h])

\* The claims that a handle has for what it remembers.
ClaimOf(l) == IF l.interface = NoInterface THEN {} ELSE {l.interface}

\* And the setting of them.
SettingOf(l) == IF l.interface = NoInterface THEN NoSetting ELSE pipes[l.interface].alt

\* What holds of a handle between the steps of a call, too.
Remembers(h) ==
  /\ lib[h].interface # NoInterface \/ call[h] = "claim_interface" => lib[h].config # NoConfig
  /\ call[h] = "set_configuration" => lib[h].interface = NoInterface
  /\ call[h] = "open" => lib[h] = Fresh /\ Claimed(h) = {}
  /\ h \in open /\ call[h] # "open" /\ "config" \notin drift[h] =>
       lib[h].config = value
  /\ h \in open /\ "claims" \notin drift[h] => Claimed(h) = ClaimOf(lib[h])

RemembersSetting(h) == "setting" \notin drift[h] => lib[h].altsetting = SettingOf(lib[h])

HandleSerialInv ==
  /\ HandleInv /\ SerialInv /\ BoundIsGranted /\ CallsFit
  /\ \A h \in Handles : Remembers(h) /\ RemembersSetting(h)

\* A call makes its request with the handle as it remembers it.
LEMMA CallBegins ==
  ASSUME NEW t \in Threads, NEW h \in Handles, HandleCall(t, h)
  PROVE  \/ CloseHandle(t, h)
         \/ \E name, op, c, form, i, a :
              /\ name \in Calls /\ op \in Requests
              /\ Free(h) /\ Begin(t, op, h, c, form, i, a) /\ Calling(h, name)
              /\ CallFits(name, op, form, i, lib[h])
              /\ name = "set_configuration" => lib[h].interface = NoInterface
              /\ name = "claim_interface" => lib[h].config # NoConfig
<1> USE DEF CallFits, Calls, Requests
<1>1. CASE ConfigureHandle(t, h)
  BY <1>1 DEF ConfigureHandle
<1>2. CASE ClaimInterface(t, h)
  BY <1>2 DEF ClaimInterface
<1>3. CASE ReleaseInterface(t, h)
  BY <1>3 DEF ReleaseInterface
<1>4. CASE SetAltInterface(t, h)
  BY <1>4 DEF SetAltInterface
<1>5. CASE ControlMsg(t, h)
  BY <1>5, OwnRequestFacts DEF ControlMsg
<1>6. CASE ResetDevice(t, h)
  BY <1>6 DEF ResetDevice
<1>7. CASE CloseRelease(t, h)
  BY <1>7 DEF CloseRelease
<1>8. QED
  BY <1>1, <1>2, <1>3, <1>4, <1>5, <1>6, <1>7 DEF HandleCall

\* A call that begins.
LEMMA CallKeepsSerial ==
  ASSUME HandleSerialInv, HandleInv', OneAtATime', NEW t \in Threads, NEW h \in Handles,
         HandleCall(t, h), ~CloseHandle(t, h)
  PROVE  CallsFit' /\ \A g \in Handles : Remembers(g)'
<1>1. PICK name, op, c, form, i, a :
        /\ name \in Calls /\ op \in Requests
        /\ Free(h) /\ Begin(t, op, h, c, form, i, a) /\ Calling(h, name)
        /\ CallFits(name, op, form, i, lib[h])
        /\ name = "set_configuration" => lib[h].interface = NoInterface
        /\ name = "claim_interface" => lib[h].config # NoConfig
  BY CallBegins
<1>2. TypeOK /\ LibTypes
  BY DEF HandleSerialInv, HandleInv, IInv
<1>3. /\ th'[t].pc \notin Closing \union {"idle"} /\ th'[t].op = op /\ th'[t].form = form
      /\ th'[t].intf = i /\ th'[t].file = h /\ \A u \in Threads : u # t => th'[u] = th[u]
  BY <1>1, <1>2 DEF Begin, TypeOK, Requests, Closing
<1>4. \A u \in Threads : u # t => th'[u] = Resting
  BY <1>3 DEF HandleSerialInv, SerialInv, OneAtATime
<1>5. /\ call'[h] = name /\ (\A g \in Handles : g # h => call'[g] = call[g])
      /\ lib' = lib /\ drift' = drift /\ value' = value /\ granted' = granted /\ open' = open
  BY <1>1, <1>2 DEF Calling, LibTypes, Begin, config
<1>6. CallsFit'
  BY <1>1, <1>3, <1>4, <1>5, RestingFields, HandlesAssumption, ConfigAssumption DEF CallsFit, CallFits
<1>7. ASSUME NEW g \in Handles PROVE Remembers(g)'
  <2>1. Remembers(g) /\ name # "open" /\ call[h] # "open"
    BY <1>1 DEF HandleSerialInv, CallFits, Free
  <2>2. QED
    BY <1>1, <1>5, <2>1 DEF Remembers, Claimed
<1>8. QED
  BY <1>6, <1>7

\* usb_close: the file is closed and what was remembered is gone.
LEMMA CloseKeepsHandles ==
  ASSUME HandleSerialInv, HandleInv', OneAtATime', NEW t \in Threads, NEW f \in Files, Close(t, f),
         \/ f \in Handles /\ CloseHandle(t, f)
         \/ f \notin Handles /\ UNCHANGED <<lib, call, drift>>
  PROVE  CallsFit' /\ \A g \in Handles : Remembers(g)'
<1>1. TypeOK /\ LibTypes
  BY DEF HandleSerialInv, HandleInv, IInv
<1>2. /\ th'[t].pc = "close" /\ th'[t].file = f
      /\ \A u \in Threads : u # t => th'[u] = th[u]
  BY <1>1 DEF Close, TypeOK, Resting
<1>3. \A u \in Threads : u # t => th'[u] = Resting
  BY <1>2 DEF HandleSerialInv, SerialInv, OneAtATime
<1>4. \A g \in Handles : g # f => call'[g] = call[g] /\ lib'[g] = lib[g] /\ drift'[g] = drift[g]
  BY <1>1 DEF CloseHandle, LibTypes
<1>5. f \in Handles => call'[f] = "none" /\ lib'[f] = Fresh
  BY <1>1 DEF CloseHandle, LibTypes
<1>6. /\ value' = value /\ open' = open \ {f}
      /\ \A g \in Files, i \in Interfaces : g # f => (<<g, i>> \in granted' <=> <<g, i>> \in granted)
  BY DEF Close, config
<1>7. CallsFit'
  BY <1>2, <1>3, <1>5, RestingFields, HandlesAssumption, ConfigAssumption DEF CallsFit, Closing
<1>8. ASSUME NEW g \in Handles PROVE Remembers(g)'
  <2>1. CASE g = f
    BY <1>5, <1>6, <2>1 DEF Remembers, Fresh
  <2>2. CASE g # f
    <3>1. Claimed(g)' = Claimed(g) /\ (g \in open' <=> g \in open)
      BY <1>6, <2>2, HandlesAssumption DEF Claimed
    <3>2. QED
      BY <1>4, <1>6, <2>2, <3>1 DEF HandleSerialInv, Remembers
  <2>3. QED
    BY <2>1, <2>2
<1>9. QED
  BY <1>7, <1>8

\* A new file, the library's or another program's.
LEMMA OpenKeepsHandles ==
  ASSUME HandleSerialInv, HandleInv', NEW f \in Files, Create(f),
         \/ f \in Handles /\ Open(f)
         \/ f \notin Handles /\ UNCHANGED <<lib, call, drift>>
  PROVE  CallsFit' /\ \A g \in Handles : Remembers(g)'
<1>1. TypeOK /\ LibTypes
  BY DEF HandleSerialInv, HandleInv, IInv
<1>2. /\ \A t \in Threads : th'[t] = th[t] /\ th[t].file # f
      /\ value' = value /\ granted' = granted /\ open' = open \union {f} /\ f \notin open
  BY DEF Create, config
<1>3. \A g \in Handles : g # f => call'[g] = call[g] /\ lib'[g] = lib[g] /\ drift'[g] = drift[g]
  BY <1>1 DEF Open, LibTypes
<1>4. f \in Handles => call'[f] = "open" /\ lib'[f] = Fresh /\ drift'[f] = {}
  BY <1>1 DEF Open, LibTypes
<1>5. Claimed(f) = {}
  <2>1. \E r : Owners(r)
    BY DEF HandleSerialInv, SerialInv, Safe, Quiet
  <2>2. QED
    BY <1>2, <2>1 DEF Owners, Claimed
<1>6. CallsFit'
  BY <1>2, <1>3 DEF HandleSerialInv, CallsFit
<1>7. ASSUME NEW g \in Handles PROVE Remembers(g)'
  <2>1. Claimed(g)' = Claimed(g)
    BY <1>2 DEF Claimed
  <2>2. CASE g = f
    BY <1>4, <1>5, <2>1, <2>2 DEF Remembers, Fresh, ClaimOf
  <2>3. CASE g # f
    BY <1>2, <1>3, <2>1, <2>3 DEF HandleSerialInv, Remembers
  <2>4. QED
    BY <2>2, <2>3
<1>8. QED
  BY <1>6, <1>7

\* The driver's configuration, as the handle learns it when it is opened.
LEMMA ReadKeepsHandles ==
  ASSUME HandleSerialInv, HandleInv', NEW h \in Handles, ReadCached(h)
  PROVE  CallsFit' /\ \A g \in Handles : Remembers(g)'
<1>1. TypeOK /\ LibTypes /\ call[h] = "open"
  BY DEF HandleSerialInv, HandleInv, IInv, ReadCached
<1>2. UNCHANGED <<th, value, granted, open>>
  BY DEF ReadCached, vars, config
<1>3. \A g \in Handles : g # h => call'[g] = call[g] /\ lib'[g] = lib[g] /\ drift'[g] = drift[g]
  BY <1>1 DEF ReadCached, LibTypes
<1>4. /\ call'[h] = "none" /\ lib'[h].interface = lib[h].interface
      /\ drift'[h] = IF lib'[h].config = value THEN {} ELSE {"config"}
  BY <1>1 DEF ReadCached, LibTypes
<1>5. CallsFit'
  <2>1. \A t \in Threads : th[t].file # h
    BY <1>1 DEF HandleSerialInv, CallsFit, CallFits
  <2>2. QED
    BY <1>2, <1>3, <2>1 DEF HandleSerialInv, CallsFit
<1>6. ASSUME NEW g \in Handles PROVE Remembers(g)'
  <2>1. Claimed(g)' = Claimed(g) /\ Remembers(g)
    BY <1>2 DEF Claimed, HandleSerialInv
  <2>2. CASE g = h
    BY <1>1, <1>2, <1>4, <2>1, <2>2 DEF Remembers, Fresh, ClaimOf
  <2>3. CASE g # h
    BY <1>2, <1>3, <2>1, <2>3 DEF Remembers
  <2>4. QED
    BY <2>2, <2>3
<1>7. QED
  BY <1>5, <1>6

\* A request of another program.
LEMMA OthersKeepHandles ==
  ASSUME HandleSerialInv, HandleInv', OneAtATime', NEW t \in Threads, Request(t),
         th'[t].file \notin Handles, UNCHANGED <<lib, call, drift>>
  PROVE  CallsFit' /\ \A g \in Handles : Remembers(g)'
<1>1. UNCHANGED <<value, granted, open>>
  BY DEF Request, Begin, config
<1>2. TypeOK /\ th'[t].pc # "idle" /\ \A u \in Threads : u # t => th'[u] = th[u]
  BY RequestMoves DEF HandleSerialInv, HandleInv, IInv
<1>3. \A u \in Threads : u # t => th'[u] = Resting
  BY <1>2 DEF HandleSerialInv, SerialInv, OneAtATime
<1>4. CallsFit'
  BY <1>3, RestingFields, HandlesAssumption, ConfigAssumption DEF CallsFit
<1>5. ASSUME NEW g \in Handles PROVE Remembers(g)'
  BY <1>1 DEF HandleSerialInv, Remembers, Claimed
<1>6. QED
  BY <1>4, <1>5

\* The driver takes a step of a request: the calls still fit.
LEMMA DriverKeepsCalls ==
  ASSUME HandleSerialInv, OneAtATime, NEW t \in Threads, Driver(t)
  PROVE  CallsFit'
<1>1. IInv /\ SerialInv /\ LibTypes /\ CallsFit /\ (ConfigStep(t) \/ InterfaceStep(t))
  BY DEF HandleSerialInv, HandleInv, Driver
<1>2. \A u \in Threads : u # t => th'[u] = Resting
  BY <1>1, OthersRest DEF IInv, SerialInv
<1>3. th'[t] # Resting =>
        /\ call' = call /\ lib' = lib /\ th'[t].file = th[t].file /\ th'[t].op = th[t].op
        /\ th'[t].form = th[t].form /\ (th'[t].pc \in Closing <=> th[t].pc \in Closing)
        /\ th'[t].pc \notin Closing => th'[t].intf = th[t].intf
  BY <1>1, StepStays DEF Driver, IInv, Stays
<1>4. QED
  BY <1>1, <1>2, <1>3, RestingFields, HandlesAssumption, ConfigAssumption DEF CallsFit

\* A step for something else than the handle's own calls.
LEMMA OtherStepRemembers ==
  ASSUME HandleSerialInv, OneAtATime, NEW t \in Threads, Driver(t), NEW h \in Handles,
         ~Own(t, h, Claiming)
  PROVE  Remembers(h)'
<1>1. /\ IInv /\ SerialInv /\ LibTypes /\ CallsFit /\ (ConfigStep(t) \/ InterfaceStep(t))
      /\ Remembers(h)
  BY DEF HandleSerialInv, HandleInv, Driver
<1>2. /\ lib'[h].config = lib[h].config /\ lib'[h].interface = lib[h].interface
      /\ th[t].file # h => lib'[h] = lib[h]
  <2>1. lib'[h] = lib[h] \/ (th[t].file = h /\ lib'[h] = Learned(t, h))
    BY <1>1 DEF Driver, Answer, LibTypes
  <2>2. th[t].file = h =>
          /\ Learned(t, h).config = lib[h].config
          /\ Learned(t, h).interface = lib[h].interface
    <3>1. lib[h] \in LibType
      BY <1>1 DEF LibTypes
    <3>2. th[t].file = h => call[h] \notin Claiming
      BY DEF Own
    <3>3. [lib[h] EXCEPT !.altsetting = th[t].alt].config = lib[h].config
      BY <3>1 DEF LibType
    <3>4. [lib[h] EXCEPT !.altsetting = th[t].alt].interface = lib[h].interface
      BY <3>1 DEF LibType
    <3>5. QED
      BY <3>2, <3>3, <3>4 DEF Learned, Claiming
  <2>3. QED
    BY <2>1, <2>2
<1>3. call'[h] = call[h] \/ (call'[h] = "none" /\ th[t].file = h)
  BY <1>1 DEF Driver, Answer, Ended, LibTypes, Claiming, Own
<1>4. /\ "config" \notin drift'[h] =>
           "config" \notin drift[h] /\ value' = value
      /\ "claims" \notin drift'[h] => "claims" \notin drift[h] /\ Claimed(h)' = Claimed(h)
  <2>1. ~Own(t, h, {"set_configuration"}) /\ ~Own(t, h, {"claim_interface"})
    BY DEF Own, Claiming
  <2>2. /\ ConfigDrift(t, h) = (drift[h] \intersect {"config"}) \union
             (IF value' # value THEN {"config"} ELSE {})
        /\ ClaimsDrift(t, h) = (drift[h] \intersect {"claims"}) \union
             (IF Claimed(h)' # Claimed(h) THEN {"claims"} ELSE {})
    BY <2>1 DEF ConfigDrift, ClaimsDrift, Done
  <2>3. drift'[h] = ConfigDrift(t, h) \union ClaimsDrift(t, h) \union SettingDrift(t, h)
    BY DEF Driver
  <2>4. QED
    BY <2>2, <2>3
<1>5. open' = open
  BY <1>1 DEF ConfigStep, InterfaceStep, SetConfigCheck, Unconfigure, TimedOut, Lookup, Fetch, Cache,
     Compare, Select, Selected, UpdatePipes, FreeOld, Assign, Reset, CyclePort, SetAltCheck,
     SetAltCall, AltSet, GetAltCheck, GotAlt, ClaimCheck, Bind, ReleaseCheck, Unbind, CloseTest,
     CloseUnbind
<1>6. call[h] = "open" => th[t].file # h
  BY <1>1 DEF CallsFit, CallFits
<1>7. call[h] = "open" => Claimed(h)' = {}
  <2>1. call[h] = "open" => Claimed(h) = {}
    BY <1>1 DEF Remembers
  <2>2. th[t].file # h => Claimed(h)' \subseteq Claimed(h)
    BY <1>1, StepEffects DEF Claimed
  <2>3. QED
    BY <1>6, <2>1, <2>2
<1>8. ClaimOf(lib'[h]) = ClaimOf(lib[h])
  BY <1>2 DEF ClaimOf
<1>9. lib[h].interface # NoInterface \/ call[h] = "claim_interface" => lib[h].config # NoConfig
  BY <1>1 DEF Remembers
<1>10. call[h] = "set_configuration" => lib[h].interface = NoInterface
  BY <1>1 DEF Remembers
<1>11. call[h] = "open" => lib'[h] = Fresh /\ Claimed(h)' = {}
  BY <1>1, <1>2, <1>6, <1>7 DEF Remembers
<1>12. h \in open' /\ call'[h] # "open" /\ "config" \notin drift'[h] =>
         lib'[h].config = value'
  <2>1. call[h] = "open" => call'[h] = "open"
    BY <1>3, <1>6
  <2>2. QED
    BY <1>1, <1>2, <1>4, <1>5, <2>1 DEF Remembers
<1>13. h \in open' /\ "claims" \notin drift'[h] => Claimed(h)' = ClaimOf(lib'[h])
  BY <1>1, <1>4, <1>5, <1>8 DEF Remembers
<1>14. QED
  BY <1>2, <1>3, <1>9, <1>10, <1>11, <1>12, <1>13 DEF Remembers

\* A step of the handle's own call.
LEMMA OwnStepRemembers ==
  ASSUME HandleSerialInv, OneAtATime, NEW t \in Threads, Driver(t), NEW h \in Handles,
         th[t].file = h, call[h] \in Claiming
  PROVE  Remembers(h)'
<1>1. /\ IInv /\ SerialInv /\ LibTypes /\ BoundIsGranted /\ CallsFit
      /\ (ConfigStep(t) \/ InterfaceStep(t)) /\ Remembers(h)
  BY DEF HandleSerialInv, HandleInv, Driver
<1>2. th[t].pc \notin Closing /\ CallFits(call[h], th[t].op, th[t].form, th[t].intf, lib[h])
  BY <1>1 DEF CallsFit, Claiming
<1>3. th[t].pc # "idle" /\ Shape(th[t])
  BY <1>1, OthersRest DEF IInv, SerialInv, Safe
<1>4. th[t].file \in open /\ th[t].intf \in Interfaces
  BY <1>1, <1>2, <1>3 DEF IInv, ThreadInv, RequestsOnOpenFiles, OnInterfaces, Closing
<1>5. UNCHANGED open
  BY <1>1 DEF ConfigStep, InterfaceStep, SetConfigCheck, Unconfigure, TimedOut, Lookup, Fetch, Cache,
     Compare, Select, Selected, UpdatePipes, FreeOld, Assign, Reset, CyclePort, SetAltCheck,
     SetAltCall, AltSet, GetAltCheck, GotAlt, ClaimCheck, Bind, ReleaseCheck, Unbind, CloseTest,
     CloseUnbind
<1>D. /\ drift'[h] \intersect {"config"} = ConfigDrift(t, h)
      /\ "claims" \in drift'[h] <=> "claims" \in ClaimsDrift(t, h)
  BY <1>1 DEF Driver, ConfigDrift, ClaimsDrift, SettingDrift, LibTypes
<1>6. CASE call[h] = "set_configuration"
  <2>1. th[t].op = "set_configuration" /\ th[t].form = "value" /\ lib[h].interface = NoInterface
    BY <1>1, <1>2, <1>6 DEF CallFits, Remembers
  <2>2. th[t].pc \notin {"alt_set", "bind", "unbind", "claim"}
    BY <1>3, <2>1 DEF Shape
  <2>3. Claimed(h) = {} => Claimed(h)' = {}
    BY <1>1, <2>2, StepEffects DEF Claimed
  <2>4. CASE th'[t] = Resting /\ Succeeds(t)
    <3>1. lib'[h] = [Fresh EXCEPT !.config = th[t].asked] /\ call'[h] = "none"
      BY <1>1, <1>6, <2>4 DEF Driver, Answer, Ended, Learned, LibTypes
    <3>2. lib'[h].config = th[t].asked /\ lib'[h].interface = NoInterface
      BY <3>1 DEF Fresh
    <3>3. Done(t, h, {"set_configuration"})
      BY <1>6, <2>4 DEF Done, Own
    <3>4. "claims" \notin drift'[h] => Claimed(h)' = {}
      BY <1>D, <3>3 DEF ClaimsDrift
    <3>5. "config" \notin drift'[h] => ~th[t].late /\ th[t].pc # "timed_out"
      BY <1>D, <3>3 DEF ConfigDrift
    <3>6. th[t].pc \in {"set_config", "timed_out", "selected", "assign"}
      BY <2>2, <2>4 DEF Succeeds
    <3>7. th[t].pc # "timed_out" => value' = th[t].conf
      BY <1>1, <2>1, <2>4, <3>6, StepEffects
    <3>8. ~th[t].late /\ th[t].pc # "timed_out" => th[t].conf = th[t].asked
      BY <1>3, <2>1, <3>6 DEF Shape, Early
    <3>9. QED
      BY <3>1, <3>2, <3>4, <3>5, <3>7, <3>8 DEF Remembers, ClaimOf
  <2>5. CASE ~(th'[t] = Resting /\ Succeeds(t))
    <3>1. lib'[h] = lib[h] /\ call'[h] \in {call[h], "none"}
      BY <1>1, <1>6, <2>5 DEF Driver, Answer, Ended, LibTypes
    <3>2. Own(t, h, Claiming) /\ ~Done(t, h, {"set_configuration"})
      BY <1>6, <2>5 DEF Own, Done, Claiming
    <3>3. /\ drift'[h] \intersect {"config"} = drift[h] \intersect {"config"}
          /\ "claims" \in drift[h] => "claims" \in drift'[h]
      BY <1>D, <3>2 DEF ConfigDrift, ClaimsDrift
    <3>4. value' = value
      BY <1>1, <2>5, StepEffects DEF Succeeds
    <3>5. QED
      BY <1>1, <1>4, <1>5, <1>6, <2>1, <2>3, <3>1, <3>3, <3>4 DEF Remembers, ClaimOf
  <2>6. QED
    BY <2>4, <2>5
<1>C. CASE call[h] # "set_configuration"
  <2>1. Own(t, h, Claiming) /\ ~Done(t, h, {"set_configuration"})
    BY <1>C DEF Own, Done
  <2>2. /\ drift'[h] \intersect {"config"} = drift[h] \intersect {"config"}
        /\ "claims" \in drift'[h] <=>
             \/ "claims" \in drift[h]
             \/ call[h] = "claim_interface" /\ lib[h].interface # NoInterface
    BY <1>D, <2>1 DEF ConfigDrift, ClaimsDrift, Own
  <2>3. CASE call[h] = "claim_interface"
    <3>1. th[t].op = "claim_interface"
      BY <1>2, <2>3 DEF CallFits
    <3>2. th[t].pc \in {"claim", "bind"}
      BY <1>1, <1>2, <1>3, <3>1 DEF Shape, Owning, Closing, IInv, TypeOK, ThreadType, Steps
    <3>3. value' = value
      BY <1>1, <3>2, StepEffects
    <3>4. lib[h].config # NoConfig
      BY <1>1, <2>3 DEF Remembers
    <3>5. CASE th'[t] = Resting /\ Succeeds(t)
      <4>1. /\ lib'[h] = [lib[h] EXCEPT !.interface = th[t].intf, !.altsetting = 0]
            /\ call'[h] = "none"
        BY <1>1, <2>3, <3>5 DEF Driver, Answer, Ended, Learned, LibTypes
      <4>2. /\ lib'[h].config = lib[h].config /\ lib'[h].interface = th[t].intf
            /\ th[t].intf # NoInterface
        BY <1>1, <1>4, <4>1, InterfaceFacts DEF LibTypes, LibType, NoInterface
      <4>3. Claimed(h)' = Claimed(h) \union {th[t].intf}
        <5>1. CASE th[t].pc = "bind"
          BY <1>1, <1>4, <5>1, StepEffects DEF Claimed
        <5>2. CASE th[t].pc = "claim"
          <6>1. bound[th[t].intf] = h
            BY <3>5, <5>2 DEF Succeeds
          <6>2. <<h, th[t].intf>> \in granted
            BY <1>1, <1>4, <6>1 DEF BoundIsGranted
          <6>3. QED
            BY <1>1, <1>4, <5>2, <6>2, StepEffects DEF Claimed
        <5>3. QED
          BY <3>2, <5>1, <5>2
      <4>4. QED
        BY <1>1, <1>4, <2>2, <2>3, <3>3, <3>4, <4>1, <4>2, <4>3 DEF Remembers, ClaimOf
    <3>6. CASE ~(th'[t] = Resting /\ Succeeds(t))
      <4>1. lib'[h] = lib[h] /\ call'[h] \in {call[h], "none"}
        BY <1>1, <2>3, <3>6 DEF Driver, Answer, Ended, LibTypes
      <4>2. Claimed(h)' = Claimed(h)
        BY <1>1, <3>2, <3>6, StepEffects DEF Claimed, Succeeds
      <4>3. QED
        BY <1>1, <1>4, <1>5, <2>2, <2>3, <3>3, <4>1, <4>2 DEF Remembers
    <3>7. QED
      BY <3>5, <3>6
  <2>4. CASE call[h] \in {"release_interface", "close"}
    <3>1. th[t].op = "release_interface"
      BY <1>2, <2>4 DEF CallFits
    <3>2. th[t].pc \in {"release", "unbind"}
      BY <1>1, <1>2, <1>3, <3>1 DEF Shape, Owning, Closing, IInv, TypeOK, ThreadType, Steps
    <3>3. value' = value
      BY <1>1, <3>2, StepEffects
    <3>4. CASE th[t].pc = "unbind"
      <4>1. th'[t] = Resting /\ Succeeds(t)
        BY <1>1, <3>4, StepEffects DEF Succeeds
      <4>2. /\ lib'[h] = [lib[h] EXCEPT !.interface = NoInterface, !.altsetting = NoSetting]
            /\ call'[h] \in {"none", "close_handle"}
        BY <1>1, <2>4, <4>1 DEF Driver, Answer, Ended, Learned, LibTypes
      <4>3. lib'[h].config = lib[h].config /\ lib'[h].interface = NoInterface
        BY <1>1, <4>2 DEF LibTypes, LibType
      <4>4. <<h, th[t].intf>> \in granted
        BY <1>1, <1>4, <3>4, StepEffects DEF BoundIsGranted
      <4>5. Claimed(h)' = Claimed(h) \ {th[t].intf} /\ th[t].intf \in Claimed(h)
        BY <1>1, <1>4, <3>4, <4>4, StepEffects DEF Claimed
      <4>6. QED
        BY <1>1, <1>4, <2>2, <2>4, <3>3, <4>2, <4>3, <4>5 DEF Remembers, ClaimOf
    <3>5. CASE th[t].pc = "release"
      <4>1. ~Succeeds(t)
        BY <3>5 DEF Succeeds
      <4>2. lib'[h] = lib[h] /\ call'[h] \in {call[h], "none", "close_handle"}
        BY <1>1, <2>4, <4>1 DEF Driver, Answer, Ended, LibTypes
      <4>3. Claimed(h)' = Claimed(h)
        BY <1>1, <3>5, StepEffects DEF Claimed
      <4>4. QED
        BY <1>1, <1>4, <1>5, <2>2, <2>4, <3>3, <4>2, <4>3 DEF Remembers
    <3>6. QED
      BY <3>2, <3>4, <3>5
  <2>5. QED
    BY <1>C, <2>3, <2>4 DEF Claiming
<1>9. QED
  BY <1>6, <1>C

\* Calls, and what other programs do, leave the settings alone.
LEMMA CallsKeepSetting ==
  ASSUME HandleSerialInv, NEW g \in Handles,
         \/ \E h \in Handles : Open(h) \/ ReadCached(h)
         \/ \E t \in Threads, h \in Handles : HandleCall(t, h)
         \/ \E t \in Threads : OtherProgram(t)
         \/ UNCHANGED allVars
  PROVE  RemembersSetting(g)'
<1>1. LibTypes /\ RemembersSetting(g) /\ Remembers(g)
  BY DEF HandleSerialInv, HandleInv
<1>2. SettingOf(Fresh) = NoSetting /\ SettingOf(Fresh)' = NoSetting /\ Fresh.altsetting = NoSetting
  BY DEF SettingOf, Fresh
<1>3. pipes' = pipes
  <2>1. ASSUME NEW h \in Handles, Open(h) \/ ReadCached(h) PROVE pipes' = pipes
    BY <2>1 DEF Open, ReadCached, Create, vars
  <2>2. ASSUME NEW t \in Threads, NEW h \in Handles, HandleCall(t, h) PROVE pipes' = pipes
    BY <2>2, CallIsRequest DEF Request, Begin, Close, HandleSerialInv
  <2>3. ASSUME NEW t \in Threads, OtherProgram(t) PROVE pipes' = pipes
    BY <2>3 DEF OtherProgram, Request, Begin, Create, Close
  <2>4. QED
    BY <2>1, <2>2, <2>3 DEF allVars, vars
<1>4. ASSUME lib'[g] = lib[g], "setting" \in drift[g] => "setting" \in drift'[g]
      PROVE  RemembersSetting(g)'
  BY <1>1, <1>3, <1>4 DEF RemembersSetting, SettingOf
<1>5. ASSUME NEW h \in Handles, Open(h) PROVE RemembersSetting(g)'
  <2>1. CASE g = h
    <3>1. lib'[g] = Fresh
      BY <1>1, <1>5, <2>1 DEF Open, LibTypes
    <3>2. QED
      BY <1>2, <3>1 DEF RemembersSetting, SettingOf
  <2>2. CASE g # h
    BY <1>1, <1>4, <1>5, <2>2 DEF Open, LibTypes
  <2>3. QED
    BY <2>1, <2>2
<1>6. ASSUME NEW h \in Handles, ReadCached(h) PROVE RemembersSetting(g)'
  <2>1. CASE g = h
    <3>1. lib[g] = Fresh
      BY <1>1, <1>6, <2>1 DEF ReadCached, Remembers
    <3>2. lib'[g].interface = NoInterface /\ lib'[g].altsetting = NoSetting
      BY <1>1, <1>6, <2>1, <3>1 DEF ReadCached, LibTypes, Fresh
    <3>3. QED
      BY <3>2 DEF RemembersSetting, SettingOf
  <2>2. CASE g # h
    BY <1>1, <1>4, <1>6, <2>2 DEF ReadCached, LibTypes
  <2>3. QED
    BY <2>1, <2>2
<1>7. ASSUME NEW t \in Threads, NEW h \in Handles, HandleCall(t, h) PROVE RemembersSetting(g)'
  <2>1. CASE CloseHandle(t, h) /\ g = h
    <3>1. lib'[g] = Fresh
      BY <1>1, <2>1 DEF CloseHandle, LibTypes
    <3>2. QED
      BY <1>2, <3>1 DEF RemembersSetting, SettingOf
  <2>2. CASE CloseHandle(t, h) /\ g # h
    BY <1>1, <1>4, <2>2 DEF CloseHandle, LibTypes
  <2>3. CASE ~CloseHandle(t, h)
    <3>1. UNCHANGED <<lib, drift>>
      BY <1>7, <2>3, CallBegins DEF Calling
    <3>2. QED
      BY <1>4, <3>1
  <2>4. QED
    BY <2>1, <2>2, <2>3
<1>8. ASSUME NEW t \in Threads, OtherProgram(t) PROVE RemembersSetting(g)'
  BY <1>4, <1>8 DEF OtherProgram
<1>9. CASE UNCHANGED allVars
  BY <1>4, <1>9 DEF allVars, handleVars
<1>10. QED
  BY <1>5, <1>6, <1>7, <1>8, <1>9

\* A step of the driver: what it does to a claimed interface's pipes is the
\* handle's own doing, or is noted.
LEMMA DriverKeepsSetting ==
  ASSUME HandleSerialInv, OneAtATime, NEW t \in Threads, Driver(t), NEW h \in Handles
  PROVE  RemembersSetting(h)'
<1>1. /\ IInv /\ SerialInv /\ LibTypes /\ CallsFit /\ (ConfigStep(t) \/ InterfaceStep(t))
      /\ RemembersSetting(h)
  BY DEF HandleSerialInv, HandleInv, Driver
<1>2. lib[h] \in LibType
  BY <1>1 DEF LibTypes
<1>3. drift'[h] = ConfigDrift(t, h) \union ClaimsDrift(t, h) \union SettingDrift(t, h)
  BY DEF Driver
<1>4. th[t].pc # "idle" /\ Shape(th[t])
  BY <1>1, OthersRest DEF IInv, SerialInv, Safe
<1>5. CASE Done(t, h, {"set_configuration", "release_interface", "close"})
  <2>1. lib'[h] = Learned(t, h) /\ call[h] \in {"set_configuration", "release_interface", "close"}
    BY <1>1, <1>5 DEF Done, Own, Driver, Answer, LibTypes
  <2>2. lib'[h].interface = NoInterface /\ lib'[h].altsetting = NoSetting
    BY <1>2, <2>1 DEF Learned, LibType, Fresh
  <2>3. QED
    BY <2>2 DEF RemembersSetting, SettingOf
<1>6. CASE Done(t, h, {"set_altinterface"})
  <2>1. lib'[h] = [lib[h] EXCEPT !.altsetting = th[t].alt] /\ call[h] = "set_altinterface"
    BY <1>1, <1>6 DEF Done, Own, Driver, Answer, Learned, LibTypes
  <2>2. lib'[h].interface = lib[h].interface /\ lib'[h].altsetting = th[t].alt
    BY <1>2, <2>1 DEF LibType
  <2>3. th[t].pc \notin Closing /\ th[t].op = "set_interface" /\ th[t].intf = lib[h].interface
    BY <1>1, <1>6, <2>1 DEF CallsFit, CallFits, Done, Own
  <2>4. th[t].pc = "alt_set"
    <3>1. \/ th[t].pc \in {"set_config", "timed_out", "selected", "assign", "alt_set", "bind", "unbind"}
          \/ th[t].pc = "claim"
      BY <1>6 DEF Done, Succeeds
    <3>2. th[t].pc \notin {"set_config", "timed_out", "selected"} /\ th[t].pc \notin {"bind", "claim"}
          /\ th[t].pc # "unbind" /\ th[t].pc # "assign"
      BY <1>4, <2>3 DEF Shape, Owning
    <3>3. QED
      BY <3>1, <3>2
  <2>5. pipes'[th[t].intf].alt = th[t].alt
    BY <1>1, <2>4, StepEffects
  <2>6. lib[h].interface # NoInterface
    BY <1>1, <2>3, <2>4, InterfaceFacts DEF NoInterface, IInv, ThreadInv, OnInterfaces
  <2>7. QED
    BY <2>2, <2>3, <2>5, <2>6 DEF RemembersSetting, SettingOf
<1>7. CASE Done(t, h, {"claim_interface"})
  <2>1. /\ lib'[h] = [lib[h] EXCEPT !.interface = th[t].intf, !.altsetting = 0]
        /\ call[h] = "claim_interface"
    BY <1>1, <1>7 DEF Done, Own, Driver, Answer, Learned, LibTypes
  <2>2. lib'[h].interface = th[t].intf /\ lib'[h].altsetting = 0
    BY <1>2, <2>1 DEF LibType
  <2>3. th[t].pc \notin Closing /\ th[t].op = "claim_interface"
    BY <1>1, <1>7, <2>1 DEF CallsFit, CallFits, Done, Own
  <2>4. th[t].pc \in {"claim", "bind"}
    <3>1. \/ th[t].pc \in {"set_config", "timed_out", "selected", "assign", "alt_set", "bind", "unbind"}
          \/ th[t].pc = "claim"
      BY <1>7 DEF Done, Succeeds
    <3>2. th[t].pc \notin {"set_config", "timed_out", "selected"} /\ th[t].pc # "alt_set"
          /\ th[t].pc # "unbind" /\ th[t].pc # "assign"
      BY <1>4, <2>3 DEF Shape, Owning
    <3>3. QED
      BY <3>1, <3>2
  <2>5. pipes' = pipes
    BY <1>1, <2>4, StepEffects
  <2>6. th[t].intf # NoInterface
    BY <1>1, <2>4, InterfaceFacts DEF NoInterface, IInv, ThreadInv, OnInterfaces
  <2>7. SettingDrift(t, h) = IF pipes[th[t].intf].alt = 0 THEN {} ELSE {"setting"}
    <3>1. ~Done(t, h, {"set_configuration", "release_interface", "close", "set_altinterface"})
      BY <2>1 DEF Done, Own
    <3>2. QED
      BY <1>7, <3>1 DEF SettingDrift
  <2>8. QED
    BY <1>3, <2>2, <2>5, <2>6, <2>7 DEF RemembersSetting, SettingOf
<1>8. CASE /\ ~Done(t, h, {"set_configuration", "release_interface", "close"})
           /\ ~Done(t, h, {"set_altinterface"}) /\ ~Done(t, h, {"claim_interface"})
  <2>1. lib'[h] = lib[h]
    <3>1. CASE Own(t, h, Calls \union {"none"}) /\ th'[t] = Resting /\ Succeeds(t)
      <4>1. call[h] \notin {"set_configuration", "release_interface", "close", "set_altinterface",
                            "claim_interface"}
        BY <1>8, <3>1 DEF Done, Own
      <4>2. Learned(t, h) = lib[h]
        BY <4>1 DEF Learned
      <4>3. QED
        BY <1>1, <4>2 DEF Driver, Answer, LibTypes
    <3>2. CASE ~(Own(t, h, Calls \union {"none"}) /\ th'[t] = Resting /\ Succeeds(t))
      BY <1>1, <3>2 DEF Driver, Answer, Own, LibTypes
    <3>3. QED
      BY <3>1, <3>2
  <2>2. ~Done(t, h, {"set_configuration", "release_interface", "close", "set_altinterface"})
    BY <1>8 DEF Done, Own
  <2>3. SettingDrift(t, h) = (drift[h] \intersect {"setting"}) \union
          (IF \E i \in {lib[h].interface} \ {NoInterface} : pipes[i]'.alt # pipes[i].alt
           THEN {"setting"} ELSE {})
    BY <1>8, <2>2 DEF SettingDrift
  <2>4. QED
    BY <1>1, <1>3, <2>1, <2>3 DEF RemembersSetting, SettingOf
<1>9. QED
  BY <1>5, <1>6, <1>7, <1>8

\* Every step keeps what the handles remember.
LEMMA HandleSerialKept ==
  ASSUME HandleSerialInv, OneAtATime, OneAtATime', [HandleNext]_allVars
  PROVE  HandleSerialInv'
<1>1. HandleInv' /\ [Next]_vars
  BY HandleStepIsDriverStep, NextInv, LibTypesKept DEF HandleSerialInv, HandleInv
<1>2. SerialInv' /\ BoundIsGranted'
  BY <1>1, NextSerial, NextBoundIsGranted DEF HandleSerialInv, HandleInv
<1>3. CallsFit' /\ \A h \in Handles : Remembers(h)'
  <2>1. CASE \E h \in Handles : Open(h)
    BY <1>1, <2>1, OpenKeepsHandles, HandlesAssumption DEF Open
  <2>2. CASE \E h \in Handles : ReadCached(h)
    BY <1>1, <2>2, ReadKeepsHandles
  <2>3. CASE \E t \in Threads, h \in Handles : HandleCall(t, h)
    <3>1. PICK t \in Threads, h \in Handles : HandleCall(t, h)
      BY <2>3
    <3>2. CASE CloseHandle(t, h)
      BY <1>1, <3>2, CloseKeepsHandles, HandlesAssumption DEF CloseHandle
    <3>3. CASE ~CloseHandle(t, h)
      BY <1>1, <3>1, <3>3, CallKeepsSerial
    <3>4. QED
      BY <3>2, <3>3
  <2>4. CASE \E t \in Threads : Driver(t)
    <3>1. PICK t \in Threads : Driver(t)
      BY <2>4
    <3>2. CallsFit'
      BY <3>1, DriverKeepsCalls
    <3>3. ASSUME NEW h \in Handles PROVE Remembers(h)'
      <4>1. CASE Own(t, h, Claiming)
        <5>1. th[t].file = h /\ call[h] \in Claiming
          BY <4>1 DEF Own
        <5>2. QED
          BY <3>1, <5>1, OwnStepRemembers
      <4>2. CASE ~Own(t, h, Claiming)
        BY <3>1, <4>2, OtherStepRemembers
      <4>3. QED
        BY <4>1, <4>2
    <3>4. QED
      BY <3>2, <3>3
  <2>5. CASE \E t \in Threads : OtherProgram(t)
    <3>1. PICK t \in Threads : OtherProgram(t)
      BY <2>5
    <3>2. UNCHANGED <<lib, call, drift>>
      BY <3>1 DEF OtherProgram
    <3>3. CASE \E f \in Files \ Handles : Create(f)
      BY <1>1, <3>2, <3>3, OpenKeepsHandles
    <3>4. CASE \E f \in Files \ Handles : Close(t, f)
      BY <1>1, <3>2, <3>4, CloseKeepsHandles
    <3>5. CASE Request(t) /\ th'[t].file \notin Handles
      BY <1>1, <3>1, <3>2, <3>5, OthersKeepHandles
    <3>6. QED
      BY <3>1, <3>3, <3>4, <3>5 DEF OtherProgram
  <2>6. CASE UNCHANGED allVars
    BY <2>6
       DEF allVars, vars, config, handleVars, HandleSerialInv, CallsFit, Remembers, Claimed
  <2>7. QED
    BY <2>1, <2>2, <2>3, <2>4, <2>5, <2>6 DEF HandleNext
<1>4. \A h \in Handles : RemembersSetting(h)'
  BY CallsKeepSetting, DriverKeepsSetting DEF HandleNext
<1>5. QED
  BY <1>1, <1>2, <1>3, <1>4 DEF HandleSerialInv

\* What holds of a handle holds as long as requests do not overlap.
LEMMA HandleSerialHolds == HandleSpec /\ []OneAtATime => []HandleSerialInv
<1>1. HandleInit => HandleSerialInv
  <2> SUFFICES ASSUME HandleInit PROVE HandleSerialInv
    OBVIOUS
  <2>1. Init /\ \A t \in Threads : th[t] = Resting
    BY DEF HandleInit, Init
  <2>2. HandleInv
    BY <2>1, InitInv DEF HandleInv, HandleInit, LibTypes, LibType, Fresh
  <2>3. CallsFit
    BY <2>1, RestingFields, HandlesAssumption, ConfigAssumption DEF CallsFit
  <2>4. \A h \in Handles : Remembers(h)
    BY <2>1 DEF HandleInit, Init, Remembers, Fresh
  <2>5. \A h \in Handles : RemembersSetting(h)
    BY DEF HandleInit, RemembersSetting, SettingOf, Fresh
  <2>6. QED
    BY <2>1, <2>2, <2>3, <2>4, <2>5, InitSerial, InitBoundIsGranted DEF HandleSerialInv
<1>2. HandleSerialInv /\ OneAtATime /\ OneAtATime' /\ [HandleNext]_allVars => HandleSerialInv'
  BY HandleSerialKept
<1>3. QED
  BY <1>1, <1>2, PTL DEF HandleSpec

\* Between calls a handle remembers the driver's configuration, unless something
\* else has changed it or a timeout was taken for a success; the interface it has
\* claimed, unless it has claimed several or lost it to another's configuration;
\* and the setting whose pipes the driver has for that interface, unless it was
\* claimed in another one or something else has changed it: for any number of
\* handles and programs, and whichever calls have failed half way.
THEOREM HandlesAgree == HandleSpec /\ []OneAtATime => []HandleAgrees
<1>1. HandleSerialInv => ConfigAgrees /\ ClaimsAgree
  BY DEF HandleSerialInv, Remembers, ClaimOf, ConfigAgrees, ClaimsAgree, Settled, Free
<1>2. HandleSerialInv => SettingAgrees
  BY DEF HandleSerialInv, RemembersSetting, SettingOf, SettingAgrees
<1>3. HandleSerialInv => HandleAgrees
  BY <1>1, <1>2 DEF HandleAgrees
<1>4. QED
  BY <1>3, HandleSerialHolds, PTL

\* A handle with an interface claimed, that nothing has overtaken, can release
\* it: the driver's tests for the release will pass.
THEOREM HandlesNotStuck == HandleSpec /\ []OneAtATime => []HandleNotStuck
<1>1. HandleSerialInv => HandleNotStuck
  <2> SUFFICES ASSUME HandleSerialInv, NEW h \in Handles, Settled(h),
                      lib[h].interface # NoInterface, drift[h] \subseteq {"setting"}
               PROVE  /\ lib[h].config # NoConfig /\ value # NoConfig
                      /\ pipes[lib[h].interface] # Invalid /\ bound[lib[h].interface] = h
    BY DEF HandleNotStuck
  <2>1. lib[h].config # NoConfig /\ lib[h].config = value /\ Claimed(h) = {lib[h].interface}
    <3>1. Remembers(h)
      BY DEF HandleSerialInv
    <3>2. h \in open /\ call[h] = "none"
      BY DEF Settled, Free
    <3>3. Claimed(h) = {lib[h].interface}
      BY <3>1, <3>2 DEF Remembers, ClaimOf
    <3>4. lib[h].config # NoConfig /\ lib[h].config = value
      BY <3>1, <3>2 DEF Remembers
    <3>5. QED
      BY <3>3, <3>4
  <2>2. Owners(Resting)
    BY DEF HandleSerialInv, SerialInv, Safe, Settled
  <2>3. lib[h].interface \in Interfaces /\ <<h, lib[h].interface>> \in granted
    BY <2>1 DEF Claimed
  <2>4. bound[lib[h].interface] = h /\ h # None
    <3>1. h \in Files /\ h # None
      BY HandlesAssumption, ConfigAssumption
    <3>2. \A f \in Files, i \in Interfaces : <<f, i>> \in granted => f \in open /\ bound[i] = f
      BY <2>2 DEF Owners
    <3>3. QED
      BY <2>3, <3>1, <3>2
  <2>5. pipes[lib[h].interface] # Invalid
    <3>1. \A i \in Interfaces : bound[i] # None => pipes[i] # Invalid
      BY <2>2 DEF Owners
    <3>2. QED
      BY <2>3, <2>4, <3>1
  <2>6. QED
    BY <2>1, <2>4, <2>5
<1>2. QED
  BY <1>1, HandleSerialHolds, PTL

\* Below the library, whatever its calls: the driver's memory, its cache and
\* the claims are as the driver's own theorems have them, timeouts and resets
\* included.
THEOREM SafeBelowLibrary ==
  HandleSpec /\ []OneAtATime => [](MemorySafe /\ CacheSafe) /\ ImplementsClaims
BY LibraryImplementsDriver, MemoryCorrect, CacheCorrect, ClaimsRefinement, PTL
=============================================================================
