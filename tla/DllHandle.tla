----------------------------- MODULE DllHandle -----------------------------
(***************************************************************************)
(* usb_dev_handle (windows.c): the configuration, interface and setting    *)
(* that the library remembers of each handle, and the calls that use them, *)
(* composed with the driver's own cache.  The library never asks the       *)
(* driver again: what it remembers may be overtaken by a reset, by other   *)
(* handles and programs, and by control messages of the application.       *)
(*                                                                         *)
(* Some files are handles of the library; programs that use the ioctls     *)
(* themselves have the others.                                             *)
(***************************************************************************)
EXTENDS DeviceConfig, Requests

CONSTANTS Handles   \* the files that usb_open opens

\* A configuration's value is a byte.
ASSUME HandlesAssumption == Handles \subseteq Files /\ Configs \subseteq 1 .. 255

VARIABLES lib,      \* dev->config, dev->interface and dev->altsetting of each handle
          call,     \* the call that is under way on each handle
          drift     \* history: what each handle has wrong, and may have

handleVars == <<lib, call, drift>>
allVars == <<vars, handleVars>>

NoInterface == -1
NoSetting == -1

\* usb_os_open, before the driver has been asked.
Fresh == [config |-> NoConfig, interface |-> NoInterface, altsetting |-> NoSetting]

Calls == {"open", "set_configuration", "claim_interface", "release_interface", "set_altinterface",
          "control_msg", "reset", "close", "close_handle"}

HandleTypeOK ==
  /\ TypeOK
  /\ lib \in [Handles -> [config : Configs \union {NoConfig},
                          interface : Interfaces \union {NoInterface},
                          altsetting : Alts \union {NoSetting}]]
  /\ call \in [Handles -> Calls \union {"none"}]
  /\ drift \in [Handles -> SUBSET {"config", "claims", "setting"}]

HandleInit ==
  /\ Init
  /\ lib = [h \in Handles |-> Fresh]
  /\ call = [h \in Handles |-> "none"]
  /\ drift = [h \in Handles |-> {}]

-----------------------------------------------------------------------------
(* The calls, up to the request that they make.  One that is refused, or   *)
(* has nothing to do, takes no step.                                       *)

Free(h) == h \in open /\ call[h] = "none"

Calling(h, name) == call' = [call EXCEPT ![h] = name] /\ UNCHANGED <<lib, drift>>

\* usb_os_open: CreateFile ...
Open(h) ==
  /\ call[h] = "none" /\ Create(h)
  /\ call' = [call EXCEPT ![h] = "open"] /\ lib' = [lib EXCEPT ![h] = Fresh]
  /\ drift' = [drift EXCEPT ![h] = {}]

\* The driver's answer comes in a byte and is taken for a char.
AsChar(v) == IF v > 127 THEN v - 256 ELSE v

\* ... and LIBUSB_IOCTL_GET_CACHED_CONFIGURATION, which may fail.
ReadCached(h) ==
  /\ call[h] = "open"
  /\ \E answer \in {AsChar(value), -1} :
       lib' = IF answer > 0 THEN [lib EXCEPT ![h].config = answer] ELSE lib
  /\ drift' = [drift EXCEPT ![h] = IF lib'[h].config = value THEN {} ELSE {"config"}]
  /\ call' = [call EXCEPT ![h] = "none"]
  /\ UNCHANGED vars

\* usb_set_configuration: if the handle has the configuration nothing is
\* sent, and with an interface claimed the call is refused.
ConfigureHandle(t, h) ==
  /\ Free(h) /\ lib[h].interface = NoInterface
  /\ \E c \in (Configs \union {NoConfig}) \ {lib[h].config} :
       Begin(t, "set_configuration", h, c, "value", AnyInterface, 0)
  /\ Calling(h, "set_configuration")

ClaimInterface(t, h) ==
  /\ Free(h) /\ lib[h].config # NoConfig
  /\ \E i \in Interfaces \ {lib[h].interface} :
       Begin(t, "claim_interface", h, NoConfig, "value", i, 0)
  /\ Calling(h, "claim_interface")

ReleaseInterface(t, h) ==
  /\ Free(h) /\ lib[h].config # NoConfig
  /\ \E i \in Interfaces : Begin(t, "release_interface", h, NoConfig, "value", i, 0)
  /\ Calling(h, "release_interface")

SetAltInterface(t, h) ==
  /\ Free(h) /\ lib[h].config # NoConfig /\ lib[h].interface # NoInterface
  /\ \E a \in Alts : Begin(t, "set_interface", h, NoConfig, "value", lib[h].interface, a)
  /\ Calling(h, "set_altinterface")

\* The control messages that the driver takes as requests of its own: those
\* that set a configuration or a setting, or ask for all of a configuration's
\* descriptor, by its index.
OwnRequest(u) ==
  CASE u.function = "set_configuration" ->
         [op |-> u.function, conf |-> u.value, form |-> "value", intf |-> AnyInterface, alt |-> 0]
    [] u.function = "set_interface" ->
         [op |-> u.function, conf |-> NoConfig, form |-> "value", intf |-> u.index, alt |-> u.value]
    [] OTHER ->
         [op |-> u.function, conf |-> u.value - 511, form |-> "index", intf |-> AnyInterface, alt |-> 0]

OwnRequests ==
  {r \in {OwnRequest(u) : u \in {v \in {Sent(p) : p \in Packets} :
             \/ v.function \in {"set_configuration", "set_interface"}
             \/ v.function = "get_descriptor" /\ v.recipient = 0 /\ v.index = 0 /\ v.length >= 9}} :
     /\ r.conf \in Configs \/ (r.conf = NoConfig /\ r.op # "get_descriptor")
     /\ r.intf \in Interfaces /\ r.alt \in Alts}

\* usb_control_msg
ControlMsg(t, h) ==
  /\ Free(h)
  /\ \E r \in OwnRequests : Begin(t, r.op, h, r.conf, r.form, r.intf, r.alt)
  /\ Calling(h, "control_msg")

\* usb_reset and usb_reset_ex leave the handle as it is.
ResetDevice(t, h) ==
  /\ Free(h)
  /\ Begin(t, "reset_device", h, NoConfig, "value", AnyInterface, 0)
  /\ Calling(h, "reset")

\* usb_os_close releases the interface ...
CloseRelease(t, h) ==
  /\ Free(h) /\ lib[h].interface # NoInterface /\ lib[h].config # NoConfig
  /\ Begin(t, "release_interface", h, NoConfig, "value", lib[h].interface, 0)
  /\ Calling(h, "close")

\* ... and closes the file, whatever came of it.
CloseHandle(t, h) ==
  /\ \/ Free(h) /\ lib[h].interface = NoInterface
     \/ call[h] = "close_handle"
  /\ Close(t, h)
  /\ call' = [call EXCEPT ![h] = "none"] /\ lib' = [lib EXCEPT ![h] = Fresh]
  /\ drift' = [drift EXCEPT ![h] = {}]

-----------------------------------------------------------------------------
(* The driver goes on; its answer ends the call.                           *)

\* The request that ends with this step has succeeded, or timed out where that
\* is not told apart.
Succeeds(t) ==
  \/ th[t].pc \in {"set_config", "timed_out", "selected", "assign", "alt_set", "bind", "unbind"}
  \/ th[t].pc = "claim" /\ value # NoConfig /\ pipes[th[t].intf] # Invalid
                        /\ bound[th[t].intf] = th[t].file

\* Mutant: usb_claim_interface leaves dev->altsetting as it was.
LearnedKeepsSetting(t, h) ==
  LET l == lib[h] IN
  CASE call[h] = "set_configuration" -> [Fresh EXCEPT !.config = th[t].asked]
    [] call[h] = "claim_interface" -> [l EXCEPT !.interface = th[t].intf]
    [] call[h] \in {"release_interface", "close"} ->
         [l EXCEPT !.interface = NoInterface, !.altsetting = NoSetting]
    [] call[h] = "set_altinterface" -> [l EXCEPT !.altsetting = th[t].alt]
    [] OTHER -> l

\* What the library remembers of a success: after a claim the interface, whatever
\* other it had, in setting 0; after a release none, whichever was released.
Learned(t, h) ==
  LET l == lib[h] IN
  CASE call[h] = "set_configuration" -> [Fresh EXCEPT !.config = th[t].asked]
    [] call[h] = "claim_interface" -> [l EXCEPT !.interface = th[t].intf, !.altsetting = 0]
    [] call[h] \in {"release_interface", "close"} ->
         [l EXCEPT !.interface = NoInterface, !.altsetting = NoSetting]
    [] call[h] = "set_altinterface" -> [l EXCEPT !.altsetting = th[t].alt]
    [] OTHER -> l

Ended(h) == call' = [call EXCEPT ![h] = IF @ = "close" THEN "close_handle" ELSE "none"]

\* Mutant: the interface is taken for claimed although the claim has failed.
AnswerAnyway(t, h) ==
  /\ lib' = [lib EXCEPT ![h] =
               IF Succeeds(t) \/ call[h] = "claim_interface" THEN Learned(t, h) ELSE @]
  /\ Ended(h)

\* Mutant: the configuration is remembered before the driver has answered.
AnswerConfigured(t, h) ==
  /\ lib' = [lib EXCEPT ![h] =
               IF Succeeds(t) \/ call[h] = "set_configuration" THEN Learned(t, h) ELSE @]
  /\ Ended(h)

\* The answer of the driver ends the call.
Answer(t, h) ==
  /\ lib' = [lib EXCEPT ![h] = IF Succeeds(t) THEN Learned(t, h) ELSE @]
  /\ Ended(h)

Claimed(h) == {i \in Interfaces : <<h, i>> \in granted}

(* History: what a handle may have wrong.                                  *)

\* This step is of the request that one of the calls has made for the handle ...
Own(t, h, calls) == th[t].file = h /\ call[h] \in calls

\* ... and ends it with a success.
Done(t, h, calls) == Own(t, h, calls) /\ th'[t] = Resting /\ Succeeds(t)

\* The calls that say what is configured and claimed.
Claiming == {"set_configuration", "claim_interface", "release_interface", "close"}

\* Its configuration, when anything but its own usb_set_configuration changes the
\* driver's, or when that has reported a success after a timeout.
ConfigDrift(t, h) ==
  IF Done(t, h, {"set_configuration"})
  THEN IF th[t].late \/ th[t].pc = "timed_out" THEN {"config"} ELSE {}
  ELSE (drift[h] \intersect {"config"}) \union
       IF ~Own(t, h, Claiming) /\ value' # value THEN {"config"} ELSE {}

\* Its claims, when anything but its own calls takes one or when it claims a
\* second interface, until the next configuration.
ClaimsDrift(t, h) ==
  IF Done(t, h, {"set_configuration"}) THEN IF Claimed(h)' = {} THEN {} ELSE {"claims"}
  ELSE (drift[h] \intersect {"claims"}) \union
       IF \/ Own(t, h, {"claim_interface"}) /\ lib[h].interface # NoInterface
          \/ ~Own(t, h, Claiming) /\ Claimed(h)' # Claimed(h)
       THEN {"claims"} ELSE {}

\* Its setting, when it claims an interface that is not in setting 0 and when
\* anything but its own usb_set_altinterface changes the setting.
SettingDrift(t, h) ==
  IF Done(t, h, {"set_configuration", "release_interface", "close", "set_altinterface"}) THEN {}
  ELSE IF Done(t, h, {"claim_interface"})
  THEN IF pipes[th[t].intf].alt = 0 THEN {} ELSE {"setting"}
  ELSE (drift[h] \intersect {"setting"}) \union
       IF \E i \in {lib[h].interface} \ {NoInterface} : pipes[i]'.alt # pipes[i].alt
       THEN {"setting"} ELSE {}

Driver(t) ==
  LET h == th[t].file
  IN /\ ConfigStep(t) \/ InterfaceStep(t)
     /\ IF th'[t] = Resting /\ h \in Handles THEN Answer(t, h) ELSE UNCHANGED <<lib, call>>
     /\ drift' = [g \in Handles |->
                   ConfigDrift(t, g) \union ClaimsDrift(t, g) \union SettingDrift(t, g)]

\* Programs that send requests of their own.
OtherProgram(t) ==
  /\ \/ Request(t) /\ th'[t].file \notin Handles
     \/ \E f \in Files \ Handles : Create(f) \/ Close(t, f)
  /\ UNCHANGED <<lib, call>>
  /\ drift' = drift

HandleCall(t, h) ==
  \/ ConfigureHandle(t, h)
  \/ ClaimInterface(t, h)
  \/ ReleaseInterface(t, h)
  \/ SetAltInterface(t, h)
  \/ ControlMsg(t, h)
  \/ ResetDevice(t, h)
  \/ CloseRelease(t, h)
  \/ CloseHandle(t, h)

HandleNext ==
  \/ \E h \in Handles : Open(h) \/ ReadCached(h)
  \/ \E t \in Threads, h \in Handles : HandleCall(t, h)
  \/ \E t \in Threads : Driver(t) \/ OtherProgram(t)

HandleSpec == HandleInit /\ [][HandleNext]_allVars

-----------------------------------------------------------------------------
Settled(h) == Quiet /\ Free(h)

\* The configuration that a handle remembers is the driver's, unless something else
\* has changed it (or the handle was opened with one it could not learn) or a
\* timeout was taken for a success.
ConfigAgrees ==
  \A h \in Handles : Settled(h) /\ "config" \notin drift[h] => lib[h].config = value

\* Of the interfaces it has the one it remembers and no other, unless it has
\* claimed several at once or has lost them to another's configuration.  A call
\* that fails half way leaves none of them behind.
ClaimsAgree ==
  \A h \in Handles : Settled(h) /\ "claims" \notin drift[h] =>
    Claimed(h) = IF lib[h].interface = NoInterface THEN {} ELSE {lib[h].interface}

\* dev->altsetting: the pipes that the driver has of the claimed interface are
\* those of the setting that the handle remembers, unless it was claimed in
\* another one or something else has changed it.
SettingAgrees ==
  \A h \in Handles : Settled(h) /\ "setting" \notin drift[h] =>
    lib[h].altsetting =
      IF lib[h].interface = NoInterface THEN NoSetting ELSE pipes[lib[h].interface].alt

\* What a handle remembers is what the driver has.
HandleAgrees == ConfigAgrees /\ ClaimsAgree /\ SettingAgrees

\* A handle is not stuck: one with an interface claimed can release it, and
\* so configure the device again.  (After a reset, or a configuration made
\* past it, it can do neither until it is closed.)
HandleNotStuck ==
  \A h \in Handles : Settled(h) /\ lib[h].interface # NoInterface /\ drift[h] \subseteq {"setting"} =>
    LET i == lib[h].interface
    IN lib[h].config # NoConfig /\ value # NoConfig /\ pipes[i] # Invalid /\ bound[i] = h

\* usb_control_msg: whatever an application asks a handle for, its message
\* arrives, for all the splitting and the decoding.
ControlArrives == \A h \in Handles : Free(h) => MessagesArrive

\* And so does a transfer.
TransferArrives == \A h \in Handles : Free(h) => TransfersArrive
=============================================================================
