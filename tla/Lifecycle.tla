----------------------------- MODULE Lifecycle -----------------------------
(***************************************************************************)
(* The life of one device in the driver: add_device, the PnP IRPs of       *)
(* dispatch_pnp, the power IRPs of dispatch_power and their completion     *)
(* routines, and IRP_MJ_CREATE, which powers the device up and waits.      *)
(*                                                                         *)
(* The PnP manager sends one IRP at a time, in the orders that Windows     *)
(* documents; the power manager sends one system IRP at a time and device  *)
(* IRPs in the order of the requests.  PoStartNextPowerIrp is called       *)
(* before a device IRP is complete: MaxInFlight is the number of device    *)
(* IRPs that may then be in the driver, 1 where the call has no effect.    *)
(* The remove lock is taken for what it promises: REMOVE refuses what      *)
(* comes later and waits for what came before.                             *)
(***************************************************************************)
EXTENDS Naturals, Sequences

CONSTANTS Creators,     \* threads that open the device
          MaxInFlight,  \* device power IRPs in the driver at a time
          MaxRequests,  \* bound on the device power IRPs that wait
          SleepStates,  \* where the system sleeps: S1, S2, S3 or hibernation
          None          \* no thread waits for the IRP

ASSUME BoundsAssumption ==
  /\ MaxInFlight \in Nat \ {0} /\ MaxRequests \in Nat /\ None \notin Creators
  /\ SleepStates \subseteq 2..5

\* DEVICE_POWER_STATE and SYSTEM_POWER_STATE: Sn has the number n + 1, as Dn has.
Unspecified == 0
D0 == 1
D3 == 4
Working == 1
SystemStates == {Working} \union SleepStates

VARIABLES pnp,         \* the device's state in the PnP manager
          mode,        \* the registry: filter driver, WDF below, device interface
          resources,   \* what the driver has created and must delete
          is_started,  \* dev->is_started
          in_use,      \* dev->device_interface_in_use
          enabled,     \* the device interface is enabled
          known,       \* dev->device_power_states is filled in
          power_state, \* dev->power_state, one word: the last system or device state
          reported,    \* what PoSetPowerState has been told
          system,      \* history: the state that the system has gone to
          actual,      \* the state of the device
          failed,      \* history: the last power-up, where the driver owns the policy, failed
          blind,       \* history: the device was to follow and its states were unknown
          sirp,        \* the system power IRP in the driver, or 0
          requested,   \* device power IRPs that the power manager holds
          in_flight,   \* device power IRPs in the driver
          waiting      \* the threads in power_set_device_state

power == <<power_state, reported, system, actual, failed, blind, sirp, requested, in_flight, waiting>>
plug == <<pnp, mode, resources, is_started, in_use, enabled, known>>
vars == <<plug, power>>

Modes == [filter : BOOLEAN, wdf : BOOLEAN, interface : BOOLEAN]

Resources == {"object", "link", "interface_name", "attached", "usbd_handle", "descriptor"}

PowerIrp == [state : {D0, D3}, waiter : Creators \union {None}]

TypeOK ==
  /\ pnp \in {"absent", "rejected", "added", "starting", "started", "start_failed",
              "stopped", "surprised", "removing", "removed"}
  /\ mode \in Modes /\ resources \subseteq Resources
  /\ is_started \in BOOLEAN /\ in_use \in BOOLEAN /\ enabled \in BOOLEAN /\ known \in BOOLEAN
  /\ power_state \in 1..5 /\ reported \in 1..5 /\ actual \in {D0, D3}
  /\ system \in SystemStates /\ failed \in BOOLEAN /\ blind \in BOOLEAN
  /\ sirp \in {0} \union SystemStates
  /\ requested \in Seq(PowerIrp) /\ in_flight \in Seq(PowerIrp)
  /\ waiting \subseteq Creators

Init ==
  /\ pnp = "absent"
  /\ mode \in Modes
  /\ resources = {}
  /\ is_started = FALSE /\ in_use = FALSE /\ enabled = FALSE /\ known = FALSE
  /\ power_state = D0 /\ reported = D0 /\ actual = D0
  /\ system = Working /\ failed = FALSE /\ blind = FALSE
  /\ sirp = 0 /\ requested = <<>> /\ in_flight = <<>> /\ waiting = {}

\* There is a device extension, and remove_lock_acquire succeeds.
Attached == pnp \in {"added", "starting", "started", "start_failed", "stopped", "surprised"}

-----------------------------------------------------------------------------
Interface == IF mode.interface THEN {"interface_name"} ELSE {}

\* Where add_device fails it deletes the link and the object; the name of the
\* interface stays, and when USBD_CreateHandle fails so does the attachment.
LeftByFailure == {{}, Interface, Interface \union {"attached"}}

\* What a device that was added has.
Created == {"object", "link", "attached", "usbd_handle"} \union Interface

\* add_device, when the power IRPs of the device that was there before are gone.
AddDevice ==
  /\ pnp \in {"absent", "rejected", "removed"} /\ requested = <<>>
  /\ \/ pnp' = "added" /\ resources' = Created /\ in_use' = mode.interface
     \/ pnp' = "rejected" /\ resources' \in LeftByFailure /\ in_use' = FALSE
  /\ is_started' = FALSE /\ known' = FALSE
  /\ power_state' = D0 /\ reported' = D0 /\ actual' = D0
  /\ system' = Working /\ failed' = FALSE /\ blind' = FALSE
  /\ UNCHANGED <<mode, enabled, sirp, requested, in_flight, waiting>>

\* IRP_MN_START_DEVICE on its way down, sent while no device power IRP is under
\* way; the kept state is reported; enabling the interface may fail.
StartDevice ==
  /\ pnp \in {"added", "stopped"} /\ in_flight = <<>>
  /\ pnp' = "starting"
  /\ reported' = power_state
  /\ enabled' \in {enabled, enabled \/ in_use}
  /\ UNCHANGED <<mode, resources, is_started, in_use, known,
                 power_state, system, actual, failed, blind, sirp, requested, in_flight, waiting>>

\* Mutant: a START that failed below does not start the device.
OnStartCompleteChecked ==
  /\ pnp = "starting"
  /\ \/ pnp' = "started" /\ is_started' = TRUE
     \/ pnp' = "start_failed" /\ UNCHANGED is_started
  /\ UNCHANGED <<mode, resources, in_use, enabled, known, power>>

\* on_start_complete: whatever the status, a device that is not a filter is
\* configured, which may fail, and the device is started.
OnStartComplete ==
  /\ pnp = "starting"
  /\ pnp' \in {"started", "start_failed"}
  /\ resources' \in {resources, IF mode.filter \/ is_started THEN resources
                                ELSE resources \union {"descriptor"}}
  /\ is_started' = TRUE
  /\ UNCHANGED <<mode, in_use, enabled, known, power>>

\* on_query_capabilities_complete.
QueryCapabilities ==
  /\ Attached /\ pnp # "surprised"
  /\ known' = TRUE
  /\ UNCHANGED <<pnp, mode, resources, is_started, in_use, enabled, power>>

StopDevice ==
  /\ pnp = "started"
  /\ pnp' = "stopped"
  /\ is_started' = FALSE
  /\ UNCHANGED <<mode, resources, in_use, enabled, known, power>>

\* Mutant: the name is freed and the interface stays enabled.
SurpriseRemovalLeavesEnabled ==
  /\ pnp \in {"started", "stopped"}
  /\ pnp' = "surprised"
  /\ is_started' = FALSE
  /\ in_use' = FALSE
  /\ resources' = resources \ {"descriptor", "interface_name"}
  /\ UNCHANGED <<mode, enabled, known, power>>

SurpriseRemoval ==
  /\ pnp \in {"started", "stopped"}
  /\ pnp' = "surprised"
  /\ is_started' = FALSE
  /\ in_use' = FALSE
  /\ enabled' = (enabled /\ ~in_use)
  /\ resources' = resources \ ({"descriptor"} \union IF in_use THEN {"interface_name"} ELSE {})
  /\ UNCHANGED <<mode, known, power>>

\* IRP_MN_REMOVE_DEVICE up to remove_lock_release_and_wait ...
RemoveDevice ==
  /\ pnp \in {"added", "started", "start_failed", "surprised"}
  /\ pnp' = "removing"
  /\ enabled' = (enabled /\ ~(in_use /\ is_started))
  /\ is_started' = FALSE
  /\ UNCHANGED <<mode, resources, in_use, known, power>>

\* ... and after it.
RemoveComplete ==
  /\ pnp = "removing" /\ sirp = 0 /\ in_flight = <<>>
  /\ pnp' = "removed"
  /\ resources' = resources \ ({"usbd_handle", "link", "descriptor", "attached", "object"}
                               \union IF in_use THEN {"interface_name"} ELSE {})
  /\ UNCHANGED <<mode, is_started, in_use, enabled, known, power>>

-----------------------------------------------------------------------------
\* The driver requests device power IRPs where it owns the power policy.
Owner == ~mode.filter /\ ~mode.wdf

\* PoRequestPowerIrp.
RequestPower(s, waiter) ==
  requested' = Append(requested, [state |-> s, waiter |-> waiter])

\* dispatch_power, a system state.
SystemPower(s) ==
  /\ Attached /\ sirp = 0 /\ Len(requested) < MaxRequests
  /\ sirp' = s
  /\ UNCHANGED <<plug, power_state, reported, system, actual, failed, blind,
                 requested, in_flight, waiting>>

\* dev->device_power_states: zero until the capabilities are known.
DeviceStateFor(s) == IF ~known THEN Unspecified ELSE IF s = Working THEN D0 ELSE D3

\* Mutant: the device follows the state that the system leaves.
SystemPowerCompleteStale ==
  /\ sirp # 0 /\ sirp' = 0
  /\ \/ /\ power_state' = sirp /\ system' = sirp
        /\ blind' = (blind \/ (Owner /\ ~known))
        /\ IF Owner /\ DeviceStateFor(power_state) # Unspecified
           THEN RequestPower(DeviceStateFor(power_state), None)
           ELSE UNCHANGED requested
     \/ UNCHANGED <<power_state, system, blind, requested>>
  /\ UNCHANGED <<plug, reported, actual, failed, in_flight, waiting>>

\* on_power_state_complete and on_filter_power_state_complete, a system state:
\* it is kept, in the word that holds the device's state, and the device is to
\* follow.  The power manager refuses a request for an unspecified state.
SystemPowerComplete ==
  /\ sirp # 0 /\ sirp' = 0
  /\ \/ /\ power_state' = sirp /\ system' = sirp
        /\ blind' = (blind \/ (Owner /\ ~known))
        /\ IF Owner /\ DeviceStateFor(sirp) # Unspecified
           THEN RequestPower(DeviceStateFor(sirp), None)
           ELSE UNCHANGED requested
     \/ UNCHANGED <<power_state, system, blind, requested>>   \* the IRP failed
  /\ UNCHANGED <<plug, reported, actual, failed, in_flight, waiting>>

\* Another driver owns the power policy and requests a device state.
ForeignRequest(s) ==
  /\ Attached /\ ~Owner /\ Len(requested) < MaxRequests
  /\ RequestPower(s, None)
  /\ UNCHANGED <<plug, power_state, reported, system, actual, failed, blind,
                 sirp, in_flight, waiting>>

\* dispatch_power, a device state: a power-down is reported before it is done
\* where the word that is compared holds a lower number.
DevicePower ==
  /\ Attached /\ requested # <<>> /\ Len(in_flight) < MaxInFlight
  /\ LET irp == Head(requested) IN
     /\ reported' = IF irp.state > power_state THEN irp.state ELSE reported
     /\ in_flight' = Append(in_flight, irp)
  /\ requested' = Tail(requested)
  /\ UNCHANGED <<plug, power_state, system, actual, failed, blind, sirp, waiting>>

\* Mutant: the refused IRP is not completed.
DevicePowerLost ==
  /\ ~Attached /\ requested # <<>>
  /\ requested' = Tail(requested)
  /\ UNCHANGED <<plug, power_state, reported, system, actual, failed, blind,
                 sirp, in_flight, waiting>>

\* It is refused during the removal, and after it the stack completes it
\* without the driver.
DevicePowerRefused ==
  /\ ~Attached /\ requested # <<>>
  /\ waiting' = waiting \ {Head(requested).waiter}
  /\ requested' = Tail(requested)
  /\ UNCHANGED <<plug, power_state, reported, system, actual, failed, blind, sirp, in_flight>>

\* Mutant: a device that is where it was is not reported.
DevicePowerCompleteStrict ==
  LET irp == Head(in_flight) IN
  /\ in_flight # <<>>
  /\ in_flight' = Tail(in_flight)
  /\ waiting' = waiting \ {irp.waiter}
  /\ \/ /\ actual' = irp.state /\ power_state' = irp.state
        /\ reported' = IF irp.state < power_state THEN irp.state ELSE reported
        /\ failed' = (failed /\ irp.state # D0)
        /\ blind' = (blind /\ irp.state # D0)
     \/ irp.state = D0 /\ failed' = Owner /\ UNCHANGED <<actual, power_state, reported, blind>>
  /\ UNCHANGED <<plug, system, sirp, requested>>

\* on_power_state_complete and on_filter_power_state_complete, a device state:
\* a power-up is reported when it is done, where the word holds no lower number;
\* a power-up may fail.
DevicePowerComplete ==
  LET irp == Head(in_flight) IN
  /\ in_flight # <<>>
  /\ in_flight' = Tail(in_flight)
  /\ waiting' = waiting \ {irp.waiter}
  /\ \/ /\ actual' = irp.state /\ power_state' = irp.state
        /\ reported' = IF irp.state <= power_state THEN irp.state ELSE reported
        /\ failed' = (failed /\ irp.state # D0)
        /\ blind' = (blind /\ irp.state # D0)
     \/ irp.state = D0 /\ failed' = Owner /\ UNCHANGED <<actual, power_state, reported, blind>>
  /\ UNCHANGED <<plug, system, sirp, requested>>

\* IRP_MJ_CREATE where the word is not that of D0: the thread requests D0 and
\* waits.  A filter does so too, unless WDF is below.
CreateWaits(t) ==
  /\ is_started /\ t \notin waiting
  /\ power_state # D0 /\ ~mode.wdf
  /\ RequestPower(D0, t)
  /\ waiting' = waiting \union {t}
  /\ UNCHANGED <<plug, power_state, reported, system, actual, failed, blind, sirp, in_flight>>

PnpStep ==
  \/ AddDevice
  \/ StartDevice
  \/ OnStartComplete
  \/ QueryCapabilities
  \/ StopDevice
  \/ SurpriseRemoval
  \/ RemoveDevice
  \/ RemoveComplete

PowerStep ==
  \/ \E s \in SystemStates : SystemPower(s)
  \/ SystemPowerComplete
  \/ \E s \in {D0, D3} : ForeignRequest(s)
  \/ DevicePower
  \/ DevicePowerRefused
  \/ DevicePowerComplete
  \/ \E t \in Creators : CreateWaits(t)

Next == PnpStep \/ PowerStep

\* The power manager sends what was requested and the bus driver completes it.
Fairness ==
  /\ WF_vars(SystemPowerComplete) /\ WF_vars(DevicePower)
  /\ WF_vars(DevicePowerRefused) /\ WF_vars(DevicePowerComplete)

Spec == Init /\ [][Next]_vars /\ Fairness

-----------------------------------------------------------------------------
\* IRP_MN_REMOVE_DEVICE: by whichever PnP IRPs the device came there, its
\* removal leaves no object, link, name, attachment, handle or descriptor and
\* no device interface that applications could open.
NothingLeft == pnp = "removed" => resources = {} /\ ~enabled

\* An interface that is enabled can be disabled: its name has not been freed.
InterfaceHasName == enabled => in_use /\ "interface_name" \in resources

\* The resources of a device, from add_device to its removal: none is used
\* after it has been given back, none is left.
ResourcesSafe == TypeOK /\ NothingLeft /\ InterfaceHasName

\* dispatch_power and its completion routine: although system and device states
\* overwrite each other in dev->power_state, once the IRPs are through the driver
\* has kept and reported the state of the device that it owns; except where a
\* power-up failed, or the system changed its state before the device's were known.
SettledAgrees ==
  Owner /\ pnp \in {"started", "stopped"} /\ ~failed /\ ~blind
    /\ requested = <<>> /\ in_flight = <<>>
  => reported = actual /\ power_state = actual

\* on_power_state_complete: the power policy owner brings the device back.  When
\* the system stays awake the device ends up in D0, reported and kept so, for
\* good, unless it fails to power up or a state was missed.
DeviceFollows ==
  <>[](pnp = "started" /\ system = Working /\ sirp = 0 /\ Owner /\ known)
    => <>[]((actual = D0 /\ reported = D0 /\ power_state = D0) \/ failed \/ blind)

\* IRP_MJ_CREATE does not block for ever, removal or not.
CreateReturns == \A t \in Creators : t \in waiting ~> t \notin waiting
=============================================================================
