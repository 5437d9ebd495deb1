-------------------------- MODULE LifecycleProofs --------------------------
(***************************************************************************)
(* The resources of a device, for any number of threads and of power IRPs: *)
(* by whichever PnP IRPs the device goes, nothing of it is left and its    *)
(* interface is never enabled without a name.  And the power state that    *)
(* the driver keeps and reports, where device power IRPs come one by one,  *)
(* although system states are written over it.                             *)
(***************************************************************************)
EXTENDS Lifecycle, TLAPS

\* The device interface: where it may be enabled, and that its name is there
\* as long as it is in use.
InterfaceInv ==
  /\ InterfaceHasName
  /\ pnp \in {"absent", "rejected", "removed", "added", "removing"} => ~enabled
  /\ pnp \in {"started", "start_failed"} => is_started
  /\ pnp = "surprised" => ~in_use
  /\ pnp \notin {"absent", "rejected", "removed"} => ("interface_name" \in resources <=> in_use)

LifeInv == TypeOK /\ InterfaceInv /\ NothingLeft

-----------------------------------------------------------------------------
\* Types of the queues of power IRPs.
LEMMA QueueFacts ==
  ASSUME NEW q \in Seq(PowerIrp)
  PROVE /\ q # <<>> => Head(q) \in PowerIrp /\ Tail(q) \in Seq(PowerIrp)
        /\ \A irp \in PowerIrp : Append(q, irp) \in Seq(PowerIrp)
OBVIOUS

\* The states of the system are states of the word that holds them.
LEMMA SystemStatesType == SystemStates \subseteq 1..5
BY BoundsAssumption DEF SystemStates, Working

\* A device has nothing yet.
LEMMA InitLife == Init => LifeInv
<1> SUFFICES ASSUME Init PROVE LifeInv
  OBVIOUS
<1>1. <<>> \in Seq(PowerIrp)
  OBVIOUS
<1>2. TypeOK
  <2>1. power_state \in 1..5 /\ reported \in 1..5 /\ actual \in {D0, D3}
    BY DEF Init, D0
  <2>2. system \in SystemStates
    BY DEF Init, SystemStates
  <2>3. QED
    BY <1>1, <2>1, <2>2 DEF Init, TypeOK
<1>3. InterfaceInv /\ NothingLeft
  BY DEF Init, InterfaceInv, InterfaceHasName, NothingLeft
<1>4. QED
  BY <1>2, <1>3 DEF LifeInv

\* A request for a device state is put at the end of the queue.
LEMMA RequestType ==
  ASSUME NEW s \in {D0, D3}, NEW w \in Creators \union {None}, TypeOK, RequestPower(s, w)
  PROVE requested' \in Seq(PowerIrp)
<1>1. [state |-> s, waiter |-> w] \in PowerIrp
  BY DEF PowerIrp
<1>2. QED
  BY <1>1, QueueFacts DEF RequestPower, TypeOK

\* Every step of power keeps the types, and leaves the rest alone.
LEMMA PowerKeepsLife ==
  ASSUME LifeInv, PowerStep
  PROVE LifeInv' /\ UNCHANGED plug
<1>1. TypeOK
  BY DEF LifeInv
<1>2. ASSUME UNCHANGED plug, TypeOK' PROVE LifeInv' /\ UNCHANGED plug
  BY <1>2 DEF plug, LifeInv, InterfaceInv, InterfaceHasName, NothingLeft
<1>3. ASSUME NEW s \in SystemStates, SystemPower(s) PROVE UNCHANGED plug /\ TypeOK'
  BY <1>1, <1>3 DEF SystemPower, plug, TypeOK
<1>4. CASE SystemPowerComplete
  <2>1. DeviceStateFor(sirp) # Unspecified => DeviceStateFor(sirp) \in {D0, D3}
    BY DEF DeviceStateFor
  <2>2. requested' \in Seq(PowerIrp)
    <3>1. CASE UNCHANGED requested
      BY <1>1, <3>1 DEF TypeOK
    <3>2. CASE DeviceStateFor(sirp) # Unspecified /\ RequestPower(DeviceStateFor(sirp), None)
      BY <1>1, <2>1, <3>2, RequestType
    <3>3. QED
      BY <1>4, <3>1, <3>2 DEF SystemPowerComplete
  <2>3. /\ system' \in SystemStates /\ power_state' \in 1..5
        /\ blind' \in BOOLEAN /\ sirp' = 0
    BY <1>1, <1>4, SystemStatesType DEF SystemPowerComplete, TypeOK, Owner
  <2>4. UNCHANGED plug /\ TypeOK'
    BY <1>1, <1>4, <2>2, <2>3 DEF SystemPowerComplete, plug, TypeOK
  <2>5. QED
    BY <1>2, <2>4
<1>5. ASSUME NEW s \in {D0, D3}, ForeignRequest(s) PROVE UNCHANGED plug /\ TypeOK'
  <2>1. requested' \in Seq(PowerIrp)
    BY <1>1, <1>5, RequestType DEF ForeignRequest
  <2>2. QED
    BY <1>1, <1>5, <2>1 DEF ForeignRequest, plug, TypeOK
<1>6. CASE DevicePower
  <2>1. /\ Head(requested) \in PowerIrp /\ requested' \in Seq(PowerIrp)
        /\ in_flight' \in Seq(PowerIrp)
    BY <1>1, <1>6, QueueFacts DEF DevicePower, TypeOK
  <2>2. reported' \in 1..5
    BY <1>1, <1>6, <2>1 DEF DevicePower, TypeOK, PowerIrp, D0, D3
  <2>3. UNCHANGED plug /\ TypeOK'
    BY <1>1, <1>6, <2>1, <2>2 DEF DevicePower, plug, TypeOK
  <2>4. QED
    BY <1>2, <2>3
<1>7. CASE DevicePowerRefused
  <2>1. requested' \in Seq(PowerIrp)
    BY <1>1, <1>7, QueueFacts DEF DevicePowerRefused, TypeOK
  <2>2. UNCHANGED plug /\ TypeOK'
    BY <1>1, <1>7, <2>1 DEF DevicePowerRefused, plug, TypeOK
  <2>3. QED
    BY <1>2, <2>2
<1>8. CASE DevicePowerComplete
  <2>1. Head(in_flight) \in PowerIrp /\ in_flight' \in Seq(PowerIrp)
    BY <1>1, <1>8, QueueFacts DEF DevicePowerComplete, TypeOK
  <2>2. actual' \in {D0, D3} /\ power_state' \in 1..5 /\ reported' \in 1..5
    BY <1>1, <1>8, <2>1 DEF DevicePowerComplete, TypeOK, PowerIrp, D0, D3
  <2>6. failed' \in BOOLEAN /\ blind' \in BOOLEAN
    <3>1. Owner \in BOOLEAN
      BY DEF Owner
    <3>2. failed \in BOOLEAN /\ blind \in BOOLEAN
      BY <1>1 DEF TypeOK
    <3>3. /\ failed' = (failed /\ Head(in_flight).state # D0) \/ failed' = Owner
          /\ blind' = (blind /\ Head(in_flight).state # D0) \/ blind' = blind
      BY <1>8 DEF DevicePowerComplete
    <3>4. QED
      BY <3>1, <3>2, <3>3, Zenon
  <2>3. UNCHANGED plug /\ TypeOK'
    BY <1>1, <1>8, <2>1, <2>2, <2>6 DEF DevicePowerComplete, plug, TypeOK
  <2>4. QED
    BY <1>2, <2>3
<1>9. ASSUME NEW t \in Creators, CreateWaits(t) PROVE UNCHANGED plug /\ TypeOK'
  <2>1. requested' \in Seq(PowerIrp)
    BY <1>1, <1>9, RequestType DEF CreateWaits
  <2>2. QED
    BY <1>1, <1>9, <2>1 DEF CreateWaits, plug, TypeOK
<1>10. QED
  BY <1>2, <1>3, <1>4, <1>5, <1>6, <1>7, <1>8, <1>9 DEF PowerStep

\* Every PnP IRP keeps the invariant.
LEMMA PnpKeepsLife ==
  ASSUME LifeInv, PnpStep
  PROVE LifeInv'
<1>1. TypeOK /\ InterfaceInv
  BY DEF LifeInv
<1> USE <1>1 DEF InterfaceInv, InterfaceHasName, NothingLeft
<1>2. CASE AddDevice
  <2>1. resources' \subseteq Resources
    BY <1>2 DEF AddDevice, Created, LeftByFailure, Interface, Resources
  <2>2. in_use' \in BOOLEAN /\ is_started' \in BOOLEAN /\ known' \in BOOLEAN
    BY <1>2 DEF AddDevice, TypeOK, Modes
  <2>3. /\ power_state' \in 1..5 /\ reported' \in 1..5 /\ actual' \in {D0, D3}
    BY <1>2 DEF AddDevice, D0
  <2>7. system' \in SystemStates /\ failed' \in BOOLEAN /\ blind' \in BOOLEAN
    BY <1>2 DEF AddDevice, SystemStates
  <2>6. TypeOK'
    BY <1>2, <2>1, <2>2, <2>3, <2>7 DEF AddDevice, TypeOK
  <2>4. InterfaceInv' /\ NothingLeft'
    BY <1>2 DEF AddDevice, Created, Interface
  <2>5. QED
    BY <2>6, <2>4 DEF LifeInv
<1>3. CASE StartDevice
  <2>1. enabled' \in BOOLEAN
    BY <1>3 DEF StartDevice, TypeOK
  <2>2. TypeOK'
    BY <1>3, <2>1 DEF StartDevice, TypeOK
  <2>3. QED
    BY <1>3, <2>2 DEF StartDevice, LifeInv
<1>4. CASE OnStartComplete
  <2>1. resources' \subseteq Resources
    BY <1>4 DEF OnStartComplete, TypeOK, Resources
  <2>2. TypeOK'
    BY <1>4, <2>1 DEF OnStartComplete, TypeOK, power
  <2>3. QED
    BY <1>4, <2>2 DEF OnStartComplete, LifeInv
<1>5. CASE QueryCapabilities
  <2>1. TypeOK'
    BY <1>5 DEF QueryCapabilities, TypeOK, power
  <2>2. QED
    BY <1>5, <2>1 DEF QueryCapabilities, LifeInv
<1>6. CASE StopDevice
  <2>1. TypeOK'
    BY <1>6 DEF StopDevice, TypeOK, power
  <2>2. QED
    BY <1>6, <2>1 DEF StopDevice, LifeInv
<1>7. CASE SurpriseRemoval
  <2>1. TypeOK'
    BY <1>7 DEF SurpriseRemoval, TypeOK, power
  <2>2. QED
    BY <1>7, <2>1 DEF SurpriseRemoval, LifeInv
<1>8. CASE RemoveDevice
  <2>1. TypeOK'
    BY <1>8 DEF RemoveDevice, TypeOK, power
  <2>2. QED
    BY <1>8, <2>1 DEF RemoveDevice, LifeInv
<1>9. CASE RemoveComplete
  <2>1. TypeOK'
    BY <1>9 DEF RemoveComplete, TypeOK, power
  <2>2. resources' = {}
    BY <1>9 DEF RemoveComplete, TypeOK, Resources
  <2>3. QED
    BY <1>9, <2>1, <2>2 DEF RemoveComplete, LifeInv
<1>10. QED
  BY <1>2, <1>3, <1>4, <1>5, <1>6, <1>7, <1>8, <1>9 DEF PnpStep

\* The invariant is inductive.
LEMMA LifeStep == LifeInv /\ [Next]_vars => LifeInv'
<1>1. CASE UNCHANGED vars
  BY <1>1 DEF vars, plug, power, LifeInv, TypeOK, InterfaceInv, InterfaceHasName, NothingLeft
<1>2. QED
  BY <1>1, PowerKeepsLife, PnpKeepsLife DEF Next

\* IRP_MN_REMOVE_DEVICE: whatever the order of the PnP IRPs, with failures of
\* add_device and of START, a surprise removal or none, and power IRPs around
\* them, nothing of the device is left, and no interface without its name.
THEOREM ResourcesCorrect == Spec => []ResourcesSafe
<1>1. LifeInv => ResourcesSafe
  BY DEF LifeInv, InterfaceInv, ResourcesSafe
<1>2. QED
  BY <1>1, InitLife, LifeStep, PTL DEF Spec

-----------------------------------------------------------------------------
(* The power state, with one device power IRP at a time.                   *)

\* With nothing behind it, a power-down in the driver has been reported or will
\* be; with nothing in the driver either, the three states agree.
Settled ==
  requested = <<>> =>
    /\ in_flight = <<>> => reported = actual /\ power_state = actual
    /\ in_flight # <<>> /\ Head(in_flight).state = D3 => reported = D3 \/ power_state >= D3

PowerInv ==
  /\ LifeInv
  /\ Len(in_flight) <= 1
  /\ pnp \in {"absent", "rejected", "removed"} => in_flight = <<>>
  /\ Attached /\ Owner /\ ~failed /\ ~blind => Settled

\* The invariant holds at the start and is kept.
LEMMA PowerInvStep ==
  ASSUME MaxInFlight = 1
  PROVE (Init => PowerInv) /\ (PowerInv /\ [Next]_vars => PowerInv')
<1>1. ASSUME Init PROVE PowerInv
  BY <1>1, InitLife DEF Init, PowerInv, Attached
<1>2. ASSUME PowerInv, [Next]_vars PROVE PowerInv'
  <2>1. LifeInv' /\ TypeOK
    BY <1>2, LifeStep DEF PowerInv, LifeInv
  <2>2. CASE DevicePower
    <3>1. in_flight = <<>>
      BY <1>2, <2>1, <2>2 DEF DevicePower, PowerInv, TypeOK
    <3>2. PICK irp \in PowerIrp : irp = Head(requested)
      BY <2>1, <2>2, QueueFacts DEF DevicePower, TypeOK
    <3>3. in_flight' = <<irp>>
      BY <2>2, <3>1, <3>2 DEF DevicePower
    <3>4. UNCHANGED <<pnp, power_state>> /\ Attached
      BY <2>2 DEF DevicePower, plug
    <3>5. irp.state = D3 => reported' = D3 \/ power_state' >= D3
      BY <2>1, <2>2, <3>2 DEF DevicePower, TypeOK, D3
    <3>6. Settled'
      BY <3>3, <3>5 DEF Settled
    <3>7. QED
      BY <2>1, <3>3, <3>4, <3>6 DEF PowerInv, Attached
  <2>3. CASE DevicePowerComplete
    <3>1. in_flight # <<>> /\ in_flight' = <<>>
      BY <1>2, <2>1, <2>3 DEF DevicePowerComplete, PowerInv, TypeOK
    <3>2. PICK irp \in PowerIrp : irp = Head(in_flight)
      BY <2>1, <3>1, QueueFacts DEF TypeOK
    <3>3. UNCHANGED <<plug, requested>>
      BY <2>3 DEF DevicePowerComplete
    <3>4. ASSUME Attached, Owner, ~failed', ~blind', requested = <<>>
          PROVE reported' = actual' /\ power_state' = actual'
      <4>1. /\ actual' = irp.state /\ power_state' = irp.state
            /\ reported' = IF irp.state <= power_state THEN irp.state ELSE reported
            /\ failed' = (failed /\ irp.state # D0)
            /\ blind' = (blind /\ irp.state # D0)
        BY <2>3, <3>2, <3>4 DEF DevicePowerComplete
      <4>2. CASE irp.state = D0
        BY <2>1, <4>1, <4>2 DEF TypeOK, D0
      <4>3. CASE irp.state = D3
        <5>1. ~failed /\ ~blind
          <6>1. irp.state # D0
            BY <4>3 DEF D0, D3
          <6>2. QED
            BY <3>4, <4>1, <6>1, Zenon
        <5>2. reported = D3 \/ power_state >= D3
          BY <1>2, <3>1, <3>2, <3>4, <4>3, <5>1 DEF PowerInv, Settled
        <5>3. QED
          BY <2>1, <4>1, <4>3, <5>2 DEF TypeOK, D3
      <4>4. QED
        BY <4>2, <4>3, <3>2 DEF PowerIrp
    <3>5. Attached' /\ Owner' /\ ~failed' /\ ~blind' => Settled'
      BY <3>1, <3>3, <3>4 DEF Settled, Attached, Owner, plug
    <3>6. QED
      BY <2>1, <3>1, <3>5 DEF PowerInv
  <2>4. CASE SystemPowerComplete
    <3>1. UNCHANGED <<plug, in_flight, reported, actual, failed>>
      BY <2>4 DEF SystemPowerComplete
    <3>2. CASE UNCHANGED <<power_state, blind, requested>>
      BY <1>2, <2>1, <3>1, <3>2 DEF PowerInv, Settled, Attached, Owner, plug
    <3>3. CASE ~UNCHANGED <<power_state, blind, requested>>
      <4>0. /\ blind' = (blind \/ (Owner /\ ~known))
            /\ IF Owner /\ DeviceStateFor(sirp) # Unspecified
               THEN RequestPower(DeviceStateFor(sirp), None)
               ELSE UNCHANGED requested
        BY <2>4, <3>3 DEF SystemPowerComplete
      <4>1. Owner => blind' \/ RequestPower(DeviceStateFor(sirp), None)
        <5>1. CASE known
          <6>1. DeviceStateFor(sirp) # Unspecified
            BY <5>1 DEF DeviceStateFor, Unspecified, D0, D3
          <6>2. QED
            BY <4>0, <6>1
        <5>2. CASE ~known
          BY <4>0, <5>2, Zenon
        <5>3. QED
          BY <5>1, <5>2
      <4>2. RequestPower(DeviceStateFor(sirp), None) => requested' # <<>>
        BY <2>1 DEF RequestPower, TypeOK
      <4>3. Owner' => blind' \/ Settled'
        BY <3>1, <4>1, <4>2 DEF Settled, Owner, plug
      <4>4. QED
        BY <1>2, <2>1, <3>1, <4>3 DEF PowerInv, plug
    <3>4. QED
      BY <3>2, <3>3
  <2>5. ASSUME NEW t \in Creators, CreateWaits(t) PROVE PowerInv'
    <3>1. requested' # <<>>
      BY <2>1, <2>5 DEF CreateWaits, RequestPower, TypeOK
    <3>2. QED
      BY <1>2, <2>1, <2>5, <3>1 DEF CreateWaits, PowerInv, Settled, plug
  <2>6. ASSUME NEW s \in {D0, D3}, ForeignRequest(s) PROVE PowerInv'
    BY <1>2, <2>1, <2>6 DEF ForeignRequest, PowerInv, Owner, plug
  <2>7. CASE DevicePowerRefused
    BY <1>2, <2>1, <2>7 DEF DevicePowerRefused, PowerInv, Attached, plug
  <2>8. ASSUME NEW s \in SystemStates, SystemPower(s) PROVE PowerInv'
    BY <1>2, <2>1, <2>8 DEF SystemPower, PowerInv, Settled, Attached, Owner, plug
  <2>9. CASE AddDevice
    <3>1. in_flight' = <<>>
      BY <1>2, <2>9 DEF PowerInv, AddDevice
    <3>2. Settled'
      BY <2>9, <3>1 DEF AddDevice, Settled
    <3>3. QED
      BY <2>1, <3>1, <3>2 DEF PowerInv
  <2>10. CASE StartDevice
    <3>1. Settled => Settled'
      BY <2>10 DEF StartDevice, Settled
    <3>2. QED
      BY <1>2, <2>1, <2>10, <3>1 DEF PowerInv, StartDevice, Attached, Owner
  <2>11. CASE OnStartComplete \/ QueryCapabilities \/ StopDevice \/ SurpriseRemoval \/ RemoveDevice
    <3>1. /\ UNCHANGED <<power, mode>> /\ Attached
          /\ pnp' \notin {"absent", "rejected", "removed"}
      BY <2>11 DEF OnStartComplete, QueryCapabilities, StopDevice, SurpriseRemoval, RemoveDevice,
         Attached
    <3>2. QED
      BY <1>2, <2>1, <3>1 DEF PowerInv, Settled, Owner, power
  <2>12. CASE RemoveComplete
    BY <1>2, <2>1, <2>12 DEF PowerInv, RemoveComplete, Attached, power
  <2>13. CASE UNCHANGED vars
    BY <1>2, <2>1, <2>13 DEF PowerInv, Settled, Attached, Owner, vars, plug, power
  <2>14. QED
    BY <1>2, <2>2, <2>3, <2>4, <2>5, <2>6, <2>7, <2>8, <2>9, <2>10, <2>11, <2>12, <2>13
    DEF Next, PnpStep, PowerStep
<1>3. QED
  BY <1>1, <1>2

\* Where PoStartNextPowerIrp has no effect, so that device power IRPs come one
\* by one: although dispatch_power and the completion routines compare and write
\* one word for system and device states, when the IRPs are through the driver
\* has kept and reported the state of its device, with refused, failing and
\* foreign requests and restarts in between.
THEOREM PowerStateCorrect ==
  ASSUME MaxInFlight = 1
  PROVE Spec => []SettledAgrees
<1>1. PowerInv => SettledAgrees
  BY DEF PowerInv, SettledAgrees, Settled, Attached
<1>2. QED
  BY <1>1, PowerInvStep, PTL DEF Spec
=============================================================================
