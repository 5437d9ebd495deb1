----------------------------- MODULE RemoveLock -----------------------------
(***************************************************************************)
(* The remove lock of a device (driver/libusb_driver.c, remove_lock_...) and *)
(* the dispatch routines that use it: the IRPs of one device run on        *)
(* threads of their own, each interlocked operation or read of a shared    *)
(* field is a step, and an IRP_MN_REMOVE_DEVICE tears the device down.     *)
(*                                                                         *)
(* The lock is a count with an event.  It starts at 1 (the device itself); *)
(* a request adds 1, looks at remove_pending, and takes its 1 back when it *)
(* is refused; the remove handler sets remove_pending, drops its own       *)
(* reference and the initial one, and waits for the event that the         *)
(* decrement to 0 sets.                                                    *)
(***************************************************************************)
EXTENDS Integers, FiniteSets

CONSTANTS Ioctls,    \* IRP_MJ_DEVICE_CONTROL requests
          Forwards,  \* power IRPs, QUERY_CAPABILITIES, DEVICE_USAGE_NOTIFICATION
          Plains,    \* the PnP IRPs of dispatch_pnp's default branch
          Starts,    \* IRP_MN_START_DEVICE
          Stops,     \* IRP_MN_STOP_DEVICE and IRP_MN_SURPRISE_REMOVAL
          Remove     \* the one IRP_MN_REMOVE_DEVICE of the device

Users == Ioctls \union Forwards \union Plains \union Starts \union Stops

Requests == Users \union {Remove}

\* IRPs that change the device's PnP state: the PnP manager sends one at a time.
PnpState == Starts \union Stops \union {Remove}

ASSUME RequestsFinite == IsFiniteSet(Users)

ASSUME RequestsDistinct ==
  /\ Remove \notin Users
  /\ Ioctls \intersect (Forwards \union Plains \union Starts \union Stops) = {}
  /\ (Starts \union Stops) \intersect (Forwards \union Plains) = {}
  /\ Starts \intersect Stops = {}
  /\ Plains \intersect Forwards = {}

VARIABLES usage_count,     \* remove_lock.usage_count
          remove_pending,  \* remove_lock.remove_pending
          event,           \* remove_lock.event, a notification event: never cleared
          is_started,      \* dev->is_started
          signalling,      \* threads between a decrement to 0 and KeSetEvent
          pc               \* where the thread of each request is

vars == <<usage_count, remove_pending, event, is_started, signalling, pc>>

UserSteps ==
  {"idle", "accepted", "counted", "undo", "over_release", "over_released",
   "held", "handled", "forwarding", "done"}

RemoveSteps ==
  {"idle", "accepted", "counted", "undo", "done", "held", "stopped", "pending",
   "dropping", "waiting", "detached"}

TypeOK ==
  /\ usage_count \in Int
  /\ remove_pending \in BOOLEAN
  /\ event \in BOOLEAN
  /\ is_started \in BOOLEAN
  /\ signalling \subseteq Requests
  /\ pc \in [Requests -> UserSteps \union RemoveSteps]
  /\ \A r \in Users : pc[r] \in UserSteps
  /\ pc[Remove] \in RemoveSteps

\* remove_lock_initialize, after add_device has given back the reference it
\* holds while it attaches the device.
Init ==
  /\ usage_count = 1
  /\ remove_pending = FALSE
  /\ event = FALSE
  /\ is_started = FALSE
  /\ signalling = {}
  /\ pc = [r \in Requests |-> "idle"]

-----------------------------------------------------------------------------
At(r, step) == pc[r] = step /\ r \notin signalling

Goto(r, step) == pc' = [pc EXCEPT ![r] = step]

\* Mutant: the event is set one reference early.
DecrementEarly(r, step) ==
  /\ usage_count' = usage_count - 1
  /\ signalling' = IF usage_count = 2 THEN signalling \union {r} ELSE signalling
  /\ Goto(r, step)
  /\ UNCHANGED <<remove_pending, event, is_started>>

\* InterlockedDecrement(&usage_count); a result of 0 obliges the thread to set
\* the event before it does anything else.
Decrement(r, step) ==
  /\ usage_count' = usage_count - 1
  /\ signalling' = IF usage_count = 1 THEN signalling \union {r} ELSE signalling
  /\ Goto(r, step)
  /\ UNCHANGED <<remove_pending, event, is_started>>

Signal(r) ==
  /\ r \in signalling
  /\ event' = TRUE
  /\ signalling' = signalling \ {r}
  /\ UNCHANGED <<usage_count, remove_pending, is_started, pc>>

Finished(r) == pc[r] \in {"done", "over_released", "detached"} /\ r \notin signalling

PnpQuiet == \A r \in PnpState : pc[r] = "idle" \/ Finished(r)

\* dispatch: an ioctl is turned away when the device is not started; a PnP
\* state change arrives only when the one before it is over, and none follows
\* the removal.
Dispatch(r) ==
  /\ At(r, "idle")
  /\ r \in PnpState => PnpQuiet /\ pc[Remove] = "idle"
  /\ Goto(r, IF r \in Ioctls /\ ~is_started THEN "done" ELSE "accepted")
  /\ UNCHANGED <<usage_count, remove_pending, event, is_started, signalling>>

\* remove_lock_acquire, first line.
Increment(r) ==
  /\ At(r, "accepted")
  /\ usage_count' = usage_count + 1
  /\ Goto(r, "counted")
  /\ UNCHANGED <<remove_pending, event, is_started, signalling>>

\* Mutant: the acquirer does not look at remove_pending.
CheckPendingIgnored(r) ==
  /\ At(r, "counted")
  /\ Goto(r, "held")
  /\ UNCHANGED <<usage_count, remove_pending, event, is_started, signalling>>

\* remove_lock_acquire, the test of remove_pending.
CheckPending(r) ==
  /\ At(r, "counted")
  /\ Goto(r, IF remove_pending THEN "undo" ELSE "held")
  /\ UNCHANGED <<usage_count, remove_pending, event, is_started, signalling>>

\* Mutant: a refused request keeps its increment.
UndoAcquireForgotten(r) ==
  /\ At(r, "undo")
  /\ Goto(r, IF r \in Ioctls THEN "over_release" ELSE "done")
  /\ UNCHANGED <<usage_count, remove_pending, event, is_started, signalling>>

\* remove_lock_acquire takes its increment back and refuses the request; the
\* caller completes the IRP.  dispatch_ioctl then goes on to release the lock.
UndoAcquire(r) ==
  /\ At(r, "undo")
  /\ Decrement(r, IF r \in Ioctls THEN "over_release" ELSE "done")

\* dispatch_ioctl's remove_lock_release of a lock it was refused.
OverRelease(r) ==
  /\ At(r, "over_release")
  /\ Decrement(r, "over_released")

\* Mutant: the remove request falls through to the common release.
HandleFallThrough(r) ==
  /\ At(r, "held")
  /\ is_started' = (r \in Starts \/ (is_started /\ r \notin Stops))
  /\ Goto(r, "handled")
  /\ UNCHANGED <<usage_count, remove_pending, event, signalling>>

\* The request does its work under the lock: the lower driver completes it, or
\* the handler's own part ends.  on_start_complete starts the device whatever
\* the status of the IRP; STOP and SURPRISE_REMOVAL stop it.
Handle(r) ==
  /\ r \in Users /\ At(r, "held")
  /\ is_started' = (r \in Starts \/ (is_started /\ r \notin Stops))
  /\ Goto(r, "handled")
  /\ UNCHANGED <<usage_count, remove_pending, event, signalling>>

\* remove_lock_release.  The default branch of dispatch_pnp, which STOP and
\* SURPRISE_REMOVAL end in, passes the IRP down after it has released.
Release(r) ==
  /\ At(r, "handled")
  /\ Decrement(r, IF r \in Plains \union Stops THEN "forwarding" ELSE "done")

Forward(r) ==
  /\ At(r, "forwarding")
  /\ Goto(r, "done")
  /\ UNCHANGED <<usage_count, remove_pending, event, is_started, signalling>>

-----------------------------------------------------------------------------
\* IRP_MN_REMOVE_DEVICE: dev->is_started = FALSE.
RemoveStop ==
  /\ At(Remove, "held")
  /\ is_started' = FALSE
  /\ Goto(Remove, "stopped")
  /\ UNCHANGED <<usage_count, remove_pending, event, signalling>>

\* remove_lock_release_and_wait, statement by statement.
SetRemovePending ==
  /\ At(Remove, "stopped")
  /\ remove_pending' = TRUE
  /\ Goto(Remove, "pending")
  /\ UNCHANGED <<usage_count, event, is_started, signalling>>

ReleaseOwn == At(Remove, "pending") /\ Decrement(Remove, "dropping")

\* Mutant: the remove handler releases once, not twice.
ReleaseInitialForgotten ==
  /\ At(Remove, "dropping")
  /\ Goto(Remove, "waiting")
  /\ UNCHANGED <<usage_count, remove_pending, event, is_started, signalling>>

ReleaseInitial == At(Remove, "dropping") /\ Decrement(Remove, "waiting")

\* The wait returns; the IRP is passed down, the stack detached, the device
\* object deleted.
WaitAndDetach ==
  /\ At(Remove, "waiting")
  /\ event
  /\ Goto(Remove, "detached")
  /\ UNCHANGED <<usage_count, remove_pending, event, is_started, signalling>>

\* Every IRP that can still arrive has arrived and is over.
Terminated ==
  /\ pc[Remove] = "detached"
  /\ \A r \in Requests : Finished(r) \/ (r \in PnpState /\ pc[r] = "idle")
  /\ UNCHANGED vars

Step(r) ==
  \/ Increment(r)
  \/ CheckPending(r)
  \/ UndoAcquire(r)
  \/ OverRelease(r)
  \/ Handle(r)
  \/ Release(r)
  \/ Forward(r)
  \/ Signal(r)

RemoveStep ==
  \/ RemoveStop
  \/ SetRemovePending
  \/ ReleaseOwn
  \/ ReleaseInitial
  \/ WaitAndDetach

Next ==
  \/ \E r \in Requests : Dispatch(r) \/ Step(r)
  \/ RemoveStep
  \/ Terminated

Spec == Init /\ [][Next]_vars

\* A thread that is inside the driver keeps running, and the lower driver
\* completes every IRP it is given.  Nobody is obliged to send a request.
Fairness ==
  /\ \A r \in Requests : WF_vars(Step(r))
  /\ WF_vars(RemoveStep)

FairSpec == Spec /\ Fairness

-----------------------------------------------------------------------------
\* Requests that own a reference, as the code that runs under the lock sees it.
Holders == {r \in Users : pc[r] \in {"held", "handled"}}

\* Requests with an increment that they have not yet taken back.
Counting ==
  {r \in Requests : pc[r] \in {"counted", "undo", "held", "handled", "stopped", "pending"}}

\* Ioctls that released a lock they were refused.
OverReleased == {r \in Ioctls : pc[r] = "over_released"}

InitialReference == IF pc[Remove] \in {"waiting", "detached"} THEN 0 ELSE 1

TornDown == pc[Remove] = "detached"

\* The count is the initial reference plus one for every request inside, less
\* one for every ioctl that was refused: it never drifts in any other way,
\* whatever the interleaving of the remove_lock steps.
Accounting ==
  usage_count = InitialReference + Cardinality(Counting) - Cardinality(OverReleased)

\* IRP_MN_REMOVE_DEVICE tears the device down while a request is inside only
\* if some other ioctl was refused and over-released: one request left behind
\* for each such ioctl, no more.
DrainedUpToRefusals ==
  TornDown => Cardinality(Holders) <= Cardinality(OverReleased)

\* pnp.c, IRP_MN_REMOVE_DEVICE: "wait until all outstanding requests are
\* finished" before the device is torn down.
RemoveWaitsForRequests == TornDown => Holders = {}

\* No wake-up is lost: once the remove handler holds the lock, it gets past
\* its wait and tears the device down.
RemoveCompletes == pc[Remove] = "held" ~> TornDown

\* The device as Drain sees it.
D == INSTANCE Drain WITH
  Requests <- Users, Lapsing <- Ioctls, holders <- Holders, lapsed <- OverReleased,
  closing <- remove_pending, closed <- TornDown

\* The count and the event implement the drain: nobody enters after
\* remove_pending, at the tear-down there are at most as many requests inside
\* as ioctls have been refused and have released all the same, and the
\* tear-down happens.
ImplementsDrain == D!FairSpec
=============================================================================
