------------------------------ MODULE UsbdCall ------------------------------
(***************************************************************************)
(* call_usbd_ex and on_usbd_complete (driver/libusb_driver.c): a           *)
(* synchronous request to the bus driver with a timeout.  The calling      *)
(* thread builds an IRP, sends it, waits, and cancels it when the wait     *)
(* times out; the completion runs on another thread.  The two agree on     *)
(* who ends the IRP through the IRPLOCK word, which lives on the caller's  *)
(* stack; an IRP that has been ended is freed by the I/O manager.          *)
(***************************************************************************)
EXTENDS Integers

CONSTANTS Timeouts,     \* the timeouts, in ms, that requests are made with
          MaxTimeouts,  \* the values of max_timeout: 0 or the cap of call_usbd
          DefaultTimeout, \* LIBUSB_MAX_CONTROL_TRANSFER_TIMEOUT
          TicksPerMs,   \* 100ns units in a ms: 10000
          IntMax        \* largest int

ASSUME TimeoutsAssumption == Timeouts \subseteq Int /\ MaxTimeouts \subseteq Nat

ASSUME WidthAssumption ==
  /\ IntMax \in Nat /\ TicksPerMs \in Nat \ {0} /\ DefaultTimeout \in Nat \ {0}
  /\ DefaultTimeout * TicksPerMs <= IntMax
  /\ \A m \in MaxTimeouts : m * TicksPerMs <= IntMax

VARIABLES pc,         \* the calling thread
          timeout,    \* its arguments
          max_timeout,
          interval,   \* _timeout.QuadPart: negative is relative, else absolute
          lock,       \* the IRPLOCK word
          irp,        \* who has the IRP
          cancelled,  \* IoCancelIrp was called
          completer,  \* the thread of the completion
          event,      \* the event of the wait
          io_status,  \* IO_STATUS_BLOCK.Status
          completions,\* how many times the I/O manager ended the IRP
          status      \* the value call_usbd_ex returns

call == <<timeout, max_timeout, interval>>
vars == <<pc, call, lock, irp, cancelled, completer, event, io_status, completions, status>>

\* What the bus driver may make of a request.
Outcomes == {"success", "failed", "cancelled"}


TypeOK ==
  /\ pc \in {"start", "built", "called", "waiting", "timed_out", "cancel", "cancel_done",
             "complete", "drain", "returned"}
  /\ timeout \in Int /\ max_timeout \in Nat /\ interval \in Int
  /\ lock \in {"none", "cancelable", "cancel_started", "cancel_complete", "completed"}
  /\ irp \in {"none", "caller", "lower", "held", "freed"}
  /\ cancelled \in BOOLEAN /\ event \in BOOLEAN
  /\ completer \in {"idle", "exchange", "finish", "done"}
  /\ io_status \in Outcomes \union {"none"}
  /\ completions \in Nat
  /\ status \in Outcomes \union {"none", "timeout", "no_memory"}

Init ==
  /\ pc = "start" /\ timeout \in Timeouts /\ max_timeout \in MaxTimeouts
  /\ interval = 0 /\ lock = "none" /\ irp = "none" /\ cancelled = FALSE
  /\ completer = "idle" /\ event = FALSE /\ io_status = "none"
  /\ completions = 0 /\ status = "none"

-----------------------------------------------------------------------------
\* An int product, which wraps around.
Wrapped(n) ==
  IF n \in -IntMax - 1 .. IntMax THEN n
  ELSE ((n + IntMax + 1) % (2 * IntMax + 2)) - IntMax - 1

\* Mutant: the cap of call_usbd is not applied.
EffectiveUncapped(t, max) == IF t <= 0 THEN DefaultTimeout ELSE t

\* The timeout the call waits for: capped, and 0 or less is the default.
Effective(t, max) ==
  IF max > 0 /\ t > max THEN max ELSE IF t <= 0 THEN DefaultTimeout ELSE t

\* -(timeout * 10000), in int arithmetic.
Interval(t, max) == Wrapped(-Wrapped(Effective(t, max) * TicksPerMs))

Build ==
  /\ pc = "start"
  /\ \/ pc' = "built" /\ irp' = "caller" /\ lock' = "cancelable" /\ UNCHANGED status
     \/ pc' = "returned" /\ status' = "no_memory" /\ UNCHANGED <<irp, lock>>
  /\ UNCHANGED <<call, cancelled, completer, event, io_status, completions>>

\* IoCallDriver hands the IRP to the bus driver ...
Send ==
  /\ pc = "built"
  /\ irp' = "lower"
  /\ pc' = "called"
  /\ UNCHANGED <<call, lock, cancelled, completer, event, io_status, completions, status>>

\* ... which completes it before the call returns ...
CompleteInline ==
  /\ pc = "called" /\ completer = "idle"
  /\ \E s \in {"success", "failed"} : status' = s /\ io_status' = s
  /\ lock' = "completed" /\ irp' = "freed" /\ event' = TRUE
  /\ completions' = completions + 1 /\ completer' = "done"
  /\ pc' = "returned"
  /\ UNCHANGED <<call, cancelled>>

\* ... or keeps it, and the caller waits.
ReturnPending ==
  /\ pc = "called"
  /\ interval' = Interval(timeout, max_timeout)
  /\ pc' = "waiting"
  /\ UNCHANGED <<timeout, max_timeout, lock, irp, cancelled, completer, event, io_status,
                 completions, status>>

\* Mutant: a wait that ends counts as a success.
WaitSatisfiedBlindly ==
  /\ pc = "waiting" /\ event
  /\ status' = "success"
  /\ pc' = "returned"
  /\ UNCHANGED <<call, lock, irp, cancelled, completer, event, io_status, completions>>

WaitSatisfied ==
  /\ pc = "waiting" /\ event
  /\ status' = io_status
  /\ pc' = "returned"
  /\ UNCHANGED <<call, lock, irp, cancelled, completer, event, io_status, completions>>

WaitTimesOut ==
  /\ pc = "waiting" /\ ~event
  /\ status' = "timeout"
  /\ pc' = "timed_out"
  /\ UNCHANGED <<call, lock, irp, cancelled, completer, event, io_status, completions>>

\* InterlockedExchange of IRPLOCK_CANCEL_STARTED.
StartCancel ==
  /\ pc = "timed_out"
  /\ lock' = "cancel_started"
  /\ pc' = IF lock = "cancelable" THEN "cancel" ELSE "drain"
  /\ UNCHANGED <<call, irp, cancelled, completer, event, io_status, completions, status>>

\* Mutant: the IRP is not cancelled.
CancelForgotten ==
  /\ pc = "cancel"
  /\ pc' = "cancel_done"
  /\ UNCHANGED <<call, lock, irp, cancelled, completer, event, io_status, completions, status>>

\* IoCancelIrp.
Cancel ==
  /\ pc = "cancel"
  /\ cancelled' = TRUE
  /\ pc' = "cancel_done"
  /\ UNCHANGED <<call, lock, irp, completer, event, io_status, completions, status>>

\* Mutant: the caller completes the IRP whether it was held back or not.
EndCancelAlways ==
  /\ pc = "cancel_done"
  /\ lock' = "cancel_complete"
  /\ pc' = "complete"
  /\ UNCHANGED <<call, irp, cancelled, completer, event, io_status, completions, status>>

\* InterlockedExchange of IRPLOCK_CANCEL_COMPLETE: an IRP that was completed
\* meanwhile was held back for the caller.
EndCancel ==
  /\ pc = "cancel_done"
  /\ lock' = "cancel_complete"
  /\ pc' = IF lock = "completed" THEN "complete" ELSE "drain"
  /\ UNCHANGED <<call, irp, cancelled, completer, event, io_status, completions, status>>

\* The I/O manager ends the IRP: status block, event, and the IRP is freed.
EndIrp(s) ==
  /\ irp' = "freed"
  /\ io_status' = s
  /\ event' = TRUE
  /\ completions' = completions + 1

\* IoCompleteRequest of the held IRP; the bus driver had set its status.
CompleteHeld ==
  /\ pc = "complete"
  /\ EndIrp(io_status)
  /\ pc' = "drain"
  /\ UNCHANGED <<call, lock, cancelled, completer, status>>

\* Mutant: no second wait after a cancel.
DrainWithoutWait ==
  /\ pc = "drain"
  /\ pc' = "returned"
  /\ UNCHANGED <<call, lock, irp, cancelled, completer, event, io_status, completions, status>>

\* The second, unlimited wait.
Drain ==
  /\ pc = "drain" /\ event
  /\ pc' = "returned"
  /\ UNCHANGED <<call, lock, irp, cancelled, completer, event, io_status, completions, status>>

-----------------------------------------------------------------------------
\* The bus driver is through with the IRP, by itself or because of the cancel.
LowerCompletes ==
  /\ irp = "lower" /\ completer = "idle"
  /\ \E s \in Outcomes : (s = "cancelled" => cancelled) /\ io_status' = s
  /\ completer' = "exchange"
  /\ UNCHANGED <<pc, call, lock, irp, cancelled, event, completions, status>>

\* Mutant: the completion never leaves the IRP to the caller.
OnUsbdCompleteUnlocked ==
  /\ completer = "exchange"
  /\ lock' = "completed"
  /\ completer' = "finish"
  /\ UNCHANGED <<pc, call, irp, cancelled, event, io_status, completions, status>>

\* on_usbd_complete: STATUS_MORE_PROCESSING_REQUIRED leaves the IRP to a caller
\* that is about to cancel it.
OnUsbdComplete ==
  /\ completer = "exchange"
  /\ lock' = "completed"
  /\ IF lock = "cancel_started"
     THEN irp' = "held" /\ completer' = "done"
     ELSE completer' = "finish" /\ UNCHANGED irp
  /\ UNCHANGED <<pc, call, cancelled, event, io_status, completions, status>>

FinishIrp ==
  /\ completer = "finish"
  /\ EndIrp(io_status)
  /\ completer' = "done"
  /\ UNCHANGED <<pc, call, lock, cancelled, status>>

Returned == pc = "returned" /\ completer \in {"idle", "done"} /\ UNCHANGED vars

CallerStep ==
  \/ Build
  \/ Send
  \/ CompleteInline
  \/ ReturnPending
  \/ WaitSatisfied
  \/ WaitTimesOut
  \/ StartCancel
  \/ Cancel
  \/ EndCancel
  \/ CompleteHeld
  \/ Drain

CompleterStep == OnUsbdComplete \/ FinishIrp

Next == CallerStep \/ LowerCompletes \/ CompleterStep \/ Returned

Spec == Init /\ [][Next]_vars

\* Both threads run, the wait ends at its timeout, and the bus driver answers
\* a cancelled IRP.  It need not answer any other.
FairSpec ==
  /\ Spec
  /\ WF_vars(CallerStep)
  /\ WF_vars(CompleterStep)
  /\ WF_vars(cancelled /\ LowerCompletes)

-----------------------------------------------------------------------------
\* IoCancelIrp is never given an IRP that is being ended or has been freed,
\* and neither is IoCompleteRequest.
CancelOnlyLive ==
  /\ pc = "cancel" => irp \in {"lower", "held"} /\ completer # "finish"
  /\ pc = "complete" => irp = "held"

\* Whoever wins the race for IRPLOCK, the IRP is ended exactly once before the
\* caller returns.
EndedOnce ==
  /\ completions <= 1
  /\ pc = "returned" /\ status # "no_memory" => irp = "freed" /\ completions = 1

\* on_usbd_complete never touches the lock word after call_usbd_ex has
\* returned and its stack frame is gone.
LockInScope == pc = "returned" => completer \in {"idle", "done"} /\ irp # "lower"

\* IRPLOCK, the whole handshake: whatever the order of the timeout, the
\* cancellation and the completion, nobody uses an IRP or a lock word that is
\* gone, and the IRP is ended exactly once.
HandshakeSafe == TypeOK /\ CancelOnlyLive /\ EndedOnce /\ LockInScope

\* A result that is not a timeout is the bus driver's own.
StatusFromDevice ==
  pc = "returned" /\ status \notin {"timeout", "no_memory"} => status = io_status

\* A call with a cap waits for the relative time it was asked for, up to the
\* cap: -(timeout * 10000) does not overflow.
CappedWaitIsExact ==
  pc = "waiting" /\ max_timeout > 0 =>
    interval = -(TicksPerMs * (IF timeout <= 0 THEN DefaultTimeout
                               ELSE IF timeout <= max_timeout THEN timeout
                               ELSE max_timeout))

\* A call whose device never answers returns nevertheless.
CallReturns == pc = "waiting" ~> pc = "returned"
=============================================================================
