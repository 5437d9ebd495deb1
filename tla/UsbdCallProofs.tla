--------------------------- MODULE UsbdCallProofs ---------------------------
(***************************************************************************)
(* The IRPLOCK handshake of call_usbd_ex, for every timeout.  The          *)
(* inductive invariant says which values the lock word and the owner of    *)
(* the IRP can have at each point of the caller and of the completion.     *)
(***************************************************************************)
EXTENDS UsbdCall, TLAPS

\* The event, the completions and the completion's progress follow the IRP.
IrpInv ==
  /\ completions = IF irp = "freed" THEN 1 ELSE 0
  /\ event <=> irp = "freed"
  /\ irp \in {"none", "caller"} => completer = "idle"
  /\ irp \in {"held", "freed"} => completer = "done"
  /\ irp = "lower" => completer # "done"

\* The lock word tells the caller how far the completion has come.
LockInv ==
  /\ pc = "start" => irp = "none"
  /\ pc = "built" => irp = "caller" /\ lock = "cancelable"
  /\ pc \in {"called", "waiting", "timed_out"} =>
       /\ irp \in {"lower", "freed"}
       /\ lock = IF completer \in {"idle", "exchange"} THEN "cancelable" ELSE "completed"
  /\ pc \in {"cancel", "cancel_done"} =>
       \/ lock = "cancel_started" /\ irp = "lower" /\ completer \in {"idle", "exchange"}
       \/ lock = "completed" /\ irp = "held"
  /\ pc = "complete" => irp = "held"
  /\ pc = "drain" => irp \in {"lower", "freed"}
                     /\ (lock = "cancel_started" => completer \in {"finish", "done"})
  /\ pc = "returned" => irp = IF status = "no_memory" THEN "none" ELSE "freed"
  /\ pc \in {"start", "built", "called", "waiting"} => status = "none"
  /\ pc \in {"timed_out", "cancel", "cancel_done", "complete", "drain"} =>
       status = "timeout"

\* The interval is computed from the arguments; a finished wait has a result.
ResultInv ==
  /\ timeout \in Timeouts /\ max_timeout \in MaxTimeouts
  /\ pc = "waiting" => interval = Interval(timeout, max_timeout)
  /\ irp \in {"held", "freed"} \/ completer \in {"exchange", "finish"} =>
       io_status # "none"
  /\ StatusFromDevice

IInv == TypeOK /\ IrpInv /\ LockInv /\ ResultInv

-----------------------------------------------------------------------------
\* The protocol is ready when the call begins.
LEMMA InitInvariant == Init => IInv
<1> SUFFICES ASSUME Init PROVE IInv
  OBVIOUS
<1>1. cancelled \in BOOLEAN /\ event \in BOOLEAN
  BY Zenon DEF Init
<1>2. TypeOK
  BY <1>1, TimeoutsAssumption DEF Init, TypeOK
<1>3. IrpInv
  BY DEF Init, IrpInv
<1>4. LockInv /\ ResultInv
  BY DEF Init, LockInv, ResultInv, StatusFromDevice
<1>5. QED
  BY <1>2, <1>3, <1>4 DEF IInv

\* The product is an int, whatever the width.
LEMMA IntervalType ==
  ASSUME NEW t \in Int, NEW m \in Nat
  PROVE  Interval(t, m) \in Int
<1>1. \A n \in Int : Wrapped(n) \in Int
  BY WidthAssumption DEF Wrapped
<1>2. Effective(t, m) * TicksPerMs \in Int
  BY WidthAssumption DEF Effective
<1>3. QED
  BY <1>1, <1>2 DEF Interval

\* Every step of the caller and of the completion keeps the invariant.
LEMMA StepInvariant == IInv /\ [Next]_vars => IInv'
<1> SUFFICES ASSUME IInv, [Next]_vars PROVE IInv'
  OBVIOUS
<1> USE DEF IInv, TypeOK, IrpInv, LockInv, ResultInv, StatusFromDevice, Outcomes, call
<1>1. CASE UNCHANGED vars
  BY <1>1 DEF vars
<1>2. CASE Build
  BY <1>2 DEF Build
<1>3. CASE Send
  BY <1>3 DEF Send
<1>4. CASE CompleteInline
  BY <1>4 DEF CompleteInline
<1>5. CASE ReturnPending
  BY <1>5, IntervalType DEF ReturnPending
<1>6. CASE WaitSatisfied
  BY <1>6 DEF WaitSatisfied
<1>7. CASE WaitTimesOut
  BY <1>7 DEF WaitTimesOut
<1>8. CASE StartCancel
  BY <1>8 DEF StartCancel
<1>9. CASE Cancel
  BY <1>9 DEF Cancel
<1>10. CASE EndCancel
  BY <1>10 DEF EndCancel
<1>11. CASE CompleteHeld
  BY <1>11 DEF CompleteHeld, EndIrp
<1>12. CASE Drain
  BY <1>12 DEF Drain
<1>13. CASE LowerCompletes
  BY <1>13 DEF LowerCompletes
<1>14. CASE OnUsbdComplete
  BY <1>14 DEF OnUsbdComplete
<1>15. CASE FinishIrp
  BY <1>15 DEF FinishIrp, EndIrp
<1>16. QED
  BY <1>1, <1>2, <1>3, <1>4, <1>5, <1>6, <1>7, <1>8, <1>9, <1>10, <1>11, <1>12,
     <1>13, <1>14, <1>15 DEF Next, CallerStep, CompleterStep, Returned

\* The inductive invariant holds in every behaviour of the call.
THEOREM Invariant == Spec => []IInv
<1>1. QED
  BY InitInvariant, StepInvariant, PTL DEF Spec

\* The variables of the call keep their types.
THEOREM TypeCorrect == Spec => []TypeOK
<1>1. IInv => TypeOK
  BY DEF IInv
<1>2. QED
  BY <1>1, Invariant, PTL

\* The IRP is ended once, is alive when it is cancelled, and the lock word is
\* not touched after the call, whoever wins the race.
THEOREM HandshakeCorrect == Spec => []HandshakeSafe
<1>1. IInv => HandshakeSafe
  BY DEF IInv, TypeOK, IrpInv, LockInv, HandshakeSafe, EndedOnce, CancelOnlyLive, LockInScope
<1>2. QED
  BY <1>1, Invariant, PTL

\* A result that is not a timeout is the bus driver's.
THEOREM StatusCorrect == Spec => []StatusFromDevice
<1>1. IInv => StatusFromDevice
  BY DEF IInv, ResultInv
<1>2. QED
  BY <1>1, Invariant, PTL

-----------------------------------------------------------------------------
\* The int product of a small enough timeout does not wrap around.
LEMMA ProductExact ==
  ASSUME NEW t \in Nat, NEW m \in Nat, t <= m, m * TicksPerMs <= IntMax
  PROVE  Wrapped(-Wrapped(t * TicksPerMs)) = -(t * TicksPerMs)
<1>1. t * TicksPerMs \in Nat /\ m * TicksPerMs \in Nat
  BY WidthAssumption
<1>2. t * TicksPerMs <= m * TicksPerMs
  <2>1. (m - t) * TicksPerMs >= 0
    BY WidthAssumption
  <2>2. (m - t) * TicksPerMs = m * TicksPerMs - t * TicksPerMs
    BY WidthAssumption
  <2>3. QED
    BY <1>1, <2>1, <2>2
<1> DEFINE p == t * TicksPerMs
<1>3. p \in Nat /\ p <= IntMax
  BY <1>1, <1>2, WidthAssumption
<1> HIDE DEF p
<1>4. Wrapped(p) = p /\ Wrapped(-p) = -p
  BY <1>3, WidthAssumption DEF Wrapped
<1>5. QED
  BY <1>4 DEF p

\* Whoever calls with a cap waits for exactly the time asked for.
THEOREM CappedWaitCorrect == Spec => []CappedWaitIsExact
<1>1. ASSUME IInv, pc = "waiting", max_timeout > 0
      PROVE  interval = -(TicksPerMs * (IF timeout <= 0 THEN DefaultTimeout
                                        ELSE IF timeout <= max_timeout THEN timeout
                                        ELSE max_timeout))
  <2> DEFINE e == Effective(timeout, max_timeout)
  <2>1. interval = Wrapped(-Wrapped(e * TicksPerMs))
    BY <1>1 DEF IInv, ResultInv, Interval
  <2>2. e = IF timeout <= 0 THEN DefaultTimeout
            ELSE IF timeout <= max_timeout THEN timeout ELSE max_timeout
    BY <1>1, TimeoutsAssumption DEF IInv, ResultInv, Effective
  <2>3. \/ e \in Nat /\ e <= DefaultTimeout
        \/ e \in Nat /\ e <= max_timeout
    BY <1>1, <2>2, TimeoutsAssumption, WidthAssumption DEF IInv, ResultInv
  <2>4. max_timeout * TicksPerMs <= IntMax /\ max_timeout \in Nat
    BY <1>1, TimeoutsAssumption, WidthAssumption DEF IInv, ResultInv
  <2> HIDE DEF e
  <2>5. interval = -(e * TicksPerMs)
    BY <2>1, <2>3, <2>4, ProductExact, WidthAssumption
  <2>6. e * TicksPerMs = TicksPerMs * e
    BY <2>3, WidthAssumption
  <2>7. QED
    BY <2>2, <2>5, <2>6
<1>2. IInv => CappedWaitIsExact
  BY <1>1 DEF CappedWaitIsExact
<1>3. QED
  BY <1>2, Invariant, PTL
=============================================================================
