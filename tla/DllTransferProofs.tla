------------------------- MODULE DllTransferProofs -------------------------
(***************************************************************************)
(* When a call that ends a request has returned, the request is out of the *)
(* driver, for any number of contexts on any endpoints.  The inductive     *)
(* invariant ties the owner's event to its request, and its place in       *)
(* _usb_cancel_io to the outcome of the abort.                             *)
(***************************************************************************)
EXTENDS DllTransfer, TLAPS

\* What holds of a context whatever the others do.
ContextInv(c) ==
  /\ event[c] => irp[c] = "none"
  /\ pc[c] \in Dead /\ irp[c] # "none" => escaped[c]
  /\ pc[c] = "cancel" <=> cancel[c]["owner"] # "no"
  /\ cancel[c]["owner"] = "poll" => escaped[c]

IInv == TypeOK /\ \A c \in Contexts : ContextInv(c)

-----------------------------------------------------------------------------
\* The invariant holds initially.
LEMMA InitInv == Init => IInv
  BY DEF Init, IInv, TypeOK, ContextInv, Dead, Roles, Stages

\* Where a call leaves the owner is a state in which its request is over.
LEMMA OverIsDead == \A c \in Contexts : Over(c) \in {"free", "ready"}
  BY DEF Over

\* A step of one call of _usb_cancel_io keeps the type.
LEMMA CancelUpdate ==
  ASSUME TypeOK, NEW c \in Contexts, NEW w \in Roles, NEW s \in Stages
  PROVE  [cancel EXCEPT ![c][w] = s] \in [Contexts -> [Roles -> Stages]]
<1>1. cancel \in [Contexts -> [Roles -> Stages]]
  BY DEF TypeOK
<1>2. [cancel[c] EXCEPT ![w] = s] \in [Roles -> Stages]
  BY <1>1
<1>3. QED
  BY <1>1, <1>2

-----------------------------------------------------------------------------
\* The steps of the owner that change no other context.
LEMMA OwnerSteps ==
  ASSUME IInv, NEW c \in Contexts,
         \/ \E sync, finite \in BOOLEAN : Setup(c, sync, finite)
         \/ Submit(c)
         \/ \E cancels, finite \in BOOLEAN : Reap(c, cancels, finite)
         \/ ReapDone(c) \/ ReapTimesOut(c) \/ Free(c)
  PROVE  IInv'
<1> USE OverIsDead DEF IInv, TypeOK, ContextInv, Dead, Roles, Stages
<1>1. CASE \E sync, finite \in BOOLEAN : Setup(c, sync, finite)
  BY <1>1 DEF Setup
<1>2. CASE Submit(c)
  <2>1. TypeOK'
    BY <1>2 DEF Submit
  <2>2. cancel[c]["owner"] = "no"
    BY <1>2 DEF Submit
  <2>3. ASSUME NEW d \in Contexts PROVE ContextInv(d)'
    BY <1>2, <2>2 DEF Submit
  <2>4. QED
    BY <2>1, <2>3
<1>3. CASE \E cancels, finite \in BOOLEAN : Reap(c, cancels, finite)
  <2>1. TypeOK'
    BY <1>3 DEF Reap
  <2>2. ASSUME NEW d \in Contexts PROVE ContextInv(d)'
    BY <1>3 DEF Reap
  <2>3. QED
    BY <2>1, <2>2
<1>4. CASE ReapDone(c)
  <2>1. TypeOK'
    BY <1>4 DEF ReapDone
  <2>2. ASSUME NEW d \in Contexts PROVE ContextInv(d)'
    BY <1>4 DEF ReapDone
  <2>3. QED
    BY <2>1, <2>2
<1>5. CASE ReapTimesOut(c)
  <2>0. cancel' \in [Contexts -> [Roles -> Stages]]
    <3>1. TypeOK /\ cancel \in [Contexts -> [Roles -> Stages]] /\ "owner" \in Roles /\ "abort" \in Stages
      OBVIOUS
    <3> HIDE DEF Roles, Stages, TypeOK, IInv, ContextInv
    <3>2. QED
      BY <1>5, <3>1, CancelUpdate DEF ReapTimesOut
  <2>1. TypeOK'
    BY <1>5, <2>0 DEF ReapTimesOut
  <2>2. ASSUME NEW d \in Contexts PROVE ContextInv(d)'
    BY <1>5 DEF ReapTimesOut
  <2>3. QED
    BY <2>1, <2>2
<1>6. CASE Free(c)
  <2>1. TypeOK'
    BY <1>6 DEF Free
  <2>2. ASSUME NEW d \in Contexts PROVE ContextInv(d)'
    BY <1>6 DEF Free
  <2>3. QED
    BY <2>1, <2>2
<1>7. QED
  BY <1>1, <1>2, <1>3, <1>4, <1>5, <1>6

\* The steps of _usb_cancel_io, in either thread.
LEMMA CancelSteps ==
  ASSUME IInv, NEW c \in Contexts, NEW w \in Roles,
         CancelAsync(c) \/ Abort(c, w) \/ AbortFails(c, w) \/ Wait(c, w) \/ Poll(c, w)
  PROVE  IInv'
<1> USE OverIsDead DEF IInv, TypeOK, ContextInv, Dead, Roles, Stages
<1>1. CASE CancelAsync(c)
  BY <1>1 DEF CancelAsync
<1>2. CASE Abort(c, w)
  <2>1. TypeOK'
    BY <1>2 DEF Abort
  <2>2. ASSUME NEW d \in Contexts PROVE ContextInv(d)'
    BY <1>2 DEF Abort
  <2>3. QED
    BY <2>1, <2>2
<1>3. CASE AbortFails(c, w)
  <2>1. TypeOK'
    BY <1>3 DEF AbortFails
  <2>2. ASSUME NEW d \in Contexts PROVE ContextInv(d)'
    BY <1>3 DEF AbortFails
  <2>3. QED
    BY <2>1, <2>2
<1>4. CASE Wait(c, w)
  <2>0. cancel' \in [Contexts -> [Roles -> Stages]]
    <3>1. TypeOK /\ cancel \in [Contexts -> [Roles -> Stages]] /\ "no" \in Stages /\ "wait" \in Stages
      OBVIOUS
    <3> HIDE DEF Roles, Stages, TypeOK, IInv, ContextInv
    <3>2. \/ cancel' = [cancel EXCEPT ![c][w] = "no"]
          \/ cancel' = [cancel EXCEPT ![c][w] = "wait"]
      BY <1>4 DEF Wait, Return
    <3>3. [cancel EXCEPT ![c][w] = "no"] \in [Contexts -> [Roles -> Stages]]
      BY <3>1, CancelUpdate
    <3>4. [cancel EXCEPT ![c][w] = "wait"] \in [Contexts -> [Roles -> Stages]]
      BY <3>1, CancelUpdate
    <3>5. QED
      BY <3>2, <3>3, <3>4
  <2>1. TypeOK'
    BY <1>4, <2>0 DEF Wait, Return
  <2>2. ASSUME NEW d \in Contexts PROVE ContextInv(d)'
    BY <1>4 DEF Wait, Return
  <2>3. QED
    BY <2>1, <2>2
<1>5. CASE Poll(c, w)
  <2>1. TypeOK'
    BY <1>5 DEF Poll, Return
  <2>2. ASSUME NEW d \in Contexts PROVE ContextInv(d)'
    BY <1>5 DEF Poll, Return
  <2>3. QED
    BY <2>1, <2>2
<1>6. QED
  BY <1>1, <1>2, <1>3, <1>4, <1>5

\* The steps of the driver.
LEMMA DriverSteps ==
  ASSUME IInv, NEW c \in Contexts, Complete(c) \/ ChunkCompletes(c) \/ NextChunk(c)
  PROVE  IInv'
<1> USE OverIsDead DEF IInv, TypeOK, ContextInv, Dead, Roles, Stages
<1>1. CASE Complete(c)
  <2>1. TypeOK'
    BY <1>1 DEF Complete
  <2>2. ASSUME NEW d \in Contexts PROVE ContextInv(d)'
    BY <1>1 DEF Complete
  <2>3. QED
    BY <2>1, <2>2
<1>2. CASE ChunkCompletes(c)
  BY <1>2 DEF ChunkCompletes
<1>3. CASE NextChunk(c)
  BY <1>3 DEF NextChunk
<1>4. QED
  BY <1>1, <1>2, <1>3

\* Every step keeps the invariant.
LEMMA NextInv == IInv /\ [Next]_vars => IInv'
<1> SUFFICES ASSUME IInv, [Next]_vars PROVE IInv'
  OBVIOUS
<1>1. CASE Next
  <2>1. PICK c \in Contexts :
          \/ \E finite \in BOOLEAN : Setup(c, TRUE, finite)
          \/ Setup(c, FALSE, TRUE)
          \/ Submit(c)
          \/ \E cancels, finite \in BOOLEAN : Reap(c, cancels, finite)
          \/ ReapDone(c) \/ ReapTimesOut(c) \/ CancelAsync(c) \/ Free(c)
          \/ \E w \in Roles : Abort(c, w) \/ AbortFails(c, w) \/ Wait(c, w) \/ Poll(c, w)
          \/ Complete(c) \/ ChunkCompletes(c) \/ NextChunk(c)
    BY <1>1 DEF Next
  <2>2. "owner" \in Roles
    BY DEF Roles
  <2>3. QED
    BY <2>1, <2>2, OwnerSteps, CancelSteps, DriverSteps
<1>2. CASE UNCHANGED vars
  BY <1>2 DEF vars, IInv, TypeOK, ContextInv
<1>3. QED
  BY <1>1, <1>2

\* The inductive invariant is an invariant.
THEOREM Invariant == Spec => []IInv
  BY InitInv, NextInv, PTL DEF Spec

\* The types hold for any contexts (windows.c, the whole of the transfers).
THEOREM TypeCorrect == Spec => []TypeOK
<1>1. IInv => TypeOK
  BY DEF IInv
<1>2. QED
  BY Invariant, <1>1, PTL

\* When usb_reap_async or a synchronous transfer returns, nothing of its request
\* is in the driver, unless the abort failed (windows.c, _usb_cancel_io).
THEOREM QuietAfterReturn == Spec => []NothingInFlight
<1>1. IInv => NothingInFlight
  BY DEF IInv, ContextInv, NothingInFlight
<1>2. QED
  BY Invariant, <1>1, PTL
=============================================================================
