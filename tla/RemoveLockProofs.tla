-------------------------- MODULE RemoveLockProofs --------------------------
(***************************************************************************)
(* The remove lock for any number of requests.  The inductive invariant    *)
(* adds to the accounting of the count when a wake-up may happen: only     *)
(* after remove_pending, and only when no more requests are inside than    *)
(* ioctls have over-released.                                              *)
(***************************************************************************)
EXTENDS RemoveLock, FiniteSetTheorems, TLAPS

\* remove_pending is the remove handler's progress, a refusal follows it, and
\* only ioctls over-release.
PendingInv ==
  /\ remove_pending <=> pc[Remove] \in {"pending", "dropping", "waiting", "detached"}
  /\ \A r \in Users :
       pc[r] \in {"undo", "over_release", "over_released"} => remove_pending
  /\ \A r \in Requests : pc[r] \in {"over_release", "over_released"} => r \in Ioctls

WakeUp == event \/ signalling # {}

WakeUpInv ==
  /\ WakeUp => remove_pending /\ Cardinality(Holders) <= Cardinality(OverReleased)
  /\ TornDown => event

IInv == TypeOK /\ PendingInv /\ Accounting /\ WakeUpInv

-----------------------------------------------------------------------------
\* The sets that are counted are finite.
LEMMA CountedSetsFinite ==
  /\ IsFiniteSet(Counting) /\ Cardinality(Counting) \in Nat
  /\ IsFiniteSet(OverReleased) /\ Cardinality(OverReleased) \in Nat
  /\ IsFiniteSet(Holders) /\ Cardinality(Holders) \in Nat
<1>1. IsFiniteSet(Requests)
  BY RequestsFinite, FS_AddElement DEF Requests
<1>2. /\ Counting \in SUBSET Requests
      /\ OverReleased \in SUBSET Requests
      /\ Holders \in SUBSET Requests
  BY DEF Counting, OverReleased, Holders, Requests, Users
<1>3. QED
  BY <1>1, <1>2, FS_Subset, FS_CardinalityType

\* The same in the next state.
LEMMA CountedSetsFiniteNext ==
  /\ IsFiniteSet(Counting') /\ Cardinality(Counting') \in Nat
  /\ IsFiniteSet(OverReleased') /\ Cardinality(OverReleased') \in Nat
  /\ IsFiniteSet(Holders') /\ Cardinality(Holders') \in Nat
<1>1. IsFiniteSet(Requests)
  BY RequestsFinite, FS_AddElement DEF Requests
<1>2. /\ Counting' \in SUBSET Requests
      /\ OverReleased' \in SUBSET Requests
      /\ Holders' \in SUBSET Requests
  BY DEF Counting, OverReleased, Holders, Requests, Users
<1>3. QED
  BY <1>1, <1>2, FS_Subset, FS_CardinalityType

-----------------------------------------------------------------------------
\* The steps of Next, as one list of cases for the proofs below.
LEMMA NextCases ==
  ASSUME Next
  PROVE  \/ \E r \in Requests :
              \/ Dispatch(r) \/ Increment(r) \/ CheckPending(r) \/ UndoAcquire(r)
              \/ OverRelease(r) \/ Handle(r) \/ Release(r) \/ Forward(r) \/ Signal(r)
         \/ RemoveStop \/ SetRemovePending \/ ReleaseOwn \/ ReleaseInitial
         \/ WaitAndDetach
         \/ UNCHANGED vars
BY DEF Next, Step, RemoveStep, Terminated

\* Type correctness is inductive by itself.
LEMMA TypeStep == TypeOK /\ [Next]_vars => TypeOK'
<1> SUFFICES ASSUME TypeOK, [Next]_vars PROVE TypeOK'
  OBVIOUS
<1> USE RequestsDistinct DEF TypeOK, UserSteps, RemoveSteps, Requests, At, Goto
<1>1. CASE UNCHANGED vars
  BY <1>1 DEF vars
<1>2. ASSUME NEW r \in Requests, Dispatch(r) PROVE TypeOK'
  BY <1>2 DEF Dispatch
<1>3. ASSUME NEW r \in Requests, Increment(r) PROVE TypeOK'
  BY <1>3 DEF Increment
<1>4. ASSUME NEW r \in Requests, CheckPending(r) PROVE TypeOK'
  BY <1>4 DEF CheckPending
<1>5. ASSUME NEW r \in Requests, UndoAcquire(r) PROVE TypeOK'
  BY <1>5 DEF UndoAcquire, Decrement, Users
<1>6. ASSUME NEW r \in Requests, OverRelease(r) PROVE TypeOK'
  BY <1>6 DEF OverRelease, Decrement
<1>7. ASSUME NEW r \in Requests, Handle(r) PROVE TypeOK'
  BY <1>7 DEF Handle
<1>8. ASSUME NEW r \in Requests, Release(r) PROVE TypeOK'
  BY <1>8 DEF Release, Decrement
<1>9. ASSUME NEW r \in Requests, Forward(r) PROVE TypeOK'
  BY <1>9 DEF Forward
<1>10. ASSUME NEW r \in Requests, Signal(r) PROVE TypeOK'
  BY <1>10 DEF Signal
<1>11. CASE RemoveStop
  BY <1>11 DEF RemoveStop
<1>12. CASE SetRemovePending
  BY <1>12 DEF SetRemovePending
<1>13. CASE ReleaseOwn
  BY <1>13 DEF ReleaseOwn, Decrement
<1>14. CASE ReleaseInitial
  BY <1>14 DEF ReleaseInitial, Decrement
<1>15. CASE WaitAndDetach
  BY <1>15 DEF WaitAndDetach
<1>16. QED
  BY NextCases, <1>1, <1>2, <1>3, <1>4, <1>5, <1>6, <1>7, <1>8, <1>9, <1>10,
     <1>11, <1>12, <1>13, <1>14, <1>15

\* The initial state has the types of the variables.
LEMMA TypeInit == Init => TypeOK
<1> SUFFICES ASSUME Init PROVE TypeOK
  OBVIOUS
<1>1. \A r \in Requests : pc[r] = "idle"
  BY DEF Init
<1>2. pc \in [Requests -> UserSteps \union RemoveSteps]
  BY DEF Init, UserSteps
<1>3. /\ \A r \in Users : pc[r] \in UserSteps
      /\ pc[Remove] \in RemoveSteps
  BY <1>1 DEF UserSteps, RemoveSteps, Requests
<1>4. usage_count \in Int
  BY DEF Init
<1>5. /\ remove_pending \in BOOLEAN /\ event \in BOOLEAN
      /\ is_started \in BOOLEAN /\ signalling \subseteq Requests
  BY Zenon DEF Init
<1>6. QED
  BY <1>2, <1>3, <1>4, <1>5 DEF TypeOK

\* The state of the lock keeps its types in every behaviour of the driver.
THEOREM TypeCorrect == Spec => []TypeOK
<1>1. QED
  BY TypeInit, TypeStep, PTL DEF Spec

-----------------------------------------------------------------------------
\* Every refusal follows remove_pending, and remove_pending the removal.
LEMMA PendingStep ==
  ASSUME TypeOK, PendingInv, [Next]_vars
  PROVE  PendingInv'
<1> USE RequestsDistinct DEF TypeOK, PendingInv, Requests, At, Goto
<1>1. CASE UNCHANGED vars
  BY <1>1 DEF vars
<1>2. ASSUME NEW r \in Requests, Dispatch(r) PROVE PendingInv'
  BY <1>2 DEF Dispatch
<1>3. ASSUME NEW r \in Requests, Increment(r) PROVE PendingInv'
  BY <1>3 DEF Increment
<1>4. ASSUME NEW r \in Requests, CheckPending(r) PROVE PendingInv'
  BY <1>4 DEF CheckPending
<1>5. ASSUME NEW r \in Requests, UndoAcquire(r) PROVE PendingInv'
  BY <1>5 DEF UndoAcquire, Decrement
<1>6. ASSUME NEW r \in Requests, OverRelease(r) PROVE PendingInv'
  BY <1>6 DEF OverRelease, Decrement, RemoveSteps
<1>7. ASSUME NEW r \in Requests, Handle(r) PROVE PendingInv'
  BY <1>7 DEF Handle
<1>8. ASSUME NEW r \in Requests, Release(r) PROVE PendingInv'
  BY <1>8 DEF Release, Decrement, RemoveSteps
<1>9. ASSUME NEW r \in Requests, Forward(r) PROVE PendingInv'
  BY <1>9 DEF Forward, RemoveSteps
<1>10. ASSUME NEW r \in Requests, Signal(r) PROVE PendingInv'
  BY <1>10 DEF Signal
<1>11. CASE RemoveStop
  BY <1>11 DEF RemoveStop
<1>12. CASE SetRemovePending
  BY <1>12 DEF SetRemovePending
<1>13. CASE ReleaseOwn
  BY <1>13 DEF ReleaseOwn, Decrement
<1>14. CASE ReleaseInitial
  BY <1>14 DEF ReleaseInitial, Decrement
<1>15. CASE WaitAndDetach
  BY <1>15 DEF WaitAndDetach
<1>16. QED
  BY NextCases, <1>1, <1>2, <1>3, <1>4, <1>5, <1>6, <1>7, <1>8, <1>9, <1>10,
     <1>11, <1>12, <1>13, <1>14, <1>15

\* Steps that take nothing from the count and give nothing to it.
LEMMA AccountingKept ==
  ASSUME Accounting, usage_count' = usage_count, Counting' = Counting,
         OverReleased' = OverReleased, InitialReference' = InitialReference
  PROVE  Accounting'
BY DEF Accounting

\* A step that takes request r's increment out of the count.
LEMMA AccountingRemove ==
  ASSUME TypeOK, Accounting, NEW r \in Counting, usage_count' = usage_count - 1,
         Counting' = Counting \ {r}, OverReleased' = OverReleased,
         InitialReference' = InitialReference
  PROVE  Accounting'
<1>1. Cardinality(Counting') = Cardinality(Counting) - 1
  BY CountedSetsFinite, FS_RemoveElement
<1>2. InitialReference \in Int
  BY DEF InitialReference
<1>3. QED
  BY <1>1, <1>2, CountedSetsFinite DEF Accounting, TypeOK

\* A step that adds request r's increment to the count.
LEMMA AccountingAdd ==
  ASSUME TypeOK, Accounting, NEW r, r \notin Counting, usage_count' = usage_count + 1,
         Counting' = Counting \union {r}, OverReleased' = OverReleased,
         InitialReference' = InitialReference
  PROVE  Accounting'
<1>1. Cardinality(Counting') = Cardinality(Counting) + 1
  BY CountedSetsFinite, FS_AddElement
<1>2. InitialReference \in Int
  BY DEF InitialReference
<1>3. QED
  BY <1>1, <1>2, CountedSetsFinite DEF Accounting, TypeOK

\* A step that releases for ioctl r what r does not own.
LEMMA AccountingOver ==
  ASSUME TypeOK, Accounting, NEW r, r \notin OverReleased,
         usage_count' = usage_count - 1, Counting' = Counting,
         OverReleased' = OverReleased \union {r}, InitialReference' = InitialReference
  PROVE  Accounting'
<1>1. Cardinality(OverReleased') = Cardinality(OverReleased) + 1
  BY CountedSetsFinite, FS_AddElement
<1>2. InitialReference \in Int
  BY DEF InitialReference
<1>3. QED
  BY <1>1, <1>2, CountedSetsFinite DEF Accounting, TypeOK

\* The step that drops the initial reference.
LEMMA AccountingInitial ==
  ASSUME TypeOK, Accounting, usage_count' = usage_count - 1, Counting' = Counting,
         OverReleased' = OverReleased, InitialReference = 1, InitialReference' = 0
  PROVE  Accounting'
BY CountedSetsFinite DEF Accounting, TypeOK

\* Each interlocked operation keeps the account of the count.
LEMMA AccountingStep ==
  ASSUME TypeOK, PendingInv, Accounting, [Next]_vars
  PROVE  Accounting'
<1> USE RequestsDistinct DEF TypeOK, Requests, Users, At, Goto
<1> DEFINE Same == /\ usage_count' = usage_count /\ Counting' = Counting
                   /\ OverReleased' = OverReleased
                   /\ InitialReference' = InitialReference
           Without(r) == /\ r \in Counting /\ usage_count' = usage_count - 1
                         /\ Counting' = Counting \ {r}
                         /\ OverReleased' = OverReleased
                         /\ InitialReference' = InitialReference
<1> USE DEF Counting, OverReleased, InitialReference
<1>1. CASE UNCHANGED vars
  BY <1>1, AccountingKept DEF vars
<1>2. ASSUME NEW r \in Requests, Dispatch(r) PROVE Accounting'
  <2>1. Same BY <1>2 DEF Dispatch
  <2>2. QED BY <2>1, AccountingKept
<1>3. ASSUME NEW r \in Requests, Increment(r) PROVE Accounting'
  <2>1. r \notin Counting /\ Counting' = Counting \union {r}
    BY <1>3 DEF Increment
  <2>2. OverReleased' = OverReleased
    BY <1>3 DEF Increment
  <2>3. InitialReference' = InitialReference
    BY <1>3 DEF Increment
  <2>4. usage_count' = usage_count + 1
    BY <1>3 DEF Increment
  <2>5. QED
    BY <2>1, <2>2, <2>3, <2>4, AccountingAdd
<1>4. ASSUME NEW r \in Requests, CheckPending(r) PROVE Accounting'
  <2>1. Same BY <1>4 DEF CheckPending
  <2>2. QED BY <2>1, AccountingKept
<1>5. ASSUME NEW r \in Requests, UndoAcquire(r) PROVE Accounting'
  <2>1. Without(r) BY <1>5 DEF UndoAcquire, Decrement
  <2>2. QED BY <2>1, AccountingRemove
<1>6. ASSUME NEW r \in Requests, OverRelease(r) PROVE Accounting'
  <2>1. r \in Ioctls
    BY <1>6 DEF OverRelease, PendingInv
  <2>2. r \notin OverReleased /\ OverReleased' = OverReleased \union {r}
    BY <1>6, <2>1 DEF OverRelease, Decrement
  <2>3. Counting' = Counting
    BY <1>6 DEF OverRelease, Decrement
  <2>4. InitialReference' = InitialReference
    BY <1>6, <2>1 DEF OverRelease, Decrement
  <2>5. usage_count' = usage_count - 1
    BY <1>6 DEF OverRelease, Decrement
  <2>6. QED
    BY <2>2, <2>3, <2>4, <2>5, AccountingOver
<1>7. ASSUME NEW r \in Requests, Handle(r) PROVE Accounting'
  <2>1. Same BY <1>7 DEF Handle
  <2>2. QED BY <2>1, AccountingKept
<1>8. ASSUME NEW r \in Requests, Release(r) PROVE Accounting'
  <2>1. Without(r) BY <1>8 DEF Release, Decrement, RemoveSteps
  <2>2. QED BY <2>1, AccountingRemove
<1>9. ASSUME NEW r \in Requests, Forward(r) PROVE Accounting'
  <2>1. Same BY <1>9 DEF Forward
  <2>2. QED BY <2>1, AccountingKept
<1>10. ASSUME NEW r \in Requests, Signal(r) PROVE Accounting'
  <2>1. Same BY <1>10 DEF Signal
  <2>2. QED BY <2>1, AccountingKept
<1>11. CASE RemoveStop
  <2>1. Same BY <1>11 DEF RemoveStop
  <2>2. QED BY <2>1, AccountingKept
<1>12. CASE SetRemovePending
  <2>1. Same BY <1>12 DEF SetRemovePending
  <2>2. QED BY <2>1, AccountingKept
<1>13. CASE ReleaseOwn
  <2>1. Without(Remove) BY <1>13 DEF ReleaseOwn, Decrement
  <2>2. QED BY <2>1, AccountingRemove
<1>14. CASE ReleaseInitial
  <2>1. Counting' = Counting /\ OverReleased' = OverReleased
    BY <1>14 DEF ReleaseInitial, Decrement
  <2>2. InitialReference = 1 /\ InitialReference' = 0
    BY <1>14 DEF ReleaseInitial, Decrement
  <2>3. usage_count' = usage_count - 1
    BY <1>14 DEF ReleaseInitial, Decrement
  <2>4. QED
    BY <2>1, <2>2, <2>3, AccountingInitial
<1>15. CASE WaitAndDetach
  <2>1. Same BY <1>15 DEF WaitAndDetach
  <2>2. QED BY <2>1, AccountingKept
<1>16. QED
  BY NextCases, <1>1, <1>2, <1>3, <1>4, <1>5, <1>6, <1>7, <1>8, <1>9, <1>10,
     <1>11, <1>12, <1>13, <1>14, <1>15

-----------------------------------------------------------------------------
\* Steps after which nobody new is inside and nobody wakes the remover up.
LEMMA WakeUpKept ==
  ASSUME WakeUpInv, Holders' \subseteq Holders, OverReleased \subseteq OverReleased',
         WakeUp' => WakeUp, remove_pending => remove_pending',
         TornDown' => TornDown \/ event, event => event'
  PROVE  WakeUpInv'
<1>1. Cardinality(Holders') <= Cardinality(Holders)
  BY CountedSetsFinite, FS_Subset
<1>2. Cardinality(OverReleased) <= Cardinality(OverReleased')
  BY CountedSetsFiniteNext, FS_Subset
<1>3. WakeUp' => Cardinality(Holders') <= Cardinality(OverReleased')
  BY <1>1, <1>2, CountedSetsFinite, CountedSetsFiniteNext DEF WakeUpInv
<1>4. QED
  BY <1>3 DEF WakeUpInv

\* A decrement wakes the remover up only when the count reaches 0, and the
\* account of the count then leaves no more holders than over-releases.
LEMMA DecrementWakesUp ==
  ASSUME TypeOK, PendingInv, Accounting, WakeUpInv, NEW r \in Requests,
         NEW step, Decrement(r, step), Accounting', PendingInv',
         Holders' \subseteq Holders, OverReleased \subseteq OverReleased',
         TornDown' => TornDown
  PROVE  WakeUpInv'
<1>1. remove_pending' = remove_pending /\ event' = event
  BY DEF Decrement
<1>2. CASE usage_count # 1
  <2>1. WakeUp' => WakeUp
    BY <1>2 DEF Decrement, WakeUp
  <2>2. QED
    BY <1>1, <2>1, WakeUpKept DEF WakeUpInv
<1>3. CASE usage_count = 1
  <2>1. usage_count' = 0
    BY <1>3 DEF Decrement
  <2>2. InitialReference' \in {0, 1}
    BY DEF InitialReference
  <2>3. Cardinality(Counting') <= Cardinality(OverReleased')
    BY <2>1, <2>2, CountedSetsFiniteNext DEF Accounting
  <2>4. Cardinality(Holders') <= Cardinality(Counting')
    <3>1. Holders' \subseteq Counting'
      BY DEF Holders, Counting, Requests
    <3>2. QED
      BY <3>1, CountedSetsFiniteNext, FS_Subset
  <2>5. remove_pending'
    <3>1. SUFFICES ASSUME ~remove_pending' PROVE FALSE
      OBVIOUS
    <3>2. OverReleased' = {}
      BY <3>1 DEF PendingInv, OverReleased, Users
    <3>3. InitialReference' = 1
      BY <3>1 DEF PendingInv, InitialReference
    <3>4. Cardinality(OverReleased') = 0
      BY <3>2, FS_EmptySet
    <3>5. QED
      BY <2>1, <3>3, <3>4, CountedSetsFiniteNext DEF Accounting
  <2>6. Cardinality(Holders') <= Cardinality(OverReleased')
    BY <2>3, <2>4, CountedSetsFiniteNext
  <2>7. QED
    BY <1>1, <2>5, <2>6 DEF WakeUpInv
<1>4. QED
  BY <1>2, <1>3

\* Every step keeps the guarantee that comes with a wake-up.
LEMMA WakeUpStep ==
  ASSUME TypeOK, PendingInv, Accounting, WakeUpInv, [Next]_vars
  PROVE  WakeUpInv'
<1>0. PendingInv' /\ Accounting'
  BY PendingStep, AccountingStep
<1> USE RequestsDistinct DEF TypeOK, Requests, Users, At, Goto
<1> DEFINE Monotone == /\ Holders' \subseteq Holders
                       /\ OverReleased \subseteq OverReleased'
           Quiet == /\ WakeUp' => WakeUp
                    /\ remove_pending => remove_pending'
                    /\ TornDown' => TornDown \/ event
                    /\ event => event'
<1> USE DEF Holders, OverReleased, WakeUp, TornDown
<1>1. CASE UNCHANGED vars
  <2>1. Monotone /\ Quiet BY <1>1 DEF vars
  <2>2. QED BY <2>1, WakeUpKept
<1>2. ASSUME NEW r \in Requests, Dispatch(r) PROVE WakeUpInv'
  <2>1. Monotone /\ Quiet BY <1>2 DEF Dispatch
  <2>2. QED BY <2>1, WakeUpKept
<1>3. ASSUME NEW r \in Requests, Increment(r) PROVE WakeUpInv'
  <2>1. Monotone /\ Quiet BY <1>3 DEF Increment
  <2>2. QED BY <2>1, WakeUpKept
<1>4. ASSUME NEW r \in Requests, CheckPending(r) PROVE WakeUpInv'
  <2>1. CASE remove_pending
    <3>1. Monotone /\ Quiet BY <1>4, <2>1 DEF CheckPending
    <3>2. QED BY <3>1, WakeUpKept
  <2>2. CASE ~remove_pending
    <3>1. ~WakeUp /\ ~event
      BY <2>2 DEF WakeUpInv
    <3>2. ~WakeUp'
      BY <1>4, <3>1 DEF CheckPending
    <3>3. ~TornDown'
      BY <1>4, <2>2, <3>1 DEF CheckPending, WakeUpInv
    <3>4. QED
      BY <3>2, <3>3 DEF WakeUpInv
  <2>3. QED BY <2>1, <2>2
<1>5. ASSUME NEW r \in Requests, UndoAcquire(r) PROVE WakeUpInv'
  <2>1. PICK step \in {"over_release", "done"} : pc[r] = "undo" /\ Decrement(r, step)
    BY <1>5 DEF UndoAcquire
  <2>2. Monotone /\ (TornDown' => TornDown)
    BY <2>1 DEF Decrement
  <2>3. QED BY <1>0, <2>1, <2>2, DecrementWakesUp
<1>6. ASSUME NEW r \in Requests, OverRelease(r) PROVE WakeUpInv'
  <2>1. pc[r] = "over_release" /\ Decrement(r, "over_released")
    BY <1>6 DEF OverRelease
  <2>2. Monotone /\ (TornDown' => TornDown)
    BY <2>1 DEF Decrement
  <2>3. QED BY <1>0, <2>1, <2>2, DecrementWakesUp
<1>7. ASSUME NEW r \in Requests, Handle(r) PROVE WakeUpInv'
  <2>1. Monotone /\ Quiet BY <1>7 DEF Handle
  <2>2. QED BY <2>1, WakeUpKept
<1>8. ASSUME NEW r \in Requests, Release(r) PROVE WakeUpInv'
  <2>1. PICK step \in {"forwarding", "done"} : pc[r] = "handled" /\ Decrement(r, step)
    BY <1>8 DEF Release
  <2>2. Monotone /\ (TornDown' => TornDown)
    BY <2>1 DEF Decrement
  <2>3. QED BY <1>0, <2>1, <2>2, DecrementWakesUp
<1>9. ASSUME NEW r \in Requests, Forward(r) PROVE WakeUpInv'
  <2>1. Monotone /\ Quiet BY <1>9 DEF Forward
  <2>2. QED BY <2>1, WakeUpKept
<1>10. ASSUME NEW r \in Requests, Signal(r) PROVE WakeUpInv'
  <2>1. Monotone /\ Quiet BY <1>10 DEF Signal
  <2>2. QED BY <2>1, WakeUpKept
<1>11. CASE RemoveStop
  <2>1. Monotone /\ Quiet BY <1>11 DEF RemoveStop
  <2>2. QED BY <2>1, WakeUpKept
<1>12. CASE SetRemovePending
  <2>1. Monotone /\ Quiet BY <1>12 DEF SetRemovePending
  <2>2. QED BY <2>1, WakeUpKept
<1>13. CASE ReleaseOwn
  <2>1. pc[Remove] = "pending" /\ Decrement(Remove, "dropping")
    BY <1>13 DEF ReleaseOwn
  <2>2. Monotone /\ (TornDown' => TornDown)
    BY <2>1 DEF Decrement
  <2>3. QED BY <1>0, <2>1, <2>2, DecrementWakesUp
<1>14. CASE ReleaseInitial
  <2>1. pc[Remove] = "dropping" /\ Decrement(Remove, "waiting")
    BY <1>14 DEF ReleaseInitial
  <2>2. Monotone /\ (TornDown' => TornDown)
    BY <2>1 DEF Decrement
  <2>3. QED BY <1>0, <2>1, <2>2, DecrementWakesUp
<1>15. CASE WaitAndDetach
  <2>1. Monotone /\ Quiet BY <1>15 DEF WaitAndDetach
  <2>2. QED BY <2>1, WakeUpKept
<1>16. QED
  BY NextCases, <1>1, <1>2, <1>3, <1>4, <1>5, <1>6, <1>7, <1>8, <1>9, <1>10,
     <1>11, <1>12, <1>13, <1>14, <1>15

-----------------------------------------------------------------------------
\* Nothing is counted, inside or over-released before the first request.
LEMMA InitInvariant == Init => IInv
<1> SUFFICES ASSUME Init PROVE IInv
  OBVIOUS
<1>1. TypeOK
  BY TypeInit
<1>2. \A r \in Requests : pc[r] = "idle"
  BY DEF Init
<1>3. PendingInv
  <2>1. remove_pending = FALSE
    BY DEF Init
  <2>2. QED
    BY <1>2, <2>1 DEF PendingInv, Requests
<1>4. Accounting
  <2>1. Counting = {} /\ OverReleased = {}
    BY <1>2 DEF Counting, OverReleased, Requests, Users
  <2>2. InitialReference = 1
    BY <1>2 DEF InitialReference, Requests
  <2>3. usage_count = 1
    BY DEF Init
  <2>4. QED
    BY <2>1, <2>2, <2>3, FS_EmptySet DEF Accounting
<1>5. WakeUpInv
  <2>1. ~WakeUp
    BY DEF Init, WakeUp
  <2>2. ~TornDown
    BY <1>2 DEF TornDown, Requests
  <2>3. QED
    BY <2>1, <2>2 DEF WakeUpInv
<1>6. QED
  BY <1>1, <1>3, <1>4, <1>5 DEF IInv

\* The inductive invariant holds in every behaviour.
THEOREM Invariant == Spec => []IInv
<1>1. IInv /\ [Next]_vars => IInv'
  BY TypeStep, PendingStep, AccountingStep, WakeUpStep DEF IInv
<1>2. QED
  BY <1>1, InitInvariant, PTL DEF Spec

\* remove_lock_acquire and remove_lock_release: the count never drifts from
\* the number of references, but for the ioctls that over-release.
THEOREM AccountingCorrect == Spec => []Accounting
<1>1. IInv => Accounting
  BY DEF IInv
<1>2. QED
  BY <1>1, Invariant, PTL

\* IRP_MN_REMOVE_DEVICE leaves behind at most one request per refused ioctl.
THEOREM DrainCorrect == Spec => []DrainedUpToRefusals
<1>1. IInv => DrainedUpToRefusals
  BY DEF IInv, WakeUpInv, WakeUp, DrainedUpToRefusals
<1>2. QED
  BY <1>1, Invariant, PTL

-----------------------------------------------------------------------------
\* Where there is no ioctl to over-release, a wake-up means nobody is inside.
LEMMA NobodyInside ==
  ASSUME Ioctls = {}, IInv, WakeUp
  PROVE  Holders = {}
<1>1. OverReleased = {}
  BY DEF OverReleased
<1>2. Cardinality(Holders) <= 0
  BY <1>1, FS_EmptySet DEF IInv, WakeUpInv
<1>3. QED
  BY <1>2, CountedSetsFinite, FS_EmptySet

\* A device whose only traffic is PnP and power IRPs waits for all of them
\* before IRP_MN_REMOVE_DEVICE tears it down (the comment in dispatch_pnp).
THEOREM RemoveWaitsWithoutIoctls ==
  ASSUME Ioctls = {}
  PROVE  Spec => []RemoveWaitsForRequests
<1>1. IInv => RemoveWaitsForRequests
  BY NobodyInside DEF RemoveWaitsForRequests, IInv, WakeUpInv, WakeUp
<1>2. QED
  BY <1>1, Invariant, PTL

\* Every step of the device is a step of Drain, or leaves Drain's view of it
\* unchanged.
LEMMA DrainStep ==
  ASSUME IInv, [Next]_vars
  PROVE  [D!Next]_(D!vars)
<1> USE RequestsDistinct DEF IInv, TypeOK, Requests, Users, At, Goto
<1> DEFINE Unseen == /\ Holders' = Holders
                     /\ OverReleased' = OverReleased
                     /\ remove_pending' = remove_pending
                     /\ TornDown' = TornDown
<1> USE DEF Holders, OverReleased, TornDown
<1>0. ASSUME Unseen PROVE [D!Next]_(D!vars)
  BY <1>0 DEF D!vars
<1>1. CASE UNCHANGED vars
  BY <1>0, <1>1 DEF vars
<1>2. ASSUME NEW r \in Requests, Dispatch(r) PROVE [D!Next]_(D!vars)
  <2>1. Unseen BY <1>2 DEF Dispatch
  <2>2. QED BY <2>1, <1>0
<1>3. ASSUME NEW r \in Requests, Increment(r) PROVE [D!Next]_(D!vars)
  <2>1. Unseen BY <1>3 DEF Increment
  <2>2. QED BY <2>1, <1>0
<1>4. ASSUME NEW r \in Requests, CheckPending(r) PROVE [D!Next]_(D!vars)
  <2>1. CASE remove_pending \/ r = Remove
    <3>1. Unseen BY <1>4, <2>1 DEF CheckPending
    <3>2. QED BY <3>1, <1>0
  <2>2. CASE ~remove_pending /\ r \in Users
    <3>1. /\ r \notin Holders /\ Holders' = Holders \union {r}
          /\ remove_pending' = remove_pending
      BY <1>4, <2>2 DEF CheckPending
    <3>2. TornDown' = TornDown /\ OverReleased' = OverReleased
      BY <1>4, <2>2 DEF CheckPending
    <3>3. D!Enter(r)
      BY <2>2, <3>1, <3>2 DEF D!Enter
    <3>4. QED
      BY <2>2, <3>3 DEF D!Next
  <2>3. QED BY <2>1, <2>2
<1>5. ASSUME NEW r \in Requests, UndoAcquire(r) PROVE [D!Next]_(D!vars)
  <2>1. Unseen BY <1>5 DEF UndoAcquire, Decrement
  <2>2. QED BY <2>1, <1>0
<1>6. ASSUME NEW r \in Requests, OverRelease(r) PROVE [D!Next]_(D!vars)
  <2>1. /\ r \in Ioctls /\ pc[r] = "over_release"
        /\ pc' = [pc EXCEPT ![r] = "over_released"]
        /\ remove_pending' = remove_pending
    BY <1>6 DEF OverRelease, Decrement, PendingInv, RemoveSteps
  <2>2. remove_pending
    BY <2>1 DEF PendingInv
  <2>3. r \notin Holders \union OverReleased
    BY <2>1
  <2>4. OverReleased' = OverReleased \union {r}
    BY <2>1
  <2>5. Holders' = Holders /\ TornDown' = TornDown
    BY <2>1
  <2>6. D!Lapse(r)
    BY <2>1, <2>2, <2>3, <2>4, <2>5 DEF D!Lapse
  <2>7. QED
    BY <2>1, <2>6 DEF D!Next
<1>7. ASSUME NEW r \in Requests, Handle(r) PROVE [D!Next]_(D!vars)
  <2>1. Unseen BY <1>7 DEF Handle
  <2>2. QED BY <2>1, <1>0
<1>8. ASSUME NEW r \in Requests, Release(r) PROVE [D!Next]_(D!vars)
  <2>1. r \in Holders /\ Holders' = Holders \ {r}
    BY <1>8 DEF Release, Decrement, RemoveSteps
  <2>2. /\ remove_pending' = remove_pending /\ TornDown' = TornDown
        /\ OverReleased' = OverReleased
    BY <1>8 DEF Release, Decrement
  <2>3. D!Leave(r)
    BY <2>1, <2>2 DEF D!Leave
  <2>4. QED
    BY <2>1, <2>3 DEF D!Next
<1>9. ASSUME NEW r \in Requests, Forward(r) PROVE [D!Next]_(D!vars)
  <2>1. Unseen BY <1>9 DEF Forward, RemoveSteps
  <2>2. QED BY <2>1, <1>0
<1>10. ASSUME NEW r \in Requests, Signal(r) PROVE [D!Next]_(D!vars)
  <2>1. Unseen BY <1>10 DEF Signal
  <2>2. QED BY <2>1, <1>0
<1>11. CASE RemoveStop
  <2>1. Unseen BY <1>11 DEF RemoveStop
  <2>2. QED BY <2>1, <1>0
<1>12. CASE SetRemovePending
  <2>1. ~remove_pending
    BY <1>12 DEF SetRemovePending, PendingInv
  <2>2. /\ Holders' = Holders /\ OverReleased' = OverReleased
        /\ TornDown' = TornDown /\ remove_pending' = TRUE
    BY <1>12 DEF SetRemovePending
  <2>3. D!CloseEntrance
    BY <2>1, <2>2 DEF D!CloseEntrance
  <2>4. QED
    BY <2>3 DEF D!Next
<1>13. CASE ReleaseOwn
  <2>1. Unseen BY <1>13 DEF ReleaseOwn, Decrement
  <2>2. QED BY <2>1, <1>0
<1>14. CASE ReleaseInitial
  <2>1. Unseen BY <1>14 DEF ReleaseInitial, Decrement
  <2>2. QED BY <2>1, <1>0
<1>15. CASE WaitAndDetach
  <2>1. WakeUp /\ remove_pending
    BY <1>15 DEF WaitAndDetach, WakeUp, WakeUpInv
  <2>2. Cardinality(Holders) <= Cardinality(OverReleased)
    BY <2>1 DEF WakeUpInv
  <2>3. /\ ~TornDown /\ TornDown' /\ Holders' = Holders
        /\ OverReleased' = OverReleased /\ remove_pending' = remove_pending
    BY <1>15 DEF WaitAndDetach
  <2>4. D!TearDown
    BY <2>1, <2>2, <2>3 DEF D!TearDown, D!Cardinality, Cardinality
  <2>5. QED
    BY <2>4 DEF D!Next
<1>16. QED
  BY NextCases, <1>1, <1>2, <1>3, <1>4, <1>5, <1>6, <1>7, <1>8, <1>9, <1>10,
     <1>11, <1>12, <1>13, <1>14, <1>15

\* The count and the event implement the drain (its safety part), refused
\* ioctls and all.
THEOREM DrainRefinement == Spec => D!Spec
<1>1. Init => D!Init
  <2> SUFFICES ASSUME Init PROVE D!Init
    OBVIOUS
  <2>1. \A r \in Requests : pc[r] = "idle"
    BY DEF Init
  <2>2. Holders = {} /\ OverReleased = {} /\ ~TornDown
    BY <2>1 DEF Holders, OverReleased, TornDown, Requests, Users
  <2>3. remove_pending = FALSE
    BY DEF Init
  <2>4. QED
    BY <2>2, <2>3 DEF D!Init
<1>2. IInv /\ [Next]_vars => [D!Next]_(D!vars)
  BY DrainStep
<1>3. QED
  BY <1>1, <1>2, Invariant, PTL DEF Spec, D!Spec
=============================================================================
