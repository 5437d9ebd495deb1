------------------------------- MODULE Drain -------------------------------
(***************************************************************************)
(* What a remove lock promises, with no counter, event or thread in it:    *)
(* requests enter and leave a device until its removal closes the entrance;*)
(* the device is torn down only when the last request inside has left, and *)
(* it is torn down eventually.  A request that lapses, leaving without     *)
(* ever having been inside, lets the tear-down forget one other request.   *)
(***************************************************************************)
EXTENDS Integers, FiniteSets

CONSTANTS Requests,
          Lapsing      \* the requests that may lapse

VARIABLES holders,   \* the requests inside the device
          lapsed,    \* the requests that have left without having been inside
          closing,   \* the entrance is closed
          closed     \* the device has been torn down

vars == <<holders, lapsed, closing, closed>>

TypeOK ==
  /\ holders \subseteq Requests
  /\ lapsed \subseteq Lapsing
  /\ closing \in BOOLEAN
  /\ closed \in BOOLEAN

Init ==
  /\ holders = {} /\ lapsed = {}
  /\ closing = FALSE
  /\ closed = FALSE

Enter(r) ==
  /\ ~closing
  /\ r \notin holders
  /\ holders' = holders \union {r}
  /\ UNCHANGED <<lapsed, closing, closed>>

Leave(r) ==
  /\ r \in holders
  /\ holders' = holders \ {r}
  /\ UNCHANGED <<lapsed, closing, closed>>

Lapse(r) ==
  /\ closing
  /\ r \notin holders \union lapsed
  /\ lapsed' = lapsed \union {r}
  /\ UNCHANGED <<holders, closing, closed>>

CloseEntrance ==
  /\ ~closing
  /\ closing' = TRUE
  /\ UNCHANGED <<holders, lapsed, closed>>

TearDown ==
  /\ closing /\ ~closed
  /\ Cardinality(holders) <= Cardinality(lapsed)
  /\ closed' = TRUE
  /\ UNCHANGED <<holders, lapsed, closing>>

Next ==
  \/ \E r \in Requests : Enter(r) \/ Leave(r)
  \/ \E r \in Lapsing : Lapse(r)
  \/ CloseEntrance
  \/ TearDown

Spec == Init /\ [][Next]_vars

\* Once the entrance is closed the device is torn down: every request leaves.
Fairness ==
  /\ \A r \in Requests : WF_vars(closing /\ Leave(r))
  /\ WF_vars(TearDown)

FairSpec == Spec /\ Fairness
=============================================================================
