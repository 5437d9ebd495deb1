-------------------------------- MODULE Claims --------------------------------
(***************************************************************************)
(* What claiming an interface promises (usb_claim_interface, -EBUSY): an   *)
(* interface has at most one owner, who keeps it until it gives it up or   *)
(* the device is reconfigured.                                             *)
(***************************************************************************)
CONSTANTS Files, Interfaces

VARIABLE owners   \* the files that may take an interface for theirs

Init == owners = [i \in Interfaces |-> {}]

Grant(f, i) ==
  /\ owners[i] = {}
  /\ owners' = [owners EXCEPT ![i] = {f}]

GiveUp(f, i) ==
  /\ owners[i] = {f}
  /\ owners' = [owners EXCEPT ![i] = {}]

\* The end of a file gives up what it owns, a new configuration everything.
GiveUpAll(f) == owners' = [i \in Interfaces |-> owners[i] \ {f}]

Reconfigure == owners' = [i \in Interfaces |-> {}]

Next ==
  \/ \E f \in Files, i \in Interfaces : Grant(f, i) \/ GiveUp(f, i)
  \/ \E f \in Files : GiveUpAll(f)
  \/ Reconfigure

Spec == Init /\ [][Next]_owners
=============================================================================
