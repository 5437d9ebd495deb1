---------------------------- MODULE DllTransfer ----------------------------
(***************************************************************************)
(* Transfers in the DLL: usb_submit_async, usb_reap_async and its nocancel *)
(* form, usb_cancel_async, usb_free_async, and the synchronous transfer    *)
(* that is made of them.  The thread that owns a context submits and       *)
(* reaps; another thread may cancel.  A wait that times out aborts the     *)
(* endpoint, with every request on it, and waits for its own request.      *)
(*                                                                         *)
(* The driver holds the request of a context at the bus or, between two    *)
(* chunks of a split transfer, nowhere that an abort reaches.              *)
(*                                                                         *)
(* Applications are taken to respect the interface: a context is freed     *)
(* after its last call has returned, and cancelled while it is submitted.  *)
(***************************************************************************)
EXTENDS Naturals

CONSTANTS Contexts,  \* usb_context_t
          Endpoints,
          EpOf       \* the endpoint of each context

ASSUME EpAssumption == EpOf \in [Contexts -> Endpoints]

VARIABLES pc,       \* the thread that owns the context
          call,     \* its call: synchronous, cancelling, with a finite timeout
          cancel,   \* the calls of _usb_cancel_io for the context
          event,    \* ol.hEvent, a manual-reset event
          irp,      \* the request in the driver
          escaped   \* the abort of the request failed, and its caller was told

vars == <<pc, call, cancel, event, irp, escaped>>

\* _usb_cancel_io runs in the owner's thread and in that of usb_cancel_async.
Roles == {"owner", "other"}

Stages == {"no", "abort", "aborted", "wait", "poll"}

Dead == {"none", "ready", "free"}   \* the owner's request is over, for all it knows

TypeOK ==
  /\ pc \in [Contexts -> Dead \union {"submitted", "reap", "cancel"}]
  /\ call \in [Contexts -> [sync : BOOLEAN, cancel : BOOLEAN, finite : BOOLEAN]]
  /\ cancel \in [Contexts -> [Roles -> Stages]]
  /\ event \in [Contexts -> BOOLEAN]
  /\ irp \in [Contexts -> {"none", "bus", "between", "aborting"}]
  /\ escaped \in [Contexts -> BOOLEAN]

Init ==
  /\ pc = [c \in Contexts |-> "none"]
  /\ call = [c \in Contexts |-> [sync |-> FALSE, cancel |-> TRUE, finite |-> TRUE]]
  /\ cancel = [c \in Contexts |-> [w \in Roles |-> "no"]]
  /\ event = [c \in Contexts |-> FALSE]
  /\ irp = [c \in Contexts |-> "none"]
  /\ escaped = [c \in Contexts |-> FALSE]

-----------------------------------------------------------------------------
\* Mutant: a synchronous call ends in a state of its own.
OverUnchanged(c) == IF call[c].sync THEN "closed" ELSE "ready"

\* Where a call leaves the owner: a synchronous transfer goes on to free the
\* context.
Over(c) == IF call[c].sync THEN "free" ELSE "ready"

\* usb_*_setup_async, or the start of a synchronous transfer.  A context that
\* still has a request in the driver is not used again.
Setup(c, sync, finite) ==
  /\ pc[c] = "none" /\ irp[c] = "none"
  /\ pc' = [pc EXCEPT ![c] = "ready"]
  /\ call' = [call EXCEPT ![c] = [sync |-> sync, cancel |-> TRUE, finite |-> finite]]
  /\ event' = [event EXCEPT ![c] = FALSE]
  /\ UNCHANGED <<cancel, irp, escaped>>

\* usb_submit_async: DeviceIoControl leaves the request pending, or fails.
Submit(c) ==
  /\ pc[c] = "ready" /\ irp[c] = "none" /\ cancel[c]["other"] = "no"
  /\ event' = [event EXCEPT ![c] = FALSE]
  /\ escaped' = [escaped EXCEPT ![c] = FALSE]
  /\ \/ /\ irp' = [irp EXCEPT ![c] = "bus"]
        /\ pc' = [pc EXCEPT ![c] = IF call[c].sync THEN "reap" ELSE "submitted"]
     \/ pc' = [pc EXCEPT ![c] = Over(c)] /\ UNCHANGED irp
  /\ UNCHANGED <<call, cancel>>

\* usb_reap_async, usb_reap_async_nocancel: the owner waits for the event.
Reap(c, cancels, finite) ==
  /\ pc[c] = "submitted"
  /\ pc' = [pc EXCEPT ![c] = "reap"]
  /\ call' = [call EXCEPT ![c] = [sync |-> FALSE, cancel |-> cancels, finite |-> finite]]
  /\ UNCHANGED <<cancel, event, irp, escaped>>

ReapDone(c) ==
  /\ pc[c] = "reap" /\ event[c]
  /\ pc' = [pc EXCEPT ![c] = Over(c)]
  /\ UNCHANGED <<call, cancel, event, irp, escaped>>

ReapTimesOut(c) ==
  /\ pc[c] = "reap" /\ call[c].finite /\ ~event[c]
  /\ IF call[c].cancel
     THEN /\ pc' = [pc EXCEPT ![c] = "cancel"]
          /\ cancel' = [cancel EXCEPT ![c]["owner"] = "abort"]
     ELSE pc' = [pc EXCEPT ![c] = "submitted"] /\ UNCHANGED cancel
  /\ UNCHANGED <<call, event, irp, escaped>>

\* usb_cancel_async, from another thread.
CancelAsync(c) ==
  /\ pc[c] \in {"submitted", "reap"} /\ ~call[c].sync /\ cancel[c]["other"] = "no"
  /\ cancel' = [cancel EXCEPT ![c]["other"] = "abort"]
  /\ UNCHANGED <<pc, call, event, irp, escaped>>

\* usb_free_async.
Free(c) ==
  /\ \/ pc[c] = "free"
     \/ pc[c] = "ready" /\ ~call[c].sync /\ cancel[c]["other"] = "no"
  /\ pc' = [pc EXCEPT ![c] = "none"]
  /\ UNCHANGED <<call, cancel, event, irp, escaped>>

-----------------------------------------------------------------------------
\* _usb_abort_ep succeeds: the requests on the endpoint that are at the bus are
\* being aborted.  It is also a success when the driver gives up on the abort
\* (STATUS_TIMEOUT), and nothing is aborted.
Abort(c, w) ==
  /\ cancel[c][w] = "abort"
  /\ cancel' = [cancel EXCEPT ![c][w] = "aborted"]
  /\ \/ irp' = [d \in Contexts |->
                  IF EpOf[d] = EpOf[c] /\ irp[d] = "bus" THEN "aborting" ELSE irp[d]]
     \/ UNCHANGED irp
  /\ UNCHANGED <<pc, call, event, escaped>>

\* It fails: the device is not configured, or the ioctl fails.
AbortFails(c, w) ==
  /\ cancel[c][w] = "abort"
  /\ cancel' = [cancel EXCEPT ![c][w] = "poll"]
  /\ escaped' = [escaped EXCEPT ![c] = @ \/ w = "owner"]
  /\ UNCHANGED <<pc, call, event, irp>>

\* _usb_cancel_io returns.
Return(c, w) ==
  /\ cancel' = [cancel EXCEPT ![c][w] = "no"]
  /\ pc' = IF w = "owner" THEN [pc EXCEPT ![c] = Over(c)] ELSE pc

\* Mutant: an abort that succeeded is taken for the end of the request.
WaitNot(c, w) ==
  /\ cancel[c][w] = "aborted"
  /\ Return(c, w)
  /\ UNCHANGED <<call, event, irp, escaped>>

\* The wait without a timeout, after an abort that succeeded ...
Wait(c, w) ==
  /\ cancel[c][w] = "aborted"
  /\ IF event[c] THEN Return(c, w)
     ELSE cancel' = [cancel EXCEPT ![c][w] = "wait"] /\ UNCHANGED pc
  /\ UNCHANGED <<call, event, irp, escaped>>

\* ... and the look at the event, after one that failed.
Poll(c, w) ==
  /\ cancel[c][w] = "poll"
  /\ Return(c, w)
  /\ UNCHANGED <<call, event, irp, escaped>>

-----------------------------------------------------------------------------
\* Mutant: an auto-reset event, which releases one of those who wait.
CompleteAutoReset(c) ==
  /\ irp[c] # "none"
  /\ irp' = [irp EXCEPT ![c] = "none"]
  /\ \/ /\ \A w \in Roles : cancel[c][w] # "wait"
        /\ event' = [event EXCEPT ![c] = TRUE]
        /\ UNCHANGED <<pc, cancel>>
     \/ /\ \E w \in Roles : cancel[c][w] = "wait" /\ Return(c, w)
        /\ UNCHANGED event
  /\ UNCHANGED <<call, escaped>>

\* The driver completes the request.  Whoever waits for the event is released;
\* the owner's call of _usb_cancel_io then returns.
Complete(c) ==
  /\ irp[c] # "none"
  /\ irp' = [irp EXCEPT ![c] = "none"]
  /\ event' = [event EXCEPT ![c] = TRUE]
  /\ cancel' = [cancel EXCEPT ![c] =
                  [w \in Roles |-> IF cancel[c][w] = "wait" THEN "no" ELSE cancel[c][w]]]
  /\ pc' = IF cancel[c]["owner"] = "wait" THEN [pc EXCEPT ![c] = Over(c)] ELSE pc
  /\ UNCHANGED <<call, escaped>>

\* A chunk is complete, also one that was about to be aborted, and the transfer
\* is not.
ChunkCompletes(c) ==
  /\ irp[c] \in {"bus", "aborting"}
  /\ irp' = [irp EXCEPT ![c] = "between"]
  /\ UNCHANGED <<pc, call, cancel, event, escaped>>

NextChunk(c) ==
  /\ irp[c] = "between"
  /\ irp' = [irp EXCEPT ![c] = "bus"]
  /\ UNCHANGED <<pc, call, cancel, event, escaped>>

Next ==
  \E c \in Contexts :
    \/ \E finite \in BOOLEAN : Setup(c, TRUE, finite)
    \/ Setup(c, FALSE, TRUE)
    \/ Submit(c)
    \/ \E cancels, finite \in BOOLEAN : Reap(c, cancels, finite)
    \/ ReapDone(c)
    \/ ReapTimesOut(c)
    \/ CancelAsync(c)
    \/ Free(c)
    \/ \E w \in Roles : Abort(c, w) \/ AbortFails(c, w) \/ Wait(c, w) \/ Poll(c, w)
    \/ Complete(c)
    \/ ChunkCompletes(c)
    \/ NextChunk(c)

\* The DLL's threads and the clock go on; the bus driver completes what it is
\* aborting and the driver sends the next chunk; a device need not answer.
Fairness ==
  \A c \in Contexts :
    /\ WF_vars(ReapDone(c)) /\ WF_vars(ReapTimesOut(c))
    /\ \A w \in Roles :
         WF_vars(Abort(c, w) \/ AbortFails(c, w)) /\ WF_vars(Wait(c, w)) /\ WF_vars(Poll(c, w))
    /\ WF_vars(irp[c] = "aborting" /\ (Complete(c) \/ ChunkCompletes(c)))
    /\ WF_vars(NextChunk(c))

Spec == Init /\ [][Next]_vars /\ Fairness

-----------------------------------------------------------------------------
\* _usb_cancel_io: "We cannot allow the caller to exit the function, until we
\* are 100% sure that we have stopped read/writing to/from data": when a call
\* that ends a request has returned, nothing of it is in the driver, unless the
\* abort failed.
NothingInFlight ==
  \A c \in Contexts : pc[c] \in Dead /\ irp[c] # "none" => escaped[c]

\* The abort missed the request: it was between two chunks, it finished one
\* instead, or it was submitted after the abort.
Missed(c, w) == cancel[c][w] = "wait" /\ irp[c] \in {"bus", "between"}

\* "this can only happen if the driver freezes up totally": a call with a finite
\* timeout returns though the device never answers, and so does a cancel,
\* unless its abort missed the request.
CallsReturn ==
  \A c \in Contexts :
    /\ pc[c] = "reap" /\ call[c].finite ~> pc[c] \notin {"reap", "cancel"} \/ Missed(c, "owner")
    /\ cancel[c]["other"] # "no" ~> cancel[c]["other"] = "no" \/ Missed(c, "other")
=============================================================================
