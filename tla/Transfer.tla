------------------------------ MODULE Transfer ------------------------------
(***************************************************************************)
(* The bulk, interrupt and isochronous transfers of one endpoint           *)
(* (driver/transfer.c).  A request longer than the endpoint's maximum      *)
(* transfer size goes to the bus driver in chunks: transfer() sends the    *)
(* first, the completion routine of each chunk sends the next.             *)
(*                                                                         *)
(* An activation <<r, k>> is one run of code for request r: transfer()     *)
(* when k = 0, transfer_complete for its k-th chunk otherwise.  They run   *)
(* on any threads, and a chunk may complete before the activation that     *)
(* sent it has got out of IoCallDriver.  pending_busy and pending_sequence *)
(* are the interlocked words that order them.                              *)
(***************************************************************************)
EXTENDS Integers, Sequences, FiniteSets

CONSTANTS Requests,         \* the transfers users submit to this endpoint
          Lengths,          \* the lengths, in bytes, of transfers
          MaxTransferSize,  \* context->maxTransferSize; 0x7fffffff if isochronous
          PacketSize,       \* endpoint->maximum_packet_size
          MaxChunks,        \* bound: chunks of the longest transfer
          AllocationFails   \* TRUE: pool and MDL allocations may fail

ASSUME SizesAssumption ==
  /\ MaxTransferSize \in Nat \ {0} /\ PacketSize \in Nat \ {0}
  /\ Lengths \subseteq Nat /\ MaxChunks \in Nat \ {0}
  /\ \A n \in Lengths : n <= MaxTransferSize * MaxChunks

ASSUME FailuresAssumption == AllocationFails \in BOOLEAN

Activations == 0 .. MaxChunks

NoRequest == 0   \* pending_sequence before the first transfer

VARIABLES pending_busy,      \* pending_busy[address]
          pending_sequence,  \* pending_sequence[address]
          sequence,          \* the driver's transfer counter
          length,            \* length of each request
          seq,               \* context->sequence
          pc,                \* where each activation is
          ctx,               \* the context_t of each request
          irp,               \* the IRP of each request
          wire               \* the chunks given to the bus driver, in order

vars == <<pending_busy, pending_sequence, sequence, length, seq, pc, ctx, irp, wire>>

Steps == {"idle", "claim", "announce", "build", "compare", "mdl", "send", "sent",
          "unbusy", "free_busy", "free", "done"}

\* left is totalLength, got the length of the last chunk's data, frees how
\* often the context was given back to the pool; ends counts the completions
\* of the IRP, and info is what it reports.
ContextType ==
  [left : Nat, info : Nat, sent : Nat, size : Nat, got : Nat, frees : Nat]

Chunk == [req : Requests, off : Nat, len : Nat]

IrpType == [status : {"pending", "success", "failed"}, ends : Nat, info : Nat]

TypeOK ==
  /\ pending_busy \in BOOLEAN /\ pending_sequence \in Nat /\ sequence \in Nat
  /\ length \in [Requests -> Lengths]
  /\ seq \in [Requests -> Nat]
  /\ pc \in [Requests -> [Activations -> Steps]]
  /\ ctx \in [Requests -> ContextType]
  /\ irp \in [Requests -> IrpType]
  /\ wire \in Seq(Chunk)

Least(a, b) == IF a < b THEN a ELSE b

Init ==
  /\ pending_busy = FALSE /\ pending_sequence = NoRequest /\ sequence = 0
  /\ length \in [Requests -> Lengths]
  /\ seq = [r \in Requests |-> NoRequest]
  /\ pc = [r \in Requests |-> [k \in Activations |-> "idle"]]
  /\ ctx = [r \in Requests |-> [left |-> length[r], info |-> 0, sent |-> 0, size |-> 0,
                                got |-> 0, frees |-> 0]]
  /\ irp = [r \in Requests |-> [status |-> "pending", ends |-> 0, info |-> 0]]
  /\ wire = <<>>

-----------------------------------------------------------------------------
Goto(r, k, step) == pc' = [pc EXCEPT ![r][k] = step]

\* transfer() takes its sequence number.
Begin(r) ==
  /\ pc[r][0] = "idle"
  /\ sequence' = sequence + 1
  /\ seq' = [seq EXCEPT ![r] = sequence + 1]
  /\ Goto(r, 0, "claim")
  /\ UNCHANGED <<pending_busy, pending_sequence, length, ctx, irp, wire>>

\* Mutant: a completion that finds the endpoint busy gives back what it has
\* not taken.
ClaimNotTaken(r, k) ==
  /\ pc[r][k] = "claim"
  /\ pending_busy' = TRUE
  /\ Goto(r, k, IF pending_busy THEN "free_busy" ELSE IF k = 0 THEN "announce" ELSE "compare")
  /\ UNCHANGED <<pending_sequence, sequence, length, seq, ctx, irp, wire>>

\* InterlockedCompareExchange(&pending_busy, 1, 0); whoever finds it taken
\* gives up, with the status it has.
Claim(r, k) ==
  /\ pc[r][k] = "claim"
  /\ pending_busy' = TRUE
  /\ Goto(r, k, IF pending_busy THEN "free" ELSE IF k = 0 THEN "announce" ELSE "compare")
  /\ irp' = IF pending_busy /\ k = 0 THEN [irp EXCEPT ![r].status = "success"] ELSE irp
  /\ UNCHANGED <<pending_sequence, sequence, length, seq, ctx, wire>>

\* A new request becomes the newest of the endpoint.
Announce(r) ==
  /\ pc[r][0] = "announce"
  /\ pending_sequence' = seq[r]
  /\ Goto(r, 0, "build")
  /\ UNCHANGED <<pending_busy, sequence, length, seq, ctx, irp, wire>>

\* The context and the URB are allocated; create_urb may also refuse the size
\* of an isochronous transfer.
Build(r) ==
  /\ pc[r][0] = "build"
  /\ \/ Goto(r, 0, "send") /\ UNCHANGED irp
     \/ /\ AllocationFails
        /\ Goto(r, 0, "free_busy")
        /\ irp' = [irp EXCEPT ![r].status = "failed"]
  /\ UNCHANGED <<pending_busy, pending_sequence, sequence, length, seq, ctx, wire>>

\* Mutant: the sequence numbers are not compared.
CompareSkipped(r, k) ==
  /\ pc[r][k] = "compare"
  /\ Goto(r, k, "mdl")
  /\ UNCHANGED <<pending_busy, pending_sequence, sequence, length, seq, ctx, irp, wire>>

\* A completion may continue its request only while no newer one has come.
Compare(r, k) ==
  /\ pc[r][k] = "compare"
  /\ Goto(r, k, IF pending_sequence = seq[r] THEN "mdl" ELSE "free_busy")
  /\ UNCHANGED <<pending_busy, pending_sequence, sequence, length, seq, ctx, irp, wire>>

\* IoAllocateMdl for the rest of the buffer.  The status of the IRP stays the
\* bus driver's when it fails.
AllocateMdl(r, k) ==
  /\ pc[r][k] = "mdl"
  /\ Goto(r, k, "send") \/ (AllocationFails /\ Goto(r, k, "free_busy"))
  /\ UNCHANGED <<pending_busy, pending_sequence, sequence, length, seq, ctx, irp, wire>>

\* Mutant: only the last chunk is skipped in the buffer.
SendMisplaced(r, k) ==
  LET size == Least(ctx[r].left, MaxTransferSize) IN
  /\ pc[r][k] = "send"
  /\ wire' = Append(wire, [req |-> r, off |-> ctx[r].got, len |-> size])
  /\ ctx' = [ctx EXCEPT ![r].sent = k + 1, ![r].size = size]
  /\ Goto(r, k, "sent")
  /\ UNCHANGED <<pending_busy, pending_sequence, sequence, length, seq, irp>>

\* transfer_next: IoCallDriver with the next chunk of the buffer.
Send(r, k) ==
  LET size == Least(ctx[r].left, MaxTransferSize) IN
  /\ pc[r][k] = "send"
  /\ wire' = Append(wire, [req |-> r, off |-> ctx[r].info, len |-> size])
  /\ ctx' = [ctx EXCEPT ![r].sent = k + 1, ![r].size = size]
  /\ Goto(r, k, "sent")
  /\ UNCHANGED <<pending_busy, pending_sequence, sequence, length, seq, irp>>

\* IoCallDriver returns a success or STATUS_PENDING: at any time.
SendReturns(r, k) ==
  /\ pc[r][k] = "sent"
  /\ Goto(r, k, "unbusy")
  /\ UNCHANGED <<pending_busy, pending_sequence, sequence, length, seq, ctx, irp, wire>>

\* IoCallDriver returns an error: the bus driver completed the chunk with it
\* during the call.  transfer() ignores it, transfer_complete does not.
SendFails(r, k) ==
  /\ pc[r][k] = "sent" /\ k < MaxChunks
  /\ ctx[r].sent = k + 1 /\ pc[r][k + 1] = "done" /\ irp[r].status = "failed"
  /\ Goto(r, k, IF k = 0 THEN "unbusy" ELSE "free_busy")
  /\ UNCHANGED <<pending_busy, pending_sequence, sequence, length, seq, ctx, irp, wire>>

Unbusy(r, k) ==
  /\ pc[r][k] = "unbusy"
  /\ pending_busy' = FALSE
  /\ Goto(r, k, "done")
  /\ UNCHANGED <<pending_sequence, sequence, length, seq, ctx, irp, wire>>

\* Mutant: an activation that gives up leaves its IRP without an end.
FreeBusyForgetsIrp(r, k) ==
  /\ pc[r][k] = "free_busy"
  /\ pending_busy' = FALSE
  /\ Goto(r, k, "done")
  /\ UNCHANGED <<pending_sequence, sequence, length, seq, ctx, irp, wire>>

\* Mutant: an activation that gives up leaves the endpoint busy.
FreeBusyForgetsBusy(r, k) ==
  /\ pc[r][k] = "free_busy"
  /\ Goto(r, k, "free")
  /\ UNCHANGED <<pending_busy, pending_sequence, sequence, length, seq, ctx, irp, wire>>

\* transfer_free of an activation that has taken pending_busy.
FreeBusy(r, k) ==
  /\ pc[r][k] = "free_busy"
  /\ pending_busy' = FALSE
  /\ Goto(r, k, "free")
  /\ UNCHANGED <<pending_sequence, sequence, length, seq, ctx, irp, wire>>

\* The rest of transfer_free: context, URB and MDL are freed, the remove lock
\* is released and the IRP completes with the bytes moved so far.
Free(r, k) ==
  /\ pc[r][k] = "free"
  /\ ctx' = [ctx EXCEPT ![r].frees = @ + (IF k = 0 THEN 0 ELSE 1)]
  /\ irp' = [irp EXCEPT ![r].ends = @ + 1, ![r].info = ctx[r].info]
  /\ Goto(r, k, "done")
  /\ UNCHANGED <<pending_busy, pending_sequence, sequence, length, seq, wire>>

\* Mutant: the data of a chunk replaces what was counted before it.
ChunkCompletesOverwrites(r, k, ok, n) ==
  LET left == ctx[r].left - n
      more == ok /\ n % PacketSize = 0 /\ n = MaxTransferSize /\ left > 0
  IN
  /\ k > 0 /\ ctx[r].sent = k /\ pc[r][k] = "idle"
  /\ ~ok => n = 0
  /\ irp' = [irp EXCEPT ![r].status = IF ok THEN "success" ELSE "failed"]
  /\ ctx' = [ctx EXCEPT ![r].left = left, ![r].info = n, ![r].got = n]
  /\ Goto(r, k, IF more THEN "claim" ELSE "free")
  /\ UNCHANGED <<pending_busy, pending_sequence, sequence, length, seq, wire>>

\* The bus driver ends chunk k with status ok and n bytes, and
\* transfer_complete begins: it accounts for the data and goes on only after a
\* full chunk with more to come.
ChunkCompletes(r, k, ok, n) ==
  LET left == ctx[r].left - n
      more == ok /\ n % PacketSize = 0 /\ n = MaxTransferSize /\ left > 0
  IN
  /\ k > 0 /\ ctx[r].sent = k /\ pc[r][k] = "idle"
  /\ ~ok => n = 0
  /\ irp' = [irp EXCEPT ![r].status = IF ok THEN "success" ELSE "failed"]
  /\ ctx' = [ctx EXCEPT ![r].left = left, ![r].info = @ + n, ![r].got = n]
  /\ Goto(r, k, IF more THEN "claim" ELSE "free")
  /\ UNCHANGED <<pending_busy, pending_sequence, sequence, length, seq, wire>>

Completes(r, k) == \E ok \in BOOLEAN, n \in 0 .. ctx[r].size : ChunkCompletes(r, k, ok, n)

Run(r, k) ==
  \/ Claim(r, k)
  \/ Compare(r, k)
  \/ AllocateMdl(r, k)
  \/ Send(r, k)
  \/ SendReturns(r, k)
  \/ SendFails(r, k)
  \/ Unbusy(r, k)
  \/ FreeBusy(r, k)
  \/ Free(r, k)

Started(r) == Announce(r) \/ Build(r) \/ \E k \in Activations : Run(r, k)

Quiet(r) == \A k \in Activations : pc[r][k] \in {"idle", "done"}

Terminated ==
  /\ \A r \in Requests : irp[r].ends > 0 /\ Quiet(r)
  /\ UNCHANGED vars

Next ==
  \/ \E r \in Requests : Begin(r) \/ Started(r) \/ (\E k \in Activations : Completes(r, k))
  \/ Terminated

Spec == Init /\ [][Next]_vars

\* Threads inside the driver run on, and the bus driver ends every chunk it is
\* given: at the latest when the request is cancelled.
FairSpec ==
  /\ Spec
  /\ \A r \in Requests : WF_vars(Announce(r) \/ Build(r))
  /\ \A r \in Requests, k \in Activations : WF_vars(Run(r, k)) /\ WF_vars(Completes(r, k))

-----------------------------------------------------------------------------
\* The activations that are between taking pending_busy and giving it back.
Busy == {a \in Requests \X Activations :
           pc[a[1]][a[2]] \in {"announce", "build", "compare", "mdl", "send", "sent",
                               "unbusy", "free_busy"}}

\* pending_busy is a lock: it is taken exactly when one activation owns it,
\* whichever of the exits gives it back.
BusyIsALock == Cardinality(Busy) = IF pending_busy THEN 1 ELSE 0

\* The endpoint that the requests share, and the types of everything else.
EndpointSafe == TypeOK /\ BusyIsALock

\* transfer_complete, Note 1: the chunks of a request are one run on the wire;
\* an older request never goes on after a newer one has put data there.
OrderKept ==
  \A i, j, k \in 1 .. Len(wire) :
    i < j /\ j < k /\ wire[i].req = wire[k].req => wire[j].req = wire[i].req

\* Entry i of the wire is the chunk of its request before entry j.
Precedes(i, j) ==
  /\ i < j /\ wire[i].req = wire[j].req
  /\ \A m \in i + 1 .. j - 1 : wire[m].req # wire[j].req

\* Each chunk begins where the one before it ended and none leaves the user's
\* buffer: no byte is skipped, moved twice, or beyond the end.
ChunksTile ==
  \A j \in 1 .. Len(wire) :
    /\ wire[j].off + wire[j].len <= length[wire[j].req]
    /\ (\A i \in 1 .. j - 1 : wire[i].req # wire[j].req) => wire[j].off = 0
    /\ \A i \in 1 .. j - 1 : Precedes(i, j) => wire[j].off = wire[i].off + wire[i].len

\* A request ends only when none of its chunks is with the bus driver, and it
\* reports the bytes of all of them.
EndsComplete ==
  \A r \in Requests : irp[r].ends > 0 =>
    /\ ctx[r].sent > 0 => pc[r][ctx[r].sent] # "idle"
    /\ irp[r].info = ctx[r].info /\ ctx[r].info + ctx[r].left = length[r]

\* The split and the result of a transfer: its chunks cover a part of the
\* buffer from its start, and it reports that part when all have come back.
DataSafe == ChunksTile /\ EndsComplete

\* Every submitted request ends.
TransferEnds == \A r \in Requests : pc[r][0] # "idle" ~> irp[r].ends > 0

\* transfer_complete, Note 1: "We do not do this if a newer request is already
\* pending on the endpoint": a successful transfer that stops short of its
\* length after a full chunk has been overtaken by another request.
StopsOnlyForAnother ==
  \A r \in Requests :
    irp[r].ends > 0 /\ irp[r].status = "success" /\ ctx[r].left > 0
    /\ ctx[r].got = MaxTransferSize =>
      \E other \in Requests \ {r} : seq[other] # NoRequest

\* transfer(): "we do *not* want to free anything here as that would lead to
\* double-free": a request's context goes back to the pool once.
FreedOnce == \A r \in Requests : ctx[r].frees <= 1
=============================================================================
