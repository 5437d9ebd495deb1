--------------------------- MODULE TransferProofs ---------------------------
(***************************************************************************)
(* The transfers of an endpoint, for any requests, lengths and chunk       *)
(* sizes: pending_busy is a lock, the chunks of a request stay together    *)
(* and cover a part of its buffer, and a request that has ended reports    *)
(* that part.                                                              *)
(***************************************************************************)
EXTENDS Transfer, FiniteSetTheorems, TLAPS

\* The activations that own pending_busy, by what they do with it.
OwningSteps == {"announce", "build", "compare", "mdl", "send", "sent", "unbusy", "free_busy"}

Owns(r, k) == pc[r][k] \in OwningSteps

OwnerInv ==
  /\ \A r, s \in Requests, k, l \in Activations :
       Owns(r, k) /\ Owns(s, l) => r = s /\ k = l
  /\ pending_busy <=> \E r \in Requests, k \in Activations : Owns(r, k)

-----------------------------------------------------------------------------
\* A request runs its chunks one after the other: the activation of the chunk
\* that was sent last is the only one that may send another.
Newest(r) == pc[r][ctx[r].sent]

StageInv ==
  \A r \in Requests :
    /\ ctx[r].sent \in Activations
    /\ Newest(r) \notin {"sent", "unbusy"}
    /\ ctx[r].sent > 0 => Newest(r) \notin {"announce", "build"}
    /\ ctx[r].sent = 0 => Newest(r) \notin {"compare", "mdl"}
    /\ \A k \in Activations :
         /\ k > ctx[r].sent => pc[r][k] = "idle"
         /\ k < ctx[r].sent => pc[r][k] \in {"sent", "unbusy", "free_busy", "free", "done"}

\* The account of a request: while the last chunk is with the bus driver, all
\* before it were full; a request that goes on has full chunks behind it.
Going == {"claim", "compare", "mdl", "send"}

AccountInv ==
  \A r \in Requests :
    /\ ctx[r].info + ctx[r].left = length[r]
    /\ ctx[r].sent = 0 => ctx[r].info = 0
    /\ ctx[r].sent > 0 /\ Newest(r) = "idle" =>
         /\ ctx[r].info = (ctx[r].sent - 1) * MaxTransferSize
         /\ ctx[r].size <= ctx[r].left /\ ctx[r].size <= MaxTransferSize
    /\ ctx[r].sent > 0 /\ Newest(r) \in Going =>
         ctx[r].left > 0 /\ ctx[r].info = ctx[r].sent * MaxTransferSize

-----------------------------------------------------------------------------
\* Sequence numbers are of one request each; what is sent is of the request
\* that announced itself last.
SequenceInv ==
  /\ pending_sequence <= sequence
  /\ \A r \in Requests :
       /\ seq[r] <= sequence
       /\ seq[r] = NoRequest <=> pc[r][0] = "idle"
       /\ \A s \in Requests : seq[r] = seq[s] /\ seq[r] # NoRequest => r = s
       /\ pc[r][0] \in {"build", "send"} => pending_sequence = seq[r]
       /\ \A k \in Activations : pc[r][k] \in {"mdl", "send"} => pending_sequence = seq[r]

\* The newest request of the endpoint was also the last on the wire, once it
\* is there.
WireInv ==
  /\ \A i \in 1 .. Len(wire) : ctx[wire[i].req].sent > 0
  /\ \A r \in Requests :
       pending_sequence = seq[r] /\ ctx[r].sent > 0 =>
         wire # <<>> /\ wire[Len(wire)].req = r

\* The last chunk of a request on the wire is the one its context describes.
TileInv ==
  \A i \in 1 .. Len(wire) :
    LET r == wire[i].req IN
    (\A m \in i + 1 .. Len(wire) : wire[m].req # r) =>
      /\ Newest(r) = "idle" => wire[i].off = ctx[r].info /\ wire[i].len = ctx[r].size
      /\ Newest(r) \in Going => wire[i].off + wire[i].len = ctx[r].info

-----------------------------------------------------------------------------
\* A request that ends, or gives up, has no chunk to come and sends no more.
Over(r) == Newest(r) \in {"free_busy", "free", "done"}

EndInv ==
  \A r \in Requests :
    /\ (\E k \in Activations : pc[r][k] \in {"free_busy", "free"}) => Over(r)
    /\ irp[r].ends > 0 => Over(r) /\ irp[r].info = ctx[r].info

IInv ==
  /\ TypeOK /\ OwnerInv /\ StageInv /\ AccountInv
  /\ SequenceInv /\ WireInv /\ OrderKept /\ TileInv /\ ChunksTile /\ EndInv

-----------------------------------------------------------------------------
\* The steps of one activation that touch neither the buffer nor the wire.
Allowed(r, k, from, to) ==
  \/ from = "claim" /\ to = "free"
  \/ from = "claim" /\ to = "announce" /\ k = 0
  \/ from = "claim" /\ to = "compare" /\ k > 0
  \/ from = "build" /\ k = 0 /\ to \in {"send", "free_busy"}
  \/ from = "compare" /\ to = "mdl" /\ pending_sequence = seq[r]
  \/ from = "compare" /\ to = "free_busy"
  \/ from = "mdl" /\ to \in {"send", "free_busy"}
  \/ from = "sent" /\ to = "unbusy"
  \/ /\ from = "sent" /\ to = "free_busy"
     /\ k < MaxChunks /\ ctx[r].sent = k + 1 /\ pc[r][k + 1] = "done"
  \/ from = "unbusy" /\ to = "done"
  \/ from = "free_busy" /\ to = "free"

Moves(r, k) ==
  /\ \E to \in Steps : Goto(r, k, to) /\ Allowed(r, k, pc[r][k], to)
  /\ irp' \in [Requests -> IrpType]
  /\ \A s \in Requests : irp'[s].ends = irp[s].ends /\ irp'[s].info = irp[s].info
  /\ UNCHANGED <<pending_sequence, sequence, length, seq, ctx, wire>>

\* What the types say of one request and of one chunk.
LEMMA ParametersOk ==
  /\ 0 \in Activations /\ Activations \subseteq Nat /\ \A k \in Activations : k \in Nat
  /\ \A k \in Activations : k < MaxChunks => k + 1 \in Activations
  /\ MaxTransferSize \in Nat /\ MaxTransferSize > 0 /\ MaxChunks \in Nat /\ MaxChunks > 0
BY SizesAssumption DEF Activations

LEMMA RequestTypes ==
  ASSUME TypeOK, NEW r \in Requests
  PROVE  /\ ctx[r] \in ContextType /\ irp[r] \in IrpType
         /\ ctx[r].left \in Nat /\ ctx[r].info \in Nat /\ ctx[r].sent \in Nat
         /\ ctx[r].size \in Nat /\ ctx[r].got \in Nat /\ ctx[r].frees \in Nat
         /\ irp[r].ends \in Nat /\ irp[r].info \in Nat
         /\ seq[r] \in Nat /\ length[r] \in Nat
         /\ length[r] <= MaxTransferSize * MaxChunks
<1>1. ctx[r] \in ContextType /\ irp[r] \in IrpType /\ seq[r] \in Nat /\ length[r] \in Lengths
  BY DEF TypeOK
<1>2. QED
  BY <1>1, SizesAssumption DEF ContextType, IrpType

LEMMA WireTypes ==
  ASSUME TypeOK
  PROVE  /\ wire \in Seq(Chunk) /\ Len(wire) \in Nat
         /\ \A i \in 1 .. Len(wire) :
              /\ wire[i] \in Chunk /\ wire[i].req \in Requests
              /\ wire[i].off \in Nat /\ wire[i].len \in Nat
<1>1. wire \in Seq(Chunk)
  BY DEF TypeOK
<1>2. Len(wire) \in Nat /\ \A i \in 1 .. Len(wire) : wire[i] \in Chunk
  BY <1>1
<1>3. QED
  BY <1>1, <1>2 DEF Chunk

\* Where one activation goes, all others stay.
LEMMA GotoMoves ==
  ASSUME TypeOK, NEW r \in Requests, NEW k \in Activations, NEW step \in Steps, Goto(r, k, step)
  PROVE  /\ pc' \in [Requests -> [Activations -> Steps]]
         /\ pc'[r][k] = step
         /\ \A s \in Requests, l \in Activations :
              s # r \/ l # k => pc'[s][l] = pc[s][l]
BY DEF TypeOK, Goto

\* How far a request is, read from the step of one of its activations.
LEMMA StageFacts ==
  ASSUME StageInv, NEW r \in Requests, NEW k \in Activations
  PROVE  /\ k \in Nat /\ ctx[r].sent \in Nat /\ ctx[r].sent \in Activations
         /\ pc[r][k] \in {"idle", "claim", "announce", "build", "compare", "mdl", "send"} =>
              k >= ctx[r].sent
         /\ pc[r][k] # "idle" => k <= ctx[r].sent
<1>1. k \in Nat /\ ctx[r].sent \in Nat /\ ctx[r].sent \in Activations
  BY ParametersOk DEF StageInv
<1>2. k < ctx[r].sent => pc[r][k] \in {"sent", "unbusy", "free_busy", "free", "done"}
  BY DEF StageInv
<1>3. k > ctx[r].sent => pc[r][k] = "idle"
  BY DEF StageInv
<1>4. QED
  BY <1>1, <1>2, <1>3

\* The stages of a request when one of its activations moves on.
StagesAre(r) ==
  \A k \in Activations :
    /\ k > ctx[r].sent => pc[r][k] = "idle"
    /\ k < ctx[r].sent => pc[r][k] \in {"sent", "unbusy", "free_busy", "free", "done"}

LEMMA NewestMoves ==
  ASSUME StageInv, NEW r \in Requests, NEW k \in Activations, k = ctx[r].sent,
         \A s \in Requests, l \in Activations : s # r \/ l # k => pc'[s][l] = pc[s][l],
         \A s \in Requests : ctx'[s].sent = ctx[s].sent
  PROVE  \A s \in Requests : StagesAre(s)'
<1> SUFFICES ASSUME NEW s \in Requests, NEW l \in Activations
             PROVE  /\ l > ctx[s].sent => pc'[s][l] = "idle"
                    /\ l < ctx[s].sent =>
                         pc'[s][l] \in {"sent", "unbusy", "free_busy", "free", "done"}
  BY DEF StagesAre
<1>1. s = r /\ l = k => ~(l > ctx[s].sent) /\ ~(l < ctx[s].sent)
  BY StageFacts
<1>2. s # r \/ l # k => pc'[s][l] = pc[s][l]
  OBVIOUS
<1>3. QED
  BY <1>1, <1>2 DEF StageInv

LEMMA MoveKeepsTypes ==
  ASSUME TypeOK, NEW r \in Requests, NEW k \in Activations, Moves(r, k), pending_busy' \in BOOLEAN
  PROVE  TypeOK'
<1>1. pc' \in [Requests -> [Activations -> Steps]]
  BY GotoMoves DEF Moves
<1>2. QED
  BY <1>1 DEF Moves, TypeOK

\* The activation that moves is the newest of its request or one that has
\* handed the request on.
LEMMA MoveOfStage ==
  ASSUME TypeOK, StageInv, NEW r \in Requests, NEW k \in Activations, NEW to \in Steps,
         Goto(r, k, to), Allowed(r, k, pc[r][k], to), UNCHANGED ctx
  PROVE  /\ \A s \in Requests : Newest(s)' = IF s = r /\ k = ctx[r].sent THEN to ELSE Newest(s)
         /\ \/ k = ctx[r].sent
            \/ k < ctx[r].sent /\ to \in {"unbusy", "free_busy", "done", "free"}
<1>1. /\ pc'[r][k] = to
      /\ \A s \in Requests, l \in Activations : s # r \/ l # k => pc'[s][l] = pc[s][l]
  BY GotoMoves
<1>2. \A s \in Requests : ctx[s].sent \in Activations
  BY DEF StageInv
<1>3. \A s \in Requests : Newest(s)' = IF s = r /\ k = ctx[r].sent THEN to ELSE Newest(s)
  BY <1>1, <1>2 DEF Newest
<1>4. k \in Nat /\ ctx[r].sent \in Nat
  BY <1>2, SizesAssumption DEF Activations
<1>5. ~(k > ctx[r].sent)
  BY DEF StageInv, Allowed
<1>6. k < ctx[r].sent => to \in {"unbusy", "free_busy", "done", "free"}
  BY DEF StageInv, Allowed
<1>7. QED
  BY <1>3, <1>4, <1>5, <1>6

LEMMA MoveKeepsStages ==
  ASSUME TypeOK, StageInv, AccountInv, SequenceInv,
         NEW r \in Requests, NEW k \in Activations, Moves(r, k)
  PROVE  StageInv' /\ AccountInv' /\ SequenceInv'
<1>1. PICK to \in Steps : Goto(r, k, to) /\ Allowed(r, k, pc[r][k], to)
  BY DEF Moves
<1>2. /\ pc'[r][k] = to
      /\ \A s \in Requests, l \in Activations : s # r \/ l # k => pc'[s][l] = pc[s][l]
  BY <1>1, GotoMoves
<1>3. UNCHANGED <<pending_sequence, sequence, length, seq, ctx>>
  BY DEF Moves
<1>4. 0 \in Activations /\ Activations \subseteq Nat /\ \A s \in Requests : ctx[s].sent \in Activations
  BY SizesAssumption DEF Activations, StageInv
<1>5. /\ \A s \in Requests : Newest(s)' = IF s = r /\ k = ctx[r].sent THEN to ELSE Newest(s)
      /\ \/ k = ctx[r].sent
         \/ k < ctx[r].sent /\ to \in {"unbusy", "free_busy", "done", "free"}
  BY <1>1, <1>3, MoveOfStage
<1>6. k = ctx[r].sent =>
        /\ Newest(r) = pc[r][k]
        /\ Newest(r) \notin {"sent", "unbusy"}
        /\ k > 0 => Newest(r) \notin {"announce", "build"}
        /\ k = 0 => Newest(r) \notin {"compare", "mdl"}
  BY DEF StageInv, Newest
<1>7. k = ctx[r].sent =>
        /\ to \notin {"idle", "sent", "unbusy"}
        /\ k > 0 => to \notin {"announce", "build"}
        /\ k = 0 => to \notin {"compare", "mdl"}
        /\ to \in Going => Newest(r) \in Going \/ k = 0
  BY <1>1, <1>4, <1>6 DEF Allowed, Going
<1>8. StageInv'
  <2>1. \A s \in Requests :
          /\ ctx[s].sent \in Activations
          /\ Newest(s)' \notin {"sent", "unbusy"}
          /\ ctx[s].sent > 0 => Newest(s)' \notin {"announce", "build"}
          /\ ctx[s].sent = 0 => Newest(s)' \notin {"compare", "mdl"}
    BY <1>4, <1>5, <1>7 DEF StageInv
  <2>2. \A s \in Requests, l \in Activations :
          /\ l > ctx[s].sent => pc'[s][l] = "idle"
          /\ l < ctx[s].sent => pc'[s][l] \in {"sent", "unbusy", "free_busy", "free", "done"}
    BY <1>2, <1>4, <1>5 DEF StageInv
  <2>3. QED
    BY <1>3, <2>1, <2>2 DEF StageInv
<1>9. AccountInv'
  <2>1. \A s \in Requests : ctx[s].sent > 0 /\ Newest(s)' = "idle" => Newest(s) = "idle"
    BY <1>5, <1>7
  <2>2. \A s \in Requests : ctx[s].sent > 0 /\ Newest(s)' \in Going => Newest(s) \in Going
    BY <1>4, <1>5, <1>7 DEF Activations
  <2>3. QED
    BY <1>3, <2>1, <2>2 DEF AccountInv
<1>10. SequenceInv'
  <2>1. \A s \in Requests : pc'[s][0] = "idle" <=> pc[s][0] = "idle"
    BY <1>1, <1>2, <1>4 DEF Allowed
  <2>2. \A s \in Requests, l \in Activations :
          pc'[s][l] \in {"mdl", "send"} => pending_sequence = seq[s]
    BY <1>1, <1>2, <1>4 DEF Allowed, SequenceInv
  <2>3. \A s \in Requests : pc'[s][0] \in {"build", "send"} => pending_sequence = seq[s]
    BY <1>1, <1>2, <1>4 DEF Allowed, SequenceInv
  <2>4. QED
    BY <1>3, <2>1, <2>2, <2>3 DEF SequenceInv
<1>11. QED
  BY <1>8, <1>9, <1>10

LEMMA MoveKeepsWire ==
  ASSUME TypeOK, StageInv, WireInv, OrderKept, TileInv, ChunksTile, EndInv,
         NEW r \in Requests, NEW k \in Activations, Moves(r, k)
  PROVE  WireInv' /\ OrderKept' /\ TileInv' /\ ChunksTile' /\ EndInv'
<1>1. PICK to \in Steps : Goto(r, k, to) /\ Allowed(r, k, pc[r][k], to)
  BY DEF Moves
<1>2. /\ pc'[r][k] = to
      /\ \A s \in Requests, l \in Activations : s # r \/ l # k => pc'[s][l] = pc[s][l]
  BY <1>1, GotoMoves
<1>3. UNCHANGED <<pending_sequence, sequence, length, seq, ctx, wire>>
  BY DEF Moves
<1>4. 0 \in Activations /\ Activations \subseteq Nat /\ \A s \in Requests : ctx[s].sent \in Activations
  BY SizesAssumption DEF Activations, StageInv
<1>5. WireInv' /\ OrderKept' /\ ChunksTile'
  BY <1>3 DEF WireInv, OrderKept, ChunksTile, Precedes
<1>6. \A i \in 1 .. Len(wire) : wire[i].req \in Requests
  BY WireTypes
<1>7. TileInv'
  <2> /\ \A s \in Requests : Newest(s)' = IF s = r /\ k = ctx[r].sent THEN to ELSE Newest(s)
      /\ \/ k = ctx[r].sent
         \/ k < ctx[r].sent /\ to \in {"unbusy", "free_busy", "done", "free"}
    BY <1>1, <1>3, MoveOfStage
  <2>1. \A s \in Requests : Newest(s)' = "idle" => Newest(s) = "idle"
    BY <1>1 DEF Allowed
  <2>2. \A s \in Requests : Newest(s)' \in Going => Newest(s) \in Going \/ ctx[s].sent = 0
    <3>1. k = ctx[r].sent => Newest(r) = pc[r][k] /\ Newest(r) \notin {"sent", "unbusy"}
                             /\ (ctx[r].sent > 0 => Newest(r) \notin {"announce", "build"})
      BY DEF StageInv, Newest
    <3>2. k = ctx[r].sent /\ to \in Going => Newest(r) \in Going \/ ctx[r].sent = 0
      BY <1>1, <1>4, <3>1 DEF Allowed, Going
    <3>3. QED
      BY <3>2
  <2>3. QED
    BY <1>3, <1>6, <2>1, <2>2 DEF TileInv, WireInv
<1>8. EndInv'
  <2> /\ \A s \in Requests : Newest(s)' = IF s = r /\ k = ctx[r].sent THEN to ELSE Newest(s)
      /\ \/ k = ctx[r].sent
         \/ k < ctx[r].sent /\ to \in {"unbusy", "free_busy", "done", "free"}
    BY <1>1, <1>3, MoveOfStage
  <2>1. \A s \in Requests : Over(s) => Over(s)'
    <3>1. k = ctx[r].sent /\ Over(r) => to \in {"free_busy", "free", "done"}
      BY <1>1 DEF Over, Newest, Allowed
    <3>2. QED
      BY <3>1 DEF Over
  <2>2. to \in {"free_busy", "free"} => Over(r)'
    <3>1. CASE k = ctx[r].sent
      BY <3>1 DEF Over
    <3>2. CASE k < ctx[r].sent
      <4>1. to \in {"free_busy", "free"} =>
              \/ ctx[r].sent = k + 1 /\ pc[r][k + 1] = "done"
              \/ pc[r][k] = "free_busy"
        BY <1>1, <3>2 DEF Allowed, StageInv
      <4>2. to \in {"free_busy", "free"} => Over(r)
        BY <4>1 DEF Over, Newest, EndInv
      <4>3. QED
        BY <2>1, <4>2
    <3>3. QED
      BY <3>1, <3>2
  <2>3. ASSUME NEW s \in Requests, NEW l \in Activations, pc'[s][l] \in {"free_busy", "free"}
        PROVE  Over(s)'
    BY <1>2, <2>1, <2>2, <2>3 DEF EndInv
  <2>4. QED
    BY <1>3, <2>1, <2>3 DEF EndInv, Moves
<1>9. QED
  BY <1>5, <1>7, <1>8

-----------------------------------------------------------------------------
\* pending_busy: taken, kept and given back by one activation.
LEMMA TakesBusy ==
  ASSUME TypeOK, OwnerInv, NEW r \in Requests, NEW k \in Activations, NEW to \in OwningSteps,
         ~pending_busy, pending_busy', Goto(r, k, to)
  PROVE  OwnerInv'
<1>1. to \in Steps
  BY DEF OwningSteps, Steps
<1>2. QED
  BY <1>1, GotoMoves DEF OwnerInv, Owns

LEMMA KeepsBusy ==
  ASSUME TypeOK, OwnerInv, NEW r \in Requests, NEW k \in Activations, NEW to \in Steps,
         Owns(r, k) <=> to \in OwningSteps, pending_busy' = pending_busy, Goto(r, k, to)
  PROVE  OwnerInv'
<1>1. \A s \in Requests, l \in Activations : Owns(s, l)' <=> Owns(s, l)
  BY GotoMoves DEF Owns
<1>2. QED
  BY <1>1 DEF OwnerInv

LEMMA GivesBusy ==
  ASSUME TypeOK, OwnerInv, NEW r \in Requests, NEW k \in Activations, NEW to \in Steps,
         Owns(r, k), to \notin OwningSteps, ~pending_busy', Goto(r, k, to)
  PROVE  OwnerInv'
<1>1. \A s \in Requests, l \in Activations : ~Owns(s, l)'
  BY GotoMoves DEF OwnerInv, Owns
<1>2. QED
  BY <1>1 DEF OwnerInv

-----------------------------------------------------------------------------
\* One lemma for each action that does more than move an activation.
LEMMA BeginKeeps ==
  ASSUME IInv, NEW r \in Requests, Begin(r)
  PROVE  IInv'
<1> USE DEF IInv
<1>1. Goto(r, 0, "claim") /\ pc[r][0] = "idle" /\ "claim" \in Steps /\ 0 \in Activations
  BY ParametersOk DEF Begin, Steps
<1>2. /\ pc' \in [Requests -> [Activations -> Steps]]
      /\ pc'[r][0] = "claim"
      /\ \A s \in Requests, l \in Activations : s # r \/ l # 0 => pc'[s][l] = pc[s][l]
  BY <1>1, GotoMoves
<1>3. /\ sequence' = sequence + 1 /\ sequence \in Nat /\ pending_sequence \in Nat
      /\ seq' = [seq EXCEPT ![r] = sequence + 1]
      /\ UNCHANGED <<pending_busy, pending_sequence, length, ctx, irp, wire>>
  BY DEF Begin, TypeOK
<1>4. ctx[r].sent = 0 /\ \A s \in Requests : ctx[s].sent \in Activations /\ ctx[s].sent \in Nat
  BY <1>1, StageFacts
<1>5. \A s \in Requests : Newest(s)' = IF s = r THEN "claim" ELSE Newest(s)
  BY <1>2, <1>3, <1>4 DEF Newest
<1>6. TypeOK'
  BY <1>2, <1>3 DEF TypeOK
<1>7. OwnerInv'
  BY <1>1, <1>3, KeepsBusy DEF Owns, OwningSteps
<1>8. StageInv'
  <2>1. \A s \in Requests : StagesAre(s)'
    BY <1>1, <1>2, <1>3, <1>4, NewestMoves
  <2>2. QED
    BY <1>3, <1>4, <1>5, <2>1 DEF StageInv, StagesAre
<1>9. AccountInv'
  BY <1>3, <1>4, <1>5 DEF AccountInv
<1>10. SequenceInv'
  <2>1. \A l \in Activations \ {0} : pc'[r][l] = "idle"
    BY <1>2, <1>4, StageFacts
  <2>2. \A s \in Requests : seq[s] \in Nat /\ seq[s] <= sequence
    BY RequestTypes DEF SequenceInv
  <2>3. seq'[r] = sequence + 1 /\ \A s \in Requests \ {r} : seq'[s] = seq[s]
    BY <1>3 DEF TypeOK
  <2>4. QED
    BY <1>2, <1>3, <2>1, <2>2, <2>3, ParametersOk DEF SequenceInv, NoRequest
<1>11. WireInv' /\ OrderKept' /\ ChunksTile'
  <2>1. \A s \in Requests \ {r} : seq'[s] = seq[s]
    BY <1>3 DEF TypeOK
  <2>2. QED
    BY <1>3, <1>4, <2>1 DEF WireInv, OrderKept, ChunksTile, Precedes
<1>12. TileInv'
  <2>1. \A i \in 1 .. Len(wire) : wire[i].req \in Requests /\ wire[i].req # r
    BY <1>4, WireTypes DEF WireInv
  <2>2. \A i \in 1 .. Len(wire) : Newest(wire[i].req)' = Newest(wire[i].req)
    BY <1>3, <1>5, <2>1
  <2>3. QED
    BY <1>3, <2>1, <2>2 DEF TileInv
<1>13. EndInv'
  <2>1. ~Over(r) /\ Over(r)' = FALSE /\ \A s \in Requests \ {r} : Over(s)' = Over(s)
    BY <1>1, <1>4, <1>5 DEF Over, Newest
  <2>2. QED
    BY <1>2, <1>3, <2>1 DEF EndInv
<1>14. QED
  BY <1>6, <1>7, <1>8, <1>9, <1>10, <1>11, <1>12, <1>13

LEMMA AnnounceKeeps ==
  ASSUME IInv, NEW r \in Requests, Announce(r)
  PROVE  IInv'
<1> USE DEF IInv
<1>1. Goto(r, 0, "build") /\ pc[r][0] = "announce" /\ "build" \in Steps /\ 0 \in Activations
  BY ParametersOk DEF Announce, Steps
<1>2. /\ pc' \in [Requests -> [Activations -> Steps]]
      /\ pc'[r][0] = "build"
      /\ \A s \in Requests, l \in Activations : s # r \/ l # 0 => pc'[s][l] = pc[s][l]
  BY <1>1, GotoMoves
<1>3. /\ pending_sequence' = seq[r] /\ seq[r] \in Nat
      /\ UNCHANGED <<pending_busy, sequence, length, seq, ctx, irp, wire>>
  BY DEF Announce, TypeOK
<1>4. ctx[r].sent = 0 /\ \A s \in Requests : ctx[s].sent \in Activations /\ ctx[s].sent \in Nat
  BY <1>1, StageFacts
<1>5. \A s \in Requests : Newest(s)' = IF s = r THEN "build" ELSE Newest(s)
  BY <1>2, <1>3, <1>4 DEF Newest
<1>6. TypeOK'
  BY <1>2, <1>3 DEF TypeOK
<1>7. OwnerInv'
  BY <1>1, <1>3, KeepsBusy DEF Owns, OwningSteps
<1>8. StageInv'
  <2>1. \A s \in Requests : StagesAre(s)'
    BY <1>1, <1>2, <1>3, <1>4, NewestMoves
  <2>2. QED
    BY <1>3, <1>4, <1>5, <2>1 DEF StageInv, StagesAre
<1>9. AccountInv'
  BY <1>3, <1>4, <1>5 DEF AccountInv, Going
<1>10. SequenceInv'
  <2>1. \A s \in Requests, l \in Activations :
          pc[s][l] \in {"build", "mdl", "send"} => s = r /\ l = 0
    BY <1>1 DEF OwnerInv, Owns, OwningSteps
  <2>2. QED
    BY <1>1, <1>2, <1>3, <2>1, ParametersOk DEF SequenceInv
<1>11. WireInv' /\ OrderKept' /\ ChunksTile'
  <2>1. \A s \in Requests : seq[s] = seq[r] => s = r
    BY <1>1 DEF SequenceInv
  <2>2. QED
    BY <1>3, <1>4, <2>1 DEF WireInv, OrderKept, ChunksTile, Precedes
<1>12. TileInv'
  <2>1. \A i \in 1 .. Len(wire) : wire[i].req \in Requests /\ wire[i].req # r
    BY <1>4, WireTypes DEF WireInv
  <2>2. \A i \in 1 .. Len(wire) : Newest(wire[i].req)' = Newest(wire[i].req)
    BY <1>3, <1>5, <2>1
  <2>3. QED
    BY <1>3, <2>1, <2>2 DEF TileInv
<1>13. EndInv'
  <2>1. ~Over(r) /\ Over(r)' = FALSE /\ \A s \in Requests \ {r} : Over(s)' = Over(s)
    BY <1>1, <1>4, <1>5 DEF Over, Newest
  <2>2. QED
    BY <1>2, <1>3, <2>1 DEF EndInv
<1>14. QED
  BY <1>6, <1>7, <1>8, <1>9, <1>10, <1>11, <1>12, <1>13

LEMMA FreeKeeps ==
  ASSUME IInv, NEW r \in Requests, NEW k \in Activations, Free(r, k)
  PROVE  IInv'
<1> USE DEF IInv
<1>1. Goto(r, k, "done") /\ pc[r][k] = "free" /\ "done" \in Steps
  BY DEF Free, Steps
<1>2. /\ pc' \in [Requests -> [Activations -> Steps]]
      /\ pc'[r][k] = "done"
      /\ \A s \in Requests, l \in Activations : s # r \/ l # k => pc'[s][l] = pc[s][l]
  BY <1>1, GotoMoves
<1>3. UNCHANGED <<pending_busy, pending_sequence, sequence, length, seq, wire>>
  BY DEF Free
<1>4. /\ ctx' \in [Requests -> ContextType]
      /\ \A s \in Requests :
           /\ ctx'[s].left = ctx[s].left /\ ctx'[s].info = ctx[s].info
           /\ ctx'[s].sent = ctx[s].sent /\ ctx'[s].size = ctx[s].size
  <2>1. ctx' = [ctx EXCEPT ![r] = [ctx[r] EXCEPT !.frees = @ + (IF k = 0 THEN 0 ELSE 1)]]
    BY DEF Free
  <2>2. ctx[r].frees + (IF k = 0 THEN 0 ELSE 1) \in Nat
    BY RequestTypes
  <2>3. /\ ctx'[r] \in ContextType
        /\ ctx'[r].left = ctx[r].left /\ ctx'[r].info = ctx[r].info
        /\ ctx'[r].sent = ctx[r].sent /\ ctx'[r].size = ctx[r].size
    BY <2>1, <2>2, RequestTypes DEF TypeOK, ContextType
  <2>4. QED
    BY <2>1, <2>3 DEF TypeOK
<1>5. /\ irp' \in [Requests -> IrpType]
      /\ irp'[r].info = ctx[r].info
      /\ \A s \in Requests \ {r} : irp'[s] = irp[s]
  <2>1. irp' = [irp EXCEPT ![r] = [irp[r] EXCEPT !.ends = @ + 1, !.info = ctx[r].info]]
    BY DEF Free
  <2>2. irp[r].ends + 1 \in Nat /\ ctx[r].info \in Nat
    BY RequestTypes
  <2>3. irp'[r] \in IrpType /\ irp'[r].info = ctx[r].info
    BY <2>1, <2>2, RequestTypes DEF TypeOK, IrpType
  <2>4. QED
    BY <2>1, <2>3 DEF TypeOK
<1>6. \A s \in Requests : ctx[s].sent \in Activations /\ ctx[s].sent \in Nat
  BY StageFacts, ParametersOk
<1>7. Over(r)
  BY <1>1 DEF EndInv
<1>8. \A s \in Requests : Newest(s)' = IF s = r /\ k = ctx[r].sent THEN "done" ELSE Newest(s)
  BY <1>2, <1>4, <1>6 DEF Newest
<1>9. TypeOK'
  BY <1>2, <1>3, <1>4, <1>5 DEF TypeOK
<1>10. OwnerInv'
  BY <1>1, <1>3, KeepsBusy DEF Owns, OwningSteps
<1>11. k <= ctx[r].sent
  BY <1>1, StageFacts
<1>12. StageInv'
  <2>1. \A s \in Requests, l \in Activations :
          /\ l > ctx[s].sent => pc'[s][l] = "idle"
          /\ l < ctx[s].sent => pc'[s][l] \in {"sent", "unbusy", "free_busy", "free", "done"}
    BY <1>2, <1>6, <1>11, ParametersOk DEF StageInv
  <2>2. QED
    BY <1>4, <1>6, <1>8, <2>1 DEF StageInv
<1>13. AccountInv'
  BY <1>3, <1>4, <1>8 DEF AccountInv, Going
<1>14. SequenceInv'
  BY <1>1, <1>2, <1>3, ParametersOk DEF SequenceInv
<1>15. WireInv' /\ OrderKept' /\ ChunksTile'
  <2>1. \A i \in 1 .. Len(wire) : ctx'[wire[i].req].sent = ctx[wire[i].req].sent
    BY <1>4, WireTypes
  <2>2. QED
    BY <1>3, <1>4, <2>1 DEF WireInv, OrderKept, ChunksTile, Precedes
<1>16. TileInv'
  BY <1>3, <1>4, <1>8, WireTypes DEF TileInv, Going
<1>17. EndInv'
  <2>1. \A s \in Requests : Over(s)' = Over(s)
    BY <1>7, <1>8 DEF Over
  <2>2. QED
    BY <1>2, <1>4, <1>5, <1>7, <2>1 DEF EndInv
<1>18. QED
  BY <1>9, <1>10, <1>12, <1>13, <1>14, <1>15, <1>16, <1>17

LEMMA CompletionKeeps ==
  ASSUME IInv, NEW r \in Requests, NEW k \in Activations, NEW ok \in BOOLEAN,
         NEW n \in 0 .. ctx[r].size, ChunkCompletes(r, k, ok, n)
  PROVE  IInv'
<1> USE DEF IInv
<1> DEFINE left == ctx[r].left - n
           more == ok /\ n % PacketSize = 0 /\ n = MaxTransferSize /\ left > 0
           to == IF more THEN "claim" ELSE "free"
<1>1. Goto(r, k, to) /\ pc[r][k] = "idle" /\ to \in Steps /\ k > 0 /\ ctx[r].sent = k
  BY DEF ChunkCompletes, Steps
<1>2. /\ pc' \in [Requests -> [Activations -> Steps]]
      /\ pc'[r][k] = to
      /\ \A s \in Requests, l \in Activations : s # r \/ l # k => pc'[s][l] = pc[s][l]
  BY <1>1, GotoMoves
<1>3. UNCHANGED <<pending_busy, pending_sequence, sequence, length, seq, wire>>
  BY DEF ChunkCompletes
<1>4. \A s \in Requests : ctx[s].sent \in Activations /\ ctx[s].sent \in Nat
  BY StageFacts, ParametersOk
<1>5. Newest(r) = "idle"
  BY <1>1 DEF Newest
<1>6. /\ ctx[r].info = (k - 1) * MaxTransferSize
      /\ ctx[r].size <= ctx[r].left /\ ctx[r].size <= MaxTransferSize
      /\ ctx[r].info + ctx[r].left = length[r]
  BY <1>1, <1>5 DEF AccountInv
<1>7. n \in Nat /\ left \in Nat /\ n <= ctx[r].size
  BY <1>6, RequestTypes
<1>8. /\ ctx' \in [Requests -> ContextType]
      /\ ctx'[r].left = left /\ ctx'[r].info = ctx[r].info + n
      /\ \A s \in Requests : ctx'[s].sent = ctx[s].sent /\ ctx'[s].size = ctx[s].size
      /\ \A s \in Requests \ {r} : ctx'[s] = ctx[s]
  <2>1. ctx' = [ctx EXCEPT ![r] = [ctx[r] EXCEPT !.left = left, !.info = @ + n, !.got = n]]
    BY DEF ChunkCompletes
  <2>2. ctx[r].info + n \in Nat
    BY <1>7, RequestTypes
  <2> HIDE DEF left
  <2>3. /\ ctx'[r] \in ContextType
        /\ ctx'[r].left = left /\ ctx'[r].info = ctx[r].info + n
        /\ ctx'[r].sent = ctx[r].sent /\ ctx'[r].size = ctx[r].size
    BY <1>7, <2>1, <2>2, RequestTypes DEF TypeOK, ContextType
  <2>4. QED
    BY <2>1, <2>3 DEF TypeOK
<1>9. /\ irp' \in [Requests -> IrpType]
      /\ irp'[r].ends = irp[r].ends
      /\ \A s \in Requests \ {r} : irp'[s] = irp[s]
  <2>1. irp' = [irp EXCEPT ![r] = [irp[r] EXCEPT !.status = IF ok THEN "success" ELSE "failed"]]
    BY DEF ChunkCompletes
  <2>2. irp'[r] \in IrpType /\ irp'[r].ends = irp[r].ends
    BY <2>1, RequestTypes DEF TypeOK, IrpType
  <2>3. QED
    BY <2>1, <2>2 DEF TypeOK
<1>10. \A s \in Requests : Newest(s)' = IF s = r THEN to ELSE Newest(s)
  BY <1>1, <1>2, <1>4, <1>8 DEF Newest
<1>11. to \in Going => left > 0 /\ n = MaxTransferSize /\ n = ctx[r].size
  BY <1>6, <1>7, RequestTypes DEF Going
<1>12. to \in {"claim", "free"}
  OBVIOUS
<1> HIDE DEF to, more
<1>13. TypeOK'
  BY <1>2, <1>3, <1>8, <1>9 DEF TypeOK
<1>14. OwnerInv'
  BY <1>1, <1>3, <1>12, KeepsBusy DEF Owns, OwningSteps
<1>15. StageInv'
  <2>1. \A s \in Requests : StagesAre(s)'
    BY <1>1, <1>2, <1>8, NewestMoves
  <2>2. QED
    BY <1>4, <1>8, <1>10, <1>12, <2>1 DEF StageInv, StagesAre
<1>16. AccountInv'
  <2>1. ctx'[r].info + ctx'[r].left = length[r]
    BY <1>6, <1>7, <1>8, RequestTypes
  <2>2. to \in Going => ctx'[r].left > 0 /\ ctx'[r].info = k * MaxTransferSize
    <3>1. (k - 1) * MaxTransferSize + MaxTransferSize = k * MaxTransferSize
      BY ParametersOk
    <3>2. QED
      BY <1>6, <1>8, <1>11, <3>1
  <2>3. QED
    BY <1>1, <1>3, <1>8, <1>10, <1>12, <2>1, <2>2 DEF AccountInv
<1>17. SequenceInv'
  BY <1>1, <1>2, <1>3, <1>12, ParametersOk DEF SequenceInv
<1>18. WireInv' /\ OrderKept' /\ ChunksTile'
  <2>1. \A i \in 1 .. Len(wire) : ctx'[wire[i].req].sent = ctx[wire[i].req].sent
    BY <1>8, WireTypes
  <2>2. WireInv'
    BY <1>3, <1>8, <2>1 DEF WireInv
  <2>3. QED
    BY <1>3, <2>2 DEF OrderKept, ChunksTile, Precedes
<1>19. TileInv'
  <2> SUFFICES ASSUME NEW i \in 1 .. Len(wire),
                      \A m \in i + 1 .. Len(wire) : wire[m].req # wire[i].req
               PROVE  LET s == wire[i].req IN
                      /\ Newest(s)' = "idle" =>
                           wire[i].off = ctx'[s].info /\ wire[i].len = ctx'[s].size
                      /\ Newest(s)' \in Going => wire[i].off + wire[i].len = ctx'[s].info
    BY <1>3 DEF TileInv
  <2>1. wire[i].req \in Requests
    BY WireTypes
  <2>2. CASE wire[i].req # r
    BY <1>3, <1>8, <1>10, <2>1, <2>2 DEF TileInv
  <2>3. CASE wire[i].req = r
    <3>1. wire[i].off = ctx[r].info /\ wire[i].len = ctx[r].size
      BY <1>5, <2>3 DEF TileInv
    <3>2. QED
      BY <1>3, <1>8, <1>10, <1>11, <1>12, <2>3, <3>1 DEF Going
  <2>4. QED
    BY <2>2, <2>3
<1>20. EndInv'
  <2>1. ~Over(r) /\ \A s \in Requests \ {r} : Over(s)' = Over(s)
    BY <1>5, <1>10 DEF Over
  <2>2. irp[r].ends = 0 /\ \A l \in Activations : pc[r][l] \notin {"free_busy", "free"}
    BY <2>1, RequestTypes DEF EndInv
  <2>3. to = "free" => Over(r)'
    BY <1>10 DEF Over
  <2>4. QED
    BY <1>1, <1>2, <1>8, <1>9, <1>12, <2>1, <2>2, <2>3 DEF EndInv
<1>21. QED
  BY <1>13, <1>14, <1>15, <1>16, <1>17, <1>18, <1>19, <1>20

\* The product of two sizes orders their factors.
LEMMA FewerChunks ==
  ASSUME NEW a \in Nat, NEW b \in Nat, NEW m \in Nat, a * m < m * b
  PROVE  a < b
<1>1. SUFFICES ASSUME b <= a PROVE FALSE
  OBVIOUS
<1>2. PICK d \in Nat : a = b + d
  <2>1. a - b \in Nat /\ a = b + (a - b)
    BY <1>1
  <2>2. QED
    BY <2>1
<1>3. a * m = m * b + d * m /\ d * m \in Nat /\ m * b \in Nat
  BY <1>2
<1>4. QED
  BY <1>3

\* A chunk that is sent fits into the rest of the buffer, and there is a
\* completion for it.
LEMMA ChunkFits ==
  ASSUME IInv, NEW r \in Requests, NEW k \in Activations, Send(r, k)
  PROVE  LET size == Least(ctx[r].left, MaxTransferSize) IN
         /\ k = ctx[r].sent /\ k < MaxChunks /\ k + 1 \in Activations
         /\ ctx[r].info = k * MaxTransferSize
         /\ size \in Nat /\ size <= ctx[r].left /\ size <= MaxTransferSize
         /\ ctx[r].info + size <= length[r]
<1> USE DEF IInv
<1>1. pc[r][k] = "send" /\ k \in Nat
  BY ParametersOk DEF Send
<1>2. k = ctx[r].sent
  BY <1>1, StageFacts
<1>3. Newest(r) \in Going
  BY <1>1, <1>2 DEF Newest, Going
<1>4. ctx[r].info = k * MaxTransferSize /\ (k > 0 => ctx[r].left > 0)
  <2>1. CASE k = 0
    <3>1. ctx[r].info = 0
      BY <1>2, <2>1, Zenon DEF AccountInv
    <3>2. 0 * MaxTransferSize = 0
      BY ParametersOk
    <3>3. QED
      BY <2>1, <3>1, <3>2
  <2>2. CASE k > 0
    BY <1>2, <1>3, <2>2 DEF AccountInv
  <2>3. QED
    BY <1>1, <2>1, <2>2
<1>5. ctx[r].info + ctx[r].left = length[r] /\ length[r] <= MaxTransferSize * MaxChunks
  BY RequestTypes DEF AccountInv
<1>6. k < MaxChunks
  <2>1. CASE k = 0
    BY <2>1, ParametersOk
  <2>2. CASE k > 0
    <3>1. k * MaxTransferSize < MaxTransferSize * MaxChunks
      BY <1>4, <1>5, <2>2, RequestTypes, ParametersOk
    <3>2. QED
      BY <1>1, <3>1, FewerChunks, ParametersOk
  <2>3. QED
    BY <1>1, <2>1, <2>2
<1>7. QED
  <2> DEFINE size == Least(ctx[r].left, MaxTransferSize)
  <2>1. size \in Nat /\ size <= ctx[r].left /\ size <= MaxTransferSize
    BY RequestTypes, ParametersOk DEF Least
  <2> HIDE DEF size
  <2>2. ctx[r].info + size <= length[r]
    BY <1>5, <2>1, RequestTypes
  <2>3. k + 1 \in Activations
    BY <1>6, ParametersOk
  <2>4. QED
    BY <1>2, <1>4, <1>6, <2>1, <2>2, <2>3 DEF size

LEMMA SendKeeps ==
  ASSUME IInv, NEW r \in Requests, NEW k \in Activations, Send(r, k)
  PROVE  IInv'
<1> USE DEF IInv
<1> DEFINE size == Least(ctx[r].left, MaxTransferSize)
           chunk == [req |-> r, off |-> ctx[r].info, len |-> size]
           last == Len(wire) + 1
<1>1. Goto(r, k, "sent") /\ pc[r][k] = "send" /\ "sent" \in Steps
  BY DEF Send, Steps
<1>2. /\ pc' \in [Requests -> [Activations -> Steps]]
      /\ pc'[r][k] = "sent"
      /\ \A s \in Requests, l \in Activations : s # r \/ l # k => pc'[s][l] = pc[s][l]
  BY <1>1, GotoMoves
<1>3. /\ wire' = Append(wire, chunk)
      /\ UNCHANGED <<pending_busy, pending_sequence, sequence, length, seq, irp>>
  BY DEF Send
<1>4. \A s \in Requests : ctx[s].sent \in Activations /\ ctx[s].sent \in Nat
  BY StageFacts, ParametersOk
<1>5. /\ k = ctx[r].sent /\ k < MaxChunks /\ k + 1 \in Activations /\ k \in Nat
      /\ ctx[r].info = k * MaxTransferSize
      /\ size \in Nat /\ size <= ctx[r].left /\ size <= MaxTransferSize
      /\ ctx[r].info + size <= length[r]
  BY ChunkFits, ParametersOk
<1>6. /\ ctx' \in [Requests -> ContextType]
      /\ ctx'[r].sent = k + 1 /\ ctx'[r].size = size
      /\ \A s \in Requests : ctx'[s].left = ctx[s].left /\ ctx'[s].info = ctx[s].info
      /\ \A s \in Requests \ {r} : ctx'[s] = ctx[s]
  <2>1. ctx' = [ctx EXCEPT ![r] = [ctx[r] EXCEPT !.sent = k + 1, !.size = size]]
    BY DEF Send
  <2> HIDE DEF size
  <2>2. /\ ctx'[r] \in ContextType
        /\ ctx'[r].sent = k + 1 /\ ctx'[r].size = size
        /\ ctx'[r].left = ctx[r].left /\ ctx'[r].info = ctx[r].info
    <3>1. k + 1 \in Nat /\ size \in Nat /\ ctx[r] \in ContextType
      BY <1>5, RequestTypes
    <3>2. ctx'[r] = [ctx[r] EXCEPT !.sent = k + 1, !.size = size]
      BY <2>1 DEF TypeOK
    <3>3. QED
      BY <3>1, <3>2 DEF ContextType
  <2>3. QED
    BY <2>1, <2>2 DEF TypeOK
<1>7. pc[r][k + 1] = "idle"
  BY <1>4, <1>5 DEF StageInv
<1>8. \A s \in Requests : Newest(s)' = IF s = r THEN "idle" ELSE Newest(s)
  BY <1>2, <1>4, <1>5, <1>6, <1>7 DEF Newest
<1>9. /\ ctx[r].info \in Nat /\ length[r] \in Nat /\ Len(wire) \in Nat
      /\ chunk.req = r /\ chunk.off = ctx[r].info /\ chunk.len = size
  BY RequestTypes, WireTypes
<1>10. chunk \in Chunk
  BY <1>5, <1>9 DEF Chunk
<1> HIDE DEF size, chunk
<1>11. /\ wire' \in Seq(Chunk) /\ Len(wire') = last /\ wire'[last] = chunk
       /\ \A i \in 1 .. Len(wire) : wire'[i] = wire[i]
       /\ wire' # <<>>
  BY <1>3, <1>10, WireTypes
<1>12. TypeOK'
  BY <1>2, <1>3, <1>6, <1>11 DEF TypeOK
<1>13. OwnerInv'
  BY <1>1, <1>3, KeepsBusy DEF Owns, OwningSteps
<1>14. StageInv'
  <2>1. \A s \in Requests, l \in Activations :
          /\ l > ctx'[s].sent => pc'[s][l] = "idle"
          /\ l < ctx'[s].sent => pc'[s][l] \in {"sent", "unbusy", "free_busy", "free", "done"}
    <3>1. \A l \in Activations :
            /\ l > k + 1 => pc'[r][l] = "idle"
            /\ l < k + 1 => pc'[r][l] \in {"sent", "unbusy", "free_busy", "free", "done"}
      BY <1>2, <1>5, ParametersOk DEF StageInv
    <3>2. QED
      BY <1>2, <1>6, <3>1 DEF StageInv
  <2>2. QED
    BY <1>4, <1>5, <1>6, <1>8, <2>1 DEF StageInv
<1>15. AccountInv'
  BY <1>3, <1>5, <1>6, <1>8 DEF AccountInv, Going
<1>16. pending_sequence = seq[r]
  BY <1>1 DEF SequenceInv
<1>17. SequenceInv'
  BY <1>1, <1>2, <1>3, ParametersOk DEF SequenceInv
<1>18. WireInv'
  <2>1. \A s \in Requests : pending_sequence = seq[s] => s = r
    <3>1. pc[r][0] # "idle"
      BY <1>1, <1>5, ParametersOk DEF StageInv
    <3>2. QED
      BY <1>16, <3>1, ParametersOk DEF SequenceInv
  <2>2. \A i \in 1 .. last : ctx'[wire'[i].req].sent > 0
    <3>1. ctx'[r].sent > 0
      BY <1>5, <1>6
    <3>2. \A i \in 1 .. Len(wire) : ctx'[wire[i].req].sent > 0
      BY <1>6, <3>1, WireTypes DEF WireInv
    <3>3. QED
      BY <1>9, <1>11, <3>1, <3>2
  <2>3. QED
    BY <1>3, <1>9, <1>11, <2>1, <2>2 DEF WireInv
<1>19. \A i \in 1 .. Len(wire) : wire[i].req = r =>
         wire[Len(wire)].req = r /\ k > 0
  BY <1>5, <1>16 DEF WireInv
<1>20. OrderKept'
  <2> SUFFICES ASSUME NEW i \in 1 .. last, NEW j \in 1 .. last, NEW l \in 1 .. last,
                      i < j, j < l, wire'[i].req = wire'[l].req
               PROVE  wire'[j].req = wire'[i].req
    BY <1>11 DEF OrderKept
  <2>1. i \in 1 .. Len(wire) /\ j \in 1 .. Len(wire)
    BY <1>9
  <2>2. CASE l \in 1 .. Len(wire)
    BY <1>11, <2>1, <2>2 DEF OrderKept
  <2>3. CASE l = last
    <3>1. wire[i].req = r /\ wire[Len(wire)].req = r
      BY <1>9, <1>11, <1>19, <2>1, <2>3
    <3>2. CASE j = Len(wire)
      BY <1>11, <2>1, <3>1, <3>2
    <3>3. CASE j < Len(wire)
      <4>1. Len(wire) \in 1 .. Len(wire) /\ wire[i].req = wire[Len(wire)].req
        BY <1>9, <2>1, <3>1
      <4>2. wire[j].req = wire[i].req
        BY <2>1, <3>3, <4>1 DEF OrderKept
      <4>3. QED
        BY <1>11, <2>1, <4>2
    <3>4. QED
      BY <1>9, <2>1, <3>2, <3>3
  <2>4. QED
    BY <1>9, <2>2, <2>3
<1>21. TileInv'
  <2> SUFFICES ASSUME NEW i \in 1 .. last,
                      \A m \in i + 1 .. last : wire'[m].req # wire'[i].req
               PROVE  /\ Newest(wire[i].req)' = "idle" =>
                           /\ wire'[i].off = ctx'[wire'[i].req].info
                           /\ wire'[i].len = ctx'[wire'[i].req].size
                      /\ Newest(wire[i].req)' \in Going =>
                           wire'[i].off + wire'[i].len = ctx'[wire'[i].req].info
    BY <1>11 DEF TileInv
  <2>1. CASE i = last
    BY <1>6, <1>8, <1>9, <1>11, <2>1 DEF Going
  <2>2. CASE i \in 1 .. Len(wire)
    <3>1. wire'[i] = wire[i] /\ wire[i].req \in Requests
      BY <1>11, <2>2, WireTypes
    <3>2. wire[i].req # r
      BY <1>9, <1>11, <2>2, <3>1
    <3>3. \A m \in i + 1 .. Len(wire) : wire[m].req # wire[i].req
      BY <1>9, <1>11, <2>2
    <3>4. QED
      BY <1>6, <1>8, <2>2, <3>1, <3>2, <3>3 DEF TileInv
  <2>3. QED
    BY <1>9, <2>1, <2>2
<1>22. ChunksTile'
  <2> SUFFICES ASSUME NEW j \in 1 .. last
               PROVE  /\ wire'[j].off + wire'[j].len <= length[wire'[j].req]
                      /\ (\A i \in 1 .. j - 1 : wire'[i].req # wire'[j].req) => wire'[j].off = 0
                      /\ \A i \in 1 .. j - 1 : Precedes(i, j)' =>
                           wire'[j].off = wire'[i].off + wire'[i].len
    BY <1>3, <1>11 DEF ChunksTile
  <2>1. CASE j \in 1 .. Len(wire)
    <3>1. \A i \in 1 .. j : wire'[i] = wire[i] /\ i \in 1 .. Len(wire)
      BY <1>9, <1>11, <2>1
    <3>2. \A i \in 1 .. j - 1 : Precedes(i, j)' => Precedes(i, j)
      BY <2>1, <3>1 DEF Precedes
    <3>3. j \in 1 .. j /\ \A i \in 1 .. j - 1 : i \in 1 .. j
      OBVIOUS
    <3>4. wire'[j].off + wire'[j].len <= length[wire'[j].req]
      BY <2>1, <3>1, <3>3 DEF ChunksTile
    <3>5. (\A i \in 1 .. j - 1 : wire'[i].req # wire'[j].req) => wire'[j].off = 0
      BY <2>1, <3>1, <3>3 DEF ChunksTile
    <3>6. \A i \in 1 .. j - 1 : Precedes(i, j)' => wire'[j].off = wire'[i].off + wire'[i].len
      BY <2>1, <3>1, <3>2, <3>3 DEF ChunksTile
    <3>7. QED
      BY <3>4, <3>5, <3>6
  <2>2. CASE j = last
    <3>1. wire'[j].off = ctx[r].info /\ wire'[j].len = size /\ wire'[j].req = r
      BY <1>9, <1>11, <2>2
    <3>2. (\A i \in 1 .. j - 1 : wire'[i].req # wire'[j].req) => wire'[j].off = 0
      <4>1. k > 0 => wire # <<>> /\ wire[Len(wire)].req = r
        BY <1>5, <1>16 DEF WireInv
      <4>2. k > 0 => Len(wire) \in 1 .. j - 1 /\ wire'[Len(wire)].req = r
        <5>1. wire # <<>> => Len(wire) \in 1 .. Len(wire)
          BY WireTypes
        <5>2. QED
          BY <1>9, <1>11, <2>2, <4>1, <5>1
      <4>3. QED
        BY <1>5, <3>1, <4>2, ParametersOk
    <3>3. ASSUME NEW i \in 1 .. j - 1, Precedes(i, j)'
          PROVE  wire'[j].off = wire'[i].off + wire'[i].len
      <4>1. i \in 1 .. Len(wire) /\ wire'[i] = wire[i] /\ wire[i].req = r
        BY <1>9, <1>11, <2>2, <3>1, <3>3 DEF Precedes
      <4>2. \A m \in i + 1 .. Len(wire) : wire[m].req # r
        BY <1>9, <1>11, <2>2, <3>1, <3>3 DEF Precedes
      <4>3. Newest(r) \in Going
        BY <1>1, <1>5 DEF Newest, Going
      <4>4. QED
        BY <3>1, <4>1, <4>2, <4>3 DEF TileInv
    <3>4. QED
      BY <1>3, <1>5, <3>1, <3>2, <3>3
  <2>3. QED
    BY <1>9, <2>1, <2>2
<1>23. EndInv'
  <2>1. ~Over(r) /\ \A s \in Requests \ {r} : Over(s)' = Over(s)
    BY <1>1, <1>5, <1>8 DEF Over, Newest
  <2>2. QED
    BY <1>2, <1>3, <1>6, <2>1 DEF EndInv
<1>24. QED
  BY <1>12, <1>13, <1>14, <1>15, <1>17, <1>18, <1>20, <1>21, <1>22, <1>23

-----------------------------------------------------------------------------
\* Every other step moves one activation.
LEMMA MoveKeeps ==
  ASSUME IInv, NEW r \in Requests, NEW k \in Activations, Moves(r, k),
         pending_busy' \in BOOLEAN, OwnerInv'
  PROVE  IInv'
BY MoveKeepsTypes, MoveKeepsStages, MoveKeepsWire DEF IInv

\* The status that an activation leaves in its IRP changes nothing else there.
LEMMA StatusOnly ==
  ASSUME TypeOK, NEW r \in Requests, NEW status \in {"pending", "success", "failed"},
         irp' = irp \/ irp' = [irp EXCEPT ![r].status = status]
  PROVE  /\ irp' \in [Requests -> IrpType]
         /\ \A s \in Requests : irp'[s].ends = irp[s].ends /\ irp'[s].info = irp[s].info
<1>1. CASE irp' = irp
  BY <1>1 DEF TypeOK
<1>2. CASE irp' = [irp EXCEPT ![r].status = status]
  <2>1. irp' = [irp EXCEPT ![r] = [irp[r] EXCEPT !.status = status]]
    BY <1>2
  <2>2. /\ irp'[r] \in IrpType
        /\ irp'[r].ends = irp[r].ends /\ irp'[r].info = irp[r].info
    BY <2>1, RequestTypes DEF TypeOK, IrpType
  <2>3. QED
    BY <2>1, <2>2 DEF TypeOK
<1>3. QED
  BY <1>1, <1>2

LEMMA ClaimKeeps ==
  ASSUME IInv, NEW r \in Requests, NEW k \in Activations, Claim(r, k)
  PROVE  IInv'
<1> USE DEF IInv
<1> DEFINE to == IF pending_busy THEN "free" ELSE IF k = 0 THEN "announce" ELSE "compare"
<1>1. /\ pc[r][k] = "claim" /\ Goto(r, k, to) /\ pending_busy'
      /\ irp' = irp \/ irp' = [irp EXCEPT ![r].status = "success"]
      /\ UNCHANGED <<pending_sequence, sequence, length, seq, ctx, wire>>
  BY DEF Claim
<1>2. k \in Nat /\ to \in Steps /\ Allowed(r, k, pc[r][k], to)
  BY <1>1, ParametersOk DEF Steps, Allowed
<1>3. Moves(r, k)
  BY <1>1, <1>2, StatusOnly DEF Moves
<1>4. OwnerInv'
  <2>1. CASE pending_busy
    BY <1>1, <1>2, <2>1, KeepsBusy DEF Owns, OwningSteps, TypeOK
  <2>2. CASE ~pending_busy
    BY <1>1, <2>2, TakesBusy DEF OwningSteps
  <2>3. QED
    BY <2>1, <2>2
<1>5. pending_busy' \in BOOLEAN
  BY DEF Claim
<1>6. QED
  BY <1>3, <1>4, <1>5, MoveKeeps

LEMMA BuildKeeps ==
  ASSUME IInv, NEW r \in Requests, Build(r)
  PROVE  IInv'
<1> USE DEF IInv
<1>1. PICK to \in {"send", "free_busy"} : Goto(r, 0, to)
  BY DEF Build
<1>2. /\ pc[r][0] = "build" /\ pending_busy' = pending_busy
      /\ irp' = irp \/ irp' = [irp EXCEPT ![r].status = "failed"]
      /\ UNCHANGED <<pending_sequence, sequence, length, seq, ctx, wire>>
  BY DEF Build
<1>3. to \in Steps /\ 0 \in Activations /\ Allowed(r, 0, pc[r][0], to)
  BY <1>2, ParametersOk DEF Steps, Allowed
<1>4. Moves(r, 0)
  BY <1>1, <1>2, <1>3, StatusOnly DEF Moves
<1>5. OwnerInv'
  BY <1>1, <1>2, <1>3, KeepsBusy DEF Owns, OwningSteps
<1>6. QED
  BY <1>2, <1>3, <1>4, <1>5, MoveKeeps DEF TypeOK

\* The steps that move an activation and touch nothing but pending_busy.
LEMMA StepKeeps ==
  ASSUME IInv, NEW r \in Requests, NEW k \in Activations, NEW to \in Steps,
         Goto(r, k, to), Allowed(r, k, pc[r][k], to), Owns(r, k),
         pending_busy' = (pending_busy /\ to \in OwningSteps),
         UNCHANGED <<pending_sequence, sequence, length, seq, ctx, irp, wire>>
  PROVE  IInv'
<1> USE DEF IInv
<1>1. Moves(r, k)
  BY StatusOnly DEF Moves, TypeOK
<1>2. pending_busy
  BY DEF OwnerInv
<1>3. CASE to \in OwningSteps
  BY <1>1, <1>2, <1>3, KeepsBusy, MoveKeeps
<1>4. CASE to \notin OwningSteps
  BY <1>1, <1>2, <1>4, GivesBusy, MoveKeeps
<1>5. QED
  BY <1>3, <1>4

LEMMA RunKeeps ==
  ASSUME IInv, NEW r \in Requests, NEW k \in Activations, Run(r, k)
  PROVE  IInv'
<1>1. (\E s \in Requests, l \in Activations : Owns(s, l)) => pending_busy = TRUE
  BY DEF IInv, OwnerInv, TypeOK
<1>2. CASE Claim(r, k)
  BY <1>2, ClaimKeeps
<1>3. CASE Send(r, k)
  BY <1>3, SendKeeps
<1>4. CASE Free(r, k)
  BY <1>4, FreeKeeps
<1>5. CASE Compare(r, k)
  BY <1>1, <1>5, StepKeeps DEF Compare, Owns, OwningSteps, Steps, Allowed
<1>6. CASE AllocateMdl(r, k)
  BY <1>1, <1>6, StepKeeps DEF AllocateMdl, Owns, OwningSteps, Steps, Allowed
<1>7. CASE SendReturns(r, k)
  BY <1>1, <1>7, StepKeeps DEF SendReturns, Owns, OwningSteps, Steps, Allowed
<1>8. CASE SendFails(r, k)
  BY <1>1, <1>8, StepKeeps DEF SendFails, Owns, OwningSteps, Steps, Allowed
<1>9. CASE Unbusy(r, k)
  BY <1>1, <1>9, StepKeeps DEF Unbusy, Owns, OwningSteps, Steps, Allowed
<1>10. CASE FreeBusy(r, k)
  BY <1>1, <1>10, StepKeeps DEF FreeBusy, Owns, OwningSteps, Steps, Allowed
<1>11. QED
  BY <1>2, <1>3, <1>4, <1>5, <1>6, <1>7, <1>8, <1>9, <1>10 DEF Run

LEMMA InitInv == Init => IInv
<1> SUFFICES ASSUME Init PROVE IInv
  OBVIOUS
<1>1. \A r \in Requests : length[r] \in Nat
  BY SizesAssumption DEF Init
<1>2. /\ ctx \in [Requests -> ContextType] /\ irp \in [Requests -> IrpType]
      /\ \A r \in Requests : ctx[r].sent = 0 /\ ctx[r].info = 0 /\ ctx[r].left = length[r]
      /\ \A r \in Requests : irp[r].ends = 0
  BY <1>1 DEF Init, ContextType, IrpType
<1>3. /\ pc \in [Requests -> [Activations -> Steps]]
      /\ \A r \in Requests, k \in Activations : pc[r][k] = "idle"
  BY DEF Init, Steps
<1>4. wire = <<>> /\ wire \in Seq(Chunk) /\ Len(wire) = 0 /\ 1 .. Len(wire) = {}
  BY DEF Init
<1>5. TypeOK
  BY <1>2, <1>3, <1>4 DEF Init, TypeOK, NoRequest
<1>6. OwnerInv
  BY <1>3 DEF Init, OwnerInv, Owns, OwningSteps
<1>7. StageInv
  <2>1. \A r \in Requests : ctx[r].sent = 0 /\ Newest(r) = "idle"
    BY <1>2, <1>3, ParametersOk DEF Newest
  <2>2. \A k \in Activations : ~(k < 0)
    BY ParametersOk
  <2>3. QED
    BY <1>3, <2>1, <2>2, ParametersOk DEF StageInv
<1>8. AccountInv
  BY <1>1, <1>2 DEF AccountInv
<1>9. SequenceInv
  BY <1>3, ParametersOk DEF Init, SequenceInv, NoRequest
<1>10. WireInv /\ OrderKept /\ TileInv /\ ChunksTile
  BY <1>2, <1>4 DEF WireInv, OrderKept, TileInv, ChunksTile
<1>11. EndInv
  BY <1>2, <1>3 DEF EndInv
<1>12. QED
  BY <1>5, <1>6, <1>7, <1>8, <1>9, <1>10, <1>11 DEF IInv

LEMMA NextInv == IInv /\ [Next]_vars => IInv'
<1> SUFFICES ASSUME IInv, [Next]_vars PROVE IInv'
  OBVIOUS
<1>1. ASSUME NEW r \in Requests, Begin(r) PROVE IInv'
  BY <1>1, BeginKeeps
<1>2. ASSUME NEW r \in Requests, Announce(r) PROVE IInv'
  BY <1>2, AnnounceKeeps
<1>3. ASSUME NEW r \in Requests, Build(r) PROVE IInv'
  BY <1>3, BuildKeeps
<1>4. ASSUME NEW r \in Requests, NEW k \in Activations, Run(r, k) PROVE IInv'
  BY <1>4, RunKeeps
<1>5. ASSUME NEW r \in Requests, NEW k \in Activations, Completes(r, k) PROVE IInv'
  BY <1>5, CompletionKeeps DEF Completes
<1>6. CASE UNCHANGED vars
  BY <1>6 DEF vars, IInv, TypeOK, OwnerInv, Owns, StageInv, Newest, AccountInv, SequenceInv,
              WireInv, OrderKept, TileInv, ChunksTile, Precedes, EndInv, Over
<1>7. QED
  BY <1>1, <1>2, <1>3, <1>4, <1>5, <1>6 DEF Next, Started, Terminated

LEMMA Invariant == Spec => []IInv
BY InitInv, NextInv, PTL DEF Spec

-----------------------------------------------------------------------------
\* The endpoint's lock has one owner at most, and its word says whether.
LEMMA OneOwner == IInv => EndpointSafe
<1> SUFFICES ASSUME IInv PROVE Cardinality(Busy) = IF pending_busy THEN 1 ELSE 0
  BY DEF IInv, EndpointSafe, BusyIsALock
<1>1. Busy = {a \in Requests \X Activations : Owns(a[1], a[2])}
  BY DEF Busy, Owns, OwningSteps
<1>2. pending_busy \in BOOLEAN /\ OwnerInv
  BY DEF IInv, TypeOK
<1>3. CASE ~pending_busy
  <2>1. Busy = {}
    BY <1>1, <1>2, <1>3 DEF OwnerInv
  <2>2. QED
    BY <1>3, <2>1, FS_EmptySet
<1>4. CASE pending_busy
  <2>1. PICK r \in Requests, k \in Activations : Owns(r, k)
    BY <1>2, <1>4 DEF OwnerInv
  <2>2. Busy = {<<r, k>>}
    BY <1>1, <1>2, <2>1 DEF OwnerInv
  <2>3. QED
    BY <1>4, <2>2, FS_Singleton
<1>5. QED
  BY <1>2, <1>3, <1>4

\* pending_busy is a lock with one owner at most, whichever exit of transfer
\* and transfer_complete gives it back, for any requests on the endpoint.
THEOREM EndpointCorrect == Spec => []EndpointSafe
BY Invariant, OneOwner, PTL

\* transfer_complete, Note 1: no chunk of another request comes between two
\* chunks of one, for any requests and lengths.
THEOREM OrderCorrect == Spec => []OrderKept
<1>1. IInv => OrderKept
  BY DEF IInv
<1>2. QED
  BY <1>1, Invariant, PTL

\* The chunks of a transfer cover its buffer from the start without a gap, and
\* a request that has ended reports all that came back and expects no more,
\* for any length, maximum size and packet size.
THEOREM DataCorrect == Spec => []DataSafe
<1>1. IInv => DataSafe
  <2> SUFFICES ASSUME IInv PROVE EndsComplete
    BY DEF IInv, DataSafe
  <2>1. \A r \in Requests : irp[r].ends > 0 => Newest(r) # "idle" /\ irp[r].info = ctx[r].info
    BY DEF IInv, EndInv, Over
  <2>2. \A r \in Requests : ctx[r].info + ctx[r].left = length[r]
    BY DEF IInv, AccountInv
  <2>3. QED
    BY <2>1, <2>2 DEF EndsComplete, Newest
<1>2. QED
  BY <1>1, Invariant, PTL
=============================================================================
