--------------------------- MODULE BusListProofs ---------------------------
(***************************************************************************)
(* The lists of usb_find_devices, for any number of slots, models and      *)
(* structures: they are well formed at every step, exact after a scan      *)
(* that nothing disturbed, and a device that stays keeps its structure.    *)
(*                                                                         *)
(* The argument.  Each list has its structures as a set, its pointers in   *)
(* that set answer each other, and a rank grows along it; so an insertion  *)
(* or a removal is a matter of the entries next to it.  That the list      *)
(* reaches all of its set follows from the ranks, since the set is finite. *)
(* What a scan finds is current for the slots it has looked at, the loop   *)
(* over the bus keeps what was found again, and each name that comes or    *)
(* goes is one more in the difference between before and after.            *)
(*                                                                         *)
(* The second part is the parser: whatever configuration a device has, it  *)
(* comes out as it is, by induction over endpoints, settings and           *)
(* interfaces, each of which begins where the one before it ends.          *)
(***************************************************************************)
EXTENDS BusList, FiniteSetTheorems, SequenceTheorems, WellFoundedInduction, TLAPS

\* A list from begin through the structures of L: the pointers are in it and
\* answer each other, and the rank r grows along it.
Chain(h, L, begin, r) ==
  /\ begin = None <=> L = {}
  /\ begin # None => begin \in L
  /\ \A n \in L :
       /\ h[n].next \in L \union {None} /\ h[n].prev \in L \union {None}
       /\ h[n].next # None => h[h[n].next].prev = n /\ r[n] < r[h[n].next]
       /\ h[n].prev # None => h[h[n].prev].next = n
       /\ h[n].prev = None <=> n = begin

\* What is left of a list for a loop that is at first.
Rest(h, R, first) ==
  /\ first = None <=> R = {}
  /\ first # None => first \in R
  /\ \A n \in R :
       /\ h[n].next \in R \union {None}
       /\ h[n].prev \in R <=> n # first

Slot(n) == heap[n].name.slot

NamesOf(S) == {heap[n].name : n \in S}

Old == {b[2] : b \in before}

\* No two structures of a list are of devices in the same slot.
OneEach(S) == \A n, m \in S : Slot(n) = Slot(m) => n = m

\* The variables on their own.
PlainInv ==
  /\ plugged \in [Slots -> Models \union {None}]
  /\ heap \in [Nodes -> Node]
  /\ pc \in {"idle", "scan", "compare", "add", "crashed"}
  /\ slot \in 1 .. NSlots + 1
  /\ changes \in Int /\ changes >= -1
  /\ hub \in BOOLEAN /\ steady \in BOOLEAN
  /\ children \in Seq(Nodes) /\ Len(children) <= NSlots
  /\ before \subseteq Nodes \X Name
  /\ \A b, c \in before : b[2].slot = c[2].slot => b[2] = c[2]

\* The bus has the structures D, the list of the scan F, and the loop over the
\* bus has still R before it.
ListInv(D, F, R, r) ==
  /\ r \in [Nodes -> Int]
  /\ D \subseteq Nodes /\ F \subseteq Nodes /\ R \subseteq D /\ D \intersect F = {}
  /\ Chain(heap, D, devices, r) /\ Chain(heap, F, found, r)
  /\ \A n \in D \union F : heap[n].live /\ heap[n].name \in Name
  /\ \A n \in Nodes \ D : heap[n].live => heap[n].config = None
  /\ OneEach(D) /\ OneEach(F)
  /\ IF pc = "compare" THEN Rest(heap, R, cur) ELSE R = {}
  /\ pc # "compare" => cur = IF pc = "add" THEN found ELSE None
  /\ pc \in {"idle", "scan"} /\ hub => D = {children[k] : k \in DOMAIN children}

\* What has been counted, and what is known of the names.
CountInv(D, F, R) ==
  /\ (IF changes = -1 THEN 0 ELSE changes) =
       Cardinality(Old \ NamesOf(D)) + Cardinality(NamesOf(D) \ Old)
  /\ changes = -1 => pc = "idle"
  /\ \A b \in before, n \in D : heap[n].name = b[2] => n = b[1]
  /\ pc = "scan" => changes = 0 /\ Old \subseteq NamesOf(D)
  /\ pc \in {"scan", "compare"} => NamesOf(D) \subseteq Old
  /\ pc \in {"compare", "add"} =>
       /\ \A m \in F : heap[m].name \in Old => heap[m].name \in NamesOf(R)
       /\ \A n \in D \ R, m \in F : Slot(n) # Slot(m)

\* The structures S are those of the devices in the slots before s.
Current(S, s) ==
  /\ \A n \in S : plugged[Slot(n)] = heap[n].name.model
  /\ \A t \in Slots : t < s /\ plugged[t] # None =>
       \E n \in S : heap[n].name = [slot |-> t, model |-> plugged[t]]

\* What the scan has found, as long as nothing comes, goes or fails.
ExactInv(D, F, R) ==
  /\ pc = "scan" => \A n \in F : Slot(n) < slot
  /\ pc = "scan" /\ steady => Current(F, slot)
  /\ pc \in {"compare", "add"} /\ steady => Current(F \union (D \ R), NSlots + 1)
  /\ pc = "idle" /\ changes # -1 /\ steady => Current(D, NSlots + 1)

BusInv(D, F, R, r) == PlainInv /\ ListInv(D, F, R, r) /\ CountInv(D, F, R) /\ ExactInv(D, F, R)

-----------------------------------------------------------------------------
(* Ranks.                                                                  *)

\* Some structures are finitely many.
LEMMA PartIsFinite == \A S \in SUBSET Nodes : IsFiniteSet(S)
<1>1. IsFiniteSet(Nodes)
  BY BusAssumption
<1>2. QED
  BY <1>1, FS_Subset

\* In a finite set something has the least rank: of the sets of those below
\* each of its members, one has no other inside it.
LEMMA LeastRank ==
  ASSUME NEW U, IsFiniteSet(U), U # {}, NEW r, \A n \in U : r[n] \in Int
  PROVE  \E n \in U : \A m \in U : r[n] <= r[m]
<1> DEFINE Below(n) == {m \in U : r[m] < r[n]}
           Belows == {Below(n) : n \in U}
<1>1. Belows \subseteq FiniteSubsetsOf(U) /\ Belows # {}
  <2>1. \A S \in SUBSET U : IsFiniteSet(S)
    BY FS_Subset
  <2>2. ASSUME NEW n \in U PROVE Below(n) \in FiniteSubsetsOf(U)
    BY <2>1 DEF FiniteSubsetsOf
  <2>3. QED
    BY <2>2
<1>2. \E x \in Belows : \A y \in Belows : <<y, x>> \notin StrictSubsetOrdering(U)
  <2>1. IsWellFoundedOn(StrictSubsetOrdering(U), FiniteSubsetsOf(U))
    BY FS_StrictSubsetOrderingWellFounded
  <2> HIDE DEF Belows
  <2>2. QED
    BY <1>1, <2>1, WFMin
<1>3. PICK n \in U : \A y \in Belows : <<y, Below(n)>> \notin StrictSubsetOrdering(U)
  BY <1>2
<1>4. ASSUME NEW m \in U, r[m] < r[n] PROVE FALSE
  <2>1. m \in Below(n) /\ m \notin Below(m) /\ Below(m) \subseteq Below(n)
    BY <1>4
  <2>2. <<Below(m), Below(n)>> \in StrictSubsetOrdering(U)
    BY <2>1 DEF StrictSubsetOrdering
  <2>3. QED
    BY <1>3, <2>2
<1>5. QED
  BY <1>4

\* A list of which only its first entry has no successor in it is that entry.
LEMMA OnlyOne ==
  ASSUME NEW h, NEW L, L \subseteq Nodes, NEW begin, NEW r \in [Nodes -> Int], Chain(h, L, begin, r),
         NEW R, R \subseteq L, NEW first \in R, Rest(h, R, first), h[first].next = None
  PROVE  R = {first}
<1>1. ASSUME R \ {first} # {} PROVE FALSE
  <2>0. R \ {first} \in SUBSET Nodes /\ \A m \in R \ {first} : r[m] \in Int
    OBVIOUS
  <2>1. PICK n \in R \ {first} : \A m \in R \ {first} : r[n] <= r[m]
    BY <1>1, <2>0, PartIsFinite, LeastRank
  <2>2. h[n].prev \in R /\ h[n].prev # None
    BY <2>1, BusAssumption DEF Rest
  <2>3. h[h[n].prev].next = n /\ n # None
    BY <2>1, <2>2, BusAssumption DEF Chain
  <2>4. h[n].prev # first
    BY <2>3
  <2>5. r[h[n].prev] < r[n]
    BY <2>1, <2>2, <2>3 DEF Chain
  <2>6. r[n] <= r[h[n].prev] /\ r[n] \in Int /\ r[h[n].prev] \in Int
    BY <2>1, <2>2, <2>4
  <2>7. QED
    BY <2>5, <2>6
<1>2. QED
  BY <1>1

\* A whole list is what is left of it at its beginning.
LEMMA WholeIsRest ==
  ASSUME NEW h, NEW L, L \subseteq Nodes, NEW begin, NEW r \in [Nodes -> Int], Chain(h, L, begin, r)
  PROVE  Rest(h, L, begin)
<1>1. None \notin L
  BY BusAssumption
<1>2. QED
  BY <1>1 DEF Chain, Rest

-----------------------------------------------------------------------------
(* The operations on lists.                                                *)

\* A structure with other pointers is one.
LEMMA NodeFacts ==
  /\ \A v \in Node, a, b \in Address : [v EXCEPT !.next = a, !.prev = b] \in Node
  /\ \A v \in Node, a \in Address : [v EXCEPT !.next = a] \in Node
  /\ \A v \in Node, a \in Address : [v EXCEPT !.prev = a] \in Node
BY DEF Node

\* LIST_ADD: which pointers are written, and nothing else.
LEMMA AddFacts ==
  ASSUME NEW h \in [Nodes -> Node], NEW begin \in Address, NEW ent \in Nodes, begin # ent
  PROVE  /\ ListAdd(h, begin, ent) \in [Nodes -> Node]
         /\ ListAdd(h, begin, ent)[ent].next = begin /\ ListAdd(h, begin, ent)[ent].prev = None
         /\ begin # None => ListAdd(h, begin, ent)[begin].prev = ent
                            /\ ListAdd(h, begin, ent)[begin].next = h[begin].next
         /\ \A n \in Nodes \ {ent, begin} : ListAdd(h, begin, ent)[n] = h[n]
         /\ \A n \in Nodes : /\ ListAdd(h, begin, ent)[n].live = h[n].live
                             /\ ListAdd(h, begin, ent)[n].name = h[n].name
                             /\ ListAdd(h, begin, ent)[n].config = h[n].config
<1> DEFINE g == ListAdd(h, begin, ent)
<1>1. None \in Address /\ ent \in Address
  BY DEF Address
<1>2. \A n \in Nodes : h[n] \in Node
  OBVIOUS
<1>3. \A n \in Nodes : g[n] = IF n = ent THEN [h[n] EXCEPT !.next = begin, !.prev = None]
                              ELSE IF n = begin THEN [h[n] EXCEPT !.prev = ent] ELSE h[n]
  BY DEF ListAdd
<1>4. ASSUME NEW n \in Nodes PROVE g[n] \in Node
  <2>1. [h[n] EXCEPT !.next = begin, !.prev = None] \in Node /\ [h[n] EXCEPT !.prev = ent] \in Node
    BY <1>1, <1>2, NodeFacts
  <2> HIDE DEF g
  <2>2. QED
    BY <1>2, <1>3, <2>1
<1>5. g \in [Nodes -> Node]
  BY <1>4 DEF ListAdd
<1>6. ASSUME NEW n \in Nodes
      PROVE g[n].live = h[n].live /\ g[n].name = h[n].name /\ g[n].config = h[n].config
  BY <1>2, <1>3 DEF Node
<1>7. g[ent].next = begin /\ g[ent].prev = None
  BY <1>2, <1>3 DEF Node
<1>8. begin # None => begin \in Nodes
  BY DEF Address
<1>9. begin # None => g[begin].prev = ent /\ g[begin].next = h[begin].next
  BY <1>2, <1>3, <1>8 DEF Node
<1>10. QED
  BY <1>3, <1>5, <1>6, <1>7, <1>9

\* LIST_DEL, likewise.
LEMMA DelFacts ==
  ASSUME NEW h \in [Nodes -> Node], NEW ent \in Nodes, h[ent].next # ent, h[ent].prev # ent,
         h[ent].next = h[ent].prev => h[ent].next = None
  PROVE  /\ ListDel(h, ent) \in [Nodes -> Node]
         /\ ListDel(h, ent)[ent].next = None /\ ListDel(h, ent)[ent].prev = None
         /\ h[ent].prev # None => /\ ListDel(h, ent)[h[ent].prev].next = h[ent].next
                                  /\ ListDel(h, ent)[h[ent].prev].prev = h[h[ent].prev].prev
         /\ h[ent].next # None => /\ ListDel(h, ent)[h[ent].next].prev = h[ent].prev
                                  /\ ListDel(h, ent)[h[ent].next].next = h[h[ent].next].next
         /\ \A n \in Nodes \ {ent, h[ent].prev, h[ent].next} : ListDel(h, ent)[n] = h[n]
         /\ \A n \in Nodes : /\ ListDel(h, ent)[n].live = h[n].live
                             /\ ListDel(h, ent)[n].name = h[n].name
                             /\ ListDel(h, ent)[n].config = h[n].config
<1> DEFINE g == ListDel(h, ent)
           p == h[ent].prev
           q == h[ent].next
<1>1. None \in Address /\ p \in Address /\ q \in Address
  BY DEF Address, Node
<1>2. \A n \in Nodes : h[n] \in Node
  OBVIOUS
<1>3. \A n \in Nodes : g[n] = IF n = ent THEN [h[n] EXCEPT !.next = None, !.prev = None]
                              ELSE IF n = p THEN [h[n] EXCEPT !.next = q]
                              ELSE IF n = q THEN [h[n] EXCEPT !.prev = p] ELSE h[n]
  BY DEF ListDel
<1>4. ASSUME NEW n \in Nodes PROVE g[n] \in Node
  <2> HIDE DEF g, p, q
  <2>1. /\ [h[n] EXCEPT !.next = None, !.prev = None] \in Node
        /\ [h[n] EXCEPT !.next = q] \in Node /\ [h[n] EXCEPT !.prev = p] \in Node
    BY <1>1, <1>2, NodeFacts
  <2>2. QED
    BY <1>2, <1>3, <2>1
<1>5. g \in [Nodes -> Node]
  BY <1>4 DEF ListDel
<1>6. ASSUME NEW n \in Nodes
      PROVE g[n].live = h[n].live /\ g[n].name = h[n].name /\ g[n].config = h[n].config
  <2> HIDE DEF g, p, q
  <2>1. QED
    BY <1>2, <1>3 DEF Node
<1>7. g[ent].next = None /\ g[ent].prev = None
  <2> HIDE DEF g, p, q
  <2>1. QED
    BY <1>2, <1>3 DEF Node
<1>8. (p # None => p \in Nodes) /\ (q # None => q \in Nodes)
  BY <1>1 DEF Address
<1>9. p # None => g[p].next = q /\ g[p].prev = h[p].prev
  <2> p # ent
    OBVIOUS
  <2> HIDE DEF g, p, q
  <2>1. QED
    BY <1>2, <1>3, <1>8 DEF Node
<1>10. q # None => g[q].prev = p /\ g[q].next = h[q].next
  <2> q # ent /\ (q # None => p # q)
    OBVIOUS
  <2> HIDE DEF g, p, q
  <2>1. QED
    BY <1>2, <1>3, <1>8 DEF Node
<1>11. \A n \in Nodes \ {ent, p, q} : g[n] = h[n]
  <2> HIDE DEF g, p, q
  <2>1. QED
    BY <1>3
<1>12. QED
  BY <1>5, <1>6, <1>7, <1>9, <1>10, <1>11

\* A list keeps its shape when its own structures keep theirs.
LEMMA ChainSame ==
  ASSUME NEW h, NEW g, NEW L, NEW begin, NEW r, NEW q, Chain(h, L, begin, r),
         None \notin L,
         \A n \in L : g[n].next = h[n].next /\ g[n].prev = h[n].prev /\ q[n] = r[n]
  PROVE  Chain(g, L, begin, q)
BY DEF Chain

LEMMA RestSame ==
  ASSUME NEW h, NEW g, NEW R, NEW first, Rest(h, R, first),
         \A n \in R : g[n].next = h[n].next /\ g[n].prev = h[n].prev
  PROVE  Rest(g, R, first)
BY DEF Rest

\* The neighbours of an entry are its list's, and two.
LEMMA Neighbours ==
  ASSUME NEW h \in [Nodes -> Node], NEW L, L \subseteq Nodes, NEW begin, NEW r \in [Nodes -> Int],
         Chain(h, L, begin, r), NEW ent \in L
  PROVE  /\ h[ent].next \in L \union {None} /\ h[ent].prev \in L \union {None}
         /\ h[ent].next # ent /\ h[ent].prev # ent
         /\ h[ent].next = h[ent].prev => h[ent].next = None
<1>1. \A n \in L : r[n] \in Int
  OBVIOUS
<1>2. h[ent].next \in L \union {None} /\ h[ent].prev \in L \union {None}
  BY DEF Chain
<1>3. h[ent].next # None => r[ent] < r[h[ent].next] /\ h[ent].next \in L
  BY DEF Chain
<1>4. ASSUME h[ent].prev # None PROVE r[h[ent].prev] < r[ent] /\ h[ent].prev \in L
  <2>1. h[ent].prev \in L /\ h[h[ent].prev].next = ent
    BY <1>2, <1>4 DEF Chain
  <2>2. ent # None
    BY BusAssumption
  <2>3. r[h[ent].prev] < r[h[h[ent].prev].next]
    BY <2>1, <2>2 DEF Chain
  <2>4. QED
    BY <2>1, <2>3
<1>5. /\ h[ent].next # None => r[ent] < r[h[ent].next] /\ r[h[ent].next] \in Int
      /\ h[ent].prev # None => r[h[ent].prev] < r[ent] /\ r[h[ent].prev] \in Int
      /\ r[ent] \in Int /\ ent # None
  BY <1>1, <1>3, <1>4, BusAssumption
<1>6. h[ent].next # ent /\ h[ent].prev # ent
  BY <1>5
<1>7. h[ent].next = h[ent].prev => h[ent].next = None
  BY <1>5
<1>8. QED
  BY <1>2, <1>6, <1>7

\* The structures of L and ent, in a list that begins with ent; all others keep
\* their ranks.
HeadedBy(g, L, ent, r) ==
  \E q \in [Nodes -> Int] :
    Chain(g, L \union {ent}, ent, q) /\ \A n \in Nodes \ {ent} : q[n] = r[n]

\* LIST_ADD puts a structure that is not in it at the head of a list.
LEMMA AddToList ==
  ASSUME NEW h \in [Nodes -> Node], NEW L, L \subseteq Nodes, NEW begin, NEW r \in [Nodes -> Int],
         Chain(h, L, begin, r), NEW ent \in Nodes \ L
  PROVE  HeadedBy(ListAdd(h, begin, ent), L, ent, r)
<1> DEFINE g == ListAdd(h, begin, ent)
           q == [r EXCEPT ![ent] = IF begin = None THEN 0 ELSE r[begin] - 1]
<1>0. None \notin Nodes /\ ent # None
  BY BusAssumption
<1>1. (begin = None <=> L = {}) /\ (begin # None => begin \in L) /\ begin \in Address /\ begin # ent
  BY <1>0 DEF Chain, Address
<1>2. q \in [Nodes -> Int] /\ (\A n \in Nodes \ {ent} : q[n] = r[n])
      /\ (begin # None => q[ent] < q[begin])
  BY <1>1
<1>3. /\ g[ent].next = begin /\ g[ent].prev = None
      /\ begin # None => g[begin].prev = ent /\ g[begin].next = h[begin].next
      /\ \A n \in Nodes \ {ent, begin} : g[n] = h[n]
  BY <1>1, AddFacts
<1>4. \A n \in L : g[n].next = h[n].next /\ (g[n].prev = IF n = begin THEN ent ELSE h[n].prev)
  BY <1>1, <1>3
<1> HIDE DEF g, q
<1>5. ASSUME NEW n \in L
      PROVE /\ g[n].next \in L \union {None} /\ g[n].prev \in L \union {ent}
            /\ g[n].next # None => g[g[n].next].prev = n /\ q[n] < q[g[n].next]
            /\ g[g[n].prev].next = n
  <2>1. /\ h[n].next \in L \union {None} /\ h[n].prev \in L \union {None}
        /\ h[n].next # None => h[h[n].next].prev = n /\ r[n] < r[h[n].next]
        /\ h[n].prev # None => h[h[n].prev].next = n
        /\ h[n].prev = None <=> n = begin
    BY DEF Chain
  <2>2. n \in Nodes /\ n # ent /\ n # None /\ q[n] = r[n]
    BY <1>0, <1>2
  <2>3. ASSUME h[n].next # None PROVE g[g[n].next].prev = n /\ q[n] < q[g[n].next]
    <3>1. h[n].next \in L /\ h[n].next # begin /\ q[h[n].next] = r[h[n].next]
      <4>1. h[n].next \in L /\ h[h[n].next].prev = n
        BY <2>1, <2>3
      <4>2. h[n].next # begin
        BY <4>1, <2>2 DEF Chain
      <4>3. QED
        BY <4>1, <4>2, <1>2
    <3>2. QED
      BY <1>4, <2>1, <2>2, <2>3, <3>1
  <2>4. g[g[n].prev].next = n
    BY <1>1, <1>3, <1>4, <2>1
  <2>5. QED
    BY <1>4, <2>1, <2>3, <2>4
<1>6. Chain(g, L \union {ent}, ent, q)
  <2>1. ASSUME NEW n \in L \union {ent}
        PROVE /\ g[n].next \in L \union {ent} \union {None}
              /\ g[n].prev \in L \union {ent} \union {None}
              /\ g[n].next # None => g[g[n].next].prev = n /\ q[n] < q[g[n].next]
              /\ g[n].prev # None => g[g[n].prev].next = n
              /\ g[n].prev = None <=> n = ent
    <3>1. CASE n = ent
      BY <1>0, <1>1, <1>2, <1>3, <3>1
    <3>2. CASE n # ent
      <4>1. n \in L /\ None \notin L
        BY <1>0, <3>2
      <4>2. QED
        BY <1>0, <1>5, <3>2, <4>1
    <3>3. QED
      BY <3>1, <3>2
  <2>2. QED
    BY <1>0, <2>1 DEF Chain
<1>7. QED
  BY <1>2, <1>6 DEF g, HeadedBy

\* LIST_DEL takes a structure out of a list, wherever it is.
LEMMA DelFromList ==
  ASSUME NEW h \in [Nodes -> Node], NEW L, L \subseteq Nodes, NEW begin, NEW r \in [Nodes -> Int],
         Chain(h, L, begin, r), NEW ent \in L
  PROVE  Chain(ListDel(h, ent), L \ {ent}, Begin(h, begin, ent), r)
<1> DEFINE g == ListDel(h, ent)
           p == h[ent].prev
           s == h[ent].next
           first == Begin(h, begin, ent)
<1>0. None \notin Nodes /\ ent \in Nodes /\ ent # None
  BY BusAssumption
<1>1. /\ s \in L \union {None} /\ p \in L \union {None} /\ s # ent /\ p # ent
      /\ s = p => s = None
  BY Neighbours
<1>2. /\ p # None => g[p].next = s /\ g[p].prev = h[p].prev
      /\ s # None => g[s].prev = p /\ g[s].next = h[s].next
      /\ \A n \in Nodes \ {ent, p, s} : g[n] = h[n]
  BY <1>0, <1>1, DelFacts
<1>3. \A n \in L \ {ent} : /\ g[n].next = IF n = p THEN s ELSE h[n].next
                           /\ g[n].prev = IF n = s THEN p ELSE h[n].prev
  <2> HIDE DEF g, p, s
  <2>1. QED
    BY <1>0, <1>1, <1>2
<1>4. /\ p # None => h[p].next = ent
      /\ s # None => h[s].prev = ent /\ r[ent] < r[s]
      /\ p = None <=> ent = begin
  BY DEF Chain
<1>5. first = IF p = None THEN s ELSE begin
  BY DEF Begin
<1>6. \A n \in L : (h[n].next = ent <=> n = p) /\ (h[n].prev = ent <=> n = s)
  <2> SUFFICES ASSUME NEW n \in L PROVE (h[n].next = ent <=> n = p) /\ (h[n].prev = ent <=> n = s)
    OBVIOUS
  <2>1. /\ h[n].next # None => h[h[n].next].prev = n
        /\ h[n].prev # None => h[h[n].prev].next = n
    BY DEF Chain
  <2>2. n # None
    BY <1>0
  <2>3. QED
    BY <1>0, <1>4, <2>1, <2>2
<1>7. p # None => r[p] < r[ent]
  BY <1>0, <1>1, <1>4 DEF Chain
<1>8. (begin = None <=> L = {}) /\ (begin # None => begin \in L)
  BY DEF Chain
<1>9. s = None /\ p = None => L = {ent}
  BY <1>4, OnlyOne, WholeIsRest
<1> HIDE DEF g, p, s, first
<1>10. (first = None <=> L \ {ent} = {}) /\ (first # None => first \in L \ {ent})
  BY <1>0, <1>1, <1>4, <1>5, <1>8, <1>9
<1>11. ASSUME NEW n \in L \ {ent}
       PROVE /\ g[n].next \in (L \ {ent}) \union {None} /\ g[n].prev \in (L \ {ent}) \union {None}
             /\ g[n].next # None => g[g[n].next].prev = n /\ r[n] < r[g[n].next]
             /\ g[n].prev # None => g[g[n].prev].next = n
             /\ g[n].prev = None <=> n = first
  <2>1. /\ h[n].next \in L \union {None} /\ h[n].prev \in L \union {None}
        /\ h[n].next # None => h[h[n].next].prev = n /\ r[n] < r[h[n].next]
        /\ h[n].prev # None => h[h[n].prev].next = n
        /\ h[n].prev = None <=> n = begin
    BY DEF Chain
  <2>2. n \in Nodes /\ n # None /\ r[n] \in Int /\ r[ent] \in Int /\ (s # None => r[s] \in Int)
    BY <1>0, <1>1
  <2>3. (h[n].next = ent <=> n = p) /\ (h[n].prev = ent <=> n = s)
    BY <1>6
  <2>4. g[n].next = (IF n = p THEN s ELSE h[n].next) /\ g[n].prev = IF n = s THEN p ELSE h[n].prev
    BY <1>3
  <2>5. g[n].next \in (L \ {ent}) \union {None} /\ g[n].prev \in (L \ {ent}) \union {None}
    BY <1>1, <2>1, <2>3, <2>4
  <2>6. ASSUME g[n].next # None PROVE g[g[n].next].prev = n /\ r[n] < r[g[n].next]
    <3>1. CASE n = p
      <4>1. g[n].next = s /\ s \in L \ {ent} /\ g[s].prev = p
        BY <1>1, <1>3, <2>4, <2>6, <3>1
      <4>2. r[p] < r[ent] /\ r[ent] < r[s]
        BY <1>4, <1>7, <2>2, <2>6, <3>1, <4>1
      <4>3. QED
        BY <2>2, <2>6, <3>1, <4>1, <4>2
    <3>2. CASE n # p
      <4>1. g[n].next = h[n].next /\ h[n].next \in L \ {ent} /\ h[h[n].next].prev = n
        BY <2>1, <2>3, <2>4, <2>6, <3>2
      <4>2. h[n].next # s
        BY <1>4, <2>2, <4>1, <1>0
      <4>3. g[h[n].next].prev = n
        BY <1>3, <4>1, <4>2
      <4>4. QED
        BY <2>1, <2>6, <4>1, <4>3
    <3>3. QED
      BY <3>1, <3>2
  <2>7. ASSUME g[n].prev # None PROVE g[g[n].prev].next = n
    <3>1. CASE n = s
      <4>1. g[n].prev = p /\ p \in L \ {ent} /\ g[p].next = s
        BY <1>1, <1>3, <2>4, <2>7, <3>1
      <4>2. QED
        BY <3>1, <4>1
    <3>2. CASE n # s
      <4>1. g[n].prev = h[n].prev /\ h[n].prev \in L \ {ent} /\ h[h[n].prev].next = n
        BY <2>1, <2>3, <2>4, <2>7, <3>2
      <4>2. h[n].prev # p
        BY <1>4, <2>2, <4>1, <1>0
      <4>3. g[h[n].prev].next = n
        BY <1>3, <4>1, <4>2
      <4>4. QED
        BY <4>1, <4>3
    <3>3. QED
      BY <3>1, <3>2
  <2>8. g[n].prev = None <=> n = first
    BY <1>0, <1>1, <1>4, <1>5, <2>1, <2>2, <2>3, <2>4
  <2>9. QED
    BY <2>5, <2>6, <2>7, <2>8
<1>12. Chain(g, L \ {ent}, first, r)
  BY <1>10, <1>11 DEF Chain
<1>13. QED
  BY <1>12 DEF g, first

\* The loop goes on: what is left after an entry begins with the next one.
LEMMA RestGoesOn ==
  ASSUME NEW h, NEW L, L \subseteq Nodes, NEW begin, NEW r \in [Nodes -> Int], Chain(h, L, begin, r),
         NEW R, R \subseteq L, NEW first \in R, Rest(h, R, first)
  PROVE  Rest(h, R \ {first}, h[first].next)
<1>0. None \notin Nodes /\ None \notin L /\ None \notin R
  BY BusAssumption
<1>1. /\ h[first].next \in R \union {None} /\ h[first].prev \notin R
      /\ \A n \in R : /\ h[n].next \in R \union {None}
                      /\ h[n].prev \in R <=> n # first
  BY DEF Rest
<1>2. \A n \in L : /\ h[n].next # None => h[h[n].next].prev = n
                   /\ h[n].prev # None => h[h[n].prev].next = n
  BY DEF Chain
<1>3. h[first].next # first
  BY <1>0, <1>1, <1>2
<1>4. h[first].next = None <=> R \ {first} = {}
  BY <1>0, <1>1, <1>3, OnlyOne
<1>5. ASSUME NEW n \in R \ {first}
      PROVE h[n].next \in (R \ {first}) \union {None}
            /\ (h[n].prev \in R \ {first} <=> n # h[first].next)
  <2>1. h[n].next # first
    BY <1>0, <1>1, <1>2
  <2>2. h[n].prev \in R /\ h[h[n].prev].next = n
    BY <1>0, <1>1, <1>2
  <2>3. n = h[first].next => h[n].prev = first
    BY <1>0, <1>2
  <2>4. QED
    BY <1>1, <2>1, <2>2, <2>3
<1>6. QED
  BY <1>1, <1>3, <1>4, <1>5 DEF Rest

-----------------------------------------------------------------------------
(* Going along a list.                                                     *)

\* Induction up to a bound: a set that has 0, and with n also n + 1.
LEMMA UpToBound ==
  ASSUME NEW N \in Nat, NEW S, 0 \in S, \A n \in 0 .. N : n \in S /\ n < N => n + 1 \in S
  PROVE  \A n \in 0 .. N : n \in S
<1> DEFINE T == {n \in 0 .. N : n \notin S}
           r == [n \in 0 .. N |-> n]
<1>1. ASSUME T # {} PROVE FALSE
  <2>1. IsFiniteSet(T)
    <3>1. IsFiniteSet(0 .. N) /\ T \in SUBSET (0 .. N)
      BY FS_Interval
    <3> HIDE DEF T
    <3>2. QED
      BY <3>1, FS_Subset
  <2>2. \A n \in T : r[n] \in Int /\ r[n] = n
    OBVIOUS
  <2>3. PICK n \in T : \A m \in T : r[n] <= r[m]
    <3> HIDE DEF T, r
    <3>1. QED
      BY <1>1, <2>1, <2>2, LeastRank
  <2>4. n \in 0 .. N /\ n \notin S /\ \A m \in T : n <= m
    BY <2>2, <2>3
  <2>5. PICK m \in 0 .. N : n = m + 1
    BY <2>4
  <2>6. m \in S /\ m < N
    BY <2>4, <2>5
  <2>7. QED
    BY <2>4, <2>5, <2>6
<1>2. QED
  BY <1>1

Last == Cardinality(Nodes)

LEMMA LastIsNatural == Last \in Nat
<1>1. IsFiniteSet(Nodes)
  BY BusAssumption
<1>2. QED
  BY <1>1, FS_CardinalityType DEF Last

Following(a) == IF a = None THEN None ELSE heap[a].next

\* What Entries is: there is a function that its definition describes.
LEMMA EntriesIs ==
  ASSUME NEW begin
  PROVE  /\ DOMAIN Entries(begin) = 0 .. Last
         /\ Entries(begin)[0] = begin
         /\ \A k \in 1 .. Last : Entries(begin)[k] = Following(Entries(begin)[k - 1])
<1> DEFINE IsEntries(f, N) ==
             /\ f = [k \in 0 .. N |-> f[k]] /\ f[0] = begin
             /\ \A k \in 1 .. N : f[k] = Following(f[k - 1])
           S == {N \in 0 .. Last : \E f : IsEntries(f, N)}
<1>0. Last \in Nat
  BY LastIsNatural
<1>1. 0 \in S
  <2>1. \E f : f = [k \in 0 .. 0 |-> begin]
    OBVIOUS
  <2>2. PICK f : f = [k \in 0 .. 0 |-> begin]
    BY <2>1
  <2>3. IsEntries(f, 0)
    BY <2>2
  <2>4. QED
    BY <1>0, <2>3
<1>2. ASSUME NEW N \in 0 .. Last, N \in S, N < Last PROVE N + 1 \in S
  <2>1. PICK f : IsEntries(f, N)
    BY <1>2
  <2>2. \E g : g = [k \in 0 .. N + 1 |-> IF k \in 0 .. N THEN f[k] ELSE Following(f[N])]
    OBVIOUS
  <2>3. PICK g : g = [k \in 0 .. N + 1 |-> IF k \in 0 .. N THEN f[k] ELSE Following(f[N])]
    BY <2>2
  <2>4. /\ g = [k \in 0 .. N + 1 |-> g[k]]
        /\ \A k \in 0 .. N : g[k] = f[k]
        /\ g[N + 1] = Following(f[N])
    BY <2>3, <1>0
  <2>5. ASSUME NEW k \in 1 .. N + 1 PROVE g[k] = Following(g[k - 1])
    <3>1. CASE k = N + 1
      <4>1. k - 1 = N /\ N \in 0 .. N
        BY <3>1, <1>0
      <4>2. QED
        BY <2>4, <3>1, <4>1
    <3>2. CASE k # N + 1
      <4>1. k \in 1 .. N /\ k \in 0 .. N /\ k - 1 \in 0 .. N
        BY <3>2, <1>0
      <4>2. QED
        BY <2>1, <2>4, <4>1
    <3>3. QED
      BY <3>1, <3>2
  <2>6. g[0] = begin
    <3>1. 0 \in 0 .. N
      BY <1>0
    <3>2. QED
      BY <2>1, <2>4, <3>1
  <2>7. IsEntries(g, N + 1)
    BY <2>4, <2>5, <2>6
  <2>8. N + 1 \in 0 .. Last
    BY <1>0, <1>2
  <2>9. QED
    BY <2>7, <2>8
<1> HIDE DEF S
<1>3. \A N \in 0 .. Last : N \in S
  BY <1>0, <1>1, <1>2, UpToBound
<1> USE DEF S
<1>4. PICK f : IsEntries(f, Last)
  BY <1>0, <1>3
<1>5. f = [k \in 0 .. Last |-> IF k = 0 THEN begin
                               ELSE IF f[k - 1] = None THEN None ELSE heap[f[k - 1]].next]
  <2>1. ASSUME NEW k \in 0 .. Last
        PROVE f[k] = IF k = 0 THEN begin ELSE IF f[k - 1] = None THEN None ELSE heap[f[k - 1]].next
    <3>1. CASE k = 0
      BY <1>4, <3>1
    <3>2. CASE k # 0
      <4>1. k \in 1 .. Last
        BY <3>2, <1>0
      <4>2. QED
        BY <1>4, <3>2, <4>1 DEF Following
    <3>3. QED
      BY <3>1, <3>2
  <2>2. QED
    BY <1>4, <2>1
<1> DEFINE at == CHOOSE g : g = [k \in 0 .. Cardinality(Nodes) |->
                    IF k = 0 THEN begin ELSE IF g[k - 1] = None THEN None ELSE heap[g[k - 1]].next]
<1>6. at = [k \in 0 .. Last |-> IF k = 0 THEN begin
                                ELSE IF at[k - 1] = None THEN None ELSE heap[at[k - 1]].next]
  BY <1>5 DEF Last
<1>7. Entries(begin) = at
  BY DEF Entries
<1> HIDE DEF at
<1>8. at[0] = begin /\ DOMAIN at = 0 .. Last
  <2>1. 0 \in 0 .. Last
    BY <1>0
  <2>2. QED
    BY <1>6, <2>1
<1>9. ASSUME NEW k \in 1 .. Last PROVE at[k] = Following(at[k - 1])
  <2>1. k \in 0 .. Last /\ k # 0
    BY <1>0
  <2>2. at[k] = IF at[k - 1] = None THEN None ELSE heap[at[k - 1]].next
    BY <1>6, <2>1
  <2>3. QED
    BY <2>2 DEF Following
<1>10. QED
  BY <1>7, <1>8, <1>9

\* The entries at are those of L, each once.
Along(at, L) ==
  /\ \A k \in 0 .. Last : at[k] \in L \union {None}
  /\ \A k \in 0 .. Last : at[k] # None => \A i \in 0 .. k - 1 : at[i] # None /\ at[i] # at[k]
  /\ at[Last] = None
  /\ \A n \in L : \E k \in 0 .. Last - 1 : at[k] = n

\* Along a list the ranks grow, so its end is reached, and what is on the way
\* is all of it.
LEMMA AlongList ==
  ASSUME NEW L, L \subseteq Nodes, NEW begin, NEW r \in [Nodes -> Int], Chain(heap, L, begin, r),
         NEW at, at = Entries(begin)
  PROVE  Along(at, L)
<1>0. /\ Last \in Nat /\ None \notin Nodes /\ None \notin L
      /\ \A n \in L : r[n] \in Int
  BY LastIsNatural, BusAssumption
<1>1. /\ DOMAIN at = 0 .. Last /\ at[0] = begin
      /\ \A k \in 1 .. Last : at[k] = Following(at[k - 1])
  BY EntriesIs
<1>2. /\ begin \in L \union {None}
      /\ \A n \in L : /\ heap[n].next \in L \union {None} /\ heap[n].prev \in L \union {None}
                      /\ heap[n].next # None => r[n] < r[heap[n].next]
                      /\ heap[n].prev # None => heap[heap[n].prev].next = n
                      /\ heap[n].prev = None <=> n = begin
  BY DEF Chain
<1> HIDE DEF Chain
<1> DEFINE S == {k \in 0 .. Last :
                   /\ at[k] \in L \union {None}
                   /\ at[k] # None => \A i \in 0 .. k - 1 : at[i] \in L /\ r[at[i]] < r[at[k]]}
<1>3. 0 \in S
  BY <1>0, <1>1, <1>2
<1>4. ASSUME NEW k \in 0 .. Last, k \in S, k < Last PROVE k + 1 \in S
  <2>1. k + 1 \in 0 .. Last /\ at[k + 1] = Following(at[k]) /\ at[k] \in L \union {None}
    <3>1. k + 1 \in 1 .. Last /\ (k + 1) - 1 = k
      BY <1>0, <1>4
    <3>2. QED
      BY <1>0, <1>1, <1>4, <3>1
  <2>2. at[k + 1] \in L \union {None}
    BY <1>2, <2>1 DEF Following
  <2>3. ASSUME at[k + 1] # None, NEW i \in 0 .. (k + 1) - 1
        PROVE at[i] \in L /\ r[at[i]] < r[at[k + 1]]
    <3>1. at[k] \in L /\ at[k + 1] = heap[at[k]].next /\ r[at[k]] < r[at[k + 1]]
      BY <1>0, <1>2, <2>1, <2>3 DEF Following
    <3>2. CASE i = k
      BY <3>1, <3>2
    <3>3. CASE i # k
      <4>1. i \in 0 .. k - 1 /\ at[k] # None
        BY <1>0, <3>1, <3>3
      <4>2. at[i] \in L /\ r[at[i]] < r[at[k]]
        BY <1>4, <4>1
      <4>3. r[at[i]] \in Int /\ r[at[k]] \in Int /\ r[at[k + 1]] \in Int
        BY <1>0, <2>2, <2>3, <3>1, <4>2
      <4>4. QED
        BY <3>1, <4>2, <4>3
    <3>4. QED
      BY <3>2, <3>3
  <2>4. QED
    BY <2>1, <2>2, <2>3
<1> HIDE DEF S
<1>5. \A k \in 0 .. Last : k \in S
  BY <1>0, <1>3, <1>4, UpToBound
<1> USE DEF S
<1>6. ASSUME NEW k \in 0 .. Last, at[k] # None, NEW i \in 0 .. k - 1
      PROVE at[i] # None /\ at[i] # at[k]
  <2>1. at[i] \in L /\ r[at[i]] < r[at[k]] /\ at[k] \in L
    BY <1>5, <1>6
  <2>2. r[at[i]] \in Int
    BY <1>0, <2>1
  <2>3. QED
    BY <1>0, <2>1, <2>2
<1>7. \A k \in 0 .. Last : at[k] \in L \union {None}
  BY <1>5
<1> HIDE DEF S
<1>8. ASSUME at[Last] # None PROVE FALSE
  <2>1. \A k \in 0 .. Last : at[k] \in L
    <3>1. ASSUME NEW k \in 0 .. Last PROVE at[k] \in L
      <4>1. k = Last \/ k \in 0 .. Last - 1
        BY <1>0
      <4>2. Last \in 0 .. Last
        BY <1>0
      <4>3. at[k] # None
        BY <1>6, <1>8, <4>1, <4>2
      <4>4. QED
        BY <1>7, <4>3
    <3>2. QED
      BY <3>1
  <2>2. \E f : f = [k \in 0 .. Last |-> at[k]]
    OBVIOUS
  <2>3. PICK f : f = [k \in 0 .. Last |-> at[k]]
    BY <2>2
  <2>4. f \in [0 .. Last -> Nodes]
    BY <1>0, <2>1, <2>3
  <2>5. IsFiniteSet(Nodes) /\ IsFiniteSet(0 .. Last) /\ Cardinality(0 .. Last) = Last + 1
    <3>1. 0 \in Int /\ Last \in Int /\ ~(0 > Last) /\ (Last - 0) + 1 = Last + 1
      BY <1>0
    <3>2. QED
      BY <3>1, FS_Interval, BusAssumption
  <2>6. Cardinality(Nodes) < Cardinality(0 .. Last)
    BY <1>0, <2>5 DEF Last
  <2>7. \E x, y \in 0 .. Last : x # y /\ f[x] = f[y]
    BY <2>4, <2>5, <2>6, FS_PigeonHole, ZenonT(30)
  <2>8. PICK x, y \in 0 .. Last : x # y /\ f[x] = f[y]
    BY <2>7
  <2>9. at[x] = at[y] /\ at[x] \in L
    BY <2>1, <2>3, <2>8
  <2>10. x \in 0 .. y - 1 \/ y \in 0 .. x - 1
    BY <1>0, <2>8
  <2>11. QED
    BY <1>0, <1>6, <2>9, <2>10
<1>9. ASSUME NEW n \in L PROVE \E k \in 0 .. Last - 1 : at[k] = n
  <2> DEFINE U == {m \in L : \A k \in 0 .. Last - 1 : at[k] # m}
  <2>1. ASSUME U # {} PROVE FALSE
    <3>1. U \in SUBSET Nodes /\ \A m \in U : r[m] \in Int
      BY <1>0
    <3>2. PICK m \in U : \A j \in U : r[m] <= r[j]
      <4> HIDE DEF U
      <4>1. QED
        BY <2>1, <3>1, PartIsFinite, LeastRank
    <3>3. \A k \in 0 .. Last : at[k] # m
      <4>1. ASSUME NEW k \in 0 .. Last PROVE at[k] # m
        <5>1. k = Last \/ k \in 0 .. Last - 1
          BY <1>0
        <5>2. m # None
          BY <1>0
        <5>3. QED
          BY <1>8, <3>2, <5>1, <5>2
      <4>2. QED
        BY <4>1
    <3>4. m # begin
      <4>1. 0 \in 0 .. Last
        BY <1>0
      <4>2. QED
        BY <1>1, <3>3, <4>1
    <3>5. heap[m].prev \in L /\ heap[heap[m].prev].next = m
      BY <1>2, <3>2, <3>4
    <3>6. r[heap[m].prev] < r[m]
      BY <1>0, <1>2, <3>5
    <3>7. heap[m].prev \notin U
      BY <1>0, <3>2, <3>5, <3>6
    <3>8. PICK k \in 0 .. Last - 1 : at[k] = heap[m].prev
      BY <3>5, <3>7
    <3>9. k + 1 \in 1 .. Last /\ k + 1 \in 0 .. Last /\ (k + 1) - 1 = k
      BY <1>0
    <3>10. at[k + 1] = Following(at[k])
      BY <1>1, <3>9
    <3>11. at[k] # None
      BY <1>0, <3>5, <3>8
    <3>12. at[k + 1] = m
      BY <3>5, <3>8, <3>10, <3>11 DEF Following
    <3>13. QED
      BY <3>3, <3>9, <3>12
  <2>2. QED
    BY <2>1
<1>10. QED
  BY <1>6, <1>7, <1>8, <1>9 DEF Along

\* So what is listed from the beginning of a list is the list ...
LEMMA ListedIs ==
  ASSUME NEW L, L \subseteq Nodes, NEW begin, NEW r \in [Nodes -> Int], Chain(heap, L, begin, r)
  PROVE  Listed(begin) = L
<1>1. PICK at : at = Entries(begin)
  OBVIOUS
<1>2. DOMAIN at = 0 .. Last /\ Last \in Nat /\ None \notin L
  BY <1>1, EntriesIs, LastIsNatural, BusAssumption
<1>3. /\ \A k \in 0 .. Last : at[k] \in L \union {None}
      /\ \A n \in L : \E k \in 0 .. Last - 1 : at[k] = n
  <2>1. Along(at, L)
    BY <1>1, AlongList
  <2>2. QED
    BY <2>1 DEF Along
<1>4. Listed(begin) = {at[k] : k \in DOMAIN at} \ {None}
  BY <1>1 DEF Listed
<1>5. \A k \in 0 .. Last - 1 : k \in 0 .. Last
  BY <1>2
<1>6. QED
  BY <1>2, <1>3, <1>4, <1>5

\* ... it is well formed ...
LEMMA ListIsWellFormed ==
  ASSUME NEW L, L \subseteq Nodes, NEW begin, NEW r \in [Nodes -> Int], Chain(heap, L, begin, r),
         \A n \in L : heap[n].live
  PROVE  WellFormed(begin)
<1>1. Entries(begin)[Cardinality(Nodes)] = None
  BY AlongList DEF Along, Last
<1>2. Listed(begin) = L
  BY ListedIs
<1>3. QED
  BY <1>1, <1>2 DEF WellFormed, Chain

CopyOf(L, copy) ==
  copy \in Seq(Nodes) /\ Len(copy) = Cardinality(L) /\ L = {copy[k] : k \in DOMAIN copy}

\* ... and its entries can be copied, in order, as usb_os_determine_children
\* does.
LEMMA ListCanBeCopied ==
  ASSUME NEW L, L \subseteq Nodes, NEW begin, NEW r \in [Nodes -> Int], Chain(heap, L, begin, r),
         NEW copy, copy = [k \in 1 .. Cardinality(L) |-> Entries(begin)[k - 1]]
  PROVE  CopyOf(L, copy)
<1>1. PICK at : at = Entries(begin)
  OBVIOUS
<1>2. /\ DOMAIN at = 0 .. Last /\ Last \in Nat /\ None \notin L
      /\ \A k \in 1 .. Last : at[k] = Following(at[k - 1])
  BY <1>1, EntriesIs, LastIsNatural, BusAssumption
<1>3. /\ \A k \in 0 .. Last : at[k] \in L \union {None}
      /\ \A k \in 0 .. Last : at[k] # None => \A i \in 0 .. k - 1 : at[i] # None /\ at[i] # at[k]
      /\ at[Last] = None
      /\ \A n \in L : \E k \in 0 .. Last - 1 : at[k] = n
  <2>1. Along(at, L)
    BY <1>1, AlongList
  <2>2. QED
    BY <2>1 DEF Along
<1> DEFINE T == {k \in 0 .. Last : at[k] = None}
           id == [k \in 0 .. Last |-> k]
<1>4. T \in SUBSET (0 .. Last) /\ T # {} /\ \A k \in T : id[k] = k /\ id[k] \in Int
  BY <1>2, <1>3
<1>5. IsFiniteSet(T)
  <2>1. IsFiniteSet(0 .. Last)
    BY <1>2, FS_Interval
  <2> HIDE DEF T
  <2>2. QED
    BY <1>4, <2>1, FS_Subset
<1>6. PICK M \in T : \A k \in T : id[M] <= id[k]
  <2> HIDE DEF T, id
  <2>1. QED
    BY <1>4, <1>5, LeastRank
<1>7. M \in 0 .. Last /\ at[M] = None /\ \A k \in 0 .. M - 1 : at[k] # None
  <2>1. M \in 0 .. Last /\ at[M] = None
    BY <1>6
  <2>2. ASSUME NEW k \in 0 .. M - 1, at[k] = None PROVE FALSE
    <3>1. k \in T
      BY <1>2, <2>1, <2>2
    <3>2. M <= k
      BY <1>4, <1>6, <3>1
    <3>3. QED
      BY <1>2, <2>1, <3>2
  <2>3. QED
    BY <2>1, <2>2
<1>8. \A k \in 0 .. M - 1 : k \in 0 .. Last /\ at[k] \in L
  BY <1>2, <1>3, <1>7
<1>9. ASSUME NEW n \in L PROVE \E k \in 0 .. M - 1 : at[k] = n
  <2>1. PICK k \in 0 .. Last - 1 : at[k] = n
    BY <1>3
  <2>2. at[k] # None /\ k \in 0 .. Last
    BY <1>2, <2>1
  <2>3. ~(M \in 0 .. k - 1) /\ k # M
    BY <1>3, <1>7, <2>2
  <2>4. k \in 0 .. M - 1
    BY <1>2, <1>7, <2>3
  <2>5. QED
    BY <2>1, <2>4
<1>10. \E f : f = [k \in 1 .. M |-> at[k - 1]]
  OBVIOUS
<1>11. PICK f : f = [k \in 1 .. M |-> at[k - 1]]
  BY <1>10
<1>12. \A k \in 1 .. M : k - 1 \in 0 .. M - 1 /\ f[k] = at[k - 1] /\ f[k] \in L
  BY <1>2, <1>7, <1>8, <1>11
<1>13. f \in Bijection(1 .. M, L)
  <2>1. f \in [1 .. M -> L]
    BY <1>11, <1>12
  <2>2. ASSUME NEW x \in 1 .. M, NEW y \in 1 .. M, f[x] = f[y] PROVE x = y
    <3>1. at[x - 1] = at[y - 1] /\ at[x - 1] # None /\ x - 1 \in 0 .. Last /\ y - 1 \in 0 .. Last
      BY <1>2, <1>8, <1>12, <2>2
    <3>2. ~(x - 1 \in 0 .. (y - 1) - 1) /\ ~(y - 1 \in 0 .. (x - 1) - 1)
      BY <1>3, <3>1
    <3>3. QED
      BY <1>2, <1>7, <3>2
  <2>3. ASSUME NEW n \in L PROVE \E k \in 1 .. M : f[k] = n
    <3>1. PICK k \in 0 .. M - 1 : at[k] = n
      BY <1>9
    <3>2. k + 1 \in 1 .. M /\ (k + 1) - 1 = k
      BY <1>2, <1>7
    <3>3. f[k + 1] = n
      BY <1>12, <3>1, <3>2
    <3>4. QED
      BY <3>2, <3>3
  <2>4. f \in Injection(1 .. M, L)
    <3>1. \A x, y \in 1 .. M : f[x] = f[y] => x = y
      BY <2>2
    <3>2. QED
      BY <2>1, <3>1 DEF Injection, IsInjective
  <2>5. f \in Surjection(1 .. M, L)
    BY <2>1, <2>3 DEF Surjection
  <2>6. QED
    BY <2>4, <2>5 DEF Bijection
<1>14. M \in Nat /\ Cardinality(L) = M
  BY <1>2, <1>7, <1>13, FS_CountingElements DEF ExistsBijection
<1>15. copy = f
  BY <1>1, <1>11, <1>14
<1>16. f \in Seq(Nodes) /\ Len(f) = M /\ DOMAIN f = 1 .. M
  BY <1>11, <1>12, <1>14
<1>17. L = {f[k] : k \in 1 .. M}
  BY <1>12, <1>13 DEF Bijection, Surjection
<1>18. QED
  BY <1>14, <1>15, <1>16, <1>17 DEF CopyOf

-----------------------------------------------------------------------------
(* What the invariant says of the state.                                   *)

\* A name is its two parts, and a slot has one of each set of names.
LEMMA NameFacts ==
  /\ \A x \in Name : x.slot \in Slots /\ x.model \in Models /\ x = [slot |-> x.slot, model |-> x.model]
  /\ \A s \in Slots, m \in Models :
       /\ [slot |-> s, model |-> m] \in Name
       /\ [slot |-> s, model |-> m].slot = s /\ [slot |-> s, model |-> m].model = m
BY DEF Name

LEMMA SlotsFinite == IsFiniteSet(Slots) /\ Cardinality(Slots) = NSlots
<1>1. 1 \in Int /\ NSlots \in Int /\ (1 > NSlots => NSlots = 0) /\ (NSlots - 1) + 1 = NSlots
  BY BusAssumption
<1>2. QED
  BY <1>1, FS_Interval DEF Slots

\* Things that are in a slot each, one in a slot, are no more than the slots.
LEMMA OnePerSlot ==
  ASSUME NEW X, NEW f \in [X -> Slots], \A x, y \in X : f[x] = f[y] => x = y
  PROVE  IsFiniteSet(X) /\ Cardinality(X) \in Nat /\ Cardinality(X) <= NSlots
<1>1. f \in Injection(X, Slots)
  BY DEF Injection, IsInjective
<1>2. IsFiniteSet(X) /\ Cardinality(X) <= NSlots
  BY <1>1, SlotsFinite, FS_Injection
<1>3. QED
  BY <1>2, FS_CardinalityType

LEMMA FewNames ==
  ASSUME NEW X, X \subseteq Name, \A x, y \in X : x.slot = y.slot => x = y
  PROVE  IsFiniteSet(X) /\ Cardinality(X) \in Nat /\ Cardinality(X) <= NSlots
<1>1. \E f : f = [x \in X |-> x.slot]
  OBVIOUS
<1>2. PICK f : f = [x \in X |-> x.slot]
  BY <1>1
<1>3. f \in [X -> Slots] /\ \A x, y \in X : f[x] = f[y] => x = y
  BY <1>2, NameFacts
<1>4. QED
  BY <1>3, OnePerSlot

LEMMA FewStructures ==
  ASSUME NEW S, \A n \in S : heap[n].name \in Name, OneEach(S)
  PROVE  IsFiniteSet(S) /\ Cardinality(S) \in Nat /\ Cardinality(S) <= NSlots
<1>1. \E f : f = [n \in S |-> Slot(n)]
  OBVIOUS
<1>2. PICK f : f = [n \in S |-> Slot(n)]
  BY <1>1
<1>3. \A n \in S : Slot(n) \in Slots
  BY NameFacts DEF Slot
<1>4. f \in [S -> Slots] /\ \A n, m \in S : f[n] = f[m] => n = m
  BY <1>2, <1>3 DEF OneEach
<1>5. QED
  BY <1>4, OnePerSlot

\* The names before the call, and those of a list, are few.
LEMMA NamesAreFew ==
  ASSUME NEW D, PlainInv, \A n \in D : heap[n].name \in Name, OneEach(D)
  PROVE  /\ Old \subseteq Name /\ IsFiniteSet(Old) /\ Cardinality(Old) \in Nat
         /\ Cardinality(Old) <= NSlots
         /\ NamesOf(D) \subseteq Name /\ IsFiniteSet(NamesOf(D)) /\ Cardinality(NamesOf(D)) \in Nat
         /\ Cardinality(NamesOf(D)) <= NSlots
<1>1. \A b \in before : b[2] \in Name
  BY DEF PlainInv
<1>2. Old \subseteq Name /\ \A x, y \in Old : x.slot = y.slot => x = y
  BY <1>1 DEF Old, PlainInv
<1>3. NamesOf(D) \subseteq Name /\ \A x, y \in NamesOf(D) : x.slot = y.slot => x = y
  BY DEF NamesOf, OneEach, Slot
<1>4. QED
  BY <1>2, <1>3, FewNames

\* The count of a call is between 0 and twice the slots.
LEMMA CountIsBounded ==
  ASSUME NEW D, PlainInv, \A n \in D : heap[n].name \in Name, OneEach(D)
  PROVE  /\ IsFiniteSet(Old \ NamesOf(D)) /\ IsFiniteSet(NamesOf(D) \ Old)
         /\ Cardinality(Old \ NamesOf(D)) \in 0 .. NSlots
         /\ Cardinality(NamesOf(D) \ Old) \in 0 .. NSlots
<1>1. /\ IsFiniteSet(Old) /\ Cardinality(Old) \in Nat /\ Cardinality(Old) <= NSlots
      /\ IsFiniteSet(NamesOf(D)) /\ Cardinality(NamesOf(D)) \in Nat
      /\ Cardinality(NamesOf(D)) <= NSlots
  BY NamesAreFew
<1>2. \A S, T : IsFiniteSet(S) /\ T \subseteq S =>
        IsFiniteSet(T) /\ Cardinality(T) \in Nat /\ Cardinality(T) <= Cardinality(S)
  <2> SUFFICES ASSUME NEW S, NEW T, IsFiniteSet(S), T \subseteq S
               PROVE IsFiniteSet(T) /\ Cardinality(T) \in Nat /\ Cardinality(T) <= Cardinality(S)
    OBVIOUS
  <2>1. IsFiniteSet(T) /\ Cardinality(T) <= Cardinality(S)
    BY FS_Subset
  <2>2. QED
    BY <2>1, FS_CardinalityType
<1>3. Old \ NamesOf(D) \subseteq Old /\ NamesOf(D) \ Old \subseteq NamesOf(D)
  OBVIOUS
<1>4. /\ IsFiniteSet(Old \ NamesOf(D)) /\ Cardinality(Old \ NamesOf(D)) \in Nat
      /\ Cardinality(Old \ NamesOf(D)) <= Cardinality(Old)
  BY <1>1, <1>2, <1>3
<1>5. /\ IsFiniteSet(NamesOf(D) \ Old) /\ Cardinality(NamesOf(D) \ Old) \in Nat
      /\ Cardinality(NamesOf(D) \ Old) <= Cardinality(NamesOf(D))
  BY <1>1, <1>2, <1>3
<1>6. QED
  BY <1>1, <1>4, <1>5, BusAssumption

\* The lists are safe.
LEMMA InvListsSafe ==
  ASSUME NEW D, NEW F, NEW R, NEW r, BusInv(D, F, R, r)
  PROVE  ListsSafe
<1> USE DEF BusInv
<1>1. /\ r \in [Nodes -> Int] /\ D \subseteq Nodes /\ F \subseteq Nodes /\ R \subseteq D
      /\ D \intersect F = {} /\ Chain(heap, D, devices, r) /\ Chain(heap, F, found, r)
      /\ \A n \in D \union F : heap[n].live /\ heap[n].name \in Name
      /\ OneEach(D)
  BY DEF ListInv
<1>2. Listed(devices) = D /\ Listed(found) = F
  BY <1>1, ListedIs
<1>3. cur = None \/ cur \in D \union F
  BY <1>1 DEF ListInv, Rest, Chain
<1>4. TypeOK
  <2>1. devices \in Address /\ found \in Address /\ cur \in Address
    BY <1>1, <1>3 DEF Chain, Address
  <2>2. changes \in -1 .. 2 * NSlots
    <3>1. Cardinality(Old \ NamesOf(D)) \in 0 .. NSlots /\ Cardinality(NamesOf(D) \ Old) \in 0 .. NSlots
      BY <1>1, CountIsBounded
    <3>2. changes \in Int /\ (changes = -1 \/ changes = Cardinality(Old \ NamesOf(D)) + Cardinality(NamesOf(D) \ Old))
      BY DEF PlainInv, CountInv
    <3>3. QED
      BY <3>1, <3>2, BusAssumption
  <2>3. QED
    BY <2>1, <2>2 DEF TypeOK, PlainInv
<1>5. WellFormed(devices) /\ WellFormed(found)
  BY <1>1, ListIsWellFormed
<1>6. cur # None => heap[cur].live
  BY <1>1, <1>3
<1>7. pc = "idle" =>
        /\ hub => Listed(devices) = {children[k] : k \in DOMAIN children}
        /\ \A n \in Nodes : heap[n].live /\ n \notin Listed(devices) => heap[n].config = None
  BY <1>2 DEF ListInv
<1>8. QED
  BY <1>1, <1>2, <1>4, <1>5, <1>6, <1>7 DEF ListsSafe, ListsWellFormed

\* A call finds what is there and counts it.
LEMMA InvExactScan ==
  ASSUME NEW D, NEW F, NEW R, NEW r, BusInv(D, F, R, r)
  PROVE  ExactScan
<1> USE DEF BusInv
<1>1. /\ r \in [Nodes -> Int] /\ D \subseteq Nodes /\ Chain(heap, D, devices, r)
      /\ \A n \in D : heap[n].name \in Name
      /\ OneEach(D)
  BY DEF ListInv
<1>2. Listed(devices) = D
  BY <1>1, ListedIs
<1>3. Names(devices) = NamesOf(D)
  BY <1>2 DEF Names, NamesOf
<1>4. CountIsExact
  BY <1>3 DEF CountIsExact, CountInv, Old
<1>5. ASSUME pc = "idle", changes # -1, steady
      PROVE NamesOf(D) = {[slot |-> s, model |-> plugged[s]] : s \in {x \in Slots : plugged[x] # None}}
  <2>1. Current(D, NSlots + 1)
    BY <1>5 DEF ExactInv
  <2>2. ASSUME NEW n \in D
        PROVE \E s \in Slots : plugged[s] # None /\ heap[n].name = [slot |-> s, model |-> plugged[s]]
    <3>1. heap[n].name \in Name /\ plugged[Slot(n)] = heap[n].name.model
      BY <1>1, <2>1 DEF Current
    <3>2. Slot(n) \in Slots /\ heap[n].name.model \in Models
          /\ heap[n].name = [slot |-> Slot(n), model |-> heap[n].name.model]
      BY <3>1, NameFacts DEF Slot
    <3>3. QED
      BY <3>1, <3>2, BusAssumption
  <2>3. ASSUME NEW s \in Slots, plugged[s] # None
        PROVE \E n \in D : heap[n].name = [slot |-> s, model |-> plugged[s]]
    <3>1. s < NSlots + 1
      BY BusAssumption DEF Slots
    <3>2. QED
      BY <2>1, <2>3, <3>1 DEF Current
  <2> DEFINE There == {[slot |-> s, model |-> plugged[s]] : s \in {x \in Slots : plugged[x] # None}}
  <2>4. NamesOf(D) \subseteq There
    BY <2>2 DEF NamesOf
  <2>5. ASSUME NEW x \in There PROVE x \in NamesOf(D)
    <3>1. PICK s \in Slots : plugged[s] # None /\ x = [slot |-> s, model |-> plugged[s]]
      OBVIOUS
    <3>2. \E n \in D : heap[n].name = x
      BY <2>3, <3>1
    <3>3. QED
      BY <3>2 DEF NamesOf
  <2>6. QED
    BY <2>4, <2>5
<1>6. ScanIsExact
  BY <1>3, <1>5 DEF ScanIsExact
<1>7. QED
  BY <1>4, <1>6 DEF ExactScan

\* A device that stays keeps its structure.
LEMMA InvSeenIsKept ==
  ASSUME NEW D, NEW F, NEW R, NEW r, BusInv(D, F, R, r)
  PROVE  SeenIsKept
<1> USE DEF BusInv
<1>1. /\ r \in [Nodes -> Int] /\ D \subseteq Nodes /\ Chain(heap, D, devices, r)
      /\ \A n \in D : heap[n].live
  BY DEF ListInv
<1>2. Listed(devices) = D
  BY <1>1, ListedIs
<1>3. \A b \in before, n \in D : heap[n].name = b[2] => n = b[1]
  BY DEF CountInv
<1>4. QED
  BY <1>1, <1>2, <1>3 DEF SeenIsKept, Names

\* All is in order at the start.
LEMMA InitInv == Init => \E r : BusInv({}, {}, {}, r)
<1> SUFFICES ASSUME Init PROVE \E r : BusInv({}, {}, {}, r)
  OBVIOUS
<1>1. \E r : r = [n \in Nodes |-> 0]
  OBVIOUS
<1>2. PICK r : r = [n \in Nodes |-> 0]
  BY <1>1
<1>3. PlainInv
  <2>1. Blank \in Node
    BY DEF Blank, Node, Address
  <2>2. NSlots \in Nat /\ 1 \in 1 .. NSlots + 1 /\ 0 <= NSlots
    BY BusAssumption
  <2>3. children \in Seq(Nodes) /\ Len(children) = 0
    BY DEF Init
  <2>4. heap \in [Nodes -> Node]
    BY <2>1 DEF Init
  <2>5. plugged \in [Slots -> Models \union {None}] /\ pc = "idle" /\ slot = 1 /\ changes = 0
        /\ hub = FALSE /\ steady = FALSE /\ before = {}
    BY DEF Init
  <2>6. hub \in BOOLEAN /\ steady \in BOOLEAN
    BY <2>5
  <2>7. changes \in Int /\ changes >= -1 /\ slot \in 1 .. NSlots + 1 /\ Len(children) <= NSlots
    BY <2>2, <2>3, <2>5
  <2>8. before \subseteq Nodes \X Name /\ \A b, c \in before : b[2].slot = c[2].slot => b[2] = c[2]
    BY <2>5
  <2>9. QED
    BY <2>3, <2>4, <2>5, <2>6, <2>7, <2>8 DEF PlainInv
<1>4. ListInv({}, {}, {}, r)
  <2>1. {children[k] : k \in DOMAIN children} = {}
    BY DEF Init
  <2>2. QED
    BY <1>2, <2>1 DEF Init, ListInv, Chain, OneEach, Blank
<1>5. CountInv({}, {}, {})
  <2>1. Old = {} /\ NamesOf({}) = {} /\ {} \ {} = {}
    BY DEF Init, Old, NamesOf
  <2>2. Cardinality(Old \ NamesOf({})) = 0 /\ Cardinality(NamesOf({}) \ Old) = 0
    BY <2>1, FS_EmptySet
  <2>3. QED
    BY <2>1, <2>2 DEF Init, CountInv
<1>6. ExactInv({}, {}, {})
  BY DEF Init, ExactInv
<1>7. QED
  BY <1>3, <1>4, <1>5, <1>6 DEF BusInv

-----------------------------------------------------------------------------
(* The steps that leave the structures alone.                              *)

\* A device comes or goes.
LEMMA DevicesChange ==
  ASSUME NEW D, NEW F, NEW R, NEW r, BusInv(D, F, R, r),
         NEW s \in Slots, Unplug(s) \/ \E m \in Models : Plug(s, m)
  PROVE  BusInv(D, F, R, r)'
<1>1. /\ plugged' \in [Slots -> Models \union {None}] /\ steady' = FALSE
      /\ UNCHANGED <<heap, devices, found, pc, slot, cur, changes, hub, children, before>>
  BY DEF Plug, Unplug, BusInv, PlainInv
<1>2. PlainInv'
  BY <1>1 DEF BusInv, PlainInv
<1>3. ListInv(D, F, R, r)'
  BY <1>1 DEF BusInv, ListInv, OneEach, Slot
<1>4. CountInv(D, F, R)'
  BY <1>1 DEF BusInv, CountInv, NamesOf, Old, Slot
<1>5. ExactInv(D, F, R)'
  BY <1>1 DEF BusInv, ExactInv, Slot
<1>6. QED
  BY <1>2, <1>3, <1>4, <1>5 DEF BusInv

\* The call begins: what is on the bus is what was there before.
LEMMA CallBegins ==
  ASSUME NEW D, NEW F, NEW R, NEW r, BusInv(D, F, R, r), FindDevices
  PROVE  BusInv(D, {}, {}, r)'
<1>1. /\ pc = "idle" /\ pc' = "scan" /\ slot' = 1 /\ found' = None /\ changes' = 0 /\ steady' = TRUE
      /\ UNCHANGED <<plugged, heap, devices, cur, hub, children>>
      /\ before' = {<<n, heap[n].name>> : n \in Listed(devices)}
  BY DEF FindDevices
<1>2. /\ r \in [Nodes -> Int] /\ D \subseteq Nodes /\ Chain(heap, D, devices, r)
      /\ \A n \in D : heap[n].live /\ heap[n].name \in Name
      /\ OneEach(D)
  BY DEF BusInv, ListInv
<1>3. before' = {<<n, heap[n].name>> : n \in D}
  BY <1>1, <1>2, ListedIs
<1>4. NSlots \in Nat /\ None \notin Nodes
  BY BusAssumption
<1>5. PlainInv'
  <2>1. before' \subseteq Nodes \X Name
    BY <1>2, <1>3
  <2>2. ASSUME NEW b \in before', NEW c \in before', b[2].slot = c[2].slot PROVE b[2] = c[2]
    <3>1. PICK n \in D : b = <<n, heap[n].name>>
      BY <1>3
    <3>2. PICK m \in D : c = <<m, heap[m].name>>
      BY <1>3
    <3>3. n = m
      BY <1>2, <2>2, <3>1, <3>2 DEF OneEach, Slot
    <3>4. QED
      BY <3>1, <3>2, <3>3
  <2>3. 1 \in 1 .. NSlots + 1
    BY <1>4
  <2>4. QED
    BY <1>1, <2>1, <2>2, <2>3 DEF BusInv, PlainInv
<1>6. ListInv(D, {}, {}, r)'
  <2>1. \A n \in Nodes \ D : heap[n].live => heap[n].config = None
    BY DEF BusInv, ListInv
  <2>2. cur = None /\ (hub => D = {children[k] : k \in DOMAIN children})
    BY <1>1 DEF BusInv, ListInv
  <2>3. QED
    BY <1>1, <1>2, <2>1, <2>2 DEF ListInv, Chain, OneEach, Slot
<1>7. Old' = NamesOf(D) /\ NamesOf(D)' = NamesOf(D)
  <2>1. NamesOf(D)' = NamesOf(D)
    BY <1>1 DEF NamesOf
  <2>2. \A x \in Old' : x \in NamesOf(D)
    BY <1>3 DEF Old, NamesOf
  <2>3. ASSUME NEW n \in D PROVE heap[n].name \in Old'
    <3>1. <<n, heap[n].name>> \in before' /\ <<n, heap[n].name>>[2] = heap[n].name
      BY <1>3
    <3>2. QED
      BY <3>1 DEF Old
  <2>4. QED
    BY <2>1, <2>2, <2>3 DEF NamesOf
<1>8. CountInv(D, {}, {})'
  <2>1. Cardinality((Old \ NamesOf(D))') = 0 /\ Cardinality((NamesOf(D) \ Old)') = 0
    <3>1. (Old \ NamesOf(D))' = {} /\ (NamesOf(D) \ Old)' = {}
      BY <1>7
    <3>2. QED
      BY <3>1, FS_EmptySet
  <2>2. ASSUME NEW b \in before', NEW n \in D, heap[n].name = b[2] PROVE n = b[1]
    <3>1. PICK m \in D : b = <<m, heap[m].name>>
      BY <1>3
    <3>2. n = m
      BY <1>2, <2>2, <3>1 DEF OneEach, Slot
    <3>3. QED
      BY <3>1, <3>2
  <2>3. QED
    BY <1>1, <1>7, <2>1, <2>2 DEF CountInv
<1>9. ExactInv(D, {}, {})'
  <2>1. \A t \in Slots : ~(t < 1)
    BY DEF Slots
  <2>2. QED
    BY <1>1, <2>1 DEF ExactInv, Current
<1>10. QED
  BY <1>5, <1>6, <1>8, <1>9 DEF BusInv

\* The slot cannot be opened, or is empty.
LEMMA ScanGoesOn ==
  ASSUME NEW D, NEW F, NEW R, NEW r, BusInv(D, F, R, r), pc = "scan", slot \in Slots,
         slot' = slot + 1, steady' = (steady /\ plugged[slot] = None),
         UNCHANGED <<heap, found, plugged, devices, pc, cur, changes, hub, children, before>>
  PROVE  BusInv(D, F, R, r)'
<1>1. NSlots \in Nat /\ slot \in 1 .. NSlots
  BY BusAssumption DEF Slots
<1>2. PlainInv'
  <2>1. steady' \in BOOLEAN
    OBVIOUS
  <2>2. slot' \in 1 .. NSlots + 1
    BY <1>1
  <2>3. QED
    BY <2>1, <2>2 DEF BusInv, PlainInv
<1>3. ListInv(D, F, R, r)'
  BY DEF BusInv, ListInv, OneEach, Slot
<1>4. CountInv(D, F, R)'
  <2>1. Old' = Old /\ NamesOf(D)' = NamesOf(D) /\ NamesOf(R)' = NamesOf(R)
    BY DEF Old, NamesOf
  <2>2. \A n : Slot(n)' = Slot(n)
    BY DEF Slot
  <2>3. CountInv(D, F, R)
    BY DEF BusInv
  <2>4. QED
    BY <2>1, <2>2, <2>3 DEF CountInv
<1>5. ExactInv(D, F, R)'
  <2>1. \A n \in F : Slot(n) < slot /\ Slot(n) \in Int
    BY NameFacts DEF BusInv, ListInv, ExactInv, Slot, Slots
  <2>2. \A n \in F : Slot(n) < slot + 1
    BY <1>1, <2>1
  <2>3. ASSUME steady' PROVE Current(F, slot)
    BY <2>3 DEF BusInv, ExactInv
  <2>4. ASSUME steady', NEW t \in Slots, t < slot + 1, plugged[t] # None PROVE t < slot
    <3>1. plugged[slot] = None
      BY <2>4
    <3>2. t # slot
      BY <2>4, <3>1
    <3>3. QED
      BY <1>1, <2>4, <3>2 DEF Slots
  <2>5. steady' => Current(F, slot)'
    BY <2>3, <2>4 DEF Current, Slot
  <2>6. QED
    BY <2>2, <2>5 DEF ExactInv, Slot
<1>6. QED
  BY <1>2, <1>3, <1>4, <1>5 DEF BusInv

\* -ENOMEM: the bus stays as it was.
LEMMA CallFails ==
  ASSUME NEW D, NEW F, NEW R, NEW r, BusInv(D, F, R, r), ScanFails
  PROVE  BusInv(D, {}, {}, r)'
<1>1. /\ pc = "scan" /\ pc' = "idle" /\ changes' = -1 /\ found' = None /\ steady' = FALSE
      /\ UNCHANGED <<plugged, heap, devices, slot, cur, hub, children, before>>
  BY DEF ScanFails
<1>2. PlainInv'
  <2>1. changes' \in Int /\ changes' >= -1
    BY <1>1
  <2>2. steady' \in BOOLEAN
    BY <1>1
  <2>3. QED
    BY <1>1, <2>1, <2>2 DEF BusInv, PlainInv
<1>3. ListInv(D, {}, {}, r)'
  BY <1>1 DEF BusInv, ListInv, OneEach, Slot, Chain
<1>4. CountInv(D, {}, {})'
  <2>1. changes = 0 /\ (changes = -1 => pc = "idle")
    BY <1>1 DEF BusInv, CountInv
  <2>2. 0 = Cardinality(Old \ NamesOf(D)) + Cardinality(NamesOf(D) \ Old)
    BY <2>1 DEF BusInv, CountInv
  <2>3. \A b \in before, n \in D : heap[n].name = b[2] => n = b[1]
    BY DEF BusInv, CountInv
  <2>4. Old' = Old /\ NamesOf(D)' = NamesOf(D)
    BY <1>1 DEF Old, NamesOf
  <2>5. QED
    BY <1>1, <2>2, <2>3, <2>4 DEF CountInv
<1>5. ExactInv(D, {}, {})'
  BY <1>1 DEF ExactInv
<1>6. QED
  BY <1>2, <1>3, <1>4, <1>5 DEF BusInv

\* The first loop begins, over all of the bus.
LEMMA LoopBegins ==
  ASSUME NEW D, NEW F, NEW R, NEW r, BusInv(D, F, R, r), Scanned
  PROVE  BusInv(D, F, D, r)'
<1>1. /\ pc = "scan" /\ pc' = "compare" /\ slot = NSlots + 1 /\ cur' = devices
      /\ UNCHANGED <<plugged, heap, devices, found, slot, changes, hub, children, before, steady>>
  BY DEF Scanned
<1>2. PlainInv'
  BY <1>1 DEF BusInv, PlainInv
<1>3. ListInv(D, F, D, r)'
  <2>1. r \in [Nodes -> Int] /\ D \subseteq Nodes /\ Chain(heap, D, devices, r)
    BY DEF BusInv, ListInv
  <2>2. Rest(heap, D, devices)
    BY <2>1, WholeIsRest
  <2>3. Rest(heap, D, cur)'
    BY <1>1, <2>2
  <2>4. QED
    BY <1>1, <2>3 DEF BusInv, ListInv, OneEach, Slot
<1>4. Old' = Old /\ NamesOf(D)' = NamesOf(D) /\ NamesOf(D) = Old
  BY <1>1 DEF BusInv, CountInv, NamesOf, Old
<1>5. CountInv(D, F, D)'
  <2>1. /\ changes = 0 /\ changes' = 0
        /\ (IF changes = -1 THEN 0 ELSE changes) =
             Cardinality(Old \ NamesOf(D)) + Cardinality(NamesOf(D) \ Old)
        /\ \A b \in before, n \in D : heap[n].name = b[2] => n = b[1]
    BY <1>1 DEF BusInv, CountInv
  <2>2. QED
    BY <1>1, <1>4, <2>1 DEF CountInv
<1>6. ExactInv(D, F, D)'
  <2>1. steady => Current(F, NSlots + 1)
    BY <1>1 DEF BusInv, ExactInv
  <2>2. F \union (D \ D) = F
    OBVIOUS
  <2>3. steady' => Current(F \union (D \ D), NSlots + 1)'
    BY <1>1, <2>1, <2>2 DEF Current, Slot
  <2>4. QED
    BY <1>1, <2>3 DEF ExactInv
<1>7. QED
  BY <1>2, <1>3, <1>5, <1>6 DEF BusInv

\* The second loop begins, over all that was found and is new.
LEMMA LoopEnds ==
  ASSUME NEW D, NEW F, NEW R, NEW r, BusInv(D, F, R, r), Compared
  PROVE  BusInv(D, F, {}, r)'
<1>1. /\ pc = "compare" /\ pc' = "add" /\ cur = None /\ cur' = found
      /\ UNCHANGED <<plugged, heap, devices, found, slot, changes, hub, children, before, steady>>
  BY DEF Compared
<1>2. R = {}
  BY <1>1 DEF BusInv, ListInv, Rest
<1>3. PlainInv'
  BY <1>1 DEF BusInv, PlainInv
<1>4. ListInv(D, F, {}, r)'
  BY <1>1, <1>2 DEF BusInv, ListInv, OneEach, Slot
<1>5. CountInv(D, F, {})'
  BY <1>1, <1>2 DEF BusInv, CountInv, NamesOf, Old, Slot
<1>6. ExactInv(D, F, {})'
  BY <1>1, <1>2 DEF BusInv, ExactInv, Current, Slot
<1>7. QED
  BY <1>3, <1>4, <1>5, <1>6 DEF BusInv

\* The call ends, with or without the hub's children.
LEMMA CallEnds ==
  ASSUME NEW D, NEW F, NEW R, NEW r, BusInv(D, F, R, r),
         DetermineChildren \/ NoMemoryForHub \/ NoMemoryForChildren
  PROVE  BusInv(D, F, R, r)'
<1>1. /\ pc = "add" /\ cur = None /\ pc' \in {"idle", "crashed"}
      /\ UNCHANGED <<plugged, heap, devices, found, slot, cur, changes, before, steady>>
  BY DEF DetermineChildren, NoMemoryForHub, NoMemoryForChildren
<1>2. /\ r \in [Nodes -> Int] /\ D \subseteq Nodes /\ Chain(heap, D, devices, r)
      /\ \A n \in D : heap[n].live /\ heap[n].name \in Name
      /\ OneEach(D) /\ F = {} /\ R = {}
  BY <1>1 DEF BusInv, ListInv, Chain
<1>3. /\ hub' \in BOOLEAN /\ children' \in Seq(Nodes) /\ Len(children') <= NSlots
      /\ pc' = "idle" /\ hub' => D = {children'[k] : k \in DOMAIN children'}
  <2>1. CASE DetermineChildren
    <3>1. /\ hub' = TRUE
          /\ children' = [k \in 1 .. Cardinality(D) |-> Entries(devices)[k - 1]]
      BY <1>2, <2>1, ListedIs DEF DetermineChildren
    <3>2. /\ children' \in Seq(Nodes) /\ Len(children') = Cardinality(D)
          /\ D = {children'[k] : k \in DOMAIN children'}
      <4>1. \E copy : copy = children'
        OBVIOUS
      <4>2. PICK copy : copy = children'
        BY <4>1
      <4>3. copy = [k \in 1 .. Cardinality(D) |-> Entries(devices)[k - 1]]
        BY <3>1, <4>2
      <4>4. CopyOf(D, copy)
        BY <1>2, <4>3, ListCanBeCopied
      <4>5. QED
        BY <4>2, <4>4 DEF CopyOf
    <3>3. Cardinality(D) <= NSlots
      BY <1>2, FewStructures
    <3>4. QED
      BY <3>1, <3>2, <3>3
  <2>2. CASE NoMemoryForHub
    BY <2>2 DEF NoMemoryForHub, BusInv, PlainInv
  <2>3. CASE NoMemoryForChildren
    <3>1. children' = <<>> /\ hub' = TRUE /\ pc' = "crashed"
      BY <2>3 DEF NoMemoryForChildren
    <3>2. Len(children') = 0 /\ children' \in Seq(Nodes)
      BY <3>1
    <3>3. QED
      BY <3>1, <3>2, BusAssumption
  <2>4. QED
    BY <2>1, <2>2, <2>3
<1>4. PlainInv'
  BY <1>1, <1>3 DEF BusInv, PlainInv
<1>5. ListInv(D, F, R, r)'
  BY <1>1, <1>2, <1>3 DEF BusInv, ListInv, OneEach, Slot
<1>6. CountInv(D, F, R)'
  <2>1. changes # -1
    BY <1>1 DEF BusInv, CountInv
  <2>2. Old' = Old /\ NamesOf(D)' = NamesOf(D)
    BY <1>1 DEF Old, NamesOf
  <2>3. QED
    BY <1>1, <2>1, <2>2 DEF BusInv, CountInv
<1>7. ExactInv(D, F, R)'
  <2>1. steady => Current(F \union (D \ R), NSlots + 1)
    BY <1>1 DEF BusInv, ExactInv
  <2>2. F \union (D \ R) = D
    BY <1>2
  <2>3. steady' => Current(D, NSlots + 1)'
    BY <1>1, <2>1, <2>2 DEF Current, Slot
  <2>4. QED
    BY <1>1, <2>3 DEF ExactInv
<1>8. QED
  BY <1>4, <1>5, <1>6, <1>7 DEF BusInv

-----------------------------------------------------------------------------
(* The steps on the structures.                                            *)

\* From heap h to g nothing but ent, and the pointers of L, has changed.
Changed(h, g, L, ent) ==
  /\ g \in [Nodes -> Node]
  /\ \A n \in Nodes \ (L \union {ent}) : g[n] = h[n]
  /\ \A n \in Nodes \ {ent} :
       g[n].live = h[n].live /\ g[n].name = h[n].name /\ g[n].config = h[n].config

\* A structure is taken out of its list and freed.
LEMMA Freed ==
  ASSUME NEW h \in [Nodes -> Node], NEW L, L \subseteq Nodes, NEW begin, NEW r \in [Nodes -> Int],
         Chain(h, L, begin, r), NEW ent \in L, NEW g, g = Free(ListDel(h, ent), ent)
  PROVE  /\ Changed(h, g, L, ent) /\ g[ent] = Blank
         /\ Chain(g, L \ {ent}, Begin(h, begin, ent), r)
<1> DEFINE d == ListDel(h, ent)
<1>1. /\ h[ent].next \in L \union {None} /\ h[ent].prev \in L \union {None}
      /\ h[ent].next # ent /\ h[ent].prev # ent
      /\ h[ent].next = h[ent].prev => h[ent].next = None
  BY Neighbours
<1>2. /\ d \in [Nodes -> Node]
      /\ \A n \in Nodes \ {ent, h[ent].prev, h[ent].next} : d[n] = h[n]
      /\ \A n \in Nodes : d[n].live = h[n].live /\ d[n].name = h[n].name /\ d[n].config = h[n].config
  BY <1>1, DelFacts
<1>3. Chain(d, L \ {ent}, Begin(h, begin, ent), r)
  BY DelFromList
<1>4. Blank \in Node
  BY DEF Blank, Node, Address
<1> HIDE DEF d
<1>5. g = [d EXCEPT ![ent] = Blank]
  BY DEF d, Free
<1>6. g \in [Nodes -> Node] /\ g[ent] = Blank /\ \A n \in Nodes \ {ent} : g[n] = d[n]
  BY <1>2, <1>4, <1>5
<1>7. Chain(g, L \ {ent}, Begin(h, begin, ent), r)
  <2>1. None \notin L \ {ent} /\ \A n \in L \ {ent} : g[n] = d[n]
    BY <1>6, BusAssumption
  <2>2. QED
    BY <1>3, <2>1, ChainSame
<1>8. \A n \in Nodes \ (L \union {ent}) : g[n] = h[n]
  BY <1>1, <1>2, <1>6, BusAssumption
<1>9. QED
  BY <1>2, <1>6, <1>7, <1>8 DEF Changed

\* When it is the one that a loop is at, the loop goes on behind it.
LEMMA RestAfterFreed ==
  ASSUME NEW h \in [Nodes -> Node], NEW L, L \subseteq Nodes, NEW begin, NEW r \in [Nodes -> Int],
         Chain(h, L, begin, r), NEW R, R \subseteq L, NEW ent \in R, Rest(h, R, ent),
         NEW g, g = Free(ListDel(h, ent), ent)
  PROVE  Rest(g, R \ {ent}, h[ent].next)
<1> DEFINE p == h[ent].prev
           s == h[ent].next
           d == ListDel(h, ent)
<1>1. Rest(h, R \ {ent}, s)
  BY RestGoesOn
<1>2. p \notin R
  BY DEF Rest
<1>3. s # ent /\ p # ent /\ (s = p => s = None) /\ (s # None => s \in L)
  BY Neighbours
<1>4. /\ \A n \in Nodes \ {ent, p, s} : d[n] = h[n]
      /\ s # None => d[s].prev = p /\ d[s].next = h[s].next
  BY <1>3, DelFacts
<1>5. \A n \in R \ {ent} : g[n] = d[n] /\ n # p /\ n # None /\ n \in Nodes
  BY <1>2, BusAssumption DEF Free, ListDel
<1> HIDE DEF p, s, d
<1>6. \A n \in R \ {ent} : g[n].next = h[n].next /\ (g[n].prev = IF n = s THEN p ELSE h[n].prev)
  BY <1>4, <1>5
<1>7. QED
  BY <1>1, <1>2, <1>6 DEF Rest, s

\* A list that nothing of has changed is what it was.
LEMMA OtherList ==
  ASSUME NEW h, NEW g, NEW L, NEW ent, Changed(h, g, L, ent),
         NEW M, M \subseteq Nodes, M \intersect (L \union {ent}) = {}, NEW begin, NEW r, Chain(h, M, begin, r)
  PROVE  Chain(g, M, begin, r)
<1>1. None \notin M /\ \A n \in M : g[n] = h[n]
  BY BusAssumption DEF Changed
<1>2. QED
  BY <1>1, ChainSame

\* A device that is still there: the structure of the scan is freed, and its
\* own has been compared.
LEMMA StillThereKeeps ==
  ASSUME NEW D, NEW F, NEW R, NEW r, BusInv(D, F, R, r), StillThere
  PROVE  \E n \in F, Q \in SUBSET R : BusInv(D, F \ {n}, Q, r)'
<1>1. /\ pc = "compare" /\ cur # None
      /\ cur' = heap[cur].next
      /\ UNCHANGED <<plugged, devices, pc, slot, changes, hub, children, before, steady>>
      /\ \E n \in Listed(found) :
           /\ heap[cur].name = heap[n].name
           /\ heap' = Free(ListDel(heap, n), n)
           /\ found' = Begin(heap, found, n)
  BY DEF StillThere, Same
<1>2. /\ r \in [Nodes -> Int] /\ D \subseteq Nodes /\ F \subseteq Nodes /\ R \subseteq D
      /\ D \intersect F = {} /\ Chain(heap, D, devices, r) /\ Chain(heap, F, found, r)
      /\ \A n \in D \union F : heap[n].live /\ heap[n].name \in Name
      /\ \A n \in Nodes \ D : heap[n].live => heap[n].config = None
      /\ OneEach(D) /\ OneEach(F) /\ Rest(heap, R, cur)
      /\ heap \in [Nodes -> Node]
  BY <1>1 DEF BusInv, ListInv, PlainInv
<1>3. Listed(found) = F /\ cur \in R
  <2>1. cur \in R
    BY <1>1, <1>2 DEF Rest
  <2>2. QED
    BY <1>2, <2>1, ListedIs
<1>4. PICK n \in F : /\ heap[cur].name = heap[n].name
                     /\ heap' = Free(ListDel(heap, n), n)
                     /\ found' = Begin(heap, found, n)
  BY <1>1, <1>3
<1>5. PICK g : g = heap'
  OBVIOUS
<1>6. PICK Q \in SUBSET R : Q = R \ {cur}
  OBVIOUS
<1>7. Changed(heap, g, F, n) /\ g[n] = Blank /\ Chain(g, F \ {n}, Begin(heap, found, n), r)
  BY <1>2, <1>4, <1>5, Freed
<1>8. Chain(g, D, devices, r)
  <2>1. D \intersect (F \union {n}) = {}
    BY <1>2
  <2>2. QED
    BY <1>2, <1>7, <2>1, OtherList
<1>9. \A m \in D : g[m] = heap[m]
  BY <1>2, <1>7 DEF Changed
<1>10. \A m \in (D \union F) \ {n} : g[m].live = heap[m].live /\ g[m].name = heap[m].name
  BY <1>2, <1>7 DEF Changed
<1>11. Rest(g, Q, heap[cur].next)
  <2>1. Rest(heap, Q, heap[cur].next)
    BY <1>2, <1>3, <1>6, RestGoesOn
  <2>2. \A m \in Q : g[m] = heap[m]
    BY <1>2, <1>6, <1>9
  <2>3. QED
    BY <2>1, <2>2, RestSame
<1>12. PlainInv'
  <2>1. heap' \in [Nodes -> Node]
    BY <1>5, <1>7 DEF Changed
  <2>2. QED
    BY <1>1, <2>1 DEF BusInv, PlainInv
<1>13. ListInv(D, F \ {n}, Q, r)'
  <2>1. ASSUME NEW m \in Nodes \ D, g[m].live PROVE g[m].config = None
    <3>1. m # n
      BY <1>7, <2>1 DEF Blank
    <3>2. QED
      BY <1>2, <1>7, <2>1, <3>1 DEF Changed
  <2>2. \A k, m \in D : g[k].name.slot = g[m].name.slot => k = m
    BY <1>2, <1>9 DEF OneEach, Slot
  <2>3. \A k, m \in F \ {n} : g[k].name.slot = g[m].name.slot => k = m
    BY <1>2, <1>10 DEF OneEach, Slot
  <2>4. \A m \in D \union (F \ {n}) : g[m].live /\ g[m].name \in Name
    BY <1>2, <1>10
  <2>5. Chain(heap', D, devices', r)
    BY <1>1, <1>5, <1>8
  <2>6. Chain(heap', F \ {n}, found', r)
    BY <1>4, <1>5, <1>7
  <2>7. Rest(heap', Q, cur')
    BY <1>1, <1>5, <1>11
  <2>8. OneEach(D)' /\ OneEach(F \ {n})'
    BY <1>5, <2>2, <2>3 DEF OneEach, Slot
  <2>9. /\ \A m \in D \union (F \ {n}) : heap'[m].live /\ heap'[m].name \in Name
        /\ \A m \in Nodes \ D : heap'[m].live => heap'[m].config = None
    BY <1>5, <2>1, <2>4
  <2>10. QED
    BY <1>1, <1>2, <1>6, <2>5, <2>6, <2>7, <2>8, <2>9 DEF ListInv
<1>14. Old' = Old /\ NamesOf(D)' = NamesOf(D)
  BY <1>1, <1>5, <1>9 DEF Old, NamesOf
<1>15. CountInv(D, F \ {n}, Q)'
  <2>1. /\ changes # -1
        /\ changes = Cardinality(Old \ NamesOf(D)) + Cardinality(NamesOf(D) \ Old)
        /\ \A b \in before, k \in D : heap[k].name = b[2] => k = b[1]
        /\ NamesOf(D) \subseteq Old
        /\ \A m \in F : heap[m].name \in Old => heap[m].name \in NamesOf(R)
        /\ \A k \in D \ R, m \in F : Slot(k) # Slot(m)
    BY <1>1 DEF BusInv, CountInv
  <2>2. \A b \in before', k \in D : g[k].name = b[2] => k = b[1]
    BY <1>1, <1>9, <2>1
  <2>3. ASSUME NEW m \in F \ {n}, g[m].name \in Old PROVE g[m].name \in NamesOf(Q)'
    <3>1. g[m].name = heap[m].name
      BY <1>10
    <3>2. PICK k \in R : heap[k].name = heap[m].name
      BY <2>1, <2>3, <3>1 DEF NamesOf
    <3>3. k # cur
      BY <1>2, <1>4, <3>2 DEF OneEach, Slot
    <3>5. k \in Q /\ heap'[k].name = g[m].name
      BY <1>2, <1>5, <1>6, <1>9, <3>1, <3>2, <3>3
    <3>6. QED
      BY <3>5 DEF NamesOf
  <2>4. ASSUME NEW k \in D \ Q, NEW m \in F \ {n} PROVE g[k].name.slot # g[m].name.slot
    <3>1. g[k].name = heap[k].name /\ g[m].name = heap[m].name
      BY <1>2, <1>10
    <3>2. CASE k = cur
      BY <1>2, <1>3, <1>4, <3>1, <3>2 DEF OneEach, Slot
    <3>3. CASE k # cur
      BY <1>6, <2>1, <3>1, <3>3 DEF Slot
    <3>4. QED
      BY <3>2, <3>3
  <2>5. changes' # -1 /\ pc' = "compare"
        /\ changes' = Cardinality((Old \ NamesOf(D))') + Cardinality((NamesOf(D) \ Old)')
        /\ NamesOf(D)' \subseteq Old'
    BY <1>1, <1>14, <2>1
  <2>6. \A b \in before', k \in D : heap'[k].name = b[2] => k = b[1]
    BY <1>5, <2>2
  <2>7. \A m \in F \ {n} : heap'[m].name \in Old' => heap'[m].name \in NamesOf(Q)'
    BY <1>5, <1>14, <2>3
  <2>8. \A k \in D \ Q, m \in F \ {n} : Slot(k)' # Slot(m)'
    BY <1>5, <2>4 DEF Slot
  <2>9. QED
    BY <2>5, <2>6, <2>7, <2>8 DEF CountInv
<1>16. ExactInv(D, F \ {n}, Q)'
  <2>1. ASSUME steady PROVE Current((F \ {n}) \union (D \ Q), NSlots + 1)'
    <3>1. Current(F \union (D \ R), NSlots + 1)
      BY <1>1, <2>1 DEF BusInv, ExactInv
    <3>2. ASSUME NEW m \in (F \ {n}) \union (D \ Q)
          PROVE plugged[g[m].name.slot] = g[m].name.model
      <4>1. g[m].name = heap[m].name
        BY <1>2, <1>10
      <4>2. CASE m = cur
        BY <1>4, <3>1, <4>1, <4>2 DEF Current, Slot
      <4>3. CASE m # cur
        BY <1>6, <3>1, <4>1, <4>3 DEF Current, Slot
      <4>4. QED
        BY <4>2, <4>3
    <3>3. ASSUME NEW t \in Slots, t < NSlots + 1, plugged[t] # None
          PROVE \E m \in (F \ {n}) \union (D \ Q) : g[m].name = [slot |-> t, model |-> plugged[t]]
      <4>1. PICK m \in F \union (D \ R) : heap[m].name = [slot |-> t, model |-> plugged[t]]
        BY <3>1, <3>3 DEF Current
      <4>2. CASE m = n
        BY <1>2, <1>3, <1>4, <1>6, <1>9, <4>1, <4>2
      <4>3. CASE m # n
        BY <1>2, <1>6, <1>10, <4>1, <4>3
      <4>4. QED
        BY <4>2, <4>3
    <3>4. /\ \A m \in (F \ {n}) \union (D \ Q) : plugged'[Slot(m)'] = heap'[m].name.model
          /\ \A t \in Slots : t < NSlots + 1 /\ plugged'[t] # None =>
               \E m \in (F \ {n}) \union (D \ Q) :
                 heap'[m].name = [slot |-> t, model |-> plugged'[t]]
      BY <1>1, <1>5, <3>2, <3>3 DEF Slot
    <3>5. QED
      BY <3>4 DEF Current
  <2>2. QED
    BY <1>1, <2>1 DEF ExactInv
<1>17. QED
  BY <1>12, <1>13, <1>15, <1>16 DEF BusInv


\* A device that is gone: its structure leaves the bus, and is counted.
LEMMA GoneKeeps ==
  ASSUME NEW D, NEW F, NEW R, NEW r, BusInv(D, F, R, r), Gone
  PROVE  \E C \in SUBSET D, Q \in SUBSET R : BusInv(C, F, Q, r)'
<1>1. /\ pc = "compare" /\ cur # None
      /\ cur' = heap[cur].next /\ changes' = changes + 1
      /\ UNCHANGED <<plugged, found, pc, slot, hub, children, before, steady>>
      /\ \A n \in Listed(found) : heap[cur].name # heap[n].name
      /\ heap' = Free(ListDel(heap, cur), cur)
      /\ devices' = Begin(heap, devices, cur)
  BY DEF Gone, Same
<1>2. /\ r \in [Nodes -> Int] /\ D \subseteq Nodes /\ F \subseteq Nodes /\ R \subseteq D
      /\ D \intersect F = {} /\ Chain(heap, D, devices, r) /\ Chain(heap, F, found, r)
      /\ \A n \in D \union F : heap[n].live /\ heap[n].name \in Name
      /\ \A n \in Nodes \ D : heap[n].live => heap[n].config = None
      /\ OneEach(D) /\ OneEach(F) /\ Rest(heap, R, cur)
      /\ heap \in [Nodes -> Node]
  BY <1>1 DEF BusInv, ListInv, PlainInv
<1>3. cur \in R
  BY <1>1, <1>2 DEF Rest
<1>4. \A n \in F : heap[cur].name # heap[n].name
  BY <1>1, <1>2, ListedIs
<1>5. PICK g : g = heap'
  OBVIOUS
<1>6. PICK C \in SUBSET D, Q \in SUBSET R : C = D \ {cur} /\ Q = R \ {cur}
  OBVIOUS
<1>7. Changed(heap, g, D, cur) /\ g[cur] = Blank /\ Chain(g, C, Begin(heap, devices, cur), r)
  BY <1>1, <1>2, <1>3, <1>5, <1>6, Freed
<1>8. Chain(g, F, found, r)
  <2>1. F \intersect (D \union {cur}) = {}
    BY <1>2, <1>3
  <2>2. QED
    BY <1>2, <1>7, <2>1, OtherList
<1>9. /\ \A m \in F : g[m] = heap[m]
      /\ \A m \in C \union F : g[m].live = heap[m].live /\ g[m].name = heap[m].name
  BY <1>2, <1>3, <1>6, <1>7 DEF Changed
<1>10. Rest(g, Q, heap[cur].next)
  BY <1>1, <1>2, <1>3, <1>5, <1>6, RestAfterFreed
<1>11. PlainInv'
  <2>1. heap' \in [Nodes -> Node]
    BY <1>5, <1>7 DEF Changed
  <2>2. changes' \in Int /\ changes' >= -1
    <3>1. changes \in Int /\ changes >= -1
      BY DEF BusInv, PlainInv
    <3>2. QED
      BY <1>1, <3>1
  <2>3. QED
    BY <1>1, <2>1, <2>2 DEF BusInv, PlainInv
<1>12. ListInv(C, F, Q, r)'
  <2>1. ASSUME NEW m \in Nodes \ C, g[m].live PROVE g[m].config = None
    <3>1. m # cur
      BY <1>7, <2>1 DEF Blank
    <3>2. QED
      BY <1>2, <1>6, <1>7, <2>1, <3>1 DEF Changed
  <2>2. \A k, m \in C : g[k].name.slot = g[m].name.slot => k = m
    BY <1>2, <1>9 DEF OneEach, Slot
  <2>3. \A k, m \in F : g[k].name.slot = g[m].name.slot => k = m
    BY <1>2, <1>9 DEF OneEach, Slot
  <2>4. \A m \in C \union F : g[m].live /\ g[m].name \in Name
    BY <1>2, <1>9
  <2>5. Chain(heap', C, devices', r)
    BY <1>1, <1>5, <1>7
  <2>6. Chain(heap', F, found', r)
    BY <1>1, <1>5, <1>8
  <2>7. Rest(heap', Q, cur')
    BY <1>1, <1>5, <1>10
  <2>8. OneEach(C)' /\ OneEach(F)'
    BY <1>5, <2>2, <2>3 DEF OneEach, Slot
  <2>9. /\ \A m \in C \union F : heap'[m].live /\ heap'[m].name \in Name
        /\ \A m \in Nodes \ C : heap'[m].live => heap'[m].config = None
    BY <1>5, <2>1, <2>4
  <2>10. QED
    BY <1>1, <1>2, <1>6, <2>5, <2>6, <2>7, <2>8, <2>9 DEF ListInv
<1>13. Old' = Old /\ NamesOf(C)' = NamesOf(D) \ {heap[cur].name}
  <2>1. Old' = Old
    BY <1>1 DEF Old
  <2>2. \A m \in C : heap'[m].name = heap[m].name
    BY <1>5, <1>9
  <2>3. NamesOf(C)' = {heap[m].name : m \in C}
    BY <2>2 DEF NamesOf
  <2>4. \A m \in C : heap[m].name # heap[cur].name
    BY <1>2, <1>3, <1>6 DEF OneEach, Slot
  <2>5. QED
    BY <1>6, <2>1, <2>3, <2>4 DEF NamesOf
<1>14. CountInv(C, F, Q)'
  <2>1. /\ changes # -1 /\ changes \in Int
        /\ changes = Cardinality(Old \ NamesOf(D)) + Cardinality(NamesOf(D) \ Old)
        /\ \A b \in before, k \in D : heap[k].name = b[2] => k = b[1]
        /\ NamesOf(D) \subseteq Old
        /\ \A m \in F : heap[m].name \in Old => heap[m].name \in NamesOf(R)
        /\ \A k \in D \ R, m \in F : Slot(k) # Slot(m)
    BY <1>1 DEF BusInv, CountInv, PlainInv
  <2>2. PICK nm : nm = heap[cur].name
    OBVIOUS
  <2>3. nm \in NamesOf(D) /\ nm \in Old
    BY <1>2, <1>3, <2>1, <2>2 DEF NamesOf
  <2>4. /\ (Old \ NamesOf(C))' = (Old \ NamesOf(D)) \union {nm}
        /\ (NamesOf(C) \ Old)' = NamesOf(D) \ Old
    BY <1>13, <2>1, <2>2, <2>3
  <2>5. /\ IsFiniteSet(Old \ NamesOf(D))
        /\ Cardinality(Old \ NamesOf(D)) \in Nat /\ Cardinality(NamesOf(D) \ Old) \in Nat
    <3>1. PlainInv /\ \A m \in D : heap[m].name \in Name
      BY <1>2 DEF BusInv
    <3>2. /\ IsFiniteSet(Old \ NamesOf(D))
          /\ Cardinality(Old \ NamesOf(D)) \in 0 .. NSlots
          /\ Cardinality(NamesOf(D) \ Old) \in 0 .. NSlots
      BY <1>2, <3>1, CountIsBounded
    <3>3. QED
      BY <3>2
  <2>6. Cardinality((Old \ NamesOf(C))') = Cardinality(Old \ NamesOf(D)) + 1
    BY <2>3, <2>4, <2>5, FS_AddElement
  <2>7. /\ changes' # -1 /\ pc' = "compare"
        /\ changes' = Cardinality((Old \ NamesOf(C))') + Cardinality((NamesOf(C) \ Old)')
    <3>1. Cardinality((NamesOf(C) \ Old)') = Cardinality(NamesOf(D) \ Old)
      BY <2>4
    <3>2. PICK a \in Nat, b \in Nat : a = Cardinality(Old \ NamesOf(D)) /\ b = Cardinality(NamesOf(D) \ Old)
      BY <2>5
    <3>3. changes = a + b /\ changes' = changes + 1
      BY <1>1, <2>1, <3>2
    <3>4. Cardinality((Old \ NamesOf(C))') = a + 1 /\ Cardinality((NamesOf(C) \ Old)') = b
      BY <2>6, <3>1, <3>2
    <3>5. changes' = (a + 1) + b /\ changes' # -1
      BY <3>2, <3>3
    <3>6. QED
      BY <1>1, <3>4, <3>5
  <2>8. NamesOf(C)' \subseteq Old'
    BY <1>13, <2>1
  <2>9. \A b \in before', k \in C : heap'[k].name = b[2] => k = b[1]
    BY <1>1, <1>5, <1>9, <2>1
  <2>10. ASSUME NEW m \in F, heap'[m].name \in Old' PROVE heap'[m].name \in NamesOf(Q)'
    <3>1. heap'[m].name = heap[m].name
      BY <1>5, <1>9
    <3>2. PICK k \in R : heap[k].name = heap[m].name
      BY <1>13, <2>1, <2>10, <3>1 DEF NamesOf
    <3>3. k # cur
      BY <1>4, <3>2
    <3>4. k \in Q /\ heap'[k].name = heap'[m].name
      BY <1>2, <1>5, <1>6, <1>9, <3>1, <3>2, <3>3
    <3>5. QED
      BY <3>4 DEF NamesOf
  <2>11. \A k \in C \ Q, m \in F : Slot(k)' # Slot(m)'
    BY <1>5, <1>6, <1>9, <2>1 DEF Slot
  <2>12. QED
    BY <2>7, <2>8, <2>9, <2>10, <2>11 DEF CountInv
<1>15. ExactInv(C, F, Q)'
  <2>1. ASSUME steady PROVE Current(F \union (C \ Q), NSlots + 1)'
    <3>1. Current(F \union (C \ Q), NSlots + 1)
      <4>1. Current(F \union (D \ R), NSlots + 1)
        BY <1>1, <2>1 DEF BusInv, ExactInv
      <4>2. D \ R = C \ Q
        BY <1>3, <1>6
      <4>3. QED
        BY <4>1, <4>2
    <3>2. \A m \in F \union (C \ Q) : heap'[m].name = heap[m].name
      BY <1>5, <1>9
    <3>3. QED
      BY <1>1, <3>1, <3>2 DEF Current, Slot
  <2>2. QED
    BY <1>1, <2>1 DEF ExactInv
<1>16. QED
  BY <1>11, <1>12, <1>14, <1>15 DEF BusInv

\* Scan finds a device, and gets the structure n for it.
Finds(n) ==
  /\ pc = "scan" /\ slot \in Slots /\ slot' = slot + 1
  /\ ~ heap[n].live /\ plugged[slot] # None
  /\ heap' = ListAdd([heap EXCEPT ![n] = [Blank EXCEPT !.live = TRUE,
                          !.name = [slot |-> slot, model |-> plugged[slot]]]], found, n)
  /\ found' = n
  /\ UNCHANGED <<steady, plugged, devices, pc, cur, changes, hub, children, before>>

\* Its structure is new, and at the head of the scan's list.
LEMMA FoundKeeps ==
  ASSUME NEW D, NEW F, NEW R, NEW r, BusInv(D, F, R, r), NEW n \in Nodes, Finds(n)
  PROVE  \E G \in SUBSET Nodes, q \in [Nodes -> Int] : BusInv(D, G, R, q)'
<1>1. /\ pc = "scan" /\ slot \in Slots /\ slot' = slot + 1
      /\ ~ heap[n].live /\ plugged[slot] # None /\ found' = n
      /\ UNCHANGED <<steady, plugged, devices, pc, cur, changes, hub, children, before>>
  BY DEF Finds
<1>2. PICK node : node = [Blank EXCEPT !.live = TRUE, !.name = [slot |-> slot, model |-> plugged[slot]]]
  OBVIOUS
<1>3. heap' = ListAdd([heap EXCEPT ![n] = node], found, n)
  BY <1>2 DEF Finds
<1>4. /\ r \in [Nodes -> Int] /\ D \subseteq Nodes /\ F \subseteq Nodes /\ R = {}
      /\ D \intersect F = {} /\ Chain(heap, D, devices, r) /\ Chain(heap, F, found, r)
      /\ \A m \in D \union F : heap[m].live /\ heap[m].name \in Name
      /\ \A m \in Nodes \ D : heap[m].live => heap[m].config = None
      /\ OneEach(D) /\ OneEach(F)
      /\ heap \in [Nodes -> Node] /\ cur = None
  BY <1>1 DEF BusInv, ListInv, PlainInv
<1>5. hub => D = {children[k] : k \in DOMAIN children}
  BY <1>1 DEF BusInv, ListInv
<1>6. n \notin D /\ n \notin F /\ None \notin Nodes
  BY <1>1, <1>4, BusAssumption
<1>7. PICK nm \in Name : nm.slot = slot /\ nm.model = plugged[slot]
                          /\ nm = [slot |-> slot, model |-> plugged[slot]]
  <2>1. plugged[slot] \in Models
    BY <1>1 DEF BusInv, PlainInv
  <2>2. QED
    BY <1>1, <2>1, NameFacts
<1>8. node \in Node /\ node.live /\ node.name = nm /\ node.config = None
  <2>1. node = [live |-> TRUE, next |-> None, prev |-> None, name |-> nm, config |-> None]
    BY <1>2, <1>7 DEF Blank
  <2>2. nm \in Name \union {None} /\ None \in Address /\ None \in Models \union {None}
    BY <1>7 DEF Address
  <2>3. node \in Node
    BY <2>1, <2>2 DEF Node
  <2>4. QED
    BY <2>1, <2>3
<1>9. PICK h : h = [heap EXCEPT ![n] = node]
  OBVIOUS
<1>10. /\ h \in [Nodes -> Node] /\ h[n] = node
      /\ \A m \in Nodes \ {n} : h[m] = heap[m]
  BY <1>4, <1>8, <1>9
<1>11. Chain(h, F, found, r) /\ Chain(h, D, devices, r)
  <2>1. /\ None \notin F /\ None \notin D
        /\ \A m \in D \union F : h[m] = heap[m]
    BY <1>4, <1>6, <1>10
  <2>2. QED
    BY <1>4, <2>1, ChainSame
<1>12. PICK g : g = heap'
  OBVIOUS
<1>13. PICK G \in SUBSET Nodes : G = F \union {n}
  BY <1>4
<1>14. g = ListAdd(h, found, n)
  BY <1>3, <1>9, <1>12
<1>15. PICK q \in [Nodes -> Int] :
         /\ Chain(g, G, n, q)
         /\ \A m \in Nodes \ {n} : q[m] = r[m]
  <2>1. n \in Nodes \ F
    BY <1>6
  <2>2. HeadedBy(ListAdd(h, found, n), F, n, r)
    BY <1>4, <1>10, <1>11, <2>1, AddToList
  <2>3. QED
    BY <1>13, <1>14, <2>2 DEF HeadedBy
<1>16. found \in Address /\ found # n /\ found \notin D
  <2>1. found = None \/ found \in F
    BY <1>4 DEF Chain
  <2>2. QED
    BY <1>4, <1>6, <2>1 DEF Address
<1>17. /\ g \in [Nodes -> Node]
       /\ \A m \in Nodes \ {n, found} : g[m] = h[m]
       /\ \A m \in Nodes : g[m].live = h[m].live /\ g[m].name = h[m].name /\ g[m].config = h[m].config
  BY <1>10, <1>14, <1>16, AddFacts
<1>18. /\ g[n].live /\ g[n].name = nm /\ g[n].config = None
       /\ \A m \in Nodes \ {n} : /\ g[m].live = heap[m].live /\ g[m].name = heap[m].name
                                 /\ g[m].config = heap[m].config
  BY <1>8, <1>10, <1>17
<1>19. Chain(g, D, devices, q)
  <2>1. None \notin D /\ \A m \in D : g[m] = h[m] /\ q[m] = r[m]
    BY <1>4, <1>6, <1>15, <1>16, <1>17
  <2>2. QED
    BY <1>11, <2>1, ChainSame
<1>20. \A m \in D \union F : heap'[m].name = heap[m].name
  BY <1>4, <1>6, <1>12, <1>18
<1>21. NSlots \in Nat /\ slot \in 1 .. NSlots
  BY <1>1, BusAssumption DEF Slots
<1>22. \A m \in F : heap[m].name.slot < slot /\ heap[m].name.slot \in Int
  BY <1>1, <1>4, NameFacts DEF BusInv, ExactInv, Slot, Slots
<1>23. PlainInv'
  <2>1. heap' \in [Nodes -> Node]
    BY <1>12, <1>17
  <2>2. slot' \in 1 .. NSlots + 1
    BY <1>1, <1>21
  <2>3. QED
    BY <1>1, <2>1, <2>2 DEF BusInv, PlainInv
<1>24. ListInv(D, G, R, q)'
  <2>1. \A m \in Nodes \ D : heap'[m].live => heap'[m].config = None
    BY <1>4, <1>12, <1>18
  <2>2. \A m \in D \union G : heap'[m].live /\ heap'[m].name \in Name
    BY <1>4, <1>12, <1>13, <1>18
  <2>3. \A k, m \in D : heap'[k].name.slot = heap'[m].name.slot => k = m
    BY <1>4, <1>20 DEF OneEach, Slot
  <2>4. \A k, m \in F : heap'[k].name.slot = heap'[m].name.slot => k = m
    BY <1>4, <1>20 DEF OneEach, Slot
  <2>5. \A m \in F : heap'[m].name.slot # heap'[n].name.slot
    <3>1. ASSUME NEW m \in F PROVE heap'[m].name.slot # heap'[n].name.slot
      <4>1. heap'[m].name = heap[m].name /\ heap'[n].name.slot = slot
        BY <1>4, <1>6, <1>7, <1>12, <1>18
      <4>2. heap[m].name.slot # slot
        BY <1>21, <1>22
      <4>3. QED
        BY <4>1, <4>2
    <3>2. QED
      BY <3>1
  <2>6. \A k, m \in G : heap'[k].name.slot = heap'[m].name.slot => k = m
    <3>1. ASSUME NEW k \in G, NEW m \in G, heap'[k].name.slot = heap'[m].name.slot PROVE k = m
      <4>1. CASE k = n /\ m = n
        BY <4>1
      <4>2. CASE k = n /\ m \in F
        BY <2>5, <3>1, <4>2
      <4>3. CASE k \in F /\ m = n
        BY <2>5, <3>1, <4>3
      <4>4. CASE k \in F /\ m \in F
        BY <2>4, <3>1, <4>4
      <4>5. QED
        BY <1>13, <4>1, <4>2, <4>3, <4>4
    <3>2. QED
      BY <3>1
  <2>7. OneEach(D)' /\ OneEach(G)'
    BY <2>3, <2>6 DEF OneEach, Slot
  <2>8. Chain(heap', D, devices', q) /\ Chain(heap', G, found', q)
    BY <1>1, <1>12, <1>15, <1>19
  <2>9. D \intersect G = {}
    BY <1>4, <1>6, <1>13
  <2>10. QED
    BY <1>1, <1>4, <1>5, <1>13, <1>15, <2>1, <2>2, <2>7, <2>8, <2>9 DEF ListInv
<1>25. Old' = Old /\ NamesOf(D)' = NamesOf(D)
  <2>1. Old' = Old
    BY <1>1 DEF Old
  <2>2. \A m \in D : heap'[m].name = heap[m].name
    BY <1>4, <1>6, <1>12, <1>18
  <2>3. QED
    BY <2>1, <2>2 DEF NamesOf
<1>26. CountInv(D, G, R)'
  <2>1. /\ changes = 0 /\ Old \subseteq NamesOf(D) /\ NamesOf(D) \subseteq Old
        /\ \A b \in before, k \in D : heap[k].name = b[2] => k = b[1]
        /\ (IF changes = -1 THEN 0 ELSE changes) =
             Cardinality(Old \ NamesOf(D)) + Cardinality(NamesOf(D) \ Old)
    BY <1>1 DEF BusInv, CountInv
  <2>2. \A b \in before', k \in D : heap'[k].name = b[2] => k = b[1]
    BY <1>1, <1>20, <2>1
  <2>3. /\ (IF changes' = -1 THEN 0 ELSE changes') =
             Cardinality((Old \ NamesOf(D))') + Cardinality((NamesOf(D) \ Old)')
        /\ changes' = 0 /\ pc' = "scan" /\ Old' \subseteq NamesOf(D)' /\ NamesOf(D)' \subseteq Old'
    BY <1>1, <1>25, <2>1
  <2>4. ~(changes' = -1) /\ ~(pc' \in {"compare", "add"})
    BY <2>3
  <2>5. QED
    BY <2>2, <2>3, <2>4 DEF CountInv
<1>27. ExactInv(D, G, R)'
  <2>1. ASSUME NEW m \in G PROVE Slot(m)' < slot'
    <3>1. CASE m = n
      BY <1>1, <1>7, <1>12, <1>18, <1>21, <3>1 DEF Slot
    <3>2. CASE m # n
      <4>1. m \in F /\ heap'[m].name = heap[m].name
        BY <1>12, <1>13, <1>18, <3>2
      <4>2. heap[m].name.slot < slot + 1
        BY <1>21, <1>22, <4>1
      <4>3. QED
        BY <1>1, <4>1, <4>2 DEF Slot
    <3>3. QED
      BY <3>1, <3>2
  <2>2. ASSUME steady PROVE Current(G, slot)'
    <3>1. Current(F, slot)
      BY <1>1, <2>2 DEF BusInv, ExactInv
    <3>2. ASSUME NEW m \in G PROVE plugged'[Slot(m)'] = heap'[m].name.model
      <4>1. CASE m = n
        BY <1>1, <1>7, <1>12, <1>18, <4>1 DEF Slot
      <4>2. CASE m # n
        <5>1. m \in F /\ heap'[m].name = heap[m].name
          BY <1>12, <1>13, <1>18, <4>2
        <5>2. QED
          BY <1>1, <3>1, <5>1 DEF Current, Slot
      <4>3. QED
        BY <4>1, <4>2
    <3>3. ASSUME NEW t \in Slots, t < slot', plugged'[t] # None
          PROVE \E m \in G : heap'[m].name = [slot |-> t, model |-> plugged'[t]]
      <4>1. CASE t = slot
        <5>1. n \in G /\ heap'[n].name = [slot |-> t, model |-> plugged'[t]]
          BY <1>1, <1>7, <1>12, <1>13, <1>18, <4>1
        <5>2. QED
          BY <5>1
      <4>2. CASE t # slot
        <5>1. t < slot /\ plugged[t] # None
          BY <1>1, <1>21, <3>3, <4>2 DEF Slots
        <5>2. PICK m \in F : heap[m].name = [slot |-> t, model |-> plugged[t]]
          BY <3>1, <5>1 DEF Current
        <5>3. m \in G /\ heap'[m].name = [slot |-> t, model |-> plugged'[t]]
          BY <1>1, <1>13, <1>20, <5>2
        <5>4. QED
          BY <5>3
      <4>3. QED
        BY <4>1, <4>2
    <3>4. QED
      BY <3>2, <3>3 DEF Current
  <2>3. QED
    BY <1>1, <2>1, <2>2 DEF ExactInv
<1>28. QED
  BY <1>23, <1>24, <1>26, <1>27 DEF BusInv

\* What a structure is once it is off its list and its configurations are set.
TakenOff(h, g, L, begin, ent, m, r) ==
  /\ g \in [Nodes -> Node]
  /\ \A n \in Nodes \ L : g[n] = h[n]
  /\ \A n \in Nodes : g[n].live = h[n].live /\ g[n].name = h[n].name
  /\ \A n \in Nodes \ {ent} : g[n].config = h[n].config
  /\ g[ent].config = m
  /\ Chain(g, L \ {ent}, Begin(h, begin, ent), r)

LEMMA Taken ==
  ASSUME NEW h \in [Nodes -> Node], NEW L, L \subseteq Nodes, NEW begin, NEW r \in [Nodes -> Int],
         Chain(h, L, begin, r), NEW ent \in L, NEW m \in Models \union {None},
         NEW g, g = [ListDel(h, ent) EXCEPT ![ent].config = m]
  PROVE  TakenOff(h, g, L, begin, ent, m, r)
<1> DEFINE d == ListDel(h, ent)
<1>1. /\ h[ent].next \in L \union {None} /\ h[ent].prev \in L \union {None}
      /\ h[ent].next # ent /\ h[ent].prev # ent
      /\ h[ent].next = h[ent].prev => h[ent].next = None
  BY Neighbours
<1>2. /\ d \in [Nodes -> Node]
      /\ \A n \in Nodes \ {ent, h[ent].prev, h[ent].next} : d[n] = h[n]
      /\ \A n \in Nodes : d[n].live = h[n].live /\ d[n].name = h[n].name /\ d[n].config = h[n].config
  BY <1>1, DelFacts
<1>3. Chain(d, L \ {ent}, Begin(h, begin, ent), r)
  BY DelFromList
<1> HIDE DEF d
<1>4. g = [d EXCEPT ![ent] = [d[ent] EXCEPT !.config = m]]
  BY <1>2 DEF d
<1>5. d[ent] \in Node /\ ent \in Nodes
  BY <1>2
<1>6. PICK v : v = [d[ent] EXCEPT !.config = m]
  OBVIOUS
<1>7. v \in Node /\ v.config = m /\ v.live = d[ent].live /\ v.name = d[ent].name
  BY <1>5, <1>6 DEF Node
<1>8. g[ent] = v /\ g \in [Nodes -> Node] /\ \A n \in Nodes \ {ent} : g[n] = d[n]
  BY <1>2, <1>4, <1>5, <1>6, <1>7
<1>9. Chain(g, L \ {ent}, Begin(h, begin, ent), r)
  <2>1. None \notin L \ {ent} /\ \A n \in L \ {ent} : g[n] = d[n]
    BY <1>8, BusAssumption
  <2>2. QED
    BY <1>3, <2>1, ChainSame
<1>10. ASSUME NEW n \in Nodes PROVE g[n].live = h[n].live /\ g[n].name = h[n].name
  BY <1>2, <1>5, <1>7, <1>8
<1>11. \A n \in Nodes \ L : g[n] = h[n]
  BY <1>1, <1>2, <1>8, BusAssumption
<1>12. \A n \in Nodes \ {ent} : g[n].config = h[n].config
  BY <1>2, <1>8
<1>13. QED
  BY <1>7, <1>8, <1>9, <1>10, <1>11, <1>12 DEF TakenOff

\* The next device of the scan is taken, and asked for its configurations, m.
Opens(m, h) ==
  /\ pc = "add" /\ cur # None
  /\ found' = Begin(heap, found, cur) /\ cur' = heap[cur].next
  /\ m \in {plugged[heap[cur].name.slot], None}
  /\ h = [ListDel(heap, cur) EXCEPT ![cur].config = m]
  /\ UNCHANGED <<plugged, pc, slot, hub, children, before>>

\* What holds then: the scan's list is without it, and it is new to the bus.
Opened(D, F, r, m, h) ==
  /\ cur \in F /\ D \subseteq Nodes /\ F \subseteq Nodes /\ D \intersect F = {}
  /\ r \in [Nodes -> Int] /\ h \in [Nodes -> Node] /\ m \in Models \union {None}
  /\ Chain(h, D, devices, r) /\ Chain(h, F \ {cur}, found', r) /\ cur' = found'
  /\ \A n \in Nodes : h[n].live = heap[n].live /\ h[n].name = heap[n].name
  /\ h[cur].config = m
  /\ \A n \in Nodes \ {cur} : h[n].config = heap[n].config
  /\ \A n \in D \union F : heap[n].live /\ heap[n].name \in Name
  /\ \A n \in Nodes \ D : heap[n].live => heap[n].config = None
  /\ OneEach(D) /\ OneEach(F)
  /\ \A n \in F : heap[n].name \notin Old
  /\ \A n \in D, k \in F : Slot(n) # Slot(k)

LEMMA OpenedFacts ==
  ASSUME NEW D, NEW F, NEW R, NEW r, BusInv(D, F, R, r), NEW m, NEW h, Opens(m, h)
  PROVE  R = {} /\ Opened(D, F, r, m, h)
<1>1. /\ pc = "add" /\ cur # None
      /\ found' = Begin(heap, found, cur) /\ cur' = heap[cur].next
      /\ m \in {plugged[heap[cur].name.slot], None}
      /\ h = [ListDel(heap, cur) EXCEPT ![cur].config = m]
  BY DEF Opens
<1>2. /\ r \in [Nodes -> Int] /\ D \subseteq Nodes /\ F \subseteq Nodes /\ R = {}
      /\ D \intersect F = {} /\ Chain(heap, D, devices, r) /\ Chain(heap, F, found, r)
      /\ \A n \in D \union F : heap[n].live /\ heap[n].name \in Name
      /\ \A n \in Nodes \ D : heap[n].live => heap[n].config = None
      /\ OneEach(D) /\ OneEach(F)
      /\ heap \in [Nodes -> Node] /\ cur = found
  BY <1>1 DEF BusInv, ListInv, PlainInv
<1>3. cur \in F /\ cur' = found'
  <2>1. cur \in F /\ heap[cur].prev = None
    BY <1>1, <1>2 DEF Chain
  <2>2. QED
    BY <1>1, <2>1 DEF Begin
<1>4. m \in Models \union {None}
  <2>1. plugged \in [Slots -> Models \union {None}]
    BY DEF BusInv, PlainInv
  <2>2. heap[cur].name.slot \in Slots
    BY <1>2, <1>3, NameFacts
  <2>3. QED
    BY <1>1, <2>1, <2>2
<1>5. TakenOff(heap, h, F, found, cur, m, r)
  BY <1>1, <1>2, <1>3, <1>4, Taken
<1>6. Chain(h, D, devices, r)
  <2>1. None \notin D /\ \A n \in D : h[n] = heap[n]
    BY <1>2, <1>5, BusAssumption DEF TakenOff
  <2>2. QED
    BY <1>2, <2>1, ChainSame
<1>7. \A n \in F : heap[n].name \notin Old
  <2>1. \A n \in F : heap[n].name \in Old => heap[n].name \in NamesOf(R)
    BY <1>1 DEF BusInv, CountInv
  <2>2. NamesOf(R) = {}
    BY <1>2 DEF NamesOf
  <2>3. QED
    BY <2>1, <2>2
<1>8. \A n \in D, k \in F : Slot(n) # Slot(k)
  BY <1>1, <1>2 DEF BusInv, CountInv
<1>9. Chain(h, F \ {cur}, found', r)
  BY <1>1, <1>5 DEF TakenOff
<1>10. QED
  BY <1>2, <1>3, <1>4, <1>5, <1>6, <1>7, <1>8, <1>9 DEF Opened, TakenOff

\* It gives none: it is on no list any more, and was never on the bus.
LEMMA LeftOffKeeps ==
  ASSUME NEW D, NEW F, NEW R, NEW r, BusInv(D, F, R, r), NEW h, Opens(None, h),
         heap' = h /\ steady' = FALSE /\ UNCHANGED <<devices, changes>>
  PROVE  \E E \in SUBSET F : BusInv(D, E, R, r)'
<1>1. R = {} /\ Opened(D, F, r, None, h)
  BY OpenedFacts
<1>2. /\ pc = "add" /\ UNCHANGED <<plugged, pc, slot, hub, children, before, devices, changes>>
      /\ steady' = FALSE
  BY DEF Opens
<1>3. PICK E \in SUBSET F : E = F \ {cur}
  OBVIOUS
<1>4. heap' = h
  OBVIOUS
<1>5. PlainInv'
  BY <1>1, <1>2, <1>4 DEF BusInv, PlainInv, Opened
<1>6. ListInv(D, E, R, r)'
  <2>1. \A n \in Nodes \ D : heap'[n].live => heap'[n].config = None
    BY <1>1, <1>4 DEF Opened
  <2>2. \A n \in D \union F : heap'[n].live /\ heap'[n].name \in Name /\ heap'[n].name = heap[n].name
    BY <1>1, <1>4 DEF Opened
  <2>3. OneEach(D)' /\ OneEach(E)'
    BY <1>1, <1>3, <2>2 DEF Opened, OneEach, Slot
  <2>4. /\ Chain(heap', D, devices', r) /\ Chain(heap', E, found', r) /\ cur' = found'
        /\ D \intersect E = {} /\ D \subseteq Nodes /\ E \subseteq Nodes /\ r \in [Nodes -> Int]
    BY <1>1, <1>2, <1>3, <1>4 DEF Opened
  <2>5. QED
    BY <1>1, <1>2, <1>3, <2>1, <2>2, <2>3, <2>4 DEF ListInv
<1>7. CountInv(D, E, R)'
  <2>1. \A n \in D \union F : heap'[n].name = heap[n].name
    BY <1>1, <1>4 DEF Opened
  <2>2. Old' = Old /\ NamesOf(D)' = NamesOf(D)
    BY <1>2, <2>1 DEF Old, NamesOf
  <2>3. /\ (IF changes = -1 THEN 0 ELSE changes) =
             Cardinality(Old \ NamesOf(D)) + Cardinality(NamesOf(D) \ Old)
        /\ changes # -1
        /\ \A b \in before, n \in D : heap[n].name = b[2] => n = b[1]
    BY <1>2 DEF BusInv, CountInv
  <2>4. \A b \in before', n \in D : heap'[n].name = b[2] => n = b[1]
    BY <1>2, <2>1, <2>3
  <2>5. \A n \in E : heap'[n].name \notin Old'
    BY <1>1, <1>3, <2>1, <2>2 DEF Opened
  <2>6. \A n \in D \ R, k \in E : Slot(n)' # Slot(k)'
    BY <1>1, <1>3, <2>1 DEF Opened, Slot
  <2>7. /\ (IF changes' = -1 THEN 0 ELSE changes') =
             Cardinality((Old \ NamesOf(D))') + Cardinality((NamesOf(D) \ Old)')
        /\ changes' # -1 /\ pc' = "add"
    BY <1>2, <2>2, <2>3
  <2>8. QED
    BY <2>4, <2>5, <2>6, <2>7 DEF CountInv
<1>8. ExactInv(D, E, R)'
  BY <1>2 DEF ExactInv
<1>9. QED
  BY <1>5, <1>6, <1>7, <1>8 DEF BusInv

\* It gives them: it goes on the bus, and is counted.
LEMMA AddedKeeps ==
  ASSUME NEW D, NEW F, NEW R, NEW r, BusInv(D, F, R, r), NEW m, m # None, NEW h, Opens(m, h),
         heap' = ListAdd(h, devices, cur) /\ devices' = cur /\ changes' = changes + 1,
         UNCHANGED steady
  PROVE  \E C \in SUBSET Nodes, E \in SUBSET F, q \in [Nodes -> Int] : BusInv(C, E, R, q)'
<1>1. R = {} /\ Opened(D, F, r, m, h)
  BY OpenedFacts
<1>2. /\ pc = "add" /\ UNCHANGED <<plugged, pc, slot, hub, children, before, steady>>
      /\ devices' = cur /\ changes' = changes + 1
  BY DEF Opens
<1>3. PICK C \in SUBSET Nodes, E \in SUBSET F : C = D \union {cur} /\ E = F \ {cur}
  BY <1>1 DEF Opened
<1>4. PICK g : g = heap'
  OBVIOUS
<1>5. g = ListAdd(h, devices, cur)
  BY <1>4
<1>6. cur \in Nodes /\ cur \notin D /\ None \notin Nodes
  BY <1>1, BusAssumption DEF Opened
<1>7. PICK q \in [Nodes -> Int] : Chain(g, C, cur, q) /\ \A n \in Nodes \ {cur} : q[n] = r[n]
  <2>1. HeadedBy(ListAdd(h, devices, cur), D, cur, r)
    BY <1>1, <1>6, AddToList DEF Opened
  <2>2. QED
    BY <1>3, <1>5, <2>1 DEF HeadedBy
<1>8. devices \in Address /\ devices # cur /\ devices \notin F
  <2>1. devices = None \/ devices \in D
    BY <1>1 DEF Opened, Chain
  <2>2. QED
    BY <1>1, <1>6, <2>1 DEF Opened, Address
<1>9. /\ g \in [Nodes -> Node]
      /\ \A n \in Nodes \ {cur, devices} : g[n] = h[n]
      /\ \A n \in Nodes : g[n].live = h[n].live /\ g[n].name = h[n].name /\ g[n].config = h[n].config
  BY <1>1, <1>5, <1>6, <1>8, AddFacts DEF Opened
<1>10. Chain(g, E, found', q)
  <2>1. None \notin E /\ \A n \in E : g[n] = h[n] /\ q[n] = r[n]
    BY <1>1, <1>3, <1>6, <1>7, <1>8, <1>9 DEF Opened
  <2>2. Chain(h, E, found', r)
    BY <1>1, <1>3 DEF Opened
  <2>3. QED
    BY <2>1, <2>2, ChainSame
<1>11. \A n \in C \union F : heap'[n].name = heap[n].name /\ heap'[n].live /\ heap'[n].name \in Name
  BY <1>1, <1>3, <1>4, <1>9 DEF Opened
<1>12. PlainInv'
  <2>1. heap' \in [Nodes -> Node]
    BY <1>4, <1>9
  <2>2. changes' \in Int /\ changes' >= -1
    <3>1. changes \in Int /\ changes >= -1
      BY DEF BusInv, PlainInv
    <3>2. QED
      BY <1>2, <3>1
  <2>3. QED
    BY <1>2, <2>1, <2>2 DEF BusInv, PlainInv
<1>13. ListInv(C, E, R, q)'
  <2>1. \A n \in Nodes \ C : heap'[n].live => heap'[n].config = None
    BY <1>1, <1>3, <1>4, <1>9 DEF Opened
  <2>2. OneEach(E)'
    BY <1>1, <1>3, <1>11 DEF Opened, OneEach, Slot
  <2>3. OneEach(C)'
    BY <1>1, <1>3, <1>11 DEF Opened, OneEach, Slot
  <2>4. /\ Chain(heap', C, devices', q) /\ Chain(heap', E, found', q) /\ cur' = found'
        /\ C \intersect E = {} /\ C \subseteq Nodes /\ E \subseteq Nodes /\ q \in [Nodes -> Int]
    BY <1>1, <1>2, <1>3, <1>4, <1>7, <1>10 DEF Opened
  <2>5. QED
    BY <1>1, <1>2, <1>3, <1>11, <2>1, <2>2, <2>3, <2>4 DEF ListInv
<1>14. PICK nm : nm = heap[cur].name
  OBVIOUS
<1>15. Old' = Old /\ NamesOf(C)' = NamesOf(D) \union {nm} /\ nm \notin Old /\ nm \notin NamesOf(D)
  <2>1. Old' = Old
    BY <1>2 DEF Old
  <2>2. NamesOf(C)' = {heap[n].name : n \in C}
    BY <1>11 DEF NamesOf
  <2>3. nm \notin Old
    BY <1>1, <1>14 DEF Opened
  <2>4. \A n \in D : heap[n].name # nm
    BY <1>1, <1>14 DEF Opened, Slot
  <2>5. QED
    BY <1>3, <1>14, <2>1, <2>2, <2>3, <2>4 DEF NamesOf
<1>16. CountInv(C, E, R)'
  <2>1. /\ changes # -1 /\ changes \in Int /\ changes >= -1
        /\ changes = Cardinality(Old \ NamesOf(D)) + Cardinality(NamesOf(D) \ Old)
        /\ \A b \in before, n \in D : heap[n].name = b[2] => n = b[1]
    BY <1>2 DEF BusInv, CountInv, PlainInv
  <2>2. /\ (Old \ NamesOf(C))' = Old \ NamesOf(D)
        /\ (NamesOf(C) \ Old)' = (NamesOf(D) \ Old) \union {nm}
        /\ nm \notin NamesOf(D) \ Old
    BY <1>15
  <2>3. /\ IsFiniteSet(NamesOf(D) \ Old)
        /\ Cardinality(Old \ NamesOf(D)) \in 0 .. NSlots
        /\ Cardinality(NamesOf(D) \ Old) \in 0 .. NSlots
    <3>1. PlainInv /\ OneEach(D) /\ \A n \in D : heap[n].name \in Name
      BY <1>1 DEF BusInv, Opened
    <3>2. QED
      BY <3>1, CountIsBounded
  <2>4. Cardinality((NamesOf(C) \ Old)') = Cardinality(NamesOf(D) \ Old) + 1
    BY <2>2, <2>3, FS_AddElement
  <2>5. PICK a \in Nat, b \in Nat : a = Cardinality(Old \ NamesOf(D)) /\ b = Cardinality(NamesOf(D) \ Old)
    BY <2>3
  <2>6. Cardinality((Old \ NamesOf(C))') = a /\ Cardinality((NamesOf(C) \ Old)') = b + 1
    BY <2>2, <2>4, <2>5
  <2>7. changes' = a + (b + 1) /\ changes' # -1
    BY <1>2, <2>1, <2>5
  <2>8. /\ changes' = Cardinality((Old \ NamesOf(C))') + Cardinality((NamesOf(C) \ Old)')
        /\ changes' # -1 /\ pc' = "add"
    BY <1>2, <2>6, <2>7
  <2>9. ASSUME NEW was \in before', NEW n \in C, heap'[n].name = was[2] PROVE n = was[1]
    <3>1. heap'[n].name = heap[n].name /\ was \in before /\ was[2] \in Old
      BY <1>2, <1>11 DEF Old
    <3>2. n # cur
      BY <1>14, <1>15, <2>9, <3>1
    <3>3. QED
      BY <1>3, <2>1, <2>9, <3>1, <3>2
  <2>10. \A n \in E : heap'[n].name \notin Old'
    BY <1>1, <1>3, <1>11, <1>15 DEF Opened
  <2>11. \A n \in C \ R, k \in E : Slot(n)' # Slot(k)'
    <3>1. ASSUME NEW n \in C, NEW k \in E PROVE heap'[n].name.slot # heap'[k].name.slot
      <4>1. heap'[n].name = heap[n].name /\ heap'[k].name = heap[k].name
        BY <1>3, <1>11
      <4>2. CASE n = cur
        BY <1>1, <1>3, <4>1, <4>2 DEF Opened, OneEach, Slot
      <4>3. CASE n # cur
        BY <1>1, <1>3, <4>1, <4>3 DEF Opened, Slot
      <4>4. QED
        BY <4>2, <4>3
    <3>2. QED
      BY <3>1 DEF Slot
  <2>12. QED
    BY <2>8, <2>9, <2>10, <2>11 DEF CountInv
<1>17. ExactInv(C, E, R)'
  <2>1. ASSUME steady PROVE Current(E \union (C \ R), NSlots + 1)'
    <3>1. Current(F \union (D \ R), NSlots + 1)
      BY <1>2, <2>1 DEF BusInv, ExactInv
    <3>2. F \union (D \ R) = E \union (C \ R)
      BY <1>1, <1>3 DEF Opened
    <3>3. \A n \in E \union (C \ R) : heap'[n].name = heap[n].name
      BY <1>3, <1>11
    <3>4. Current(E \union (C \ R), NSlots + 1)
      BY <3>1, <3>2
    <3>5. QED
      BY <1>2, <3>3, <3>4 DEF Current, Slot
  <2>2. QED
    BY <1>2, <2>1 DEF ExactInv
<1>18. QED
  BY <1>12, <1>13, <1>16, <1>17 DEF BusInv

-----------------------------------------------------------------------------
(* Every step.                                                             *)

\* There are such lists.
Inv == \E D, F, R, r : BusInv(D, F, R, r)

\* A slot is looked at: found or not.
LEMMA ScanKeeps ==
  ASSUME NEW D, NEW F, NEW R, NEW r, BusInv(D, F, R, r), Scan
  PROVE  Inv'
<1>1. /\ pc = "scan" /\ slot \in Slots /\ slot' = slot + 1
      /\ UNCHANGED <<plugged, devices, pc, cur, changes, hub, children, before>>
  BY DEF Scan
<1>2. CASE \E n \in Nodes : Finds(n)
  <2>1. PICK n \in Nodes : Finds(n)
    BY <1>2
  <2>2. PICK G \in SUBSET Nodes, q \in [Nodes -> Int] : BusInv(D, G, R, q)'
    BY <2>1, FoundKeeps
  <2>3. QED
    BY <2>2 DEF Inv
<1>3. CASE steady' = (steady /\ plugged[slot] = None) /\ UNCHANGED <<heap, found>>
  <2>1. UNCHANGED <<heap, found, plugged, devices, pc, cur, changes, hub, children, before>>
    BY <1>1, <1>3
  <2>2. BusInv(D, F, R, r)'
    BY <1>1, <1>3, <2>1, ScanGoesOn
  <2>3. QED
    BY <2>2 DEF Inv
<1>4. QED
  BY <1>2, <1>3 DEF Scan, Finds

\* A device is added, or left off.
LEMMA AddKeeps ==
  ASSUME NEW D, NEW F, NEW R, NEW r, BusInv(D, F, R, r), Add
  PROVE  Inv'
<1>1. PICK m \in {plugged[heap[cur].name.slot], None} :
        LET h == [ListDel(heap, cur) EXCEPT ![cur].config = m] IN
        IF m # None
        THEN /\ heap' = ListAdd(h, devices, cur) /\ devices' = cur
             /\ changes' = changes + 1
             /\ UNCHANGED steady
        ELSE heap' = h /\ steady' = FALSE /\ UNCHANGED <<devices, changes>>
  BY DEF Add
<1>2. PICK h : h = [ListDel(heap, cur) EXCEPT ![cur].config = m]
  OBVIOUS
<1>3. Opens(m, h)
  BY <1>2 DEF Add, Opens
<1>4. CASE m # None
  <2>1. /\ heap' = ListAdd(h, devices, cur) /\ devices' = cur /\ changes' = changes + 1
        /\ UNCHANGED steady
    BY <1>1, <1>2, <1>4
  <2>2. PICK C \in SUBSET Nodes, E \in SUBSET F, q \in [Nodes -> Int] : BusInv(C, E, R, q)'
    BY <1>3, <1>4, <2>1, AddedKeeps
  <2>3. QED
    BY <2>2 DEF Inv
<1>5. CASE m = None
  <2>1. heap' = h /\ steady' = FALSE /\ UNCHANGED <<devices, changes>>
    BY <1>1, <1>2, <1>5
  <2>2. PICK E \in SUBSET F : BusInv(D, E, R, r)'
    BY <1>3, <1>5, <2>1, LeftOffKeeps
  <2>3. QED
    BY <2>2 DEF Inv
<1>6. QED
  BY <1>4, <1>5

\* Nothing happens.
LEMMA NothingKeeps ==
  ASSUME NEW D, NEW F, NEW R, NEW r, BusInv(D, F, R, r), UNCHANGED vars
  PROVE  BusInv(D, F, R, r)'
<1>1. PlainInv'
  BY DEF vars, BusInv, PlainInv
<1>2. ListInv(D, F, R, r)'
  BY DEF vars, BusInv, ListInv, OneEach, Slot
<1>3. CountInv(D, F, R)'
  BY DEF vars, BusInv, CountInv, NamesOf, Old, Slot
<1>4. ExactInv(D, F, R)'
  BY DEF vars, BusInv, ExactInv, Current, Slot
<1>5. QED
  BY <1>1, <1>2, <1>3, <1>4 DEF BusInv

LEMMA StepKeeps == Inv /\ [Next]_vars => Inv'
<1> SUFFICES ASSUME Inv, [Next]_vars PROVE Inv'
  OBVIOUS
<1>1. PICK D, F, R, r : BusInv(D, F, R, r)
  BY DEF Inv
<1>2. CASE \E s \in Slots : Unplug(s) \/ \E m \in Models : Plug(s, m)
  <2>1. BusInv(D, F, R, r)'
    BY <1>1, <1>2, DevicesChange
  <2>2. QED
    BY <2>1 DEF Inv
<1>3. CASE FindDevices
  <2>1. BusInv(D, {}, {}, r)'
    BY <1>1, <1>3, CallBegins
  <2>2. QED
    BY <2>1 DEF Inv
<1>4. CASE Scan
  BY <1>1, <1>4, ScanKeeps
<1>5. CASE ScanFails
  <2>1. BusInv(D, {}, {}, r)'
    BY <1>1, <1>5, CallFails
  <2>2. QED
    BY <2>1 DEF Inv
<1>6. CASE Scanned
  <2>1. BusInv(D, F, D, r)'
    BY <1>1, <1>6, LoopBegins
  <2>2. QED
    BY <2>1 DEF Inv
<1>7. CASE StillThere
  <2>1. PICK n \in F, Q \in SUBSET R : BusInv(D, F \ {n}, Q, r)'
    BY <1>1, <1>7, StillThereKeeps
  <2>2. QED
    BY <2>1 DEF Inv
<1>8. CASE Gone
  <2>1. PICK C \in SUBSET D, Q \in SUBSET R : BusInv(C, F, Q, r)'
    BY <1>1, <1>8, GoneKeeps
  <2>2. QED
    BY <2>1 DEF Inv
<1>9. CASE Compared
  <2>1. BusInv(D, F, {}, r)'
    BY <1>1, <1>9, LoopEnds
  <2>2. QED
    BY <2>1 DEF Inv
<1>10. CASE Add
  BY <1>1, <1>10, AddKeeps
<1>11. CASE DetermineChildren \/ NoMemoryForHub \/ NoMemoryForChildren
  <2>1. BusInv(D, F, R, r)'
    BY <1>1, <1>11, CallEnds
  <2>2. QED
    BY <2>1 DEF Inv
<1>12. CASE UNCHANGED vars
  <2>1. BusInv(D, F, R, r)'
    BY <1>1, <1>12, NothingKeeps
  <2>2. QED
    BY <2>1 DEF Inv
<1>13. QED
  BY <1>2, <1>3, <1>4, <1>5, <1>6, <1>7, <1>8, <1>9, <1>10, <1>11, <1>12 DEF Next

LEMMA InvAlways == Spec => []Inv
<1>1. Init => Inv
  BY InitInv DEF Inv
<1>2. QED
  BY <1>1, StepKeeps, PTL DEF Spec

\* The lists of the bus and of the scan are well formed and apart at every step
\* of usb_find_devices, and between calls the hub's children are the bus.
THEOREM ListsCorrect == Spec => []ListsSafe
<1>1. Inv => ListsSafe
  BY InvListsSafe DEF Inv
<1>2. QED
  BY <1>1, InvAlways, PTL

\* After an undisturbed call the bus has the devices that are there, and every
\* call returns the number of those that came and went.
THEOREM ScanCorrect == Spec => []ExactScan
<1>1. Inv => ExactScan
  BY InvExactScan DEF Inv
<1>2. QED
  BY <1>1, InvAlways, PTL

\* A device that is on the bus before a call and after it has its structure
\* still.
THEOREM SeenCorrect == Spec => []SeenIsKept
<1>1. Inv => SeenIsKept
  BY InvSeenIsKept DEF Inv
<1>2. QED
  BY <1>1, InvAlways, PTL

-----------------------------------------------------------------------------
(* The parser.  A buffer holds a sequence at a place when its descriptors   *)
(* are there one by one.                                                    *)

AnyDescriptor ==
  [type : Proper \union {"class"}, length : Byte, alternate : Byte, n : Byte]

Holds(buffer, p, s) ==
  \A j \in 1 .. Len(s) : p + j - 1 \in 1 .. Len(buffer) /\ buffer[p + j - 1] = s[j]

\* Where a run of descriptors of classes ends.
Stop(buffer, p) ==
  p \in 1 .. Len(buffer) + 1 /\ (p > Len(buffer) \/ buffer[p].type \in Proper)

\* The function f is defined by recursion over the numbers up to N.
Follows(f, N, start, step) == f[0] = start /\ \A k \in 1 .. N : f[k] = step[<<k, f[k - 1]>>]

\* A function defined by recursion over the numbers up to N exists, when its
\* step does not leave a set.
LEMMA RecursionExists ==
  ASSUME NEW N \in Nat, NEW S, NEW start \in S, NEW step \in [(1 .. N) \X S -> S]
  PROVE  \E f \in [0 .. N -> S] : Follows(f, N, start, step)
<1> DEFINE Is(f, n) == /\ f \in [0 .. n -> S] /\ f[0] = start
                       /\ \A k \in 1 .. n : f[k] = step[<<k, f[k - 1]>>]
           T == {n \in 0 .. N : \E f : Is(f, n)}
<1>1. 0 \in T
  <2>1. \E f : f = [k \in 0 .. 0 |-> start]
    OBVIOUS
  <2>2. PICK f : f = [k \in 0 .. 0 |-> start]
    BY <2>1
  <2>3. Is(f, 0)
    BY <2>2
  <2>4. QED
    BY <2>3
<1>2. ASSUME NEW n \in 0 .. N, n \in T, n < N PROVE n + 1 \in T
  <2>1. PICK f : Is(f, n)
    BY <1>2
  <2>2. \E x : x = step[<<n + 1, f[n]>>]
    OBVIOUS
  <2>3. PICK x : x = step[<<n + 1, f[n]>>]
    BY <2>2
  <2>4. n + 1 \in 1 .. N /\ n \in 0 .. n
    BY <1>2
  <2>5. f[n] \in S
    BY <2>1, <2>4
  <2>6. x \in S
    BY <2>3, <2>4, <2>5
  <2>7. \E g : g = [k \in 0 .. n + 1 |-> IF k = n + 1 THEN x ELSE f[k]]
    OBVIOUS
  <2>8. PICK g : g = [k \in 0 .. n + 1 |-> IF k = n + 1 THEN x ELSE f[k]]
    BY <2>7
  <2>9. g[n + 1] = x /\ \A k \in 0 .. n : g[k] = f[k]
    BY <2>8
  <2>10. \A k \in 0 .. n : f[k] \in S
    BY <2>1
  <2>11. g \in [0 .. n + 1 -> S]
    BY <2>6, <2>8, <2>10
  <2>12. ASSUME NEW k \in 1 .. n + 1 PROVE g[k] = step[<<k, g[k - 1]>>]
    <3>1. CASE k = n + 1
      <4>1. k - 1 = n
        BY <3>1
      <4>2. QED
        BY <2>3, <2>4, <2>9, <3>1, <4>1
    <3>2. CASE k # n + 1
      <4>1. k \in 1 .. n /\ k \in 0 .. n /\ k - 1 \in 0 .. n
        BY <3>2
      <4>2. QED
        BY <2>1, <2>9, <4>1
    <3>3. QED
      BY <3>1, <3>2
  <2>13. g[0] = start
    BY <2>1, <2>9
  <2>14. Is(g, n + 1)
    BY <2>11, <2>12, <2>13
  <2>15. n + 1 \in 0 .. N
    BY <2>4
  <2>16. QED
    BY <2>14, <2>15
<1> HIDE DEF T
<1>3. N \in T
  BY <1>1, <1>2, UpToBound
<1> USE DEF T
<1>4. PICK f : Is(f, N)
  BY <1>3
<1>5. QED
  BY <1>4 DEF Follows

\* What Joining is.
LEMMA JoiningIs ==
  ASSUME NEW D, NEW ss \in Seq(Seq(D))
  PROVE  /\ Joining(ss) \in [0 .. Len(ss) -> Seq(D)]
         /\ Joining(ss)[0] = <<>>
         /\ \A k \in 1 .. Len(ss) : Joining(ss)[k] = Joining(ss)[k - 1] \o ss[k]
<1>1. Len(ss) \in Nat /\ \A k \in 1 .. Len(ss) : ss[k] \in Seq(D)
  BY LenProperties
<1>2. <<>> \in Seq(D)
  BY EmptySeq
<1> DEFINE step == [x \in (1 .. Len(ss)) \X Seq(D) |-> x[2] \o ss[x[1]]]
<1>3. ASSUME NEW x \in (1 .. Len(ss)) \X Seq(D) PROVE x[2] \o ss[x[1]] \in Seq(D)
  <2>1. x[2] \in Seq(D) /\ ss[x[1]] \in Seq(D)
    BY <1>1
  <2>2. QED
    BY <2>1, ConcatProperties
<1>4. step \in [(1 .. Len(ss)) \X Seq(D) -> Seq(D)]
  BY <1>3
<1>5. \A k \in 1 .. Len(ss) : \A s \in Seq(D) : step[<<k, s>>] = s \o ss[k]
  OBVIOUS
<1> HIDE DEF step
<1>6. PICK f \in [0 .. Len(ss) -> Seq(D)] :
        f[0] = <<>> /\ \A k \in 1 .. Len(ss) : f[k] = step[<<k, f[k - 1]>>]
  <2>1. \E f \in [0 .. Len(ss) -> Seq(D)] : Follows(f, Len(ss), <<>>, step)
    BY <1>1, <1>2, <1>4, RecursionExists
  <2>2. QED
    BY <2>1 DEF Follows
<1>7. ASSUME NEW k \in 1 .. Len(ss) PROVE f[k] = f[k - 1] \o ss[k]
  <2>1. k - 1 \in 0 .. Len(ss)
    BY <1>1
  <2>2. f[k - 1] \in Seq(D)
    BY <2>1
  <2>3. QED
    BY <1>5, <1>6, <2>2
<1>8. f[0] = <<>>
  BY <1>6
<1>9. f = [k \in 0 .. Len(ss) |-> IF k = 0 THEN <<>> ELSE f[k - 1] \o ss[k]]
  <2>1. f = [k \in 0 .. Len(ss) |-> f[k]]
    OBVIOUS
  <2>2. ASSUME NEW k \in 0 .. Len(ss) PROVE f[k] = IF k = 0 THEN <<>> ELSE f[k - 1] \o ss[k]
    <3>1. k = 0 \/ k \in 1 .. Len(ss)
      BY <1>1
    <3>2. QED
      BY <1>7, <1>8, <3>1
  <2>3. QED
    BY <2>1, <2>2
<1> DEFINE first == CHOOSE g : g = [k \in 0 .. Len(ss) |-> IF k = 0 THEN <<>> ELSE g[k - 1] \o ss[k]]
<1>10. first = [k \in 0 .. Len(ss) |-> IF k = 0 THEN <<>> ELSE first[k - 1] \o ss[k]]
  BY <1>9
<1>11. Joining(ss) = first
  BY DEF Joining
<1> HIDE DEF first
<1>12. first[0] = <<>> /\ \A k \in 1 .. Len(ss) : first[k] = first[k - 1] \o ss[k]
  <2>1. 0 \in 0 .. Len(ss) /\ \A k \in 1 .. Len(ss) : k \in 0 .. Len(ss) /\ k # 0
    BY <1>1
  <2>2. QED
    BY <1>10, <2>1
<1> DEFINE T == {k \in 0 .. Len(ss) : first[k] \in Seq(D)}
<1>13. 0 \in T
  <2>1. 0 \in 0 .. Len(ss)
    BY <1>1
  <2>2. QED
    BY <1>2, <1>12, <2>1
<1>14. ASSUME NEW k \in 0 .. Len(ss), k \in T, k < Len(ss) PROVE k + 1 \in T
  <2>1. k + 1 \in 1 .. Len(ss) /\ k + 1 \in 0 .. Len(ss) /\ (k + 1) - 1 = k
    BY <1>1, <1>14
  <2>2. first[k] \in Seq(D) /\ ss[k + 1] \in Seq(D)
    BY <1>1, <1>14, <2>1
  <2>3. first[k] \o ss[k + 1] \in Seq(D)
    BY <2>2, ConcatProperties
  <2>4. first[k + 1] = first[k] \o ss[k + 1]
    BY <1>12, <2>1
  <2>5. QED
    BY <2>1, <2>3, <2>4
<1> HIDE DEF T
<1>15. \A k \in 0 .. Len(ss) : k \in T
  BY <1>1, <1>13, <1>14, UpToBound
<1>16. first \in [0 .. Len(ss) -> Seq(D)]
  <2>1. \A k \in 0 .. Len(ss) : first[k] \in Seq(D)
    BY <1>15 DEF T
  <2>2. first = [k \in 0 .. Len(ss) |-> first[k]]
    BY <1>10
  <2>3. QED
    BY <2>1, <2>2
<1>17. QED
  BY <1>11, <1>12, <1>16

\* A part of what the buffer holds is there too.
LEMMA HoldsParts ==
  ASSUME NEW D, NEW s \in Seq(D), NEW t \in Seq(D), NEW buffer, NEW p \in Nat,
         Holds(buffer, p, s \o t)
  PROVE  Holds(buffer, p, s) /\ Holds(buffer, p + Len(s), t)
<1>1. /\ Len(s) \in Nat /\ Len(t) \in Nat /\ Len(s \o t) = Len(s) + Len(t)
      /\ \A j \in 1 .. Len(s) + Len(t) : (s \o t)[j] = IF j <= Len(s) THEN s[j] ELSE t[j - Len(s)]
  BY LenProperties, ConcatProperties
<1>2. ASSUME NEW j \in 1 .. Len(s)
      PROVE  p + j - 1 \in 1 .. Len(buffer) /\ buffer[p + j - 1] = s[j]
  <2>1. j \in 1 .. Len(s) + Len(t) /\ j \in 1 .. Len(s \o t) /\ j <= Len(s)
    BY <1>1
  <2>2. QED
    BY <1>1, <2>1 DEF Holds
<1>3. ASSUME NEW j \in 1 .. Len(t)
      PROVE  (p + Len(s)) + j - 1 \in 1 .. Len(buffer) /\ buffer[(p + Len(s)) + j - 1] = t[j]
  <2>1. PICK i \in 1 .. Len(s) + Len(t) : i = Len(s) + j
    BY <1>1
  <2>2. /\ i \in 1 .. Len(s \o t) /\ ~ i <= Len(s) /\ i - Len(s) = j
        /\ p + i - 1 = (p + Len(s)) + j - 1
    BY <1>1, <2>1
  <2>3. (s \o t)[i] = t[j]
    BY <1>1, <2>2
  <2>4. p + i - 1 \in 1 .. Len(buffer) /\ buffer[p + i - 1] = (s \o t)[i]
    BY <2>2 DEF Holds
  <2>5. QED
    BY <2>2, <2>3, <2>4
<1>4. QED
  BY <1>2, <1>3 DEF Holds

\* Each of the sequences that are joined is where the ones before it end.
LEMMA HoldsJoined ==
  ASSUME NEW D, NEW ss \in Seq(Seq(D)), NEW buffer, NEW p \in Nat,
         Holds(buffer, p, Joined(ss))
  PROVE  /\ \A k \in 0 .. Len(ss) : Joining(ss)[k] \in Seq(D) /\ Len(Joining(ss)[k]) \in Nat
         /\ Len(Joining(ss)[0]) = 0
         /\ \A k \in 1 .. Len(ss) :
              /\ ss[k] \in Seq(D)
              /\ Holds(buffer, p + Len(Joining(ss)[k - 1]), ss[k])
              /\ Len(Joining(ss)[k]) = Len(Joining(ss)[k - 1]) + Len(ss[k])
<1> DEFINE N == Len(ss)
           first == Joining(ss)
           T == {n \in 0 .. N : Holds(buffer, p, first[N - n])}
<1>1. N \in Nat /\ \A k \in 1 .. N : ss[k] \in Seq(D)
  BY LenProperties
<1>2. /\ first \in [0 .. N -> Seq(D)] /\ first[0] = <<>>
      /\ \A k \in 1 .. N : first[k] = first[k - 1] \o ss[k]
  BY JoiningIs
<1>3. Joined(ss) = first[N]
  BY DEF Joined
<1> HIDE DEF N, first
<1>4. 0 \in T
  <2>1. N - 0 = N /\ 0 \in 0 .. N
    BY <1>1
  <2>2. QED
    BY <1>3, <2>1
<1>5. \A k \in 1 .. N : k - 1 \in 0 .. N /\ k \in 0 .. N
  BY <1>1
<1>6. \A k \in 0 .. N : first[k] \in Seq(D)
  BY <1>2
<1>7. ASSUME NEW n \in 0 .. N, n \in T, n < N PROVE n + 1 \in T
  <2>1. PICK k \in 1 .. N : k = N - n
    BY <1>1, <1>7
  <2>2. Holds(buffer, p, first[k - 1] \o ss[k])
    BY <1>2, <1>7, <2>1
  <2>3. first[k - 1] \in Seq(D) /\ ss[k] \in Seq(D)
    BY <1>1, <1>5, <1>6
  <2>4. Holds(buffer, p, first[k - 1])
    BY <2>2, <2>3, HoldsParts
  <2>5. N - (n + 1) = k - 1 /\ n + 1 \in 0 .. N
    BY <1>1, <1>7, <2>1
  <2>6. QED
    BY <2>4, <2>5
<1> HIDE DEF T
<1>8. \A n \in 0 .. N : n \in T
  BY <1>1, <1>4, <1>7, UpToBound
<1>9. ASSUME NEW k \in 1 .. N
      PROVE  /\ ss[k] \in Seq(D)
             /\ Holds(buffer, p + Len(first[k - 1]), ss[k])
             /\ Len(first[k]) = Len(first[k - 1]) + Len(ss[k])
  <2>1. PICK n \in 0 .. N : n = N - k
    BY <1>1
  <2>2. N - n = k
    BY <1>1, <2>1
  <2>3. Holds(buffer, p, first[k])
    BY <1>8, <2>2 DEF T
  <2>4. first[k - 1] \in Seq(D) /\ ss[k] \in Seq(D) /\ first[k] = first[k - 1] \o ss[k]
    BY <1>1, <1>2, <1>5, <1>6
  <2>5. Holds(buffer, p, first[k - 1] \o ss[k])
    BY <2>3, <2>4
  <2>6. Len(first[k - 1] \o ss[k]) = Len(first[k - 1]) + Len(ss[k])
    BY <2>4, ConcatProperties
  <2>7. Holds(buffer, p + Len(first[k - 1]), ss[k])
    BY <2>4, <2>5, HoldsParts
  <2>8. QED
    BY <2>4, <2>6, <2>7
<1>10. \A k \in 0 .. N : Len(first[k]) \in Nat
  BY <1>6, LenProperties
<1>11. Len(first[0]) = 0
  BY <1>2, EmptySeq
<1>12. QED
  BY <1>6, <1>9, <1>10, <1>11 DEF N, first

\* Where the sequences that are joined begin, and where the last one ends.
Places(place, buffer, p, ss) ==
  /\ place[0] = p /\ place[Len(ss)] = p + Len(Joined(ss))
  /\ \A k \in 1 .. Len(ss) : Holds(buffer, place[k - 1], ss[k]) /\ place[k] = place[k - 1] + Len(ss[k])

\* They are one after the other.
LEMMA PlacesExist ==
  ASSUME NEW D, NEW ss \in Seq(Seq(D)), NEW buffer, NEW p \in Nat \ {0},
         Holds(buffer, p, Joined(ss))
  PROVE  \E place \in [0 .. Len(ss) -> Nat \ {0}] : Places(place, buffer, p, ss)
<1>1. PICK N \in Nat : N = Len(ss)
  BY LenProperties
<1>2. PICK len : len = [k \in 0 .. N |-> Len(Joining(ss)[k])]
  OBVIOUS
<1>3. /\ \A k \in 0 .. N : len[k] \in Nat
      /\ len[0] = 0
      /\ \A k \in 1 .. N : /\ ss[k] \in Seq(D) /\ k - 1 \in 0 .. N
                           /\ Holds(buffer, p + len[k - 1], ss[k])
                           /\ len[k] = len[k - 1] + Len(ss[k])
  <2>1. 0 \in 0 .. N /\ \A k \in 1 .. N : k - 1 \in 0 .. N /\ k \in 0 .. N
    BY <1>1
  <2>2. \A k \in 0 .. N : Len(Joining(ss)[k]) \in Nat
    BY <1>1, HoldsJoined
  <2>3. Len(Joining(ss)[0]) = 0
    BY HoldsJoined
  <2>4. \A k \in 1 .. N : /\ ss[k] \in Seq(D)
                          /\ Holds(buffer, p + Len(Joining(ss)[k - 1]), ss[k])
                          /\ Len(Joining(ss)[k]) = Len(Joining(ss)[k - 1]) + Len(ss[k])
    BY <1>1, HoldsJoined
  <2>5. QED
    BY <1>2, <2>1, <2>2, <2>3, <2>4
<1>4. PICK place : place = [k \in 0 .. N |-> p + len[k]]
  OBVIOUS
<1>5. place \in [0 .. N -> Nat \ {0}]
  BY <1>3, <1>4
<1>6. place[0] = p
  BY <1>1, <1>3, <1>4
<1>7. place[N] = p + Len(Joined(ss))
  <2>1. N \in 0 .. N /\ Joined(ss) = Joining(ss)[N]
    BY <1>1 DEF Joined
  <2>2. QED
    BY <1>2, <1>4, <2>1
<1>8. ASSUME NEW k \in 1 .. N
      PROVE  Holds(buffer, place[k - 1], ss[k]) /\ place[k] = place[k - 1] + Len(ss[k])
  <2>1. k - 1 \in 0 .. N /\ k \in 0 .. N
    BY <1>1
  <2>2. place[k - 1] = p + len[k - 1] /\ place[k] = p + len[k]
    BY <1>4, <2>1
  <2>3. PICK n \in Nat : n = Len(ss[k])
    BY <1>3, LenProperties
  <2>4. len[k] = len[k - 1] + n /\ len[k - 1] \in Nat
    BY <1>3, <2>1, <2>3
  <2>5. place[k] = place[k - 1] + n
    BY <2>2, <2>4
  <2>6. QED
    BY <1>3, <2>2, <2>3, <2>5
<1>9. QED
  BY <1>1, <1>5, <1>6, <1>7, <1>8 DEF Places

-----------------------------------------------------------------------------
\* Skip and Extra, at a run of descriptors of classes: they stop at its end.
LEMMA RunIsSkipped ==
  ASSUME NEW buffer, Len(buffer) \in Nat, NEW p \in Nat \ {0}, NEW x \in Seq(Class),
         Holds(buffer, p, x), Stop(buffer, p + Len(x))
  PROVE  Skip(buffer, p) = p + Len(x) /\ Extra(buffer, p) = x
<1> DEFINE e == p + Len(x)
           ends(q) == /\ q > Len(buffer) \/ buffer[q].type \in Proper
                      /\ \A i \in p .. q - 1 : buffer[i].type \notin Proper
<1>1. Len(x) \in Nat /\ \A j \in 1 .. Len(x) : x[j] \in Class
  BY LenProperties
<1>2. ASSUME NEW i \in p .. e - 1
      PROVE  i \in 1 .. Len(buffer) /\ buffer[i] = x[i - p + 1] /\ buffer[i].type \notin Proper
  <2>1. PICK j \in 1 .. Len(x) : i = p + j - 1 /\ j = i - p + 1
    BY <1>1
  <2>2. i \in 1 .. Len(buffer) /\ buffer[i] = x[j]
    BY <2>1 DEF Holds
  <2>3. x[j].type = "class"
    BY <1>1 DEF Class
  <2>4. QED
    BY <2>1, <2>2, <2>3 DEF Proper
<1>3. e \in p .. Len(buffer) + 1 /\ (e > Len(buffer) \/ buffer[e].type \in Proper)
  BY <1>1 DEF Stop
<1>4. ends(e)
  BY <1>2, <1>3
<1>5. ASSUME NEW q \in p .. Len(buffer) + 1, ends(q) PROVE q = e
  <2>1. CASE q < e
    <3>1. q \in p .. e - 1
      BY <1>1, <2>1
    <3>2. QED
      BY <1>2, <1>5, <3>1
  <2>2. CASE q > e
    <3>1. e \in p .. q - 1 /\ e <= Len(buffer)
      BY <1>1, <2>2
    <3>2. QED
      BY <1>3, <1>5, <3>1
  <2>3. QED
    BY <1>1, <2>1, <2>2
<1>6. Skip(buffer, p) = CHOOSE q \in p .. Len(buffer) + 1 : ends(q)
  BY DEF Skip
<1> HIDE DEF ends
<1>7. Skip(buffer, p) = e
  BY <1>3, <1>4, <1>5, <1>6
<1>8. Extra(buffer, p) = SubSeq(buffer, p, e - 1)
  BY <1>7 DEF Extra
<1>9. SubSeq(buffer, p, e - 1) = x
  <2>1. \A i \in p .. e - 1 : buffer[i] \in Class
    <3>1. ASSUME NEW i \in p .. e - 1 PROVE buffer[i] \in Class
      <4>1. i - p + 1 \in 1 .. Len(x)
        BY <1>1
      <4>2. QED
        BY <1>1, <1>2, <4>1
    <3>2. QED
      BY <3>1
  <2>2. p \in Int /\ e - 1 \in Int
    BY <1>1
  <2> DEFINE y == SubSeq(buffer, p, e - 1)
  <2>3. /\ y \in Seq(Class)
        /\ Len(y) = IF p <= e - 1 THEN (e - 1) - p + 1 ELSE 0
        /\ \A i \in 1 .. (e - 1) - p + 1 : y[i] = buffer[p + i - 1]
    BY <2>1, <2>2, SubSeqProperties
  <2> HIDE DEF y
  <2>4. Len(y) = Len(x)
    BY <1>1, <2>3
  <2>5. ASSUME NEW i \in 1 .. Len(y) PROVE y[i] = x[i]
    <3>1. i \in 1 .. (e - 1) - p + 1 /\ p + i - 1 \in p .. e - 1 /\ (p + i - 1) - p + 1 = i
      BY <1>1, <2>4
    <3>2. QED
      BY <1>2, <2>3, <3>1
  <2>6. y = x
    BY <2>3, <2>4, <2>5, SeqEqual
  <2>7. QED
    BY <2>6 DEF y
<1>10. QED
  BY <1>7, <1>8, <1>9

\* Descriptors of classes are descriptors.
LEMMA ClassIsAny == Class \subseteq AnyDescriptor /\ \A x \in Seq(Class) : x \in Seq(AnyDescriptor)
<1>1. Class \subseteq AnyDescriptor
  BY DEF Class, AnyDescriptor, Byte
<1>2. QED
  BY <1>1, SeqMonotonic

\* A descriptor and a run of descriptors of classes after it.
LEMMA HeadAndRun ==
  ASSUME NEW d \in AnyDescriptor, NEW x \in Seq(Class)
  PROVE  /\ <<d>> \o x \in Seq(AnyDescriptor)
         /\ Len(<<d>> \o x) = 1 + Len(x) /\ Len(x) \in Nat
         /\ \A buffer : \A p \in Nat : Holds(buffer, p, <<d>> \o x) =>
              p \in 1 .. Len(buffer) /\ buffer[p] = d /\ Holds(buffer, p + 1, x)
<1>1. x \in Seq(AnyDescriptor) /\ Len(x) \in Nat
  BY ClassIsAny, LenProperties
<1>2. PICK h \in Seq(AnyDescriptor) : h = <<d>> /\ Len(h) = 1 /\ h[1] = d
  <2>1. <<d>> \in Seq(AnyDescriptor)
    OBVIOUS
  <2>2. Len(<<d>>) = 1 /\ <<d>>[1] = d
    OBVIOUS
  <2>3. QED
    BY <2>1, <2>2
<1>3. h \o x \in Seq(AnyDescriptor) /\ Len(h \o x) = 1 + Len(x)
  BY <1>1, <1>2, ConcatProperties
<1>4. ASSUME NEW buffer, NEW p \in Nat, Holds(buffer, p, h \o x)
      PROVE  p \in 1 .. Len(buffer) /\ buffer[p] = d /\ Holds(buffer, p + 1, x)
  <2>1. Holds(buffer, p, h) /\ Holds(buffer, p + Len(h), x)
    BY <1>1, <1>4, HoldsParts
  <2>2. p + 1 - 1 = p /\ 1 \in 1 .. Len(h)
    BY <1>2
  <2>3. p \in 1 .. Len(buffer) /\ buffer[p] = d
    BY <1>2, <2>1, <2>2 DEF Holds
  <2>4. QED
    BY <1>2, <2>1, <2>3
<1>5. QED
  BY <1>1, <1>2, <1>3, <1>4

\* The descriptor that an endpoint begins with, and what follows it.
LEMMA EndpointHead ==
  ASSUME NEW e \in Endpoint
  PROVE  /\ Descriptor("endpoint", e.length, 0, 0) \in AnyDescriptor
         /\ e.extra \in Seq(Class) /\ e = [length |-> e.length, extra |-> e.extra]
BY DEF Endpoint, Descriptor, AnyDescriptor, Proper, Byte, EndpointLength

\* usb_parse_endpoint, at an endpoint.
LEMMA EndpointIsParsed ==
  ASSUME NEW buffer, Len(buffer) \in Nat, NEW p \in Nat \ {0}, NEW e \in Endpoint,
         Holds(buffer, p, OfEndpoint(e)), Stop(buffer, p + Len(OfEndpoint(e)))
  PROVE  ParseEndpoint(buffer, p) = [value |-> e, next |-> p + Len(OfEndpoint(e))]
<1> DEFINE d == Descriptor("endpoint", e.length, 0, 0)
           x == e.extra
<1>1. d \in AnyDescriptor /\ x \in Seq(Class) /\ e = [length |-> e.length, extra |-> x]
  BY EndpointHead
<1>2. d.type = "endpoint" /\ d.length = e.length
  BY DEF Descriptor
<1>3. OfEndpoint(e) = <<d>> \o x
  BY DEF OfEndpoint
<1> HIDE DEF d, x
<1>4. /\ Len(<<d>> \o x) = 1 + Len(x) /\ Len(x) \in Nat
      /\ buffer[p] = d /\ Holds(buffer, p + 1, x)
  BY <1>1, <1>3, HeadAndRun
<1>5. p + Len(OfEndpoint(e)) = (p + 1) + Len(x) /\ p + 1 \in Nat \ {0}
  BY <1>3, <1>4
<1>6. Skip(buffer, p + 1) = (p + 1) + Len(x) /\ Extra(buffer, p + 1) = x
  BY <1>1, <1>4, <1>5, RunIsSkipped
<1>7. ParseEndpoint(buffer, p) =
        [value |-> [length |-> e.length, extra |-> x], next |-> p + Len(OfEndpoint(e))]
  BY <1>2, <1>4, <1>5, <1>6 DEF ParseEndpoint
<1>8. QED
  BY <1>1, <1>7

\* The descriptors of an endpoint are descriptors, and begin with its own.
LEMMA OfEndpointIs ==
  ASSUME NEW e \in Endpoint
  PROVE  /\ OfEndpoint(e) \in Seq(AnyDescriptor) /\ Len(OfEndpoint(e)) \in Nat
         /\ \A buffer : \A p \in Nat : Holds(buffer, p, OfEndpoint(e)) =>
              p \in 1 .. Len(buffer) /\ buffer[p].type = "endpoint"
<1> DEFINE d == Descriptor("endpoint", e.length, 0, 0)
           x == e.extra
<1>1. d \in AnyDescriptor /\ x \in Seq(Class)
  BY EndpointHead
<1>2. d.type = "endpoint"
  BY DEF Descriptor
<1>3. OfEndpoint(e) = <<d>> \o x
  BY DEF OfEndpoint
<1> HIDE DEF d, x
<1>4. <<d>> \o x \in Seq(AnyDescriptor) /\ Len(<<d>> \o x) \in Nat
  <2>1. <<d>> \o x \in Seq(AnyDescriptor)
    BY <1>1, HeadAndRun
  <2>2. QED
    BY <2>1, LenProperties
<1>5. QED
  BY <1>1, <1>2, <1>3, <1>4, HeadAndRun

OfEndpoints(es) == [k \in 1 .. Len(es) |-> OfEndpoint(es[k])]

\* The descriptors of several endpoints, each by itself.
LEMMA OfEndpointsIs ==
  ASSUME NEW es \in Seq(Endpoint)
  PROVE  /\ OfEndpoints(es) \in Seq(Seq(AnyDescriptor)) /\ Len(es) \in Nat
         /\ Len(OfEndpoints(es)) = Len(es)
         /\ \A k \in 1 .. Len(es) : es[k] \in Endpoint /\ OfEndpoints(es)[k] = OfEndpoint(es[k])
<1>1. Len(es) \in Nat /\ \A k \in 1 .. Len(es) : es[k] \in Endpoint
  BY LenProperties
<1>2. \A k \in 1 .. Len(es) : OfEndpoint(es[k]) \in Seq(AnyDescriptor)
  BY <1>1, OfEndpointIs
<1>3. QED
  BY <1>1, <1>2 DEF OfEndpoints

\* The endpoints of a setting: each is where the one before it ends.
LEMMA EndpointsAreParsed ==
  ASSUME NEW buffer, Len(buffer) \in Nat, NEW p \in Nat \ {0}, NEW es \in Seq(Endpoint),
         Holds(buffer, p, Joined(OfEndpoints(es))),
         Stop(buffer, p + Len(Joined(OfEndpoints(es))))
  PROVE  /\ ParseEndpoints(buffer, p, Len(es)) =
              [value |-> es, next |-> p + Len(Joined(OfEndpoints(es)))]
         /\ Stop(buffer, p)
         /\ es # <<>> => p \in 1 .. Len(buffer) /\ buffer[p].type = "endpoint"
<1> DEFINE ss == OfEndpoints(es)
<1>1. PICK N \in Nat : N = Len(es)
  BY LenProperties
<1>2. /\ ss \in Seq(Seq(AnyDescriptor)) /\ Len(ss) = N
      /\ \A k \in 1 .. N : es[k] \in Endpoint /\ ss[k] = OfEndpoint(es[k])
  BY <1>1, OfEndpointsIs
<1>3. PICK place \in [0 .. N -> Nat \ {0}] : Places(place, buffer, p, ss)
  BY <1>2, PlacesExist
<1>4. place[0] = p /\ place[N] = p + Len(Joined(ss))
  BY <1>2, <1>3 DEF Places
<1>5. ASSUME NEW k \in 1 .. N
      PROVE  /\ k - 1 \in 0 .. N /\ k \in 0 .. N /\ place[k - 1] \in Nat \ {0}
             /\ es[k] \in Endpoint /\ Holds(buffer, place[k - 1], OfEndpoint(es[k]))
             /\ place[k] = place[k - 1] + Len(OfEndpoint(es[k]))
  <2>1. k - 1 \in 0 .. N /\ k \in 0 .. N
    BY <1>1
  <2>2. place[k - 1] \in Nat \ {0}
    BY <1>3, <2>1
  <2>3. QED
    BY <1>2, <1>3, <2>1, <2>2 DEF Places
<1>6. ASSUME NEW k \in 1 .. N
      PROVE  place[k - 1] \in 1 .. Len(buffer) /\ buffer[place[k - 1]].type = "endpoint"
  <2>1. PICK q \in Nat \ {0}, e \in Endpoint : q = place[k - 1] /\ e = es[k]
    BY <1>5
  <2>2. Holds(buffer, q, OfEndpoint(e))
    BY <1>5, <2>1
  <2>3. q \in 1 .. Len(buffer) /\ buffer[q].type = "endpoint"
    BY <2>2, OfEndpointIs
  <2>4. QED
    BY <2>1, <2>3
<1>7. Stop(buffer, place[N])
  BY <1>4
<1>8. \A k \in 0 .. N : Stop(buffer, place[k])
  <2>1. ASSUME NEW k \in 0 .. N, k # N PROVE Stop(buffer, place[k])
    <3>1. k + 1 \in 1 .. N /\ (k + 1) - 1 = k
      BY <1>1, <2>1
    <3>2. place[k] \in 1 .. Len(buffer) /\ buffer[place[k]].type = "endpoint"
      BY <1>6, <3>1
    <3>3. QED
      BY <3>2 DEF Stop, Proper
  <2>2. QED
    BY <1>7, <2>1
<1>9. ASSUME NEW k \in 1 .. N
      PROVE  /\ ParseEndpoint(buffer, place[k - 1]).value = es[k]
             /\ ParseEndpoint(buffer, place[k - 1]).next = place[k]
  <2>1. ParseEndpoint(buffer, place[k - 1]) = [value |-> es[k], next |-> place[k]]
    <3>1. PICK q \in Nat \ {0}, e \in Endpoint : q = place[k - 1] /\ e = es[k]
      BY <1>5
    <3>2. Holds(buffer, q, OfEndpoint(e)) /\ place[k] = q + Len(OfEndpoint(e))
      BY <1>5, <3>1
    <3>3. Stop(buffer, q + Len(OfEndpoint(e)))
      BY <1>5, <1>8, <3>2
    <3>4. ParseEndpoint(buffer, q) = [value |-> e, next |-> q + Len(OfEndpoint(e))]
      BY <3>2, <3>3, EndpointIsParsed
    <3>5. QED
      BY <3>1, <3>2, <3>4
  <2>2. QED
    BY <2>1
<1> DEFINE IsAt(f) == f = [k \in 0 .. Len(es) |-> IF k = 0 THEN p ELSE ParseEndpoint(buffer, f[k - 1]).next]
<1>10. \E f : IsAt(f)
  <2>1. PICK f : f = place
    OBVIOUS
  <2>2. ASSUME NEW k \in 0 .. N
        PROVE  f[k] = IF k = 0 THEN p ELSE ParseEndpoint(buffer, f[k - 1]).next
    <3>1. CASE k = 0
      BY <1>4, <2>1, <3>1
    <3>2. CASE k # 0
      <4>1. k \in 1 .. N /\ k - 1 \in 0 .. N
        BY <1>1, <3>2
      <4>2. QED
        BY <1>9, <2>1, <3>2, <4>1
    <3>3. QED
      BY <3>1, <3>2
  <2>3. IsAt(f)
    BY <1>1, <2>1, <2>2
  <2>4. QED
    BY <2>3
<1> DEFINE at == CHOOSE f : IsAt(f)
<1>11. IsAt(at)
  BY <1>10
<1>12. ParseEndpoints(buffer, p, Len(es)) =
         [value |-> [k \in 1 .. Len(es) |-> ParseEndpoint(buffer, at[k - 1]).value],
          next |-> at[Len(es)]]
  BY DEF ParseEndpoints
<1> HIDE DEF at
<1>13. /\ at[0] = p
       /\ \A k \in 1 .. N : at[k] = ParseEndpoint(buffer, at[k - 1]).next
  <2>1. 0 \in 0 .. N /\ \A k \in 1 .. N : k \in 0 .. N /\ k # 0
    BY <1>1
  <2>2. QED
    BY <1>1, <1>11, <2>1
<1> DEFINE T == {k \in 0 .. N : at[k] = place[k]}
<1>14. 0 \in T
  BY <1>1, <1>4, <1>13
<1>15. ASSUME NEW k \in 0 .. N, k \in T, k < N PROVE k + 1 \in T
  <2>1. k + 1 \in 1 .. N /\ (k + 1) - 1 = k /\ k + 1 \in 0 .. N
    BY <1>1, <1>15
  <2>2. at[k] = place[k]
    BY <1>15
  <2>3. at[k + 1] = place[k + 1]
    BY <1>9, <1>13, <2>1, <2>2
  <2>4. QED
    BY <2>1, <2>3
<1> HIDE DEF T
<1>16. \A k \in 0 .. N : k \in T
  BY <1>1, <1>14, <1>15, UpToBound
<1>17. \A k \in 0 .. N : at[k] = place[k]
  BY <1>16 DEF T
<1>18. [k \in 1 .. N |-> ParseEndpoint(buffer, at[k - 1]).value] = es
  <2>1. ASSUME NEW k \in 1 .. N PROVE ParseEndpoint(buffer, at[k - 1]).value = es[k]
    BY <1>5, <1>9, <1>17
  <2>2. es = [k \in 1 .. N |-> es[k]]
    BY <1>1, LenProperties
  <2>3. QED
    BY <2>1, <2>2
<1>19. at[N] = place[N]
  BY <1>1, <1>17
<1>20. ParseEndpoints(buffer, p, Len(es)) = [value |-> es, next |-> place[N]]
  BY <1>1, <1>12, <1>18, <1>19
<1>21. Stop(buffer, p)
  BY <1>1, <1>4, <1>8
<1>22. ASSUME es # <<>> PROVE p \in 1 .. Len(buffer) /\ buffer[p].type = "endpoint"
  <2>1. N \in Nat \ {0}
    BY <1>1, <1>22, EmptySeq
  <2>2. 1 \in 1 .. N /\ 1 - 1 = 0
    BY <2>1
  <2>3. QED
    BY <1>4, <1>6, <2>2
<1>23. QED
  BY <1>4, <1>20, <1>21, <1>22

\* What is joined of sequences is a sequence.
JoinedIs ==
  \A D : \A ss \in Seq(Seq(D)) : Joined(ss) \in Seq(D) /\ Len(Joined(ss)) \in Nat

LEMMA JoinedIsSequence == JoinedIs
<1>1. ASSUME NEW D, NEW ss \in Seq(Seq(D)) PROVE Joined(ss) \in Seq(D) /\ Len(Joined(ss)) \in Nat
  <2>1. Len(ss) \in 0 .. Len(ss)
    BY LenProperties
  <2>2. Joining(ss) \in [0 .. Len(ss) -> Seq(D)]
    BY JoiningIs
  <2>3. Joined(ss) \in Seq(D)
    BY <2>1, <2>2 DEF Joined
  <2>4. QED
    BY <2>3, LenProperties
<1>2. QED
  BY <1>1 DEF JoinedIs

\* What a setting begins with.
InterfaceDescriptor(s, a) == Descriptor("interface", InterfaceLength, a - 1, Len(s.endpoints))

\* A setting, in its parts.
LEMMA SettingParts ==
  ASSUME NEW s \in Setting, NEW a \in 1 .. 256
  PROVE  /\ InterfaceDescriptor(s, a) \in AnyDescriptor
         /\ InterfaceDescriptor(s, a).type = "interface"
         /\ InterfaceDescriptor(s, a).length = InterfaceLength
         /\ InterfaceDescriptor(s, a).alternate = a - 1
         /\ InterfaceDescriptor(s, a).n = Len(s.endpoints)
         /\ s.extra \in Seq(Class) /\ s.endpoints \in Seq(Endpoint)
         /\ s = [extra |-> s.extra, endpoints |-> s.endpoints]
<1>1. /\ s.extra \in Seq(Class) /\ s.endpoints \in Seq(Endpoint)
      /\ s = [extra |-> s.extra, endpoints |-> s.endpoints]
      /\ Len(s.endpoints) <= MaxEndpoints
  BY DEF Setting
<1>2. PICK n \in Nat : n = Len(s.endpoints)
  BY <1>1, LenProperties
<1>3. n \in Byte /\ a - 1 \in Byte /\ InterfaceLength \in Byte
  <2>1. n <= 32
    BY <1>1, <1>2 DEF MaxEndpoints
  <2>2. QED
    BY <2>1 DEF Byte, InterfaceLength
<1>4. "interface" \in Proper \union {"class"}
  BY DEF Proper
<1>5. QED
  BY <1>1, <1>2, <1>3, <1>4 DEF InterfaceDescriptor, Descriptor, AnyDescriptor

\* The descriptors of a setting: its own, those of classes, its endpoints.
LEMMA OfSettingIs ==
  ASSUME NEW s \in Setting, NEW a \in 1 .. 256
  PROVE  /\ OfSetting(s, a) \in Seq(AnyDescriptor) /\ Len(OfSetting(s, a)) \in Nat
         /\ \A buffer : \A p \in Nat : Holds(buffer, p, OfSetting(s, a)) =>
              /\ p \in 1 .. Len(buffer) /\ buffer[p] = InterfaceDescriptor(s, a)
              /\ Holds(buffer, p + 1, s.extra)
              /\ Holds(buffer, p + 1 + Len(s.extra), Joined(OfEndpoints(s.endpoints)))
         /\ Len(OfSetting(s, a)) = 1 + Len(s.extra) + Len(Joined(OfEndpoints(s.endpoints)))
<1> DEFINE d == InterfaceDescriptor(s, a)
           x == s.extra
           J == Joined(OfEndpoints(s.endpoints))
<1>1. d \in AnyDescriptor /\ x \in Seq(Class) /\ s.endpoints \in Seq(Endpoint)
  BY SettingParts
<1>2. OfEndpoints(s.endpoints) \in Seq(Seq(AnyDescriptor))
  BY <1>1, OfEndpointsIs
<1>3. J \in Seq(AnyDescriptor) /\ Len(J) \in Nat
  BY <1>2, JoinedIsSequence DEF JoinedIs
<1>4. OfSetting(s, a) = (<<d>> \o x) \o J
  BY DEF OfSetting, OfEndpoints, InterfaceDescriptor
<1> HIDE DEF d, x, J
<1>5. PICK h \in Seq(AnyDescriptor) : h = <<d>> \o x /\ Len(h) = 1 + Len(x) /\ Len(x) \in Nat
  BY <1>1, HeadAndRun
<1>6. h \o J \in Seq(AnyDescriptor) /\ Len(h \o J) = Len(h) + Len(J)
  BY <1>3, <1>5, ConcatProperties
<1>7. ASSUME NEW buffer, NEW p \in Nat, Holds(buffer, p, h \o J)
      PROVE  /\ p \in 1 .. Len(buffer) /\ buffer[p] = d
             /\ Holds(buffer, p + 1, x) /\ Holds(buffer, p + 1 + Len(x), J)
  <2>1. Holds(buffer, p, h) /\ Holds(buffer, p + Len(h), J)
    BY <1>3, <1>5, <1>7, HoldsParts
  <2>2. p \in 1 .. Len(buffer) /\ buffer[p] = d /\ Holds(buffer, p + 1, x)
    BY <1>1, <1>5, <2>1, HeadAndRun
  <2>3. p + Len(h) = p + 1 + Len(x)
    BY <1>5
  <2>4. QED
    BY <2>1, <2>2, <2>3
<1>8. PICK o : o = OfSetting(s, a)
  OBVIOUS
<1>9. o \in Seq(AnyDescriptor) /\ Len(o) \in Nat /\ Len(o) = 1 + Len(x) + Len(J)
  BY <1>3, <1>4, <1>5, <1>6, <1>8
<1>10. \A buffer : \A p \in Nat : Holds(buffer, p, o) =>
         /\ p \in 1 .. Len(buffer) /\ buffer[p] = d
         /\ Holds(buffer, p + 1, x) /\ Holds(buffer, p + 1 + Len(x), J)
  <2>1. o = h \o J
    BY <1>4, <1>5, <1>8
  <2>2. QED
    BY <1>7, <2>1
<1>11. QED
  BY <1>8, <1>9, <1>10 DEF d, x, J

\* A setting: its descriptors of classes, and as many endpoints as it says.
LEMMA SettingIsParsed ==
  ASSUME NEW buffer, Len(buffer) \in Nat, NEW p \in Nat \ {0}, NEW s \in Setting, NEW a \in 1 .. 256,
         Holds(buffer, p, OfSetting(s, a)), Stop(buffer, p + Len(OfSetting(s, a)))
  PROVE  ParseSetting(buffer, p) = [value |-> s, next |-> p + Len(OfSetting(s, a))]
<1>1. PICK x \in Seq(Class), es \in Seq(Endpoint) :
        x = s.extra /\ es = s.endpoints /\ s = [extra |-> x, endpoints |-> es]
  <2>1. /\ s.extra \in Seq(Class) /\ s.endpoints \in Seq(Endpoint)
        /\ s = [extra |-> s.extra, endpoints |-> s.endpoints]
    BY SettingParts
  <2>2. QED
    BY <2>1
<1> DEFINE d == InterfaceDescriptor(s, a)
<1>2. d.n = Len(es)
  <2>1. d.n = Len(s.endpoints)
    BY SettingParts
  <2>2. QED
    BY <1>1, <2>1
<1> HIDE DEF d
<1>3. PICK J : J = Joined(OfEndpoints(es))
  OBVIOUS
<1>4. Len(x) \in Nat /\ Len(J) \in Nat
  <2>1. OfEndpoints(es) \in Seq(Seq(AnyDescriptor))
    BY OfEndpointsIs
  <2>2. QED
    BY <1>3, <2>1, LenProperties, JoinedIsSequence DEF JoinedIs
<1>5. /\ buffer[p] = d /\ Holds(buffer, p + 1, x) /\ Holds(buffer, p + 1 + Len(x), J)
      /\ Len(OfSetting(s, a)) = 1 + Len(x) + Len(J)
  BY <1>1, <1>3, OfSettingIs DEF d
<1>6. PICK q \in Nat \ {0} : q = p + 1 + Len(x) /\ p + Len(OfSetting(s, a)) = q + Len(J)
  BY <1>4, <1>5
<1>7. /\ ParseEndpoints(buffer, q, Len(es)) = [value |-> es, next |-> q + Len(J)]
      /\ Stop(buffer, q)
      /\ es # <<>> => q \in 1 .. Len(buffer) /\ buffer[q].type = "endpoint"
  <2>1. Holds(buffer, q, Joined(OfEndpoints(es))) /\ Stop(buffer, q + Len(Joined(OfEndpoints(es))))
    BY <1>3, <1>5, <1>6
  <2>2. QED
    BY <1>3, <2>1, EndpointsAreParsed
<1>8. Skip(buffer, p + 1) = q /\ Extra(buffer, p + 1) = x
  <2>1. p + 1 \in Nat \ {0} /\ (p + 1) + Len(x) = q
    BY <1>4, <1>6
  <2>2. QED
    BY <1>5, <1>7, <2>1, RunIsSkipped
<1> DEFINE unexpected == q <= Len(buffer) /\ buffer[q].type \in {"config", "device"}
<1>9. (IF unexpected THEN 0 ELSE buffer[p].n) = Len(es)
  <2>1. CASE es = <<>>
    <3>1. Len(es) = 0
      BY <2>1, EmptySeq
    <3>2. QED
      BY <1>2, <1>5, <3>1
  <2>2. CASE es # <<>>
    <3>1. ~ unexpected
      BY <1>7, <2>2
    <3>2. QED
      BY <1>2, <1>5, <3>1
  <2>3. QED
    BY <2>1, <2>2
<1>10. ParseSetting(buffer, p) =
        LET endpoints == ParseEndpoints(buffer, q, IF unexpected THEN 0 ELSE buffer[p].n)
        IN [value |-> [extra |-> x, endpoints |-> endpoints.value], next |-> endpoints.next]
  BY <1>8 DEF ParseSetting
<1>11. ParseSetting(buffer, p) = [value |-> [extra |-> x, endpoints |-> es], next |-> q + Len(J)]
  BY <1>7, <1>9, <1>10
<1>12. QED
  BY <1>1, <1>6, <1>11

\* "size": what is left is at least the descriptor that comes next, and nothing
\* is left at the end.
LEMMA BytesAre ==
  ASSUME NEW buffer \in Seq(AnyDescriptor)
  PROVE  /\ Len(buffer) \in Nat
         /\ Bytes(buffer, Len(buffer) + 1) = 0
         /\ \A p \in 1 .. Len(buffer) :
              buffer[p].length \in Nat /\ Bytes(buffer, p) \in Int /\ Bytes(buffer, p) >= buffer[p].length
<1>1. PICK N \in Nat : N = Len(buffer)
  BY LenProperties
<1>2. \A p \in 1 .. N : buffer[p].length \in Nat
  <2>1. \A p \in 1 .. N : buffer[p] \in AnyDescriptor
    BY <1>1, LenProperties
  <2>2. \A l \in Byte : l \in Nat
    BY DEF Byte
  <2>3. \A x \in AnyDescriptor : x.length \in Byte
    BY DEF AnyDescriptor
  <2>4. QED
    BY <2>1, <2>2, <2>3
<1>3. PICK step : step = [x \in (1 .. N) \X Nat |-> x[2] + buffer[x[1]].length]
  OBVIOUS
<1>4. step \in [(1 .. N) \X Nat -> Nat]
  <2>1. ASSUME NEW x \in (1 .. N) \X Nat PROVE x[2] + buffer[x[1]].length \in Nat
    <3>1. x[2] \in Nat /\ buffer[x[1]].length \in Nat
      BY <1>2
    <3>2. QED
      BY <3>1
  <2>2. QED
    BY <1>3, <2>1
<1>5. \A k \in 1 .. N : \A n \in Nat : step[<<k, n>>] = n + buffer[k].length
  BY <1>3
<1>6. PICK f \in [0 .. N -> Nat] : Follows(f, N, 0, step)
  BY <1>4, RecursionExists
<1>7. /\ f[0] = 0
      /\ \A k \in 1 .. N : k - 1 \in 0 .. N /\ k \in 0 .. N /\ f[k] = f[k - 1] + buffer[k].length
  <2>1. \A k \in 1 .. N : k - 1 \in 0 .. N /\ k \in 0 .. N
    BY <1>1
  <2>2. \A k \in 1 .. N : f[k - 1] \in Nat
    BY <2>1
  <2>3. QED
    BY <1>5, <1>6, <2>1, <2>2 DEF Follows
<1> DEFINE IsRead(g) == g = [i \in 0 .. Len(buffer) |-> IF i = 0 THEN 0 ELSE g[i - 1] + buffer[i].length]
<1>8. IsRead(f)
  <2>1. ASSUME NEW i \in 0 .. N PROVE f[i] = IF i = 0 THEN 0 ELSE f[i - 1] + buffer[i].length
    <3>1. i = 0 \/ i \in 1 .. N
      BY <1>1
    <3>2. QED
      BY <1>7, <3>1
  <2>2. f = [i \in 0 .. N |-> f[i]]
    OBVIOUS
  <2>3. QED
    BY <1>1, <2>1, <2>2
<1> DEFINE read == CHOOSE g : IsRead(g)
<1>9. IsRead(read)
  BY <1>8
<1>10. \A p : Bytes(buffer, p) = read[Len(buffer)] - read[p - 1]
  BY DEF Bytes
<1> HIDE DEF read
<1>11. /\ read[0] = 0
       /\ \A k \in 1 .. N : read[k] = read[k - 1] + buffer[k].length
  <2>1. 0 \in 0 .. N /\ \A k \in 1 .. N : k \in 0 .. N /\ k # 0
    BY <1>1
  <2>2. QED
    BY <1>1, <1>9, <2>1
<1> DEFINE T == {k \in 0 .. N : read[k] = f[k]}
<1>12. 0 \in T
  BY <1>1, <1>7, <1>11
<1>13. ASSUME NEW k \in 0 .. N, k \in T, k < N PROVE k + 1 \in T
  <2>1. k + 1 \in 1 .. N /\ (k + 1) - 1 = k /\ k + 1 \in 0 .. N
    BY <1>1, <1>13
  <2>2. read[k] = f[k]
    BY <1>13
  <2>3. read[k + 1] = f[k + 1]
    BY <1>7, <1>11, <2>1, <2>2
  <2>4. QED
    BY <2>1, <2>3
<1> HIDE DEF T
<1>14. \A k \in 0 .. N : k \in T
  BY <1>1, <1>12, <1>13, UpToBound
<1>15. \A k \in 0 .. N : read[k] = f[k]
  BY <1>14 DEF T
<1>16. Bytes(buffer, Len(buffer) + 1) = 0
  <2>1. N \in 0 .. N /\ (N + 1) - 1 = N /\ f[N] \in Nat
    BY <1>1
  <2>2. Bytes(buffer, N + 1) = f[N] - f[N]
    BY <1>1, <1>10, <1>15, <2>1
  <2>3. QED
    BY <1>1, <2>1, <2>2
<1>17. ASSUME NEW p \in 1 .. N
       PROVE  Bytes(buffer, p) \in Int /\ Bytes(buffer, p) >= buffer[p].length
  <2> DEFINE G == {n \in 0 .. N - p : f[p + n] >= f[p]}
  <2>1. N - p \in Nat /\ p \in 0 .. N /\ p - 1 \in 0 .. N
    BY <1>1
  <2>2. 0 \in G
    <3>1. p + 0 = p /\ 0 \in 0 .. N - p /\ f[p] \in Nat
      BY <2>1
    <3>2. QED
      BY <3>1
  <2>3. ASSUME NEW n \in 0 .. N - p, n \in G, n < N - p PROVE n + 1 \in G
    <3>1. PICK k \in 1 .. N : k = p + (n + 1) /\ k - 1 = p + n
      BY <1>1, <2>3
    <3>2. f[k] = f[k - 1] + buffer[k].length /\ k - 1 \in 0 .. N /\ k \in 0 .. N
      BY <1>7
    <3>3. f[k - 1] \in Nat /\ buffer[k].length \in Nat /\ f[p] \in Nat
      BY <1>2, <2>1, <3>2
    <3>4. f[k - 1] >= f[p]
      BY <2>3, <3>1
    <3>5. f[k] >= f[p]
      BY <3>2, <3>3, <3>4
    <3>6. n + 1 \in 0 .. N - p
      BY <2>1, <2>3
    <3>7. QED
      BY <3>1, <3>5, <3>6
  <2> HIDE DEF G
  <2>4. \A n \in 0 .. N - p : n \in G
    BY <2>1, <2>2, <2>3, UpToBound
  <2>5. N - p \in G
    BY <2>1, <2>4
  <2>6. p + (N - p) = N
    BY <1>1
  <2>7. f[N] >= f[p]
    BY <2>5, <2>6 DEF G
  <2>8. N \in 0 .. N
    BY <1>1
  <2>9. /\ f[N] \in Nat /\ f[p] \in Nat /\ f[p - 1] \in Nat /\ buffer[p].length \in Nat
        /\ f[p] = f[p - 1] + buffer[p].length
    BY <1>2, <1>7, <2>1, <2>8
  <2>10. Bytes(buffer, p) = f[N] - f[p - 1]
    BY <1>1, <1>10, <1>15, <2>1, <2>8
  <2>11. QED
    BY <2>7, <2>9, <2>10
<1>18. QED
  BY <1>1, <1>2, <1>16, <1>17

OfSettings(ss) == [a \in 1 .. Len(ss) |-> OfSetting(ss[a], a)]

\* The descriptors of the settings of an interface, each by itself.
LEMMA OfSettingsIs ==
  ASSUME NEW ss \in Interface
  PROVE  /\ OfSettings(ss) \in Seq(Seq(AnyDescriptor)) /\ Len(ss) \in 1 .. 256
         /\ Len(OfSettings(ss)) = Len(ss) /\ OfInterface(ss) = Joined(OfSettings(ss))
         /\ ss = [a \in 1 .. Len(ss) |-> ss[a]]
         /\ \A a \in 1 .. Len(ss) : ss[a] \in Setting /\ OfSettings(ss)[a] = OfSetting(ss[a], a)
<1>1. ss \in Seq(Setting) /\ Len(ss) \in 1 .. 256
  BY DEF Interface
<1>2. ss = [a \in 1 .. Len(ss) |-> ss[a]] /\ \A a \in 1 .. Len(ss) : ss[a] \in Setting
  BY <1>1, LenProperties
<1>3. \A a \in 1 .. Len(ss) : a \in 1 .. 256
  <2>1. PICK n \in 1 .. 256 : n = Len(ss)
    BY <1>1
  <2>2. \A a \in 1 .. n : a \in 1 .. 256
    OBVIOUS
  <2>3. QED
    BY <2>1, <2>2
<1>4. \A a \in 1 .. Len(ss) : OfSetting(ss[a], a) \in Seq(AnyDescriptor)
  BY <1>2, <1>3, OfSettingIs
<1>5. OfSettings(ss) \in Seq(Seq(AnyDescriptor)) /\ Len(OfSettings(ss)) = Len(ss)
  BY <1>1, <1>4 DEF OfSettings
<1>6. \A a \in 1 .. Len(ss) : OfSettings(ss)[a] = OfSetting(ss[a], a)
  BY DEF OfSettings
<1>7. OfInterface(ss) = Joined(OfSettings(ss))
  BY DEF OfInterface, OfSettings
<1>8. QED
  BY <1>1, <1>2, <1>5, <1>6, <1>7

\* Where the settings of an interface begin, as the parser goes from one to the
\* next, however far one follows it.
SettingsAt(at, buffer, start, N) ==
  at[0] = start /\ \A k \in 1 .. N : at[k] = ParseSetting(buffer, at[k - 1]).next

\* There is a function that the definition of ParseInterface describes.
LEMMA SettingsAtExist ==
  ASSUME NEW buffer, NEW start, NEW N \in Nat
  PROVE  \E at : at = [k \in 0 .. N |-> at[k]] /\ SettingsAt(at, buffer, start, N)
<1> DEFINE Is(f, n) == /\ f = [k \in 0 .. n |-> f[k]] /\ SettingsAt(f, buffer, start, n)
           T == {n \in 0 .. N : \E f : Is(f, n)}
<1>1. 0 \in T
  <2>1. PICK f : f = [k \in 0 .. 0 |-> start]
    OBVIOUS
  <2>2. f = [k \in 0 .. 0 |-> f[k]]
    BY <2>1
  <2>3. SettingsAt(f, buffer, start, 0)
    BY <2>1 DEF SettingsAt
  <2>4. QED
    BY <2>2, <2>3
<1>2. ASSUME NEW n \in 0 .. N, n \in T, n < N PROVE n + 1 \in T
  <2>1. PICK f : Is(f, n)
    BY <1>2
  <2>2. PICK x : x = ParseSetting(buffer, f[n]).next
    OBVIOUS
  <2>3. PICK g : g = [k \in 0 .. n + 1 |-> IF k = n + 1 THEN x ELSE f[k]]
    OBVIOUS
  <2>4. g[n + 1] = x /\ (\A k \in 0 .. n : g[k] = f[k]) /\ g = [k \in 0 .. n + 1 |-> g[k]]
    BY <2>3
  <2>5. f[0] = start /\ \A k \in 1 .. n : f[k] = ParseSetting(buffer, f[k - 1]).next
    BY <2>1 DEF SettingsAt
  <2>6. ASSUME NEW k \in 1 .. n + 1 PROVE g[k] = ParseSetting(buffer, g[k - 1]).next
    <3>1. CASE k = n + 1
      <4>1. k - 1 = n /\ n \in 0 .. n
        BY <3>1
      <4>2. g[k - 1] = f[n]
        BY <2>4, <4>1
      <4>3. QED
        BY <2>2, <2>4, <3>1, <4>2
    <3>2. CASE k # n + 1
      <4>1. k \in 1 .. n /\ k \in 0 .. n /\ k - 1 \in 0 .. n
        BY <3>2
      <4>2. g[k] = f[k] /\ g[k - 1] = f[k - 1]
        BY <2>4, <4>1
      <4>3. QED
        BY <2>5, <4>1, <4>2
    <3>3. QED
      BY <3>1, <3>2
  <2>7. g[0] = start
    BY <2>4, <2>5
  <2>8. Is(g, n + 1)
    BY <2>4, <2>6, <2>7 DEF SettingsAt
  <2>9. n + 1 \in 0 .. N
    BY <1>2
  <2>10. QED
    BY <2>8, <2>9
<1> HIDE DEF T
<1>3. N \in T
  BY <1>1, <1>2, UpToBound
<1>4. QED
  BY <1>3 DEF T

\* The end of an interface: of the buffer, or the first setting of the next.
EndOfInterface(buffer, p) ==
  /\ p \in 1 .. Len(buffer) + 1
  /\ p <= Len(buffer) => buffer[p].type = "interface" /\ buffer[p].alternate = 0

\* What a buffer holds of an interface: its settings, each where the one before
\* it ends, and what the parser finds at each.
SettingsIn(place, buffer, p, ss) ==
  /\ place[0] = p /\ place[Len(ss)] = p + Len(OfInterface(ss))
  /\ \A a \in 1 .. Len(ss) :
       /\ place[a - 1] \in 1 .. Len(buffer)
       /\ buffer[place[a - 1]] = InterfaceDescriptor(ss[a], a)
       /\ place[a - 1] < place[a]
       /\ ParseSetting(buffer, place[a - 1]).value = ss[a]
       /\ ParseSetting(buffer, place[a - 1]).next = place[a]

\* The settings of an interface in the buffer, where the parser looks for them.
LEMMA SettingsAreThere ==
  ASSUME NEW buffer, Len(buffer) \in Nat, NEW p \in Nat \ {0}, NEW ss \in Interface,
         Holds(buffer, p, OfInterface(ss)), EndOfInterface(buffer, p + Len(OfInterface(ss)))
  PROVE  \E place \in [0 .. Len(ss) -> Nat \ {0}] : SettingsIn(place, buffer, p, ss)
<1>1. PICK M \in 1 .. 256 : M = Len(ss)
  BY OfSettingsIs
<1>2. M \in Nat /\ 1 <= M /\ M <= 256
  OBVIOUS
<1>3. PICK ts \in Seq(Seq(AnyDescriptor)) :
        /\ Len(ts) = M /\ OfInterface(ss) = Joined(ts)
        /\ \A a \in 1 .. M : ss[a] \in Setting /\ ts[a] = OfSetting(ss[a], a)
  BY <1>1, OfSettingsIs
<1>4. PICK place \in [0 .. M -> Nat \ {0}] : Places(place, buffer, p, ts)
  BY <1>3, PlacesExist
<1>5. place[0] = p /\ place[M] = p + Len(OfInterface(ss))
  BY <1>3, <1>4 DEF Places
<1>6. ASSUME NEW a \in 1 .. M
      PROVE  /\ a - 1 \in 0 .. M /\ a \in 0 .. M /\ a \in 1 .. 256 /\ place[a - 1] \in Nat \ {0}
             /\ ss[a] \in Setting /\ Holds(buffer, place[a - 1], OfSetting(ss[a], a))
             /\ place[a] = place[a - 1] + Len(OfSetting(ss[a], a))
  <2>1. a - 1 \in 0 .. M /\ a \in 0 .. M /\ a \in 1 .. 256
    BY <1>2
  <2>2. place[a - 1] \in Nat \ {0}
    BY <1>4, <2>1
  <2>3. QED
    BY <1>3, <1>4, <2>1, <2>2 DEF Places
<1>7. ASSUME NEW a \in 1 .. M
      PROVE  /\ place[a - 1] \in 1 .. Len(buffer)
             /\ buffer[place[a - 1]] = InterfaceDescriptor(ss[a], a)
             /\ place[a - 1] < place[a]
  <2>1. PICK q \in Nat \ {0}, s \in Setting, b \in 1 .. 256 : q = place[a - 1] /\ s = ss[a] /\ b = a
    BY <1>6
  <2>2. Holds(buffer, q, OfSetting(s, b))
    BY <1>6, <2>1
  <2>3. q \in 1 .. Len(buffer) /\ buffer[q] = InterfaceDescriptor(s, b)
    BY <2>2, OfSettingIs
  <2>4. Len(OfSetting(s, b)) \in Nat \ {0}
    <3>1. /\ Len(OfSetting(s, b)) = 1 + Len(s.extra) + Len(Joined(OfEndpoints(s.endpoints)))
          /\ s.extra \in Seq(Class) /\ s.endpoints \in Seq(Endpoint)
      BY OfSettingIs, SettingParts
    <3>2. OfEndpoints(s.endpoints) \in Seq(Seq(AnyDescriptor))
      BY <3>1, OfEndpointsIs
    <3>3. Len(s.extra) \in Nat /\ Len(Joined(OfEndpoints(s.endpoints))) \in Nat
      BY <3>1, <3>2, LenProperties, JoinedIsSequence DEF JoinedIs
    <3>4. PICK l \in Nat, m \in Nat :
            l = Len(s.extra) /\ m = Len(Joined(OfEndpoints(s.endpoints)))
      BY <3>3
    <3>5. Len(OfSetting(s, b)) = 1 + l + m
      BY <3>1, <3>4
    <3>6. QED
      BY <3>5
  <2>5. place[a] = q + Len(OfSetting(s, b))
    BY <1>6, <2>1
  <2>6. q < place[a]
    BY <2>4, <2>5
  <2>7. QED
    BY <2>1, <2>3, <2>6
<1>8. \A a \in 0 .. M : Stop(buffer, place[a])
  <2>1. ASSUME NEW a \in 0 .. M, a # M PROVE Stop(buffer, place[a])
    <3>1. a + 1 \in 1 .. M /\ (a + 1) - 1 = a /\ a + 1 \in 1 .. 256
      BY <1>2, <2>1
    <3>2. place[a] \in 1 .. Len(buffer) /\ buffer[place[a]] = InterfaceDescriptor(ss[a + 1], a + 1)
      BY <1>7, <3>1
    <3>3. InterfaceDescriptor(ss[a + 1], a + 1).type = "interface"
      BY DEF InterfaceDescriptor, Descriptor
    <3>4. QED
      BY <3>2, <3>3 DEF Stop, Proper
  <2>2. Stop(buffer, place[M])
    BY <1>5 DEF EndOfInterface, Stop, Proper
  <2>3. QED
    BY <2>1, <2>2
<1>9. ASSUME NEW a \in 1 .. M
      PROVE  /\ ParseSetting(buffer, place[a - 1]).value = ss[a]
             /\ ParseSetting(buffer, place[a - 1]).next = place[a]
  <2>1. PICK q \in Nat \ {0}, s \in Setting, b \in 1 .. 256 : q = place[a - 1] /\ s = ss[a] /\ b = a
    BY <1>6
  <2>2. Holds(buffer, q, OfSetting(s, b)) /\ place[a] = q + Len(OfSetting(s, b))
    BY <1>6, <2>1
  <2>3. Stop(buffer, q + Len(OfSetting(s, b)))
    BY <1>6, <1>8, <2>2
  <2>4. ParseSetting(buffer, q) = [value |-> s, next |-> q + Len(OfSetting(s, b))]
    BY <2>2, <2>3, SettingIsParsed
  <2>5. QED
    BY <2>1, <2>2, <2>4
<1>10. SettingsIn(place, buffer, p, ss)
  BY <1>1, <1>5, <1>7, <1>9 DEF SettingsIn
<1>11. QED
  BY <1>1, <1>10

\* usb_parse_interface: it goes on through the settings of the interface and no
\* further.
LEMMA InterfaceIsParsed ==
  ASSUME NEW buffer \in Seq(AnyDescriptor), NEW p \in Nat \ {0}, NEW ss \in Interface,
         Holds(buffer, p, OfInterface(ss)), EndOfInterface(buffer, p + Len(OfInterface(ss)))
  PROVE  ParseInterface(buffer, p) = [value |-> ss, next |-> p + Len(OfInterface(ss))]
<1>1. PICK M \in 1 .. 256 : M = Len(ss) /\ ss = [a \in 1 .. M |-> ss[a]]
  BY OfSettingsIs
<1>2. M \in Nat /\ 1 <= M /\ M <= 256
  OBVIOUS
<1>3. PICK N \in Nat : N = Len(buffer)
  BY LenProperties
<1>4. PICK place \in [0 .. M -> Nat \ {0}] : SettingsIn(place, buffer, p, ss)
  BY <1>1, <1>3, SettingsAreThere
<1>5. place[0] = p /\ place[M] = p + Len(OfInterface(ss))
  BY <1>1, <1>4 DEF SettingsIn
<1>6. \A a \in 1 .. M :
        /\ place[a - 1] \in 1 .. N /\ buffer[place[a - 1]] = InterfaceDescriptor(ss[a], a)
        /\ place[a - 1] < place[a]
        /\ ParseSetting(buffer, place[a - 1]).value = ss[a]
        /\ ParseSetting(buffer, place[a - 1]).next = place[a]
  BY <1>1, <1>3, <1>4 DEF SettingsIn
<1>7. ASSUME NEW a \in 1 .. M
      PROVE  /\ Bytes(buffer, place[a - 1]) >= InterfaceLength /\ Bytes(buffer, place[a - 1]) \in Int
             /\ buffer[place[a - 1]].type = "interface"
             /\ buffer[place[a - 1]].alternate = a - 1
  <2>1. PICK q \in 1 .. N : q = place[a - 1]
    BY <1>6
  <2>2. buffer[q] = InterfaceDescriptor(ss[a], a)
    BY <1>6, <2>1
  <2>3. buffer[q].type = "interface" /\ buffer[q].length = InterfaceLength /\ buffer[q].alternate = a - 1
    BY <2>2 DEF InterfaceDescriptor, Descriptor
  <2>4. Bytes(buffer, q) \in Int /\ Bytes(buffer, q) >= buffer[q].length
    BY <1>3, BytesAre
  <2>5. QED
    BY <2>1, <2>3, <2>4
<1>8. \A k \in 1 .. M : k < M => GoesOn(buffer, place[k])
  <2>1. ASSUME NEW k \in 1 .. M, k < M PROVE GoesOn(buffer, place[k])
    <3>1. PICK a \in 1 .. M : a = k + 1 /\ a - 1 = k /\ a - 1 # 0
      BY <2>1
    <3>2. QED
      BY <1>7, <3>1 DEF GoesOn
  <2>2. QED
    BY <2>1
<1>9. ~ GoesOn(buffer, place[M])
  <2>1. PICK q : q = place[M]
    OBVIOUS
  <2>2. EndOfInterface(buffer, q)
    BY <1>5, <2>1
  <2>3. CASE q = N + 1
    <3>1. Bytes(buffer, q) = 0
      BY <1>3, <2>3, BytesAre
    <3>2. ~ Bytes(buffer, q) >= InterfaceLength
      BY <3>1 DEF InterfaceLength
    <3>3. QED
      BY <2>1, <3>2 DEF GoesOn
  <2>4. CASE q # N + 1
    <3>1. q <= N
      BY <1>3, <2>2, <2>4 DEF EndOfInterface
    <3>2. buffer[q].alternate = 0
      BY <1>3, <2>2, <3>1 DEF EndOfInterface
    <3>3. QED
      BY <2>1, <3>2 DEF GoesOn
  <2>5. QED
    BY <2>3, <2>4
<1>10. M <= N
  <2> DEFINE T == {k \in 0 .. M : place[k] >= k + 1}
  <2>1. 0 \in T
    BY <1>1, <1>5
  <2>2. ASSUME NEW k \in 0 .. M, k \in T, k < M PROVE k + 1 \in T
    <3>1. PICK a \in 1 .. M : a = k + 1 /\ a - 1 = k /\ a \in 0 .. M
      BY <2>2
    <3>2. place[k] < place[a] /\ place[k] \in Nat /\ place[a] \in Nat
      BY <1>6, <3>1
    <3>3. place[k] >= k + 1
      BY <2>2
    <3>4. place[a] >= a + 1
      BY <3>1, <3>2, <3>3
    <3>5. QED
      BY <3>1, <3>4
  <2> HIDE DEF T
  <2>3. \A k \in 0 .. M : k \in T
    BY <1>2, <2>1, <2>2, UpToBound
  <2>4. M - 1 \in 0 .. M /\ M \in 1 .. M
    BY <1>2
  <2>5. place[M - 1] >= (M - 1) + 1 /\ place[M - 1] \in 1 .. N
    BY <1>6, <2>3, <2>4 DEF T
  <2>6. QED
    BY <1>3, <2>5
<1> DEFINE IsAt(f) == f = [k \in 0 .. Len(buffer) |->
                            IF k = 0 THEN p ELSE ParseSetting(buffer, f[k - 1]).next]
           at == CHOOSE f : IsAt(f)
           Ends(k) == ~ GoesOn(buffer, at[k]) /\ \A i \in 1 .. k - 1 : GoesOn(buffer, at[i])
           num_altsetting == IF Bytes(buffer, p) < InterfaceLength THEN 0
                             ELSE CHOOSE k \in 1 .. Len(buffer) : Ends(k)
<1>11. \E f : IsAt(f)
  <2>1. PICK f : f = [k \in 0 .. N |-> f[k]] /\ SettingsAt(f, buffer, p, N)
    BY SettingsAtExist
  <2>2. ASSUME NEW k \in 0 .. N
        PROVE  f[k] = IF k = 0 THEN p ELSE ParseSetting(buffer, f[k - 1]).next
    <3>1. k = 0 \/ k \in 1 .. N
      BY <1>3
    <3>2. QED
      BY <2>1, <3>1 DEF SettingsAt
  <2>3. IsAt(f)
    BY <1>3, <2>1, <2>2
  <2>4. QED
    BY <2>3
<1>12. IsAt(at)
  BY <1>11
<1>13. ParseInterface(buffer, p) =
         [value |-> [a \in 1 .. num_altsetting |-> ParseSetting(buffer, at[a - 1]).value],
          next |-> at[num_altsetting]]
  BY DEF ParseInterface
<1> HIDE DEF at
<1>14. at[0] = p /\ \A k \in 1 .. N : at[k] = ParseSetting(buffer, at[k - 1]).next
  <2>1. 0 \in 0 .. N /\ \A k \in 1 .. N : k \in 0 .. N /\ k # 0
    BY <1>3
  <2>2. QED
    BY <1>3, <1>12, <2>1
<1>15. \A k \in 0 .. M : at[k] = place[k]
  <2> DEFINE T == {k \in 0 .. M : at[k] = place[k]}
  <2>1. 0 \in T
    BY <1>1, <1>5, <1>14
  <2>2. ASSUME NEW k \in 0 .. M, k \in T, k < M PROVE k + 1 \in T
    <3>1. PICK a \in 1 .. M : a = k + 1 /\ a - 1 = k /\ a \in 0 .. M /\ a \in 1 .. N
      BY <1>3, <1>10, <2>2
    <3>2. at[a - 1] = place[a - 1]
      BY <2>2, <3>1
    <3>3. at[a] = place[a]
      BY <1>6, <1>14, <3>1, <3>2
    <3>4. QED
      BY <3>1, <3>3
  <2> HIDE DEF T
  <2>3. \A k \in 0 .. M : k \in T
    BY <1>2, <2>1, <2>2, UpToBound
  <2>4. QED
    BY <2>3 DEF T
<1>16. \A k \in 1 .. M : k \in 0 .. M /\ k - 1 \in 0 .. M
  BY <1>1
<1>17. M \in 1 .. N /\ Ends(M)
  <2>1. ~ GoesOn(buffer, at[M])
    BY <1>9, <1>15, <1>16
  <2>2. ASSUME NEW i \in 1 .. M - 1 PROVE GoesOn(buffer, at[i])
    <3>1. i \in 1 .. M /\ i < M
      BY <1>1
    <3>2. QED
      BY <1>8, <1>15, <1>16, <3>1
  <2>3. QED
    BY <1>3, <1>10, <2>1, <2>2
<1>18. ASSUME NEW k \in 1 .. N, Ends(k) PROVE k = M
  <2>1. CASE k < M
    <3>1. k \in 1 .. M
      BY <2>1
    <3>2. GoesOn(buffer, at[k])
      BY <1>8, <1>15, <1>16, <2>1, <3>1
    <3>3. QED
      BY <1>18, <3>2
  <2>2. CASE k > M
    <3>1. M \in 1 .. k - 1
      BY <1>3, <2>2
    <3>2. QED
      BY <1>17, <1>18, <3>1
  <2>3. QED
    BY <1>3, <2>1, <2>2
<1> HIDE DEF Ends
<1>19. (CHOOSE k \in 1 .. Len(buffer) : Ends(k)) = M
  BY <1>3, <1>17, <1>18
<1>20. num_altsetting = M
  <2>1. 1 \in 1 .. M /\ 1 - 1 = 0
    BY <1>2
  <2>2. Bytes(buffer, place[0]) >= InterfaceLength /\ Bytes(buffer, place[0]) \in Int
    BY <1>7, <2>1
  <2>3. Bytes(buffer, p) >= InterfaceLength /\ Bytes(buffer, p) \in Int
    BY <1>5, <2>2
  <2>4. ~ Bytes(buffer, p) < InterfaceLength
    BY <2>3 DEF InterfaceLength
  <2>5. QED
    BY <1>19, <2>4
<1> HIDE DEF num_altsetting
<1>21. [a \in 1 .. M |-> ParseSetting(buffer, at[a - 1]).value] = ss
  <2>1. \A a \in 1 .. M : ParseSetting(buffer, at[a - 1]).value = ss[a]
    BY <1>6, <1>15, <1>16
  <2>2. QED
    BY <1>1, <2>1
<1>22. at[M] = p + Len(OfInterface(ss))
  BY <1>1, <1>5, <1>15
<1>23. QED
  BY <1>13, <1>20, <1>21, <1>22

\* An interface begins with its setting 0.
LEMMA InterfaceBegins ==
  ASSUME NEW ss \in Interface, NEW buffer, NEW p \in Nat \ {0}, Holds(buffer, p, OfInterface(ss))
  PROVE  p \in 1 .. Len(buffer) /\ buffer[p].type = "interface" /\ buffer[p].alternate = 0
<1>1. PICK ts \in Seq(Seq(AnyDescriptor)) :
        /\ Len(ts) \in 1 .. 256 /\ OfInterface(ss) = Joined(ts)
        /\ ss[1] \in Setting /\ ts[1] = OfSetting(ss[1], 1)
  <2>1. PICK M \in 1 .. 256 : M = Len(ss)
    BY OfSettingsIs
  <2>2. 1 \in 1 .. M
    OBVIOUS
  <2>3. ss[1] \in Setting /\ OfSettings(ss)[1] = OfSetting(ss[1], 1)
    BY <2>1, <2>2, OfSettingsIs
  <2>4. /\ OfSettings(ss) \in Seq(Seq(AnyDescriptor)) /\ Len(OfSettings(ss)) \in 1 .. 256
        /\ OfInterface(ss) = Joined(OfSettings(ss))
    BY OfSettingsIs
  <2>5. QED
    BY <2>3, <2>4
<1>2. PICK place \in [0 .. Len(ts) -> Nat \ {0}] : Places(place, buffer, p, ts)
  BY <1>1, PlacesExist
<1>3. 1 \in 1 .. Len(ts) /\ 1 - 1 = 0 /\ 1 \in 1 .. 256
  BY <1>1
<1>4. Holds(buffer, p, OfSetting(ss[1], 1))
  BY <1>1, <1>2, <1>3 DEF Places
<1>5. p \in 1 .. Len(buffer) /\ buffer[p] = InterfaceDescriptor(ss[1], 1)
  <2>1. PICK s \in Setting : s = ss[1]
    BY <1>1
  <2>2. Holds(buffer, p, OfSetting(s, 1))
    BY <1>4, <2>1
  <2>3. PICK a \in 1 .. 256 : a = 1
    OBVIOUS
  <2>4. Holds(buffer, p, OfSetting(s, a))
    BY <2>2, <2>3
  <2>5. p \in 1 .. Len(buffer) /\ buffer[p] = InterfaceDescriptor(s, a)
    BY <2>4, OfSettingIs
  <2>6. QED
    BY <2>1, <2>3, <2>5
<1>6. QED
  BY <1>5 DEF InterfaceDescriptor, Descriptor

OfInterfaces(is) == [i \in 1 .. Len(is) |-> OfInterface(is[i])]

\* The descriptors of the interfaces of a configuration, each by itself.
LEMMA OfInterfacesIs ==
  ASSUME NEW is \in Seq(Interface)
  PROVE  /\ OfInterfaces(is) \in Seq(Seq(AnyDescriptor)) /\ Len(is) \in Nat
         /\ Len(OfInterfaces(is)) = Len(is) /\ is = [i \in 1 .. Len(is) |-> is[i]]
         /\ \A i \in 1 .. Len(is) : is[i] \in Interface /\ OfInterfaces(is)[i] = OfInterface(is[i])
<1>1. /\ Len(is) \in Nat /\ is = [i \in 1 .. Len(is) |-> is[i]]
      /\ \A i \in 1 .. Len(is) : is[i] \in Interface
  BY LenProperties
<1>2. \A ss \in Interface : OfInterface(ss) \in Seq(AnyDescriptor)
  <2>1. ASSUME NEW ss \in Interface PROVE OfInterface(ss) \in Seq(AnyDescriptor)
    <3>1. OfSettings(ss) \in Seq(Seq(AnyDescriptor)) /\ OfInterface(ss) = Joined(OfSettings(ss))
      BY OfSettingsIs
    <3>2. QED
      BY <3>1, JoinedIsSequence DEF JoinedIs
  <2>2. QED
    BY <2>1
<1>3. \A i \in 1 .. Len(is) : OfInterface(is[i]) \in Seq(AnyDescriptor)
  BY <1>1, <1>2
<1>4. OfInterfaces(is) \in Seq(Seq(AnyDescriptor)) /\ Len(OfInterfaces(is)) = Len(is)
  BY <1>1, <1>3 DEF OfInterfaces
<1>5. \A i \in 1 .. Len(is) : OfInterfaces(is)[i] = OfInterface(is[i])
  BY DEF OfInterfaces
<1>6. QED
  BY <1>1, <1>4, <1>5

\* A configuration, in its parts.
LEMMA ConfigurationParts ==
  ASSUME NEW c \in Configuration
  PROVE  /\ c.extra \in Seq(Class) /\ c.interfaces \in Seq(Interface)
         /\ c = [extra |-> c.extra, interfaces |-> c.interfaces]
         /\ Len(c.interfaces) \in 1 .. 32
         /\ Descriptor("config", 9, 0, Len(c.interfaces)) \in AnyDescriptor
         /\ Descriptor("config", 9, 0, Len(c.interfaces)).n = Len(c.interfaces)
<1>1. /\ c.extra \in Seq(Class) /\ c.interfaces \in Seq(Interface)
      /\ c = [extra |-> c.extra, interfaces |-> c.interfaces]
      /\ Len(c.interfaces) \in 1 .. 32
  BY DEF Configuration, MaxInterfaces
<1>2. PICK n \in 1 .. 32 : n = Len(c.interfaces)
  BY <1>1
<1>3. n \in Byte /\ 9 \in Byte /\ 0 \in Byte
  BY DEF Byte
<1>4. "config" \in Proper \union {"class"}
  BY DEF Proper
<1>5. Descriptor("config", 9, 0, n) \in AnyDescriptor /\ Descriptor("config", 9, 0, n).n = n
  BY <1>3, <1>4 DEF Descriptor, AnyDescriptor
<1>6. QED
  BY <1>1, <1>2, <1>5

\* What the buffer is for the loop over the interfaces: the descriptors of
\* classes for the whole, and each interface where the one before it ends.
Laid(place, buffer, c) ==
  /\ buffer \in Seq(AnyDescriptor) /\ buffer[1].n = Len(c.interfaces)
  /\ Holds(buffer, 2, c.extra) /\ place[0] = 2 + Len(c.extra)
  /\ \A i \in 0 .. Len(c.interfaces) : place[i] \in Nat \ {0} /\ Stop(buffer, place[i])
  /\ \A i \in 1 .. Len(c.interfaces) :
       ParseInterface(buffer, place[i - 1]) = [value |-> c.interfaces[i], next |-> place[i]]

\* The descriptors of a configuration are laid out like that.
LEMMA ConfigurationIsLaid ==
  ASSUME NEW c \in Configuration
  PROVE  \E place : Laid(place, Descriptors(c), c)
<1>1. PICK x \in Seq(Class), is \in Seq(Interface) : x = c.extra /\ is = c.interfaces
  BY ConfigurationParts
<1>2. PICK d \in AnyDescriptor : d = Descriptor("config", 9, 0, Len(is)) /\ d.n = Len(is)
  BY <1>1, ConfigurationParts
<1>3. PICK ts \in Seq(Seq(AnyDescriptor)) :
        /\ ts = OfInterfaces(is) /\ Len(ts) = Len(is)
        /\ \A i \in 1 .. Len(is) : is[i] \in Interface /\ ts[i] = OfInterface(is[i])
  BY OfInterfacesIs
<1>4. PICK M \in Nat : M = Len(is)
  BY LenProperties
<1>5. PICK J \in Seq(AnyDescriptor) : J = Joined(ts) /\ Len(J) \in Nat
  BY JoinedIsSequence DEF JoinedIs
<1>6. PICK h \in Seq(AnyDescriptor) : h = <<d>> \o x /\ Len(h) = 1 + Len(x) /\ Len(x) \in Nat
  BY HeadAndRun
<1>7. PICK buffer \in Seq(AnyDescriptor) :
        buffer = h \o J /\ Len(buffer) = Len(h) + Len(J) /\ buffer = Descriptors(c)
  <2>1. Descriptors(c) = h \o J
    BY <1>1, <1>2, <1>3, <1>5, <1>6 DEF Descriptors, OfInterfaces
  <2>2. h \o J \in Seq(AnyDescriptor) /\ Len(h \o J) = Len(h) + Len(J)
    BY ConcatProperties
  <2>3. QED
    BY <2>1, <2>2
<1>8. Len(buffer) = 1 + Len(x) + Len(J) /\ Len(buffer) \in Nat
  BY <1>5, <1>6, <1>7
<1>9. Holds(buffer, 1, h \o J)
  <2>1. \A j \in 1 .. Len(buffer) : 1 + j - 1 = j
    BY <1>8
  <2>2. Holds(buffer, 1, buffer)
    BY <2>1 DEF Holds
  <2>3. QED
    BY <1>7, <2>2
<1>10. Holds(buffer, 1, h) /\ Holds(buffer, 2 + Len(x), J)
  <2>1. 1 + Len(h) = 2 + Len(x)
    BY <1>6
  <2>2. Holds(buffer, 1, h) /\ Holds(buffer, 1 + Len(h), J)
    BY <1>9, HoldsParts
  <2>3. QED
    BY <2>1, <2>2
<1>11. buffer[1] = d /\ Holds(buffer, 2, x)
  <2>1. 1 \in Nat /\ 1 + 1 = 2
    OBVIOUS
  <2>2. buffer[1] = d /\ Holds(buffer, 1 + 1, x)
    BY <1>6, <1>10, HeadAndRun
  <2>3. QED
    BY <2>1, <2>2
<1>12. PICK p \in Nat \ {0} : p = 2 + Len(x) /\ p + Len(J) = Len(buffer) + 1
  <2>1. PICK l \in Nat, m \in Nat : l = Len(x) /\ m = Len(J)
    BY <1>5, <1>6
  <2>2. Len(buffer) = 1 + l + m
    BY <1>8, <2>1
  <2>3. 2 + l \in Nat \ {0} /\ (2 + l) + m = Len(buffer) + 1
    BY <2>2
  <2>4. QED
    BY <2>1, <2>3
<1>13. PICK place \in [0 .. M -> Nat \ {0}] : Places(place, buffer, p, ts)
  BY <1>3, <1>4, <1>5, <1>10, <1>12, PlacesExist
<1>14. place[0] = 2 + Len(x) /\ place[M] = Len(buffer) + 1
  BY <1>3, <1>4, <1>5, <1>12, <1>13 DEF Places
<1>15. ASSUME NEW i \in 1 .. M
       PROVE  /\ i - 1 \in 0 .. M /\ i \in 0 .. M /\ place[i - 1] \in Nat \ {0} /\ is[i] \in Interface
              /\ Holds(buffer, place[i - 1], OfInterface(is[i]))
              /\ place[i] = place[i - 1] + Len(OfInterface(is[i]))
  <2>1. i - 1 \in 0 .. M /\ i \in 0 .. M
    BY <1>4
  <2>2. place[i - 1] \in Nat \ {0}
    BY <1>13, <2>1
  <2>3. QED
    BY <1>3, <1>4, <1>13, <2>1, <2>2 DEF Places
<1>16. \A i \in 0 .. M : EndOfInterface(buffer, place[i])
  <2>1. ASSUME NEW i \in 0 .. M, i # M PROVE EndOfInterface(buffer, place[i])
    <3>1. PICK k \in 1 .. M : k = i + 1 /\ k - 1 = i
      BY <1>4, <2>1
    <3>2. PICK q \in Nat \ {0}, ss \in Interface : q = place[i] /\ ss = is[k]
      BY <1>15, <3>1
    <3>3. Holds(buffer, q, OfInterface(ss))
      BY <1>15, <3>1, <3>2
    <3>4. q \in 1 .. Len(buffer) /\ buffer[q].type = "interface" /\ buffer[q].alternate = 0
      BY <3>3, InterfaceBegins
    <3>5. QED
      BY <3>2, <3>4 DEF EndOfInterface
  <2>2. EndOfInterface(buffer, place[M])
    BY <1>8, <1>14 DEF EndOfInterface
  <2>3. QED
    BY <2>1, <2>2
<1>17. \A i \in 0 .. M : place[i] \in Nat \ {0} /\ Stop(buffer, place[i])
  BY <1>8, <1>13, <1>16 DEF EndOfInterface, Stop, Proper
<1>18. ASSUME NEW i \in 1 .. M
       PROVE  ParseInterface(buffer, place[i - 1]) = [value |-> is[i], next |-> place[i]]
  <2>1. PICK q \in Nat \ {0}, ss \in Interface : q = place[i - 1] /\ ss = is[i]
    BY <1>15
  <2>2. Holds(buffer, q, OfInterface(ss)) /\ place[i] = q + Len(OfInterface(ss))
    BY <1>15, <2>1
  <2>3. EndOfInterface(buffer, q + Len(OfInterface(ss)))
    BY <1>15, <1>16, <2>2
  <2>4. ParseInterface(buffer, q) = [value |-> ss, next |-> q + Len(OfInterface(ss))]
    BY <2>2, <2>3, InterfaceIsParsed
  <2>5. QED
    BY <2>1, <2>2, <2>4
<1>19. buffer[1].n = Len(is)
  BY <1>2, <1>11
<1>20. Laid(place, buffer, c)
  BY <1>1, <1>4, <1>11, <1>14, <1>17, <1>18, <1>19 DEF Laid
<1>21. QED
  BY <1>7, <1>20

\* The loop over the interfaces, one round.
Round(buffer, last) ==
  LET parsed == ParseInterface(buffer, Skip(buffer, last.next))
  IN [value |-> parsed.value, next |-> parsed.next,
      extra |-> IF last.extra = <<>> THEN Extra(buffer, last.next) ELSE last.extra]

\* Each round takes an interface, and the first one the descriptors of the whole.
LEMMA RoundsAre ==
  ASSUME NEW c \in Configuration, NEW place, NEW buffer, Laid(place, buffer, c),
         NEW first, first = [value |-> <<>>, next |-> 2, extra |-> <<>>]
  PROVE  LET end(i) == [value |-> c.interfaces[i], next |-> place[i], extra |-> c.extra] IN
         /\ Round(buffer, first) = end(1)
         /\ \A i \in 2 .. Len(c.interfaces) : Round(buffer, end(i - 1)) = end(i)
<1> DEFINE x == c.extra
           end(i) == [value |-> c.interfaces[i], next |-> place[i], extra |-> x]
<1>1. PICK M \in Nat : M = Len(c.interfaces) /\ M >= 1
  <2>1. Len(c.interfaces) \in 1 .. 32
    BY ConfigurationParts
  <2>2. PICK n \in 1 .. 32 : n = Len(c.interfaces)
    BY <2>1
  <2>3. n \in Nat /\ n >= 1
    OBVIOUS
  <2>4. QED
    BY <2>2, <2>3
<1>2. /\ buffer \in Seq(AnyDescriptor) /\ Holds(buffer, 2, x) /\ place[0] = 2 + Len(x)
      /\ \A i \in 0 .. M : place[i] \in Nat \ {0} /\ Stop(buffer, place[i])
      /\ \A i \in 1 .. M :
           ParseInterface(buffer, place[i - 1]) = [value |-> c.interfaces[i], next |-> place[i]]
  BY <1>1 DEF Laid
<1>3. x \in Seq(Class) /\ Len(buffer) \in Nat /\ <<>> \in Seq(Class)
  BY <1>2, ConfigurationParts, LenProperties, EmptySeq
<1> HIDE DEF x
<1>4. Skip(buffer, 2) = place[0] /\ Extra(buffer, 2) = x
  <2>1. 0 \in 0 .. M
    BY <1>1
  <2>2. Stop(buffer, 2 + Len(x))
    BY <1>2, <2>1
  <2>3. Skip(buffer, 2) = 2 + Len(x) /\ Extra(buffer, 2) = x
    BY <1>2, <1>3, <2>2, RunIsSkipped
  <2>4. QED
    BY <1>2, <2>3
<1>5. ASSUME NEW i \in 1 .. M PROVE Skip(buffer, place[i]) = place[i] /\ Extra(buffer, place[i]) = <<>>
  <2>1. PICK p \in Nat \ {0} : p = place[i] /\ Stop(buffer, p)
    <3>1. i \in 0 .. M
      BY <1>1
    <3>2. QED
      BY <1>2, <3>1
  <2>2. PICK e \in Seq(Class) : e = <<>>
    BY <1>3
  <2>3. Len(e) = 0 /\ p + 0 = p
    BY <2>2, EmptySeq
  <2>4. Holds(buffer, p, e) /\ Stop(buffer, p + Len(e))
    BY <2>1, <2>3 DEF Holds
  <2>5. Skip(buffer, p) = p + Len(e) /\ Extra(buffer, p) = e
    BY <1>3, <2>4, RunIsSkipped
  <2>6. QED
    BY <2>1, <2>2, <2>3, <2>5
<1>6. Round(buffer, first) = end(1)
  <2>1. 1 \in 1 .. M /\ 1 - 1 = 0
    BY <1>1
  <2>2. first.next = 2 /\ first.extra = <<>>
    OBVIOUS
  <2>3. ParseInterface(buffer, place[0]) = [value |-> c.interfaces[1], next |-> place[1]]
    BY <1>2, <2>1
  <2>4. QED
    BY <1>4, <2>2, <2>3 DEF Round
<1>7. ASSUME NEW i \in 2 .. M PROVE Round(buffer, end(i - 1)) = end(i)
  <2>1. PICK k \in 1 .. M : k = i - 1 /\ i \in 1 .. M
    BY <1>1
  <2>2. PICK last : last = [value |-> c.interfaces[k], next |-> place[k], extra |-> x]
    OBVIOUS
  <2>3. Skip(buffer, place[k]) = place[k] /\ Extra(buffer, place[k]) = <<>>
    BY <1>5
  <2>4. ParseInterface(buffer, place[k]) = [value |-> c.interfaces[i], next |-> place[i]]
    BY <1>2, <2>1
  <2>5. (IF x = <<>> THEN Extra(buffer, place[k]) ELSE x) = x
    BY <2>3
  <2>6. last.next = place[k] /\ last.extra = x
    BY <2>2
  <2>7. Round(buffer, last) = [value |-> c.interfaces[i], next |-> place[i], extra |-> x]
    BY <2>3, <2>4, <2>5, <2>6 DEF Round
  <2>8. QED
    BY <2>1, <2>2, <2>7
<1>8. QED
  BY <1>1, <1>6, <1>7 DEF x

\* usb_parse_configuration, with the functions that it calls: every configuration
\* that the USB specification and the limits of the code admit comes out of its
\* descriptors as it is.
THEOREM ConfigurationIsParsed ==
  ASSUME NEW c \in Configuration
  PROVE  ParseConfiguration(Descriptors(c)) = c
<1>1. PICK buffer, place : buffer = Descriptors(c) /\ Laid(place, buffer, c)
  BY ConfigurationIsLaid
<1>2. PICK M \in Nat : M = Len(c.interfaces) /\ M >= 1
  <2>1. Len(c.interfaces) \in 1 .. 32
    BY ConfigurationParts
  <2>2. PICK n \in 1 .. 32 : n = Len(c.interfaces)
    BY <2>1
  <2>3. n \in Nat /\ n >= 1
    OBVIOUS
  <2>4. QED
    BY <2>2, <2>3
<1>3. buffer[1].n = M
  BY <1>1, <1>2 DEF Laid
<1>4. PICK first : first = [value |-> <<>>, next |-> 2, extra |-> <<>>]
  OBVIOUS
<1>5. PICK end : end = [i \in 0 .. M |-> IF i = 0 THEN first ELSE
                          [value |-> c.interfaces[i], next |-> place[i], extra |-> c.extra]]
  OBVIOUS
<1>6. end[0] = first /\ \A i \in 1 .. M : end[i] = Round(buffer, end[i - 1])
  <2>1. 0 \in 0 .. M /\ 1 \in 0 .. M /\ \A i \in 1 .. M : i \in 0 .. M /\ i # 0
    BY <1>2
  <2>2. end[0] = first
    BY <1>5, <2>1
  <2>3. \A i \in 1 .. M : end[i] = [value |-> c.interfaces[i], next |-> place[i], extra |-> c.extra]
    BY <1>5, <2>1
  <2>4. Round(buffer, first) = end[1]
    BY <1>1, <1>2, <1>4, <2>3, RoundsAre
  <2>5. ASSUME NEW i \in 2 .. M PROVE end[i] = Round(buffer, end[i - 1])
    <3>1. i \in 1 .. M /\ i - 1 \in 1 .. M
      BY <1>2
    <3>2. Round(buffer, [value |-> c.interfaces[i - 1], next |-> place[i - 1], extra |-> c.extra]) =
            [value |-> c.interfaces[i], next |-> place[i], extra |-> c.extra]
      BY <1>1, <1>2, <1>4, RoundsAre
    <3>3. QED
      BY <2>3, <3>1, <3>2
  <2>6. ASSUME NEW i \in 1 .. M PROVE end[i] = Round(buffer, end[i - 1])
    <3>1. CASE i = 1
      BY <2>2, <2>4, <3>1
    <3>2. CASE i # 1
      <4>1. i \in 2 .. M
        BY <3>2
      <4>2. QED
        BY <2>5, <4>1
    <3>3. QED
      BY <3>1, <3>2
  <2>7. QED
    BY <2>2, <2>6
<1> DEFINE IsAfter(f) ==
      f = [i \in 0 .. buffer[1].n |->
             IF i = 0 THEN [value |-> <<>>, next |-> 2, extra |-> <<>>]
             ELSE LET last == f[i - 1]
                      parsed == ParseInterface(buffer, Skip(buffer, last.next))
                  IN [value |-> parsed.value, next |-> parsed.next,
                      extra |-> IF last.extra = <<>> THEN Extra(buffer, last.next) ELSE last.extra]]
           after == CHOOSE f : IsAfter(f)
<1>7. \A f : IsAfter(f) <=> f = [i \in 0 .. M |-> IF i = 0 THEN first ELSE Round(buffer, f[i - 1])]
  BY <1>3, <1>4 DEF Round
<1>8. \E f : IsAfter(f)
  <2> HIDE DEF IsAfter
  <2>1. \A i \in 0 .. M : end[i] = IF i = 0 THEN first ELSE Round(buffer, end[i - 1])
    <3>1. \A i \in 0 .. M : i = 0 \/ i \in 1 .. M
      BY <1>2
    <3>2. QED
      BY <1>6, <3>1
  <2>2. end = [i \in 0 .. M |-> end[i]]
    BY <1>5
  <2>3. end = [i \in 0 .. M |-> IF i = 0 THEN first ELSE Round(buffer, end[i - 1])]
    BY <2>1, <2>2
  <2>4. QED
    BY <1>7, <2>3
<1>9. IsAfter(after)
  BY <1>8
<1>10. ParseConfiguration(buffer) =
         [extra |-> after[buffer[1].n].extra,
          interfaces |-> [i \in 1 .. buffer[1].n |-> after[i].value]]
  BY DEF ParseConfiguration
<1> HIDE DEF after
<1>11. after = [i \in 0 .. M |-> IF i = 0 THEN first ELSE Round(buffer, after[i - 1])]
  BY <1>7, <1>9
<1> HIDE DEF IsAfter
<1>12. \A i \in 0 .. M : after[i] = end[i]
  <2> DEFINE T == {i \in 0 .. M : after[i] = end[i]}
  <2>1. 0 \in T
    <3>1. 0 \in 0 .. M
      BY <1>2
    <3>2. QED
      BY <1>6, <1>11, <3>1
  <2>2. ASSUME NEW i \in 0 .. M, i \in T, i < M PROVE i + 1 \in T
    <3>1. PICK k \in 1 .. M : k = i + 1 /\ k - 1 = i /\ k \in 0 .. M /\ k # 0
      BY <1>2, <2>2
    <3>2. after[i] = end[i]
      BY <2>2
    <3>3. after[k] = Round(buffer, after[i])
      BY <1>11, <3>1
    <3>4. end[k] = Round(buffer, end[i])
      BY <1>6, <3>1
    <3>5. QED
      BY <3>1, <3>2, <3>3, <3>4
  <2> HIDE DEF T
  <2>3. \A i \in 0 .. M : i \in T
    BY <2>1, <2>2, UpToBound
  <2>4. QED
    BY <2>3 DEF T
<1>13. \A i \in 1 .. M : after[i].value = c.interfaces[i] /\ after[i].extra = c.extra
  <2>1. \A i \in 1 .. M : i \in 0 .. M /\ i # 0
    BY <1>2
  <2>2. ASSUME NEW i \in 1 .. M PROVE after[i].value = c.interfaces[i] /\ after[i].extra = c.extra
    <3>1. after[i] = [value |-> c.interfaces[i], next |-> place[i], extra |-> c.extra]
      BY <1>5, <1>12, <2>1
    <3>2. QED
      BY <3>1
  <2>3. QED
    BY <2>2
<1>14. [i \in 1 .. M |-> after[i].value] = c.interfaces
  <2>1. c.interfaces = [i \in 1 .. M |-> c.interfaces[i]]
    <3>1. c.interfaces \in Seq(Interface)
      BY ConfigurationParts
    <3>2. QED
      BY <1>2, <3>1, OfInterfacesIs
  <2>2. QED
    BY <1>13, <2>1
<1>15. after[M].extra = c.extra
  <2>1. M \in 1 .. M
    BY <1>2
  <2>2. QED
    BY <1>13, <2>1
<1>16. ParseConfiguration(buffer) = [extra |-> c.extra, interfaces |-> c.interfaces]
  BY <1>3, <1>10, <1>14, <1>15
<1>17. QED
  BY <1>1, <1>16, ConfigurationParts

\* A setting is freed with all that was allocated for it.
LEMMA SettingIsFreed ==
  ASSUME NEW s \in Setting, NEW i, NEW a
  PROVE  FreedWith(s, i, a) = AllocatedFor(s, i, a)
<1> DEFINE ofEndpoints == UNION {ExtraOf(s.endpoints[e], i, a, e) : e \in DOMAIN s.endpoints}
<1>1. s.endpoints \in Seq(Endpoint)
  BY DEF Setting
<1>2. CASE s.endpoints = <<>>
  <2>1. Len(s.endpoints) = 0 /\ DOMAIN s.endpoints = {}
    BY <1>2
  <2>2. ofEndpoints = {}
    BY <2>1
  <2>3. ~ Len(s.endpoints) > 0
    BY <2>1
  <2>4. QED
    BY <1>2, <2>2, <2>3 DEF FreedWith, AllocatedFor
<1>3. CASE s.endpoints # <<>>
  <2>1. Len(s.endpoints) \in Nat \ {0}
    BY <1>1, <1>3, EmptySeq
  <2>2. Len(s.endpoints) > 0
    BY <2>1
  <2>3. QED
    BY <1>3, <2>2 DEF FreedWith, AllocatedFor
<1>4. QED
  BY <1>2, <1>3

\* What belongs to a setting is not what belongs to the whole.
LEMMA OfSettingOnly ==
  ASSUME NEW s, NEW i, i # 0, NEW a
  PROVE  <<"extra", 0, 0, 0>> \notin FreedWith(s, i, a)
<1> DEFINE whole == <<"extra", 0, 0, 0>>
<1>1. \A d, e : whole \notin ExtraOf(d, i, a, e)
  BY DEF ExtraOf
<1>2. whole # <<"endpoint", i, a, 0>>
  OBVIOUS
<1>3. whole \notin UNION {ExtraOf(s.endpoints[e], i, a, e) : e \in DOMAIN s.endpoints}
  BY <1>1
<1>4. QED
  BY <1>1, <1>2, <1>3 DEF FreedWith

\* usb_destroy_configuration frees what was allocated, but for the descriptors
\* of the whole.
LEMMA ConfigurationIsFreed ==
  ASSUME NEW c \in Configuration
  PROVE  Allocated(c) \ ExtraOf(c, 0, 0, 0) = DestroyConfiguration(c)
<1> DEFINE whole == <<"extra", 0, 0, 0>>
           A == {<<"interface", 0, 0, 0>>}
           B == {<<"altsetting", i, 0, 0>> : i \in DOMAIN c.interfaces}
           U == UNION {AllocatedFor(c.interfaces[s[1]][s[2]], s[1], s[2]) : s \in Settings(c)}
           F == UNION {FreedWith(c.interfaces[s[1]][s[2]], s[1], s[2]) : s \in Settings(c)}
<1>1. ASSUME NEW s \in Settings(c)
      PROVE  s[1] # 0 /\ c.interfaces[s[1]][s[2]] \in Setting
  <2>1. c.interfaces \in Seq(Interface)
    BY ConfigurationParts
  <2>2. PICK i, a : i \in DOMAIN c.interfaces /\ a \in DOMAIN c.interfaces[i] /\ s = <<i, a>>
    BY DEF Settings
  <2>3. i \in 1 .. Len(c.interfaces) /\ c.interfaces[i] \in Interface
    BY <2>1, <2>2, LenProperties
  <2>4. PICK ss \in Interface : ss = c.interfaces[i] /\ a \in DOMAIN ss
    BY <2>2, <2>3
  <2>5. ss \in Seq(Setting)
    BY DEF Interface
  <2>6. ss[a] \in Setting
    BY <2>4, <2>5, LenProperties
  <2>7. i # 0
    BY <2>3
  <2>8. s[1] = i /\ s[2] = a
    BY <2>2
  <2>9. QED
    BY <2>4, <2>6, <2>7, <2>8
<1>2. U = F
  <2>1. \A s \in Settings(c) : FreedWith(c.interfaces[s[1]][s[2]], s[1], s[2]) =
                               AllocatedFor(c.interfaces[s[1]][s[2]], s[1], s[2])
    BY <1>1, SettingIsFreed
  <2>2. QED
    BY <2>1
<1>3. whole \notin F
  <2>1. \A s \in Settings(c) : whole \notin FreedWith(c.interfaces[s[1]][s[2]], s[1], s[2])
    BY <1>1, OfSettingOnly
  <2>2. QED
    BY <2>1
<1>4. whole \notin A
  OBVIOUS
<1>5. whole \notin B
  OBVIOUS
<1>6. ExtraOf(c, 0, 0, 0) \subseteq {whole}
  BY DEF ExtraOf
<1>7. Allocated(c) = A \union ExtraOf(c, 0, 0, 0) \union B \union U
  BY DEF Allocated
<1>8. DestroyConfiguration(c) = A \union B \union F
  BY DEF DestroyConfiguration
<1> HIDE DEF whole, A, B, U, F
<1>9. QED
  BY <1>2, <1>3, <1>4, <1>5, <1>6, <1>7, <1>8

\* No configuration of the model comes out as another.
LEMMA NothingMisread == Misread = {}
<1>1. \A c \in Configurations : c \in Configuration
  BY ConfigurationsAssumption
<1>2. QED
  BY <1>1, ConfigurationIsParsed DEF Misread

\* None is freed otherwise than it was allocated.
LEMMA NothingUnfreed == Unfreed = {}
<1>1. \A c \in Configurations : c \in Configuration
  BY ConfigurationsAssumption
<1>2. ASSUME NEW c \in Configurations
      PROVE  LET parsed == ParseConfiguration(Descriptors(c))
             IN Allocated(parsed) \ ExtraOf(parsed, 0, 0, 0) = DestroyConfiguration(parsed)
  <2>1. ParseConfiguration(Descriptors(c)) = c
    BY <1>1, ConfigurationIsParsed
  <2>2. Allocated(c) \ ExtraOf(c, 0, 0, 0) = DestroyConfiguration(c)
    BY <1>1, ConfigurationIsFreed
  <2>3. QED
    BY <2>1, <2>2
<1>3. QED
  BY <1>2 DEF Unfreed

\* An application finds the configurations of the devices on the bus as they
\* are, whichever they are.
THEOREM ConfigsCorrect == Spec => []ConfigsAsTheyAre
<1>1. ConfigsAsTheyAre
  BY NothingMisread DEF ConfigsAsTheyAre
<1>2. QED
  BY <1>1, PTL

\* When a structure goes, its configurations are freed as far as
\* usb_destroy_configuration goes, and nothing that was not allocated.
THEOREM ConfigsFreedCorrect == Spec => []ConfigsAreFreed
<1>1. ConfigsAreFreed
  BY NothingUnfreed DEF ConfigsAreFreed
<1>2. QED
  BY <1>1, PTL
=============================================================================
