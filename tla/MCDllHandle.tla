---------------------------- MODULE MCDllHandle ----------------------------
EXTENDS DllHandle, TLC

\* Configuration 1 has both interfaces, configuration 200 only the first; in
\* configuration 1 the first has two settings.
MCInterfacesOf == [c \in Configs |-> IF c = 1 THEN Interfaces ELSE {0}]
MCAltsOf ==
  [c \in Configs |-> [i \in Interfaces |->
     CASE c = 1 /\ i = 0 -> Alts [] i \in MCInterfacesOf[c] -> {0} [] OTHER -> {}]]

MCPackets ==
  {[in |-> in, type |-> type, recipient |-> recipient, request |-> request, value |-> v,
    index |-> i, size |-> size] :
     in \in BOOLEAN, type \in {"standard", "class", "vendor", "reserved"},
     recipient \in {0, 1, 2, 3, 31}, request \in (0 .. 3) \union (6 .. 11) \union {255},
     v \in {-1, 0, 1, 200, 512, 711, 712, 65536}, i \in {0, 1, 65535},
     size \in {0, 1, 2, 9, 65512, 65513}}

MCTransfers ==
  {[call |-> name, kind |-> kind, pktsize |-> n, size |-> size,
    pipe |-> [in |-> in, type |-> type, packet |-> packet]] :
     name \in {"setup_async", "read", "write"}, kind \in {"bulk", "interrupt", "isochronous"},
     n \in {-1, 0, 2, 3}, size \in {0, 1, 2, 3, 7, 255, 256, 510, 511, 512, 768},
     in \in BOOLEAN, type \in {"control", "isochronous", "bulk", "interrupt"}, packet \in {0, 1, 3}}

MCSymmetry == Permutations(Pool)
=============================================================================
