--------------------------- MODULE MCDllTransfer ---------------------------
\* All contexts on one endpoint, where an abort meets them all.
EXTENDS DllTransfer

MCEpOf == [c \in Contexts |-> CHOOSE e \in Endpoints : TRUE]
=============================================================================
