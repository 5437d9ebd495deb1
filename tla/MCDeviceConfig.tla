--------------------------- MODULE MCDeviceConfig ---------------------------
EXTENDS DeviceConfig

\* Every configuration has every interface, with every setting.
MCInterfacesOf == [c \in Configs |-> Interfaces]
MCAltsOf == [c \in Configs |-> [i \in Interfaces |-> Alts]]
=============================================================================
