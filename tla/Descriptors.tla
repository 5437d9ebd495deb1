---------------------------- MODULE Descriptors ----------------------------
(***************************************************************************)
(* The parser of configuration descriptors (descriptors.c).  The buffer is *)
(* a sequence of descriptors; a position in it is the number of the one    *)
(* that begins there, and the bytes that are left count where the code     *)
(* compares them.  Descriptors of classes and vendors ("class") are kept   *)
(* as they are, with the descriptor that they follow.  The buffer is as    *)
(* the USB specification prescribes, and memory does not run out: the      *)
(* returns for what cannot be parsed are left out.                         *)
(***************************************************************************)
EXTENDS Integers, Sequences

CONSTANT Configurations   \* what devices have: the values that are to come out

InterfaceLength == 9   \* INTERFACE_DESC_LENGTH, USB_DT_INTERFACE_SIZE
EndpointLength == 7    \* ENDPOINT_DESC_LENGTH
MaxInterfaces == 32    \* USB_MAXINTERFACES
MaxEndpoints == 32     \* USB_MAXENDPOINTS
Byte == 0 .. 255

Descriptor(type, length, alternate, n) ==
  [type |-> type, length |-> length, alternate |-> alternate, n |-> n]

Proper == {"endpoint", "interface", "config", "device"}

\* "size": what is left of the buffer from p on.
Bytes(buffer, p) ==
  LET read[i \in 0 .. Len(buffer)] == IF i = 0 THEN 0 ELSE read[i - 1] + buffer[i].length
  IN read[Len(buffer)] - read[p - 1]

\* The loops that pass over descriptors of classes and vendors.
Skip(buffer, p) ==
  CHOOSE q \in p .. Len(buffer) + 1 :
    /\ q > Len(buffer) \/ buffer[q].type \in Proper
    /\ \A i \in p .. q - 1 : buffer[i].type \notin Proper

Extra(buffer, p) == SubSeq(buffer, p, Skip(buffer, p) - 1)

-----------------------------------------------------------------------------
(* Each function gives what it has parsed and where it stopped.            *)

NoEndpoint == [length |-> 0, extra |-> <<>>]

\* usb_parse_endpoint
ParseEndpoint(buffer, p) ==
  IF buffer[p].type # "endpoint" THEN [value |-> NoEndpoint, next |-> p]
  ELSE [value |-> [length |-> buffer[p].length, extra |-> Extra(buffer, p + 1)],
        next |-> Skip(buffer, p + 1)]

ParseEndpoints(buffer, p, n) ==
  LET at[k \in 0 .. n] == IF k = 0 THEN p ELSE ParseEndpoint(buffer, at[k - 1]).next
  IN [value |-> [k \in 1 .. n |-> ParseEndpoint(buffer, at[k - 1]).value], next |-> at[n]]

\* One setting, of as many endpoints as it says.
ParseSetting(buffer, p) ==
  LET q == Skip(buffer, p + 1)
      unexpected == q <= Len(buffer) /\ buffer[q].type \in {"config", "device"}
      endpoints == ParseEndpoints(buffer, q, IF unexpected THEN 0 ELSE buffer[p].n)
  IN [value |-> [extra |-> Extra(buffer, p + 1), endpoints |-> endpoints.value],
      next |-> endpoints.next]

\* Mutant: the next interface is taken for a setting of this one.
GoesOnToInterface(buffer, p) ==
  Bytes(buffer, p) >= InterfaceLength /\ buffer[p].type = "interface"

\* "We check to see if it's an alternate to this one"
GoesOn(buffer, p) ==
  /\ Bytes(buffer, p) >= InterfaceLength
  /\ buffer[p].type = "interface" /\ buffer[p].alternate # 0

\* usb_parse_interface
ParseInterface(buffer, start) ==
  LET at[k \in 0 .. Len(buffer)] ==
        IF k = 0 THEN start ELSE ParseSetting(buffer, at[k - 1]).next
      Ends(k) == ~ GoesOn(buffer, at[k]) /\ \A i \in 1 .. k - 1 : GoesOn(buffer, at[i])
      num_altsetting == IF Bytes(buffer, start) < InterfaceLength THEN 0
                        ELSE CHOOSE k \in 1 .. Len(buffer) : Ends(k)
  IN [value |-> [a \in 1 .. num_altsetting |-> ParseSetting(buffer, at[a - 1]).value],
      next |-> at[num_altsetting]]

\* usb_parse_configuration: of the descriptors before the interfaces the first
\* run is kept.
ParseConfiguration(buffer) ==
  LET after[i \in 0 .. buffer[1].n] ==
        IF i = 0 THEN [value |-> <<>>, next |-> 2, extra |-> <<>>]
        ELSE LET last == after[i - 1]
                 parsed == ParseInterface(buffer, Skip(buffer, last.next))
             IN [value |-> parsed.value, next |-> parsed.next,
                 extra |-> IF last.extra = <<>> THEN Extra(buffer, last.next) ELSE last.extra]
  IN [extra |-> after[buffer[1].n].extra,
      interfaces |-> [i \in 1 .. buffer[1].n |-> after[i].value]]

-----------------------------------------------------------------------------
(* Memory.  A block is named by what it belongs to: an interface, a        *)
(* setting of it and an endpoint of that; 0 is the whole.                  *)

Settings(c) == UNION {{<<i, a>> : a \in DOMAIN c.interfaces[i]} : i \in DOMAIN c.interfaces}

ExtraOf(d, i, a, e) == IF d.extra = <<>> THEN {} ELSE {<<"extra", i, a, e>>}

\* usb_parse_interface and usb_parse_endpoint, a setting: the array of the
\* endpoints is allocated when there are any.
AllocatedFor(setting, i, a) ==
  ExtraOf(setting, i, a, 0)
  \union (IF Len(setting.endpoints) > 0 THEN {<<"endpoint", i, a, 0>>} ELSE {})
  \union UNION {ExtraOf(setting.endpoints[e], i, a, e) : e \in DOMAIN setting.endpoints}

Allocated(c) ==
  {<<"interface", 0, 0, 0>>} \union ExtraOf(c, 0, 0, 0)
  \union {<<"altsetting", i, 0, 0>> : i \in DOMAIN c.interfaces}
  \union UNION {AllocatedFor(c.interfaces[s[1]][s[2]], s[1], s[2]) : s \in Settings(c)}

\* Mutant: a setting without endpoints is passed over with all it has.
FreedWithAny(setting, i, a) ==
  IF setting.endpoints = <<>> THEN {}
  ELSE {<<"endpoint", i, a, 0>>} \union ExtraOf(setting, i, a, 0)
       \union UNION {ExtraOf(setting.endpoints[e], i, a, e) : e \in DOMAIN setting.endpoints}

\* usb_destroy_configuration, a setting.
FreedWith(setting, i, a) ==
  ExtraOf(setting, i, a, 0)
  \union IF setting.endpoints = <<>> THEN {}
         ELSE {<<"endpoint", i, a, 0>>}
              \union UNION {ExtraOf(setting.endpoints[e], i, a, e) : e \in DOMAIN setting.endpoints}

\* The descriptors kept for the configuration as a whole are not freed.
DestroyConfiguration(c) ==
  {<<"interface", 0, 0, 0>>}
  \union {<<"altsetting", i, 0, 0>> : i \in DOMAIN c.interfaces}
  \union UNION {FreedWith(c.interfaces[s[1]][s[2]], s[1], s[2]) : s \in Settings(c)}

-----------------------------------------------------------------------------
(* What devices have.  An endpoint and a setting come with descriptors of    *)
(* classes, and so does the configuration as a whole.                        *)

Class == [type : {"class"}, length : 2 .. 255, alternate : Byte, n : Byte]

Endpoint == [length : EndpointLength .. 255, extra : Seq(Class)]

Setting == {s \in [extra : Seq(Class), endpoints : Seq(Endpoint)] : Len(s.endpoints) <= MaxEndpoints}

\* bAlternateSetting is a byte, and the first setting is 0.
Interface == {s \in Seq(Setting) : Len(s) \in 1 .. 256}

Configuration ==
  {c \in [extra : Seq(Class), interfaces : Seq(Interface)] : Len(c.interfaces) \in 1 .. MaxInterfaces}

\* Sequences one after the other: the first k of them, and all.
Joining(ss) ==
  LET first[k \in 0 .. Len(ss)] == IF k = 0 THEN <<>> ELSE first[k - 1] \o ss[k]
  IN first

Joined(ss) == Joining(ss)[Len(ss)]

\* The descriptors of a configuration, in the order that the USB specification
\* prescribes.
OfEndpoint(e) == <<Descriptor("endpoint", e.length, 0, 0)>> \o e.extra

OfSetting(s, a) ==
  <<Descriptor("interface", InterfaceLength, a - 1, Len(s.endpoints))>> \o s.extra
  \o Joined([k \in 1 .. Len(s.endpoints) |-> OfEndpoint(s.endpoints[k])])

OfInterface(settings) == Joined([a \in 1 .. Len(settings) |-> OfSetting(settings[a], a)])

Descriptors(c) ==
  <<Descriptor("config", 9, 0, Len(c.interfaces))>> \o c.extra
  \o Joined([i \in 1 .. Len(c.interfaces) |-> OfInterface(c.interfaces[i])])

\* wTotalLength is a word.
ASSUME ConfigurationsAssumption ==
  \A c \in Configurations : c \in Configuration /\ Bytes(Descriptors(c), 1) < 2 ^ 16

\* The configurations that do not come out as they are, and those of which
\* anything but the descriptors of the whole is allocated and not freed.
Misread == {c \in Configurations : ParseConfiguration(Descriptors(c)) # c}

Unfreed ==
  {c \in Configurations :
     LET parsed == ParseConfiguration(Descriptors(c))
     IN Allocated(parsed) \ ExtraOf(parsed, 0, 0, 0) # DestroyConfiguration(parsed)}
=============================================================================
