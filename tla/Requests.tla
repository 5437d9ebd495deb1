------------------------------ MODULE Requests ------------------------------
(***************************************************************************)
(* What the driver makes of the calls of an application: the coding of a   *)
(* control message by usb_control_msg and of a transfer by the _setup_async*)
(* functions (windows.c), the decoding by dispatch_ioctl and by the        *)
(* handlers of the requests, and the packet that reaches the device.       *)
(*                                                                         *)
(* bmRequestType is taken apart into its direction, type and recipient.    *)
(***************************************************************************)
EXTENDS Integers

CONSTANTS Header,     \* sizeof(libusb_request)
          NumConfigurations,  \* bNumConfigurations of the cached device descriptor, 256 without one
          Packets,    \* control messages: what is passed to usb_control_msg
          Transfers   \* transfers, with the pipe they are for

MaxReadWrite == 65536   \* LIBUSB_MAX_READ_WRITE

MaxIsoPackets == 255

Packet == [in : BOOLEAN, type : {"standard", "class", "vendor", "reserved"}, recipient : 0 .. 31,
           request : 0 .. 255, value : Int, index : Int, size : Nat]

Pipe == [in : BOOLEAN, type : {"control", "isochronous", "bulk", "interrupt"}, packet : Nat]

Transfer == [call : {"setup_async", "read", "write"}, kind : {"bulk", "interrupt", "isochronous"},
             pipe : Pipe, pktsize : Int, size : Nat]

ASSUME RequestsAssumption ==
  /\ Header \in 1 .. MaxReadWrite /\ NumConfigurations \in 0 .. 256
  /\ Packets \subseteq Packet /\ Transfers \subseteq Transfer

\* No request, or one that is refused.
Rejected == [function |-> "none"]

High(n) == (n \div 256) % 256
Low(n) == n % 256
Word(n) == n % 65536

Device == 0      \* USB_RECIP_DEVICE
Endpoint == 2    \* USB_RECIP_ENDPOINT
Other == 3       \* USB_RECIP_OTHER

-----------------------------------------------------------------------------
(* The library: usb_control_msg.                                           *)

\* The control codes of the standard requests.
StandardCode ==
  [r \in 0 .. 255 |->
     CASE r = 0 -> "get_status" [] r = 1 -> "clear_feature" [] r = 3 -> "set_feature"
       [] r = 6 -> "get_descriptor" [] r = 7 -> "set_descriptor"
       [] r = 8 -> "get_configuration" [] r = 9 -> "set_configuration"
       [] r = 10 -> "get_interface" [] r = 11 -> "set_interface"
       [] OTHER -> "none"]

CodeOf(p) ==
  CASE p.type = "standard" -> StandardCode[p.request]
    [] p.type = "reserved" -> "none"
    [] OTHER -> IF p.in THEN "vendor_read" ELSE "vendor_write"

\* Mutant: the bytes of the value are not told apart.
IoctlUnsplit(p) ==
  [code |-> CodeOf(p), type |-> p.type, recipient |-> p.recipient, request |-> p.request,
   value |-> p.value, index |-> p.index, kind |-> Low(p.value), number |-> Low(p.value),
   input |-> IF p.in THEN Header ELSE Header + p.size, output |-> IF p.in THEN p.size ELSE 0]

\* The request that is sent to the driver, with the lengths of its buffers.
\* (Of the union libusb_request each request has some of the fields; the
\* driver does not read the others.)
Ioctl(p) ==
  [code |-> CodeOf(p), type |-> p.type, recipient |-> p.recipient, request |-> p.request,
   value |-> p.value, index |-> p.index, kind |-> High(p.value), number |-> Low(p.value),
   input |-> IF p.in THEN Header ELSE Header + p.size, output |-> IF p.in THEN p.size ELSE 0]

-----------------------------------------------------------------------------
(* The driver.  A URB is a function, with the recipient that it is made    *)
(* for, and the fields of it that matter.                                  *)

Urb(function, recipient, v, i, length) ==
  [function |-> function, recipient |-> recipient, request |-> 0, value |-> v, index |-> i,
   length |-> length, in |-> FALSE]

GetStatus(r) ==
  IF r.output >= 2 /\ r.recipient \in Device .. Other
  THEN Urb(r.code, r.recipient, 0, Word(r.index), 2) ELSE Rejected

\* set_feature, clear_feature
Feature(r) ==
  IF r.recipient \in Device .. Other
  THEN Urb(r.code, r.recipient, Word(r.value), Word(r.index), 0) ELSE Rejected

\* A configuration that the device descriptor says there is not.
OutOfRange(r) ==
  r.kind = 2 /\ r.recipient = Device /\ r.index = 0 /\ r.output >= 9 /\ r.number >= NumConfigurations

\* get_descriptor, where the answer is not in the cache
GetDescriptor(r) ==
  IF r.output > 0 /\ r.recipient \in Device .. Endpoint /\ ~OutOfRange(r)
  THEN Urb(r.code, r.recipient, 256 * r.kind + r.number, Word(r.index), r.output) ELSE Rejected

SetDescriptor(r) ==
  IF r.input > Header /\ r.recipient \in Device .. Endpoint
  THEN Urb(r.code, r.recipient, 256 * r.kind + r.number, Word(r.index), r.input - Header)
  ELSE Rejected

GetConfiguration(r) == IF r.output >= 1 THEN Urb(r.code, 0, 0, 0, 1) ELSE Rejected

\* get_interface, of a configured device
GetInterface(r) == IF r.output >= 1 THEN Urb(r.code, 1, 0, Word(r.index), 1) ELSE Rejected

\* Mutant: the recipients that the standard leaves open are rejected.
VendorClassRequestStrict(r) ==
  IF r.recipient > Other THEN Rejected
  ELSE [function |-> r.type, recipient |-> r.recipient, request |-> Low(r.request),
        value |-> Word(r.value), index |-> Word(r.index),
        length |-> IF r.code = "vendor_read" THEN r.output ELSE r.input - Header,
        in |-> r.code = "vendor_read"]

\* vendor_class_request: a vendor request for a reserved recipient is made
\* for the device, with the recipient as reserved bits.
VendorClassRequest(r) ==
  IF r.type = "class" /\ r.recipient > Other THEN Rejected
  ELSE [function |-> r.type, recipient |-> r.recipient, request |-> Low(r.request),
        value |-> Word(r.value), index |-> Word(r.index),
        length |-> IF r.code = "vendor_read" THEN r.output ELSE r.input - Header,
        in |-> r.code = "vendor_read"]

\* set_configuration selects a configuration by its descriptor, set_interface
\* a setting of an interface; whether they exist is up to DeviceConfig.
SetConfiguration(r) == Urb(r.code, 0, r.value, 0, 0)

SetInterface(r) == Urb(r.code, 1, r.value, r.index, 0)

LengthsOk(r) == r.input \in Header .. MaxReadWrite /\ r.output <= MaxReadWrite

\* dispatch_ioctl, the buffered requests
Dispatch(r) ==
  CASE ~LengthsOk(r) -> Rejected
    [] LengthsOk(r) /\ r.code = "get_status" -> GetStatus(r)
    [] LengthsOk(r) /\ r.code \in {"set_feature", "clear_feature"} -> Feature(r)
    [] LengthsOk(r) /\ r.code = "get_descriptor" -> GetDescriptor(r)
    [] LengthsOk(r) /\ r.code = "set_descriptor" -> SetDescriptor(r)
    [] LengthsOk(r) /\ r.code = "get_configuration" -> GetConfiguration(r)
    [] LengthsOk(r) /\ r.code = "set_configuration" -> SetConfiguration(r)
    [] LengthsOk(r) /\ r.code = "get_interface" -> GetInterface(r)
    [] LengthsOk(r) /\ r.code = "set_interface" -> SetInterface(r)
    [] LengthsOk(r) /\ r.code \in {"vendor_read", "vendor_write"} -> VendorClassRequest(r)
    [] OTHER -> Rejected

\* What the library and the driver make of a control message.
Sent(p) == IF CodeOf(p) = "none" THEN Rejected ELSE Dispatch(Ioctl(p))

\* The setup packet that the bus driver makes of a URB.
Setup(u) ==
  LET standard == u.function \notin {"class", "vendor"}
  IN [in |-> IF standard THEN u.function \in {"get_status", "get_descriptor", "get_configuration",
                                              "get_interface"} ELSE u.in,
      type |-> IF standard THEN "standard" ELSE u.function,
      recipient |-> u.recipient,
      request |-> IF standard THEN CHOOSE r \in 0 .. 255 : StandardCode[r] = u.function ELSE u.request,
      value |-> u.value, index |-> u.index, length |-> u.length]

-----------------------------------------------------------------------------
(* Transfers.                                                              *)

\* The direction that a call asks for: that of the endpoint if it is set up
\* by usb_bulk_setup_async and the like.
Reads(x) == x.call = "read" \/ (x.call = "setup_async" /\ x.pipe.in)

\* Mutant: the direction of the endpoint is not looked at.
SetupAsyncBlindly(x) ==
  [code |-> IF x.kind = "isochronous" THEN "isochronous" ELSE "bulk", read |-> Reads(x),
   packet |-> x.pktsize]

\* _usb_setup_async refuses a call in the wrong direction.
SetupAsync(x) ==
  IF Reads(x) # x.pipe.in THEN Rejected
  ELSE [code |-> IF x.kind = "isochronous" THEN "isochronous" ELSE "bulk", read |-> Reads(x),
        packet |-> x.pktsize]

\* create_urb: an isochronous transfer is a number of whole packets.
CreateUrb(function, in, packet, size) ==
  IF function = "bulk" THEN [function |-> function, in |-> in, packets |-> 0, packet |-> 0, size |-> size]
  ELSE IF packet > 0 /\ size \div packet \in 1 .. MaxIsoPackets
  THEN [function |-> function, in |-> in, packets |-> size \div packet, packet |-> packet, size |-> size]
  ELSE Rejected

\* dispatch_ioctl, the direct requests: the pipe found decides the function;
\* a bulk request for an isochronous pipe goes on as an isochronous one.  A
\* write may be of no bytes, and then has no buffer, unless it is asked for as
\* an isochronous one.  A packet size of 0 stands for the endpoint's own.
TransferUrb(s, pipe, size) ==
  LET function == IF pipe.type = "isochronous" THEN "isochronous" ELSE "bulk"
      fits == IF s.code = "isochronous" THEN pipe.type = "isochronous" ELSE pipe.type # "control"
      buffer == size > 0 \/ (~s.read /\ s.code = "bulk")
      packet == IF s.packet = 0 THEN pipe.packet ELSE s.packet
  IN IF buffer /\ fits /\ (s.read => pipe.packet > 0)
     THEN CreateUrb(function, s.read, packet, size) ELSE Rejected

Transferred(x) ==
  IF SetupAsync(x) = Rejected THEN Rejected ELSE TransferUrb(SetupAsync(x), x.pipe, x.size)

-----------------------------------------------------------------------------
\* The control messages that the USB specification allows, of the standard
\* requests those with the fields that it prescribes.
WellFormed(p) ==
  /\ p.type \in {"class", "vendor"} \/ StandardCode[p.request] # "none"
  /\ p.type # "reserved"
  /\ p.value = Word(p.value) /\ p.index = Word(p.index) /\ p.size = Word(p.size)
  /\ p.type = "standard" =>
       LET code == StandardCode[p.request]
       IN /\ p.in = (code \in {"get_status", "get_descriptor", "get_configuration", "get_interface"})
          /\ code = "get_status" => p.value = 0 /\ p.size = 2
          /\ code \in {"set_feature", "clear_feature"} => p.size = 0
          /\ code = "get_configuration" =>
               p.recipient = 0 /\ p.value = 0 /\ p.index = 0 /\ p.size = 1
          /\ code = "set_configuration" => p.recipient = 0 /\ p.index = 0 /\ p.size = 0
          /\ code = "get_interface" => p.recipient = 1 /\ p.value = 0 /\ p.size = 1
          /\ code = "set_interface" => p.recipient = 1 /\ p.size = 0

\* Those that the library and the driver have a way for: not the descriptors
\* of the recipient "other", no empty descriptors, none of a configuration out of
\* the range of the cached device descriptor, no standard or class requests for
\* reserved recipients, and no more data to be written than fits the buffer after
\* the request.
HasAWay(p) ==
  /\ p.type \in {"standard", "class"} => p.recipient <= Other
  /\ p.type = "standard" /\ StandardCode[p.request] \in {"get_descriptor", "set_descriptor"} =>
       p.recipient <= Endpoint /\ p.size > 0
  /\ p.type = "standard" /\ StandardCode[p.request] = "get_descriptor" => ~OutOfRange(Ioctl(p))
  /\ p.in \/ p.size + Header <= MaxReadWrite

\* A message that arrives: a well-formed one that has a way reaches the device
\* as it was given to usb_control_msg, and whatever else is sent is of the type
\* and request asked for and fits the caller's buffer.
Arrives(p) ==
  /\ WellFormed(p) /\ HasAWay(p) =>
       /\ Sent(p) # Rejected
       /\ Setup(Sent(p)) = [in |-> p.in, type |-> p.type, recipient |-> p.recipient,
                            request |-> p.request, value |-> p.value, index |-> p.index,
                            length |-> p.size]
  /\ Sent(p) # Rejected =>
       LET setup == Setup(Sent(p))
       IN /\ setup.type = p.type /\ setup.request = p.request
          /\ setup.length <= p.size
          /\ setup.in => p.in

Misdirected == {p \in Packets : ~Arrives(p)}

\* usb_control_msg, "windows doesn't support generic control messages, so it
\* needs to be split up": for all the splitting, and the decoding in the
\* driver, no control message is misdirected.
MessagesArrive == Misdirected = {}

\* A transfer that is sent goes in the direction of its endpoint and of the
\* call, as one of the kind its pipe is for; its packets lie inside the buffer
\* and less than a packet is left out.  A bulk or interrupt transfer in the
\* direction of such an endpoint is not refused, except a read of nothing or
\* with packets of size 0.
WellSent(x) ==
  LET u == Transferred(x)
  IN /\ u # Rejected =>
          /\ u.in = x.pipe.in /\ u.in = Reads(x)
          /\ u.in => x.pipe.packet > 0
          /\ (u.function = "isochronous") = (x.pipe.type = "isochronous")
          /\ u.function = "isochronous" =>
               u.packets * u.packet \in (x.size - u.packet + 1) .. x.size
     /\ /\ x.kind \in {"bulk", "interrupt"} /\ x.pipe.type \in {"bulk", "interrupt"}
        /\ Reads(x) = x.pipe.in /\ (Reads(x) => x.size > 0 /\ x.pipe.packet > 0)
        => u # Rejected

Missent == {x \in Transfers : ~WellSent(x)}

\* Between the two places that look at the direction and the kind of a
\* transfer, the library and dispatch_ioctl, none goes wrong.  (The completion
\* divides by the size of the endpoint's packets: the driver looks at it for a
\* read, and for a write nobody does.)
TransfersArrive == Missent = {}
=============================================================================
