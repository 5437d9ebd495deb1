---------------------------- MODULE MCInstaller ----------------------------
EXTENDS Installer

MCClassOf == [d \in Devices |-> "usb"]
MCHwid == [d \in Devices |-> CASE d = "d1" -> [vid |-> 1, pid |-> 1, mi |-> 0, rev |-> AnyPart]
                               [] d = "d2" -> [vid |-> 1, pid |-> 1, mi |-> 1, rev |-> AnyPart]]
MCServices == [d \in Devices |-> "other"]

\* The wizard (install_filter_win.c) asks for one device, or to remove the
\* filters of all; command lines ask for a class and a device of it, for all
\* devices with an id, for all classes, for nothing in particular, for an .inf
\* file, or for too much.
Arg(s) == [switch |-> s]
Device(id) == [switch |-> "-di=", value |-> [id |-> id, hwid |-> MCHwid[id]]]
Hardware(mi) == [switch |-> "-d=",
                 value |-> [id |-> NoId, hwid |-> [vid |-> 1, pid |-> 1, mi |-> mi, rev |-> AnyPart]]]
Class(c) == [switch |-> "-c=", value |-> c]
Inf(D) == [switch |-> "-f=", value |-> D]

MCCommandLines ==
  [p \in Programs |->
     IF p \in Windowed
     THEN {<<Arg("install"), Device("d1")>>, <<Arg("remove"), Arg("-ad")>>}
     ELSE {<<Arg("install"), Class("usb"), Hardware(1)>>, <<Arg("install"), Hardware(AnyPart)>>,
           <<Arg("install")>>, <<Arg("install"), Class("usb"), Arg("-dc")>>,
           <<Arg("remove"), Arg("-ac")>>,
           <<Arg("install"), Inf({"d2"})>>, <<Arg("remove"), Inf({"d2"})>>,
           <<Arg("list")>>, <<Arg("install"), Arg("remove")>>}]

\* An earlier version has left a lower filter; one list is full, so that an
\* insertion overruns the buffer, and one is too long to be read.
MCFirsts ==
  {[uppers |-> [c \in Classes |-> <<"o">>], oldService |-> "running",
    filters |-> [d \in Devices |-> [w \in Places |->
      CASE d = "d1" /\ w = "upper" -> <<"o", "o">>
        [] d = "d2" /\ w = "lower" -> <<"o", Driver>>
        [] d = "d2" /\ w = "upper" -> <<"o", "o", "o">>
        [] OTHER -> <<>>]]]}
=============================================================================
