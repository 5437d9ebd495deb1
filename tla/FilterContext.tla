--------------------------- MODULE FilterContext ---------------------------
(***************************************************************************)
(* filter_context_t: what usb_install_parse_filter_context makes of a      *)
(* command line, and how a device matches what the user asked for          *)
(* (usb_registry_match_filter_device).                                     *)
(*                                                                         *)
(* An argument is a switch and its value: a device (instance id or         *)
(* hardware id), a class, an .inf file.  A hardware id's missing parts are *)
(* AnyPart.  Prompts and waiting are the session's.                        *)
(***************************************************************************)
EXTENDS Integers, Sequences, SequencesExt

AnyPart == -1
NoId == ""

\* usb_registry_fill_filter_hwid succeeds
Complete(hwid) == hwid.vid # AnyPart /\ hwid.pid # AnyPart

Part(asked, part) == asked = AnyPart \/ asked = part

\* the test in usb_registry_match_filter_device
Matches(asked, id, hwid) ==
  /\ Complete(hwid)
  /\ IF asked.id # NoId
     THEN asked.id = id
     ELSE /\ Complete(asked.hwid)
          /\ asked.hwid.vid = hwid.vid /\ asked.hwid.pid = hwid.pid
          /\ Part(asked.hwid.mi, hwid.mi) /\ Part(asked.hwid.rev, hwid.rev)

-----------------------------------------------------------------------------
\* A context as it is allocated.
NoRequest == [status |-> "ok", mode |-> "none", all |-> FALSE, allDevices |-> FALSE,
              classes |-> {}, asked |-> {}, infs |-> <<>>]

Commands == {"list", "install", "remove"}

\* The lists of the context, newest entry first; an entry that is there
\* already is not added.
AddDevice(asked, device) == asked \union {device}
AddClass(classes, class) == classes \union {class}
AddFile(infs, file) == IF file \in ToSet(infs) THEN infs ELSE <<file>> \o infs

TakeCommand(context, arg) ==
  IF context.mode = "none" THEN [context EXCEPT !.mode = arg.switch]
  ELSE [context EXCEPT !.status = "error"]

TakeSwitch(context, arg) ==
  CASE arg.switch \in {"-ac", "-dc"} -> [context EXCEPT !.all = TRUE]
    [] arg.switch = "-ad" -> [context EXCEPT !.allDevices = TRUE]
    [] arg.switch \in {"-d=", "-di="} -> [context EXCEPT !.asked = AddDevice(@, arg.value)]
    [] arg.switch = "-c=" -> [context EXCEPT !.classes = AddClass(@, arg.value)]
    [] arg.switch = "-f=" -> [context EXCEPT !.infs = AddFile(@, arg.value)]
    [] OTHER -> [context EXCEPT !.status = "error"]

\* One argument.  After help or an error the rest is not looked at.
Take(context, arg) ==
  CASE context.status # "ok" -> context
    [] arg.switch = "help" -> [context EXCEPT !.status = "help"]
    [] arg.switch \in Commands -> TakeCommand(context, arg)
    [] OTHER -> TakeSwitch(context, arg)

\* usb_install_parse_filter_context.  A command line without arguments is an
\* error.
Parsed(line) ==
  IF line = <<>> THEN [NoRequest EXCEPT !.status = "error"] ELSE FoldLeft(Take, NoRequest, line)

\* Nothing but a command: the default classes are meant.
NothingAsked(request) ==
  /\ request.classes = {} /\ request.asked = {} /\ request.infs = <<>>
  /\ ~request.all /\ ~request.allDevices

\* -ac and -dc replace the classes given.
GivenClasses(request) == IF request.all THEN {} ELSE request.classes
=============================================================================
