---------------------------- MODULE FilterLists ----------------------------
(***************************************************************************)
(* What the installer knows about the registry's lists of filter drivers   *)
(* (multi-zero strings).                                                   *)
(*                                                                         *)
(* A list is a sequence of driver names; names are compared without case,  *)
(* so they are names up to case.  A value that is not there and a list     *)
(* without entries are both the empty sequence.  A list longer than the    *)
(* MAX_PATH buffers of the code has more than Fits entries.                *)
(***************************************************************************)
EXTENDS Integers, Sequences

CONSTANTS Driver,    \* "libusb0"
          Fits       \* entries that fit a buffer of MAX_PATH bytes

\* Mutant: the search ends at the first string.
HasDriverFirst(list) == list # <<>> /\ list[1] = Driver

\* usb_registry_mz_string_find
HasDriver(list) == \E i \in DOMAIN list : list[i] = Driver

\* The list can be read, and has the driver.
Listed(list) == Len(list) <= Fits /\ HasDriver(list)

\* Mutant: the buffer is taken to be large enough.
ReadsAnySize(list) == {list, <<>>}

\* usb_registry_get_mz_value and usb_registry_get_property: what the buffer,
\* zeroed beforehand, holds after them.  Nothing, when there is no list, when it
\* is too long, and when the request to Windows fails.
Reads(list) == IF Len(list) <= Fits THEN {list, <<>>} ELSE {<<>>}

\* There is no room for another entry in the buffer.
Full(buffer) == Len(buffer) >= Fits

\* Mutant: the string is written at the start of the buffer.
InsertAlone(list) == <<Driver>>

\* usb_registry_mz_string_insert, on a buffer
InsertDriver(list) == Append(list, Driver)

\* The lists that an insertion may write to the registry.  It has no bound: in a
\* full buffer it overruns the stack, and what is then written is undefined, if
\* the program gets that far.
Inserted(buffer) == IF Full(buffer) THEN {<<>>, InsertDriver(buffer)} ELSE {InsertDriver(buffer)}

\* Something has gone wrong in an insertion into a list, made in this buffer: the
\* list could not be read although it fits, or the buffer was overrun.
Amiss(list, buffer) == Full(buffer) \/ (Len(list) <= Fits /\ buffer # list)

\* The insertion is not one into the list as it was.
Blind(list, buffer) == buffer # list \/ Full(buffer)

\* What is left of the first n entries, for each n, when the driver is
\* taken out wherever it is.
Kept(list) ==
  LET kept[n \in 0 .. Len(list)] ==
        IF n = 0 THEN <<>>
        ELSE IF list[n] = Driver THEN kept[n - 1] ELSE Append(kept[n - 1], list[n])
  IN kept

\* usb_registry_mz_string_remove, on a buffer
RemoveDriver(list) == Kept(list)[Len(list)]

\* What belongs to other software.
Others(list) == Kept(list)[Len(list)]
=============================================================================
