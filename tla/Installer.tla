----------------------------- MODULE Installer -----------------------------
(***************************************************************************)
(* usb_install_console and what it calls: usb_install_service,             *)
(* usb_uninstall_service, usb_install_inf_np and the loops of registry.c   *)
(* over devices and classes.  Every request to Windows may fail, the       *)
(* program may die between any two of them, and devices come and go.       *)
(***************************************************************************)
EXTENDS InstallSession, FilterLists, FilterContext

CONSTANTS Devices,      \* device nodes under USB
          Classes,      \* device setup classes
          Defaults,     \* the classes of default_class_keys_nt
          ClassOf,      \* the class of each device
          Hwid,         \* the hardware id of each device
          CommandLines, \* the command lines of each program
          Firsts,       \* the registry at the start, as [uppers, filters, oldService]
          FirstServices,\* the service of each device, at the start
          NoService,    \* a device without a driver
          MaxCalls      \* bound on the calls that are made

Places == {"upper", "lower"}

OldServices == {"absent", "stopped", "running", "pending"}

Once(list) == Cardinality({i \in DOMAIN list : list[i] = Driver}) <= 1

\* The lists there are: any list too long for the buffer stands for all such.
Lists == {list \in Seq(STRING) : Len(list) <= Fits + 1 /\ Once(list)}

ASSUME InstallerAssumption ==
  /\ Defaults \subseteq Classes /\ ClassOf \in [Devices -> Classes]
  /\ Driver \in STRING /\ Fits \in Nat \ {0}
  /\ Driver # NoService

\* At the start no list has the driver twice.
ASSUME FirstsAssumption ==
  /\ \A first \in Firsts :
       /\ first.uppers \in [Classes -> Lists] /\ first.filters \in [Devices -> [Places -> Lists]]
       /\ first.oldService \in OldServices
  /\ FirstServices \in [Devices -> STRING]

\* A class that is asked for is one of the registry's; an .inf file names
\* devices.
ASSUME RequestsAssumption ==
  \A p \in Programs : \A line \in CommandLines[p] :
    /\ Parsed(line).classes \subseteq Classes
    /\ Parsed(line).infs \in Seq(SUBSET Devices)

VARIABLES uppers,      \* UpperFilters of each class
          filters,     \* the upper and lower filters of each device
          service,     \* the service of each device
          present,     \* the devices that are plugged in
          disabled,    \* the devices that are disabled
          stale,       \* devices that run with other filters than the registry has
          reinstall,   \* CONFIGFLAG_REINSTALL
          oldService,  \* LIBUSB_OLD_SERVICE_NAME_NT
          calls,       \* the number of calls so far
          job          \* the run of usb_install_console in each program

registry == <<uppers, filters, service, reinstall>>
devices == <<present, disabled, stale>>
vars == <<session, registry, devices, oldService, calls, job>>

\* request, and the state of the run: the items a loop has left, the classes
\* of the filter context, class_filters_modified or usb_reset_required, the
\* .inf files left, and whether the loops are those of an .inf file.  The
\* rest is history: something has failed; dirty, stopped and away are devices
\* that this run has made stale, has disabled, that were absent; touched are
\* the classes it has changed; blind is the list, if any, that the last turn of
\* a loop has written without having read it, or past the end of the buffer.
NoJob == [request |-> NoRequest, step |-> "begin", todo |-> {}, classes |-> {}, restart |-> FALSE, infs |-> <<>>,
          forInf |-> FALSE, failed |-> FALSE, dirty |-> {}, touched |-> {}, stopped |-> {},
          away |-> {}, blind |-> {}]

Job(request) == [NoJob EXCEPT !.request = request, !.infs = request.infs]

Steps == {"begin", "stop", "create", "start", "insert_device", "insert_class", "stop_old", "poll",
          "delete_old", "remove_device", "remove_class", "hubs", "infs"}

RegistryTypeOK ==
  /\ \A c \in Classes : Len(uppers[c]) <= Fits + 1
  /\ \A d \in Devices, w \in Places : Len(filters[d][w]) <= Fits + 1
  /\ present \subseteq Devices /\ disabled \subseteq Devices /\ reinstall \subseteq Devices
  /\ stale \subseteq present
  /\ oldService \in OldServices
  /\ \A p \in Programs : job[p].step \in Steps

TypeOK == SessionTypeOK /\ RegistryTypeOK

Init ==
  /\ SessionInit
  /\ \E first \in Firsts :
       uppers = first.uppers /\ filters = first.filters /\ oldService = first.oldService
  /\ service = FirstServices /\ reinstall = {}
  /\ present = Devices /\ disabled = {} /\ stale = {}
  /\ calls = 0
  /\ job = [p \in Programs |-> NoJob]

-----------------------------------------------------------------------------
At(p, step) == InConsole(p) /\ job[p].step = step

\* A loop over devices starts.  SetupDiGetClassDevs may fail, and then the
\* loop is left out.
Enumerate(p, step, items, j) ==
  \E found \in {items, {}} :
    job' = [j EXCEPT ![p].step = step, ![p].todo = found, ![p].failed = @ \/ found # items]

\* usb_install_console returns.
End(p, r) ==
  /\ ConsoleReturns(p, r, job[p].failed \/ r = -1)
  /\ job' = [job EXCEPT ![p].failed = @ \/ r = -1, ![p].step = "begin"]

\* usb_registry_is_service_or_filter_libusb
IsServiceOrFilter(d) ==
  service[d] = Driver \/ \E w \in Places : Listed(filters[d][w])

\* usb_registry_stop_libusb_devices and the like take those that are present.
LibusbDevices == {d \in present : service[d] = Driver}

Asked(request) == {d \in Devices : \E a \in request.asked : Matches(a, d, Hwid[d])}

\* The devices that a loop takes for those without libusb's driver or filter: of
\* one whose service cannot be read nothing is known, and filters that cannot be
\* read are not seen.
Filterable == {d \in Devices : service[d] \notin {NoService, Driver}}
Plain == {d \in Filterable : ~IsServiceOrFilter(d)}

\* usb_registry_get_usb_class_keys, in an installation, with the devices it finds
DeviceClasses(D) == {ClassOf[d] : d \in D}

\* usb_registry_get_all_class_keys, in a removal
AllClasses == Classes

\* filter_context.class_filters: those given, the default ones if nothing
\* else is asked for, or those that -ac or -dc stands for.
ContextClasses(request, D) ==
  CASE NothingAsked(request) -> Defaults
    [] request.all /\ request.mode = "install" -> DeviceClasses(D)
    [] request.all /\ request.mode = "remove" -> AllClasses
    [] OTHER -> GivenClasses(request)

\* Not an administrator, a 64 bit Windows, no command, or the classes cannot
\* be listed; or the list is reported; or the run begins.  To install only
\* .inf files needs no service.
Begin(p) ==
  /\ At(p, "begin")
  /\ \E found \in SUBSET Filterable :
     LET request == job[p].request
         classes == ContextClasses(request, found)
         j == [job EXCEPT ![p].classes = classes,
                          ![p].failed = @ \/ classes # ContextClasses(request, Plain)]
     IN \/ End(p, -1)
        \/ request.mode = "list" /\ End(p, 0)
        \/ /\ request.mode \in {"install", "remove"} /\ UNCHANGED session
           /\ CASE request.mode = "remove" -> job' = [j EXCEPT ![p].step = "stop_old"]
                [] request.mode = "install" /\ (classes # {} \/ request.all \/ request.asked # {}) ->
                     Enumerate(p, "stop", LibusbDevices, j)
                [] OTHER -> job' = [j EXCEPT ![p].step = "infs"]
  /\ UNCHANGED <<registry, devices, oldService, calls>>

-----------------------------------------------------------------------------
(* Windows restarts a device: it then runs with the registry's filters.    *)
(* The request may fail.                                                   *)

Without(p, j, R) == [j EXCEPT ![p].dirty = @ \ R]

RestartDevice(p, d, made, j) ==
  \/ stale' = made \ {d} /\ job' = Without(p, j, {d})
  \/ stale' = made /\ job' = [j EXCEPT ![p].failed = TRUE]

\* Devices of D whose filters have just changed.
Outdated(D) == D \cap (present \ disabled)

-----------------------------------------------------------------------------
(* usb_install_service                                                     *)

\* usb_registry_stop_libusb_devices
StopDevice(p) ==
  /\ At(p, "stop")
  /\ \E d \in job[p].todo :
       LET j == [job EXCEPT ![p].todo = @ \ {d}]
       IN \/ /\ d \in present
             /\ disabled' = disabled \union {d} /\ stale' = stale \ {d}
             /\ job' = [j EXCEPT ![p].stopped = @ \union ({d} \ disabled), ![p].dirty = @ \ {d}]
          \/ job' = [j EXCEPT ![p].failed = TRUE] /\ UNCHANGED <<disabled, stale>>
  /\ UNCHANGED <<session, registry, present, oldService, calls>>

DevicesStopped(p) ==
  /\ At(p, "stop") /\ job[p].todo = {}
  /\ IF job[p].forInf THEN Enumerate(p, "start", LibusbDevices, job)
     ELSE job' = [job EXCEPT ![p].step = "create"]
  /\ UNCHANGED <<session, registry, devices, oldService, calls>>

\* usb_service_create: the service is made or changed; CreateService fails,
\* which the code logs and does not report; or anything else fails.
CreateService(p) ==
  /\ At(p, "create")
  /\ \/ /\ \E ok \in BOOLEAN :
             Enumerate(p, "start", LibusbDevices,
                       [job EXCEPT ![p].failed = @ \/ ~ok])
        /\ UNCHANGED session
     \/ End(p, -1)
  /\ UNCHANGED <<registry, devices, oldService, calls>>

\* usb_registry_start_libusb_devices
StartDevice(p) ==
  /\ At(p, "start")
  /\ \E d \in job[p].todo :
       LET j == [job EXCEPT ![p].todo = @ \ {d}]
       IN \/ d \in present /\ disabled' = disabled \ {d} /\ job' = j
          \/ job' = [j EXCEPT ![p].failed = TRUE] /\ UNCHANGED disabled
  /\ UNCHANGED <<session, registry, present, stale, oldService, calls>>

DevicesStarted(p) ==
  /\ At(p, "start") /\ job[p].todo = {}
  /\ IF job[p].forInf THEN job' = [job EXCEPT ![p].step = "infs"]
     ELSE Enumerate(p, "insert_device", Asked(job[p].request), job)
  /\ UNCHANGED <<session, registry, devices, oldService, calls>>

\* The upper filters of d become the list, made in this buffer.  The device is
\* restarted at once, unless there are class filters.
WriteDeviceFilter(p, d, buffer, list, j) ==
  LET outdated == Outdated({d})
      old == filters[d].upper
      k == [j EXCEPT ![p].dirty = @ \union outdated, ![p].failed = @ \/ Amiss(old, buffer),
                     ![p].blind = IF Blind(old, buffer) THEN {<<"device", d>>} ELSE {}]
  IN /\ filters' = [filters EXCEPT ![d].upper = list]
     /\ IF job[p].classes = {}
        THEN RestartDevice(p, d, stale \union outdated, k)
        ELSE stale' = stale \union outdated /\ job' = k

\* usb_registry_insert_device_filter: the list is read again; with the driver in
\* it the device may be restarted all the same.
SetDeviceFilter(p, d, j) ==
  \/ job' = [j EXCEPT ![p].failed = TRUE] /\ UNCHANGED <<filters, stale>>
  \/ \E buffer \in Reads(filters[d].upper) :
       \/ /\ HasDriver(buffer) /\ UNCHANGED filters
          /\ \/ job' = j /\ UNCHANGED stale
             \/ job[p].classes = {} /\ RestartDevice(p, d, stale, j)
       \/ /\ ~HasDriver(buffer)
          /\ \E list \in Inserted(buffer) : WriteDeviceFilter(p, d, buffer, list, j)

\* usb_registry_insert_device_filters, for those that are found to have no
\* filter yet
InsertDeviceFilter(p) ==
  /\ At(p, "insert_device")
  /\ \E d \in job[p].todo :
       LET j == [job EXCEPT ![p].todo = @ \ {d}, ![p].blind = {}]
       IN \/ /\ service[d] = NoService \/ IsServiceOrFilter(d)
             /\ job' = j /\ UNCHANGED <<filters, stale>>
          \/ /\ d \in Filterable
             /\ SetDeviceFilter(p, d, [j EXCEPT ![p].failed = @ \/ d \notin Plain])
  /\ UNCHANGED <<session, uppers, service, reinstall, present, disabled, oldService, calls>>

DevicesInserted(p) ==
  /\ At(p, "insert_device") /\ job[p].todo = {}
  /\ job' = [job EXCEPT ![p].step = "insert_class", ![p].todo = job[p].classes, ![p].blind = {}]
  /\ UNCHANGED <<session, registry, devices, oldService, calls>>

\* Mutant: class_filters_modified is not set.
SetClassFiltersOnly(p, c, list, j) ==
  LET outdated == Outdated({d \in Devices : ClassOf[d] = c})
  IN /\ uppers' = [uppers EXCEPT ![c] = list]
     /\ stale' = stale \union outdated
     /\ job' = [j EXCEPT ![p].touched = @ \union {c}, ![p].dirty = @ \union outdated]

\* Class c gets the list; its devices run without it until they restart.
SetClassFilters(p, c, list, j) ==
  LET outdated == Outdated({d \in Devices : ClassOf[d] = c})
  IN /\ uppers' = [uppers EXCEPT ![c] = list]
     /\ stale' = stale \union outdated
     /\ job' = [j EXCEPT ![p].restart = TRUE, ![p].touched = @ \union {c},
                         ![p].dirty = @ \union outdated]

\* usb_registry_insert_class_filter
InsertClassFilter(p) ==
  /\ At(p, "insert_class")
  /\ \E c \in job[p].todo :
       LET j == [job EXCEPT ![p].todo = @ \ {c}, ![p].blind = {}]
           old == uppers[c]
       IN \/ Listed(old) /\ job' = j /\ UNCHANGED <<uppers, stale>>
          \/ job' = [j EXCEPT ![p].failed = TRUE] /\ UNCHANGED <<uppers, stale>>
          \/ \E buffer \in Reads(old) : \E list \in Inserted(buffer) :
               /\ ~HasDriver(buffer)
               /\ SetClassFilters(p, c, list,
                    [j EXCEPT ![p].failed = @ \/ Amiss(old, buffer),
                              ![p].blind = IF Blind(old, buffer) THEN {<<"class", c>>} ELSE {}])
  /\ UNCHANGED <<session, filters, service, reinstall, present, disabled, oldService, calls>>

ClassesDone(p) ==
  /\ job[p].step \in {"insert_class", "remove_class"} /\ InConsole(p) /\ job[p].todo = {}
  /\ job' = [job EXCEPT ![p].step = "hubs", ![p].blind = {}]
  /\ UNCHANGED <<session, registry, devices, oldService, calls>>

\* usb_registry_restart_all_devices, if class_filters_modified or, for an .inf
\* file, usb_reset_required: the root hubs are restarted with all below them.
RestartHubs(p) ==
  /\ At(p, "hubs")
  /\ LET j == [job EXCEPT ![p].step = "infs", ![p].restart = FALSE]
     IN \/ ~job[p].restart /\ job' = j /\ UNCHANGED stale
        \/ job[p].restart /\ stale' = {} /\ job' = Without(p, j, Devices)
        \/ job[p].restart /\ job' = [j EXCEPT ![p].failed = TRUE] /\ UNCHANGED stale
  /\ UNCHANGED <<session, registry, present, disabled, oldService, calls>>

-----------------------------------------------------------------------------
(* usb_uninstall_service                                                   *)

\* usb_service_stop, of the old service: a service that runs is told to stop.
StopOldService(p) ==
  /\ At(p, "stop_old")
  /\ \/ oldService = "running" /\ oldService' = "pending" /\ job' = [job EXCEPT ![p].step = "poll"]
     \/ /\ job' = [job EXCEPT ![p].step = "delete_old", ![p].failed = @ \/ oldService = "running"]
        /\ UNCHANGED oldService
  /\ UNCHANGED <<session, registry, devices, calls>>

\* It is polled until it has stopped ...: the time waited is reset at every
\* turn, so the limit of 20 seconds is never reached.
Poll(p) ==
  /\ At(p, "poll") /\ oldService # "pending"
  /\ job' = [job EXCEPT ![p].step = "delete_old"]
  /\ UNCHANGED <<session, registry, devices, oldService, calls>>

\* ... or a query fails.
QueryFails(p) ==
  /\ At(p, "poll")
  /\ job' = [job EXCEPT ![p].step = "delete_old", ![p].failed = TRUE]
  /\ UNCHANGED <<session, registry, devices, oldService, calls>>

\* usb_service_delete, whose result is ignored.  Device filters are looked at
\* only if devices are given or all are.
DeleteOldService(p) ==
  /\ At(p, "delete_old")
  /\ LET request == job[p].request
         asked == IF request.allDevices THEN Devices ELSE Asked(request)
         j == [job EXCEPT ![p].failed = @ \/ oldService' # "absent"]
     IN /\ oldService' \in {"absent", oldService}
        /\ IF request.asked = {} /\ ~request.allDevices
           THEN job' = [j EXCEPT ![p].step = "remove_class", ![p].todo = job[p].classes]
           ELSE Enumerate(p, "remove_device",
                          {item \in asked \X Places : Listed(filters[item[1]][item[2]])}, j)
  /\ UNCHANGED <<session, registry, devices, calls>>

\* usb_registry_remove_device_filter.  A list that cannot be read is left out;
\* whether it could be written is not looked at.  (The loop looks at all lists;
\* here todo are those it finds the driver in.)
RemoveDeviceFilter(p) ==
  /\ At(p, "remove_device")
  /\ \E item \in job[p].todo :
       LET d == item[1]
           w == item[2]
           j == [job EXCEPT ![p].todo = @ \ {item}]
       IN \/ job' = [j EXCEPT ![p].failed = TRUE] /\ UNCHANGED <<filters, stale>>
          \/ \E ok \in BOOLEAN :
            LET outdated == IF ok THEN Outdated({d}) ELSE {}
                k == [j EXCEPT ![p].dirty = @ \union outdated, ![p].failed = @ \/ ~ok]
            IN /\ filters' = IF ok THEN [filters EXCEPT ![d][w] = RemoveDriver(@)] ELSE filters
               /\ IF job[p].classes = {}
                  THEN RestartDevice(p, d, stale \union outdated, k)
                  ELSE stale' = stale \union outdated /\ job' = k
  /\ UNCHANGED <<session, uppers, service, reinstall, present, disabled, oldService, calls>>

DevicesRemoved(p) ==
  /\ At(p, "remove_device") /\ job[p].todo = {}
  /\ job' = [job EXCEPT ![p].step = "remove_class", ![p].todo = job[p].classes]
  /\ UNCHANGED <<session, registry, devices, oldService, calls>>

\* usb_registry_remove_class_filter.  A list that cannot be read is left out; the
\* hubs are restarted even if the list could not be written.
RemoveClassFilter(p) ==
  /\ At(p, "remove_class")
  /\ \E c \in job[p].todo :
       LET j == [job EXCEPT ![p].todo = @ \ {c}]
       IN \/ ~Listed(uppers[c]) /\ job' = j /\ UNCHANGED <<uppers, stale>>
          \/ /\ Listed(uppers[c])
             /\ \/ \E restart \in {job[p].restart, TRUE} :
                     job' = [j EXCEPT ![p].failed = TRUE, ![p].restart = restart]
                   /\ UNCHANGED <<uppers, stale>>
                \/ SetClassFilters(p, c, RemoveDriver(uppers[c]), j)
  /\ UNCHANGED <<session, filters, service, reinstall, present, disabled, oldService, calls>>

-----------------------------------------------------------------------------
(* usb_install_inf_np, for one .inf file after the other.                  *)

InfsDone(p) ==
  /\ At(p, "infs") /\ job[p].infs = <<>>
  /\ End(p, 0) /\ UNCHANGED <<registry, devices, oldService, calls>>

\* The file cannot be read or names something that is not a USB device.
InfFails(p) ==
  /\ At(p, "infs") /\ job[p].infs # <<>>
  /\ End(p, -1) /\ UNCHANGED <<registry, devices, oldService, calls>>

\* UpdateDriverForPlugAndPlayDevices gives the devices that are present the
\* driver; the others are marked.  Then all libusb devices are stopped and
\* started.
InstallInf(p) ==
  /\ At(p, "infs") /\ job[p].infs # <<>> /\ job[p].request.mode = "install"
  /\ LET named == Head(job[p].infs)
     IN \E updated \in {named \cap present, {}} :
          /\ service' = [d \in Devices |-> IF d \in updated THEN Driver ELSE service[d]]
          /\ stale' = stale \ updated
          /\ reinstall' = reinstall \union (named \ present)
          /\ Enumerate(p, "stop", {d \in present : service'[d] = Driver},
                       [job EXCEPT ![p].infs = Tail(@), ![p].forInf = TRUE,
                                   ![p].dirty = @ \ updated,
                                   ![p].failed = @ \/ updated # named \cap present])
  /\ UNCHANGED <<session, uppers, filters, present, disabled, oldService, calls>>

\* The driver is rolled back; or else the device is uninstalled, and its node
\* goes with all that it has in the registry; or that fails, too.
RemoveInf(p) ==
  /\ At(p, "infs") /\ job[p].infs # <<>> /\ job[p].request.mode = "remove"
  /\ LET named == Head(job[p].infs)
     IN \E back \in {named, {}}, gone \in {named, {}} :
          LET uninstalled == gone \ back
          IN /\ service' = [d \in Devices |-> IF d \in back THEN "other"
                                              ELSE IF d \in uninstalled THEN NoService ELSE service[d]]
             /\ filters' = [d \in Devices |-> IF d \in uninstalled
                                              THEN [w \in Places |-> <<>>] ELSE filters[d]]
             /\ reinstall' = reinstall \ uninstalled
             /\ disabled' = disabled \ uninstalled
             /\ stale' = stale \ (back \union uninstalled)
             /\ job' = [job EXCEPT ![p].infs = Tail(@), ![p].step = "hubs",
                                    ![p].restart = uninstalled # {},
                                    ![p].dirty = @ \ (back \union uninstalled),
                                    ![p].failed = @ \/ back \union uninstalled # named]
  /\ UNCHANGED <<session, uppers, present, oldService, calls>>

-----------------------------------------------------------------------------
(* Around the program.                                                     *)

\* A device comes, with the registry's filters, and with the new driver if it
\* has been marked.
Plug(d) ==
  /\ d \notin present
  /\ present' = present \union {d}
  /\ service' = [service EXCEPT ![d] = IF d \in reinstall THEN Driver ELSE @]
  /\ reinstall' = reinstall \ {d}
  /\ UNCHANGED <<session, uppers, filters, disabled, stale, oldService, calls, job>>

\* A device goes.  (At most one during a run: a bound.)
Unplug(d) ==
  /\ present = Devices /\ \E p \in Programs : InConsole(p) /\ job[p].away = {}
  /\ present' = present \ {d} /\ stale' = stale \ {d}
  /\ job' = [p \in Programs |-> [job[p] EXCEPT !.dirty = @ \ {d}, !.away = @ \union {d}]]
  /\ UNCHANGED <<session, registry, disabled, oldService, calls>>

\* The old service stops, if it ever does.
ServiceStops ==
  /\ oldService = "pending" /\ oldService' = "stopped"
  /\ UNCHANGED <<session, registry, devices, calls, job>>

\* The calling thread takes its steps ...
Caller(p) ==
  /\ UNCHANGED <<registry, devices, oldService, calls>>
  /\ \/ DestroyLock(p) /\ job' = [job EXCEPT ![p] = NoJob]
     \/ \E line \in CommandLines[p] :
          LET request == Parsed(line)
          IN /\ ParseArguments(p) /\ (request.status # "ok" => pc'[p] = "free")
             /\ job' = [job EXCEPT ![p] = Job(request)]
     \/ Proceed(p) /\ UNCHANGED job

\* ... and others decide to call, to close the window or to kill the program.
Around(p) ==
  /\ UNCHANGED <<registry, devices, oldService>>
  /\ \/ calls < MaxCalls /\ calls' = calls + 1 /\ CreateLock(p) /\ UNCHANGED job
     \/ UserCloses(p) /\ UNCHANGED <<calls, job>>
     \/ Crash(p) /\ job' = [job EXCEPT ![p] = NoJob] /\ UNCHANGED calls

Console(p) ==
  \/ Begin(p) \/ StopDevice(p) \/ DevicesStopped(p) \/ CreateService(p) \/ StartDevice(p)
  \/ DevicesStarted(p) \/ InsertDeviceFilter(p) \/ DevicesInserted(p) \/ InsertClassFilter(p)
  \/ ClassesDone(p) \/ RestartHubs(p) \/ StopOldService(p) \/ Poll(p) \/ DeleteOldService(p)
  \/ RemoveDeviceFilter(p) \/ DevicesRemoved(p) \/ RemoveClassFilter(p) \/ InfsDone(p)
  \/ InfFails(p) \/ InstallInf(p) \/ RemoveInf(p)

Next ==
  \/ \E p \in Programs : Caller(p) \/ Around(p) \/ Console(p) \/ QueryFails(p)
  \/ \E d \in Devices : Plug(d) \/ Unplug(d)
  \/ ServiceStops

\* The program's threads go on, and the user answers the prompt.  Nothing is
\* assumed of devices, of the user's closing the window or of the old service.
Fairness ==
  \A p \in Programs : WF_vars(Caller(p)) /\ WF_vars(Console(p))

Spec == Init /\ [][Next]_vars /\ Fairness

-----------------------------------------------------------------------------
\* A run has ended well: it returns 0 and nothing it asked of Windows failed.
Clean(p) == outcome[p] = 0 /\ ~job[p].failed

\* What other software has in a list stays there, in its order, whatever is
\* inserted or removed and whichever other requests fail.  Only a list that this
\* step writes without having read it, because it is too long or the request for
\* it fails, or writes past the end of the buffer, because it is full, may lose
\* it; and a device that is uninstalled takes its lists along.
OthersKept ==
  [][LET BlindNow(item) == \E p \in Programs : item \in job'[p].blind
     IN /\ \A c \in Classes :
             Others(uppers'[c]) = Others(uppers[c]) \/ BlindNow(<<"class", c>>)
        /\ \A d \in Devices : service'[d] # NoService =>
             /\ Others(filters'[d].lower) = Others(filters[d].lower)
             /\ Others(filters'[d].upper) = Others(filters[d].upper) \/ BlindNow(<<"device", d>>)]_registry

\* The device has no driver that could be filtered, or has libusb's, or the
\* filter, even in a list that has become too long to be read.
HasFilter(d) ==
  service[d] \in {NoService, Driver} \/ \E w \in Places : HasDriver(filters[d][w])

\* A run that has ended well has done what was asked for, from whatever state
\* an earlier run, killed or failed at any point, has left: after an install
\* every class and device asked for has the filter, after an uninstall no
\* list that can be read has it.  It is never there twice.
AsAsked ==
  /\ \A c \in Classes : Once(uppers[c])
  /\ \A d \in Devices, w \in Places : Once(filters[d][w])
  /\ \A p \in Programs : Clean(p) =>
       LET request == job[p].request
           asked == IF request.allDevices THEN Devices ELSE Asked(request)
       IN /\ request.mode = "install" =>
               /\ \A c \in job[p].classes : HasDriver(uppers[c])
               /\ \A d \in Asked(request) : HasFilter(d)
          /\ request.mode = "remove" =>
               /\ \A c \in job[p].classes : ~Listed(uppers[c])
               /\ \A d \in asked, w \in Places : ~Listed(filters[d][w])

\* A run that has ended well leaves the devices running with the filters that
\* the registry has: those it has changed have been restarted, unless class
\* filters were asked for and none needed a change, and those it has stopped
\* are started again, unless they were unplugged meanwhile.
LeftRunning ==
  \A p \in Programs : Clean(p) =>
    /\ job[p].dirty = {} \/ (job[p].classes # {} /\ job[p].touched = {})
    /\ job[p].stopped \cap disabled \subseteq job[p].away

\* Every call returns, unless the window is left open to the user or the old
\* service never stops.
CallsReturn ==
  \A p \in Programs :
    pc[p] # "idle" ~> \/ pc[p] = "idle"
                      \/ window[p].open /\ window[p].stopped
                      \/ job[p].step = "poll" /\ oldService = "pending"
=============================================================================
