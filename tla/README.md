# A verification of libusb-win32

TLA+ models of the libusb-win32 driver (`src/libusb/src/driver`) and of the
library on top of it (`libusb0.dll`, `src/libusb/src`), model-checked with TLC
and, where it says so below, proved with TLAPS for every value of the
constants. Paths in this text are relative to `src/libusb/src/` unless they
start with `src/`.

Contents: the system, what is modelled, the runs, the proofs, where the code
does not do what its texts say, what is left out, and what would come next.

## 1. The system

    application
      |  usb_* calls, any thread
    libusb0.dll        usb.c windows.c descriptors.c error.c
      |  DeviceIoControl (overlapped), CreateFile, CloseHandle
    libusb0.sys        dispatch.c ioctl.c pnp.c power.c transfer.c
      |                libusb_driver.c set_configuration.c claim_interface.c ...
      |  IRPs with URBs
    USB bus driver     (Windows)

The installer (`install.c`, `registry.c`, `install_filter*.c`) and the
examples stand beside this stack.

### Components, their state, their operations

| component | state | operations | correct when |
|---|---|---|---|
| remove lock (`driver/libusb_driver.c` 818-856, users in `dispatch.c`, `ioctl.c`, `pnp.c`, `power.c`) | `usage_count`, `event`, `remove_pending` | acquire, release, release_and_wait | a request is counted or refused; REMOVE waits for those inside, and is not left waiting |
| synchronous bus requests (`call_usbd_ex`, same file 487-578) | the IRP, the `IRPLOCK` word on the caller's stack, the wait | build, send, wait, cancel, completion | the IRP is ended once, is never touched after that, the stack word is not written after the return; the call returns |
| split transfers (`driver/transfer.c`) | per endpoint `pending_busy`, `pending_sequence`; per request `context_t` | `transfer`, `transfer_next`, `transfer_complete` | one request's chunks are contiguous, tile its buffer, and its context is freed once |
| configuration and interfaces (`set_configuration.c`, `get_descriptor.c`, `set_interface.c`, `get_interface.c`, `claim_interface.c`, `release_interface.c`, `reset_device.c`) | `dev->config`: value, index, handle, descriptor, per interface `valid`, pipes and owner | the ioctls, CREATE and CLOSE | the cache agrees with the device, its memory is balanced, an interface has one owner at most and none that is closed |
| PnP and power (`pnp.c`, `power.c`, `dispatch.c`, `add_device`) | `is_started`, the device interface, `power_state`, `in_use`, what is allocated and attached | START, STOP, SURPRISE_REMOVAL, REMOVE, device and system power IRPs, CREATE | removal leaves nothing; the reported power state is the device's; a CREATE that waits for power returns |
| ioctl dispatch (`ioctl.c`, `vendor_request.c`, `get_status.c`, ...) | none of its own | validation and decoding of requests | every request that an application can make reaches the device as it was meant, or is refused |
| DLL transfers (`windows.c` 43-51, 363-700, 1130-1190) | `usb_context_t` with its event | setup, submit, reap, cancel, free, the synchronous loop | nothing of a request is in the driver once its call has returned; the calls return |
| DLL device lists (`usb.c`, `usbi.h`, `windows.c` 817-883, 1103-1127, 1227-1261) | `bus->devices`, `root_dev->children`, all linked through the structures | `usb_find_devices` | the lists are well formed, exact after a scan, and a device that stays keeps its structure |
| DLL device control (`windows.c` 97-362, 640-1100) | `dev->config`, `interface`, `altsetting` of a handle | open, close, set_configuration, claim, control messages, ... | the handle's cache agrees with the driver; what is asked arrives |
| descriptor parsing (`descriptors.c`) | none | parse a configuration into structures, free them | every structure is as the descriptors say; what was parsed is freed |
| installer (`install.c`, `registry.c`, `install_filter*.c`) | filter lists in the Windows registry, services, the install semaphore, the progress window | install, remove and list filters; services; .inf files | one installer at a time; a filter is there once; other drivers' filters stay; devices are left running |
| error texts, dynamic loading, driver debug and registry reads | none worth a model | | |

### What is hard

* **Interleaving.** Ioctls of one device run on many threads; the configuration
  and the claims have no lock. Completion routines run on other threads or
  inside the call that sends the IRP.
* **Atomicity.** `pending_busy`, `usage_count` and `IRPLOCK` are single
  interlocked words that order everything else.
* **Timeouts and cancellation.** A wait that times out races the answer, in the
  driver (`IoCancelIrp`) and in the DLL (abort of the endpoint), and the memory
  of both parties may be on a stack.
* **Partial failure.** Devices refuse requests, allocations fail, adds fail
  half-way, devices vanish between a scan and an open.
* **Order.** PnP and power IRPs arrive in several orders, and the power IRPs of
  the two kinds overlap.

`PROJECT.json` lists the places, one by one, under `hazards`.

## 2. The models

One module per component; MC modules only give values to constants.

| module | models | state and actions against the code |
|---|---|---|
| `Drain` | what a remove lock promises, without count, event or thread: requests enter and leave, some lapse once the entrance is closed, and the device is torn down when no more are inside than have lapsed | `holders`, `lapsed`; a lapse is a refused ioctl that releases what it does not hold |
| `RemoveLock` | the remove lock and the dispatch routines around it | `pc[r]` is where the thread of IRP `r` is; each interlocked operation and each read of `is_started` or `remove_pending` is an action of its own (`Increment`, `CheckPending`, `UndoAcquire`, `OverRelease`, ...); `signalling` are threads between the decrement to 0 and `KeSetEvent` |
| `UsbdCall` | `call_usbd_ex` and `on_usbd_complete` | caller steps and completer steps around the `IRPLOCK` word; `irp` says who owns the IRP; `IntMax` is the width of the `int` product `timeout * 10000` |
| `Transfer` | the transfers of one endpoint | an activation `<<r, k>>` is `transfer()` (k = 0) or the completion of chunk k; `pending_busy` and `pending_sequence` are read and written in the code's order; `wire` is what reached the bus |
| `Claims` | what claiming promises | an owner at most, who keeps the interface until release, close or reconfiguration |
| `DeviceConfig` | `dev->config` and the ioctls on it | each thread runs one request; a step ends where the code blocks on the device or where another thread's write matters (a test and the assignment after it are two steps); descriptors are blocks of a pool that is reused |
| `Requests` | the coding of control messages and transfers in `windows.c`, their checks and decoding in `ioctl.c` and the request handlers | operators from what the application passes to the packet at the device: `Ioctl` is `usb_control_msg`, `Dispatch` the switch of `dispatch_ioctl`; values are cut to the width of their fields |
| `DllHandle` | what the library remembers for each handle, composed with `DeviceConfig` and `Requests` | each call of the library is begun (or answered from the cache) and ended by `Answer`; programs of their own use the other files; `drift` is history: which parts of a handle's memory something else has overtaken |
| `Lifecycle` | a device from `add_device` to REMOVE, with power | `pnp` is the state of the PnP manager; `resources` is what add_device and START have made; `in_flight` and `requests` are the device power IRPs; `reported`, `device` and `actual` are what the driver told Windows, what it keeps, and the device's own state |
| `DllTransfer` | `usb_submit_async`, `usb_reap_async`, `usb_cancel_async`, `usb_free_async`, the synchronous loop, `_usb_cancel_io` | the owner of a context and another thread that cancels; the request in the driver is at the bus, or between two chunks |
| `Descriptors` | the parser of `descriptors.c`, `usb_destroy_configuration` | recursive functions over a sequence of descriptors; a position is the number of a descriptor, bytes are counted where the code compares them; the reference is the configuration that was laid out in the buffer (`Configuration` says which there are) |
| `BusList` | `usb_find_devices` | `heap` holds the structures with their `next` and `prev`; the scan goes slot by slot, the two loops structure by structure, and devices come and go between any two steps; configurations are read through `Descriptors` |
| `FilterLists` | the multi-zero strings of `registry.c` | a list is a sequence of driver names; `Fits` is what a `MAX_PATH` buffer holds; find, insert, remove as the code does them on the buffer |
| `FilterContext` | `filter_context_t`: the command line, and which devices match | operators |
| `InstallSession` | `usb_install_npW`: semaphore, filter context, progress window and worker thread | `handles` and `count` are the semaphore; `window.messages` the queue that the calling thread serves |
| `Installer` | `usb_install_console` and what it calls, over lists, services and devices | `job[p]` is where the run of program `p` is; every request to Windows may fail, a program may die between two of them, devices are plugged and unplugged |

The proofs of a module are in `<module>Proofs`; those of `InstallSession` are in
`InstallerProofs`, those of `DeviceConfig` in `DllHandleProofs`.

`RemoveLock` refines `Drain` (`D == INSTANCE Drain WITH ...`), over-releasing
ioctls included: `Drain` lets as many be left behind as have lapsed.
`DeviceConfig` refines `Claims`, below a library too, because every step of
`DllHandle` is one of `DeviceConfig`. `Installer` is `InstallSession` with the
run of the console filled in. `Lifecycle` uses the remove lock through what `Drain`
promises: REMOVE refuses later requests and waits for earlier ones. `DllTransfer`
abstracts the driver's split transfers to two places of a request, one that an
abort reaches and one that it does not; `Transfer` is where that second place
comes from.

### Assumptions about Windows

* The bus driver completes every IRP it is given, at the latest when the IRP is
  cancelled or the device is surprise-removed. It may complete it inside
  `IoCallDriver`.
* The PnP manager sends one state-changing IRP at a time, in the documented
  orders; START comes only while no device power IRP is under way.
* The power manager sends a device's power IRPs one after the other
  (`MaxInFlight = 1`, Windows Vista and later). Power-down IRPs succeed,
  power-up may fail.
* The I/O manager sends CLOSE when no request of the file object is left, and
  keeps the device extension while a file object refers to it.
* Disabling a device interface that is enabled succeeds; a configuration that
  the device refuses is not selected; a port reset leaves the device's
  configuration alone.
* `DeviceIoControl` resets the event of its `OVERLAPPED`.
* An application frees a context after the last call on it has returned and
  does not use it again after a failed abort.

### Abstractions

A configuration has its value as its index and its handle. URBs are their
outcome. Names, ids, strings and debug output are left out. Isochronous
transfers are transfers whose maximum size is 0x7fffffff, so never split.
`transfer_next` for a new chunk and its MDL are steps with an outcome. In
`Lifecycle` the device usage notifications are left out (they set flags), in
`BusList` the one virtual bus is there from the start. A structure's memory is
`Blank` once it is freed. In `Descriptors` a buffer is as the USB specification
prescribes it and within the limits of the code (lengths are bytes, an endpoint
has 7 at least; 1 to 32 interfaces, each with 1 to 256 settings of at most 32
endpoints; the total is a word), so what cannot be parsed does not occur. In the installer driver
names are compared as the code does, without case, so a name stands for all its
spellings; a value that is not there and a list without entries are the same,
as they are to the code.

## 3. The runs

"States" is the number of distinct states. Bounds are constants of the
configuration, with their names.

| run | bounds | states | shows |
|---|---|---|---|
| `remove_lock` | 3 ioctls, a PnP request, a START, a STOP, the REMOVE | 145,974 | the count never drifts except by over-releases; as many requests are left behind as ioctls were refused, no more; REMOVE ends; refinement of `Drain`, liveness included |
| `usbd_call` | timeouts below, at and beyond the cap and the `int` (scaled: 10 ticks, IntMax 127) | 816 | the handshake in every interleaving; the wait is exact for capped calls; the call returns |
| `transfer` | 2 requests, 0 or 3 full chunks (`MaxChunks`), packet size 1, failing allocations | 25,780 | `pending_busy` is a lock; chunks contiguous, tiled and all accounted for; every request ends |
| `dll_transfer` | 2 contexts on one endpoint | 100,800 | nothing in flight after the return; calls return, but for an abort that misses |
| `lifecycle` | one creator, `MaxInFlight` 1, `MaxRequests` 2 | 107,944 | removal leaves nothing by whichever way; power state reported and kept; the device follows the system; CREATE returns |
| `dll_handle` | one request at a time: a handle of the library and a file of another program, configurations 1 and 200, 2 interfaces, 2 settings, 3 blocks; 55,440 control messages, 9,504 transfers | 212,546 | driver: cache = device, no leak, no use of a freed descriptor, exclusive claims, nothing held by a closed file. Library: a handle remembers what the driver has, is not stuck, and what it sends arrives as it was meant |
| `bus_list` | 2 slots, 2 models, 4 structures, 2,340 configurations for the parser | 123,927 | lists well formed at every step; exact after an undisturbed scan; the count is the documented one; a device that stays keeps its structure; configurations come out as the devices have them, and are freed with them |
| `installer` | 2 programs (one with a window), 2 devices, 1 class, 11 command lines, `MaxCalls` 2, lists of 2 fit | 158,947 | one installer at a time, no use of a freed filter context, the right result; a run that ends well did what was asked, left the devices running, and nothing of other software was lost on the way; calls return |
| `remove_waits` | 2 ioctls, a START, the REMOVE | violated | see 5.1 |
| `transfer_truncated` | 1 request of 2 chunks | violated | see 5.2 |
| `transfer_freed` | 1 request of 2 chunks | violated | see 5.3 |
| `claim_race` | 2 threads, 2 files, 1 interface | violated | see 5.4 |

Several properties are conjunctions of named parts that concern the same state:
`HandshakeSafe`, `EndpointSafe`, `DataSafe`, `ResourcesSafe`, `MemorySafe`,
`CacheSafe`, `ListsSafe`, `ExactScan`, `SessionSafe`.

Why the bounds are enough. `RemoveLock`: an over-release needs a refused ioctl,
its harm needs another request inside, and a third ioctl lets both happen
twice; every class of IRP is there. `UsbdCall` has one call, two threads, and
timeouts on both sides of each boundary; the products are scaled so that 13 * 10
wraps at 127 as 214749 * 10000 does at 2^31 - 1. `Transfer`: a chunk of its own
kind is the first, one in the middle, the last: three; overtaking needs two
requests, and the code orders requests by comparing two numbers. `DllTransfer`:
an abort hits the requests of one endpoint, so a second context is all others.
`DllHandle`: the second configuration has fewer interfaces than the first, and
its value, 200, does not fit a signed char; the other file stands for all
programs and handles besides the one that is looked at; the pool has a block
more than can be in use. One request at a time is what `MemorySafe`,
`CacheSafe`, `ImplementsClaims` and `HandleAgrees` need: with two they fail
(section 5). What survives concurrency, `ClosedFilesHoldNothing`, is proved for
any interleaving.
The messages have every type, direction and request that the switches tell
apart, and sizes on both sides of the 64 KiB limit less the header (`Header`,
24 bytes here, any size up to the limit in the proof); the transfers have every pipe and
sizes around one packet and around 255 packets. Symmetry is over the blocks of
the pool, which the code only compares with NULL. `Lifecycle`: two requests
waiting are a sleep and the resume that overtakes it. `BusList`: two slots give
lists with a head and a tail; four structures are two on the bus and two in a
scan, and leaked ones make memory run out; the configurations have up to two
interfaces, settings and endpoints with foreign descriptors, short and as long
as an interface's, wherever they may stand. Models and structures are
symmetric: the code compares names and pointers for equality only. `Installer`:
two programs meet at the semaphore, one of them through the window and its
worker; one list is exactly full, so that an insertion makes it too long to be
read again, one is too long already, and one holds a filter of an earlier
version; two calls are an install that dies and the run that finds what it left.

Only `installer` sets `CHECK_DEADLOCK FALSE`: it stops when `MaxCalls` calls have
been made. Modules of processes that end have an explicit `Terminated` step.

### Fairness

Nothing is assumed of applications, of the PnP manager's decisions, or of a
device that does not answer: no fairness on submitting, opening, plugging,
cancelling, or on an answer nobody has asked to cancel. Weak fairness is
assumed of

* threads that are inside the driver or the DLL and can go on
  (`RemoveLock`, `UsbdCall`, `Transfer`, `DllTransfer`);
* the end of a wait with a finite timeout (`WaitTimesOut`, `ReapTimesOut`);
* the threads of a program that installs, and the user's answer to its prompt
  (`Installer`); not the closing of the window, and not the old service's
  stopping, which `CallsReturn` excepts;
* the bus driver's completion of a cancelled or aborted IRP (`UsbdCall`:
  `cancelled /\ LowerCompletes`; `DllTransfer`: `irp[c] = "aborting"`); in
  `Transfer`, of every chunk, because an unanswered one is cancelled in the end
  by the DLL or the I/O manager, and of the lower driver's power IRPs
  (`Lifecycle`).

The schedulers and the bus driver of Windows provide that. No strong fairness is
used.

## 4. The proofs

TLAPS checks every obligation of the eight proof modules, for any constants that
satisfy the `ASSUME`s of the modules.

| theorem | says |
|---|---|
| `RemoveLockProofs!TypeCorrect`, `AccountingCorrect`, `DrainCorrect` | types, the accounting of `usage_count`, and at most one request left behind per refused ioctl, for any finite set of requests |
| `RemoveLockProofs!RemoveWaitsWithoutIoctls`, `DrainRefinement` | if there are no ioctls, REMOVE waits for everyone; and every step is a step of `Drain` or a stutter, ioctls included |
| `UsbdCallProofs!HandshakeCorrect`, `StatusCorrect`, `CappedWaitCorrect` | the IRP is ended once, cancelled only alive; no lock word after the return; a status that is not a timeout is the bus driver's; no overflow in a capped wait, for every width |
| `TransferProofs!EndpointCorrect`, `OrderCorrect`, `DataCorrect` | for any requests, lengths, maximum sizes and packet sizes: `pending_busy` is a lock, no chunk comes between two of another request, chunks tile the buffer and are all reported |
| `DllTransferProofs!TypeCorrect`, `QuietAfterReturn` | types, and nothing of a request is in the driver after a call that ends it, for any contexts and endpoints |
| `DllHandleProofs!TypeCorrect`, `ClosedFilesCorrect` | for any threads, files, configurations and interfaces, under every interleaving: types, and no interface stays bound to a closed file |
| `DllHandleProofs!MemoryCorrect`, `CacheCorrect` | one request at a time: no use of a freed descriptor, no double free, no leak; the cached configuration is the device's, whatever it refuses and whatever fails |
| `DllHandleProofs!ClaimsRefinement`, `ClaimsExclusive` | one request at a time: the ioctls implement `Claims`, so an interface has one owner at most |
| `DllHandleProofs!ControlMessagesArrive`, `TransfersAllArrive` | every control message and every transfer, for any set of them and any size of the request's header |
| `DllHandleProofs!LibraryImplementsDriver` | every behaviour of the library over the driver is one of the driver's model, for any threads, handles and files |
| `DllHandleProofs!ClosedHandlesHoldNothing`, `HandleTypesCorrect` | so closed handles hold nothing either; a handle remembers things that exist, also where an answer is read as a char |
| `DllHandleProofs!HandlesAgree`, `HandlesNotStuck` | one request at a time, any handles and other programs: a handle remembers what the driver has, but for what `drift` names, and what it has claimed it can release |
| `DllHandleProofs!SafeBelowLibrary` | the driver's memory, cache and claims are as right below the library |
| `BusListProofs!ListsCorrect` | for any slots, models and structures: the list of the bus and that of the scan are well formed and apart at every step, and between calls the hub's children are the bus |
| `BusListProofs!ScanCorrect`, `SeenCorrect` | after an undisturbed call the bus has the devices that are there; every call returns how many came and went; a device that stays keeps its structure |
| `BusListProofs!ConfigurationIsParsed` | every configuration, with any interfaces, settings, endpoints and class descriptors of any lengths within the limits, comes out of the parser as it was laid out |
| `BusListProofs!ConfigsCorrect`, `ConfigsFreedCorrect` | so for any configurations: none is misread, and what the parser allocates is what `usb_destroy_configuration` frees, but for the descriptors of the whole |
| `LifecycleProofs!ResourcesCorrect` | for any creators and bounds: removal leaves nothing, and the interface is never enabled without its name |
| `LifecycleProofs!PowerStateCorrect` | with one device power IRP at a time, the power state kept and reported is the device's |
| `InstallerProofs!SessionCorrect`, `InstallerSafe` | for any programs, calls and crashes: one installer, no use of a freed filter context, the worker's result is returned |
| `InstallerProofs!InstallerTypes`, `InstallCorrect`, `InstallRestarts` | for any programs, devices, classes, command lines and lists: types; a run that ends well has done what was asked and has left the devices running, whatever failed or died before it; the driver is in no list twice |
| `InstallerProofs!InstallHarmless` | no step loses or reorders what other software has in a list that fits the buffer |

Assumptions: the sets of requests are finite and the classes disjoint
(`RequestsFinite`, `RequestsDistinct`); the default and the maximum timeout fit
an int in ticks (`WidthAssumption`); sizes are positive and `MaxChunks` chunks
are enough for the longest transfer (`SizesAssumption`); interface numbers start
at 0 without gaps and a configuration's interfaces are interfaces
(`ConfigAssumption`); configuration values are bytes (`HandlesAssumption`); each
context has an endpoint (`EpAssumption`); the bounds of `Lifecycle` are numbers
(`BoundsAssumption`); each device has a class, and `libusb0` is a name
(`InstallerAssumption`); structures are finitely many and `NULL` is none of them,
nor a device (`BusAssumption`); the configurations that devices have are within
the limits of section 2 (`ConfigurationsAssumption`); at the start no list has the driver twice
(`FirstsAssumption`; nothing but an installer puts it there); command lines ask
for classes and devices of the registry (`RequestsAssumption` of `Installer`).
The sets of messages and transfers have the types of a C caller
(`RequestsAssumption` of `Requests`).

Seven theorems have a hypothesis on the behaviour, `[]OneAtATime`: at most one
ioctl, create or close is under way at a time. No lock of the driver provides it,
applications that use a device from one thread do, and it is no more than the
theorems need: without it `claim_race` refutes `ExclusiveClaim`, and section 5
says how the others fail. It constrains when requests begin, not how many
threads and files there are or what is asked. `MemorySafe`, `CacheSafe`,
`HandleAgrees` and `HandleNotStuck` are checked by `dll_handle` with one thread,
which is the same restriction.

The arguments:

* **Remove lock.** `Accounting` alone is not inductive: that the event means
  "nobody inside" needs to know *when* it can be set. `WakeUpInv` adds that a
  wake-up, set or about to be set (`signalling`), implies `remove_pending` and
  that the holders are at most the over-releases; once `remove_pending` is set a
  newcomer can still increment but will be refused, so holders only leave.
  `PendingInv` ties `remove_pending` to the progress of the remove handler.
* **call_usbd_ex.** The invariant lists, for each point of the caller, the values
  of the lock word and the owner of the IRP with the progress of the
  completion; whoever exchanges the word second ends the IRP.
* **Transfers.** `OwnerInv` says that at most one activation is between taking
  `pending_busy` and giving it back. `StageInv` says that only the activation of
  the chunk sent last can still send: those before it have handed the request
  on, those after it have not begun. So the account (`AccountInv`) has full
  chunks behind it, `k * MaxTransferSize` bytes, and there is an activation for
  the next. `SequenceInv` makes whoever is about to send the request announced
  last, which holds because announcing needs the lock; then the last chunk on
  the wire is its own (`WireInv`), which gives the order, and it is the one the
  context describes (`TileInv`), which gives the tiling. `EndInv`: a request
  that ends or gives up has its newest activation out of the way; the second
  end of 5.3 reports the same bytes again.
* **DLL.** The invariant relates a thread's place to its event and its request:
  a wait that is over has seen an event that only the completion sets, and a
  context that is waited for has not been submitted again.
* **Claims.** Files are closed after their requests are over
  (`RequestsOnOpenFiles`), so only open files are bound; a close visits the
  interfaces in order and `ClosedFilesHoldNothing` says that what is bound to
  its file is still ahead. `OnInterfaces` and `PipesOfConfig` keep the types of
  what is indexed.
* **Handles.** The library adds variables and restricts when requests begin; each
  of its actions is an action of `DeviceConfig` conjoined with what the handle
  remembers, so the refinement is step by step, the identity on `vars`. The
  invariant (`HandleInv`) types what a handle remembers, which the decoding of
  control messages needs in order to be a request of the model.
* **One request at a time.** `MemorySafe` and `CacheSafe` speak of the moments
  between requests, so the invariant, `SerialInv`, says of each point of each
  request what it holds: the descriptor it has allocated is its own and is not
  the cached one, an old one that it still has to free is neither, nothing else
  is allocated, and the cache is the device's except where the request is about
  to make it so. An error return finds its part of this undone. For the claims the
  grants are the owners (`bound`) except between the test and the assignment,
  and there the interface is free and stays so because nobody else is inside.
* **What handles remember.** `Remembers` carries `HandleAgrees` through a call: it
  holds for every open handle at every moment, not only between calls, because the
  library writes a handle only in `Answer`, when the request is over. What the
  library tests before it sends (a configuration before a claim, nothing claimed
  before a configuration) is still true when the answer comes.
* **Messages.** By cases over the request, as the switches of `usb_control_msg`
  and `dispatch_ioctl`: a word is made up again of its bytes, a recipient of
  five bits survives, a length within the limit survives the header; the packet
  that arrives is the packet that was asked for.
* **Lifecycle.** `NothingLeft` needs to know in which PnP states the interface is
  enabled, in use and named (`InterfaceInv`). For the power state (`PowerInv`)
  the queue of device IRPs is empty or has one, and what has been reported is
  the kept state, or the lower one that IRP goes to.
* **Installer.** `LockInv` ties the handles of the semaphore and its count to the
  programs that are past it; `StartInv` and `ThreadInv` say for each point of
  the calling thread what its worker and its window can be: a start message is
  the first and is there only before a worker, and a window that is left has no
  worker running. A step of one program changes nothing of another's. The run in
  the console has an invariant for each loop (`RestartInv`, `StartedInv`,
  `InstallInv`, `RemoveInv`): what was asked is done, or is in what the loop has
  left, or the loop is still to come. Two runs cannot disturb each other because
  of the semaphore (`OneInstaller`), except that devices come and go; what a run
  that has ended has achieved (`Done`) is kept until its program begins another
  or its call returns. After a failed request nothing is claimed of the run.
* **Lists of devices.** The invariant, `BusInv`, has each list as a set of
  structures: their pointers stay in the set and answer each other, only the
  first has no predecessor, and a rank grows along the pointers (`Chain`). So
  `LIST_ADD` and `LIST_DEL` are a matter of the neighbours, wherever the entry
  is. Reading a list off its pointers (`Listed`) is a recursion; that it gives
  the set is an induction over the steps (`AlongList`): the ranks grow, so no
  entry comes twice, so the finitely many run out, and the one left out with the
  least rank would have a predecessor that was not left out. For the loop over
  the bus, what is before it is a list too (`Rest`). `CountInv` says that the
  names found and not yet compared, if they were there before, are before the
  loop still, so a structure is freed as gone, or added as new, only when its name
  is; each such step adds one name to the difference between before and after,
  which is what `changes` counts. `ExactInv` says that what has been found, with
  what has been compared, is the devices there are, as long as `steady`.
* **Parser.** That a buffer has a sequence of descriptors at a place (`Holds`) is
  taken apart where sequences are joined: each part begins where those before it
  end (`HoldsParts`, `HoldsJoined`). A run of class descriptors ends at the first
  proper one (`RunIsSkipped`), which gives an endpoint, then the endpoints of a
  setting, the settings of an interface and the interfaces of the configuration,
  each parsed from its beginning to the beginning of the next. Where the code
  compares bytes, what is left is at least the descriptor that follows
  (`BytesAre`); the loop over settings ends at an interface whose alternate is
  0, or at the end of the buffer. Each loop is a recursive function: it is
  shown to exist by giving its values, and to be determined by its equations by
  induction over the index (`RecursionExists`, `UpToBound`). For the memory:
  a setting without endpoints has no array and no endpoint whose descriptors
  could be left, so what is passed over is nothing.
* **Filter lists.** That an insertion or a removal leaves the entries of others in
  their order, and the driver there once or not at all, is an induction over the
  entries of the list (`Kept`), which has no facts to cite; it is done from the
  well-foundedness of the naturals: a first entry at which the claim fails
  contradicts the step to it.

Every invariant and every safety property that the runs check is proved. Only
model-checked is liveness (`RemoveCompletes`, `CallReturns`, `TransferEnds`,
`CallsReturn`, `DeviceFollows`, `CreateReturns`, the fairness of
`ImplementsDrain`), for which the prover has no support.

## 5. Where the code does not do what its texts say

Each of 5.1 to 5.4 is a run that ends in a counterexample.

1. **REMOVE does not always wait** (`remove_waits`). An ioctl that read
   `is_started` before REMOVE cleared it is refused by `remove_lock_acquire`,
   which takes its increment back; `dispatch_ioctl` then releases the lock again
   (`driver/ioctl.c:115`). The count is one too low and REMOVE tears the device
   down with a request inside, against `driver/pnp.c:73`. What holds instead is
   `DrainedUpToRefusals`.
2. **A lone transfer may stop short** (`transfer_truncated`). A chunk that
   completes before the activation that sent it has left `IoCallDriver` finds
   `pending_busy` taken, by its own request, and reports a short success.
3. **A failing later chunk is freed twice** (`transfer_freed`).
   `transfer_complete` looks at the status of `transfer_next`, which
   `transfer()` explains must not be looked at (`driver/transfer.c:168`).
4. **Two files can claim an interface** (`claim_race`), as the test and the
   assignment in `claim_interface.c` are not atomic.

Seen on the way, where no text promises anything else. Driver:

* Two concurrent `set_configuration` requests can leave the cache unlike the
  device, and a concurrent `get_descriptor` can lose the cached value
  (`CacheAgrees` is checked with one thread only); two updates can free the same
  descriptor. After a reset the cache is empty, the interfaces stay valid and
  bound, and the next `get_descriptor` caches a descriptor with value 0.
* Cancelled bus requests report STATUS_TIMEOUT, which is a success status: the
  DLL sees a request without data, and an abort that itself times out counts as
  an abort.
* With `MaxInFlight = 2`, which is Windows before Vista where
  `PoStartNextPowerIrp` is called too early (`driver/power.c:82`, a TODO),
  `ReportedAgrees` fails: a power-up and a power-down overlap and the latter is
  not reported.
* A failing `add_device` leaks the interface name, or the attachment
  (`driver/libusb_driver.c:385`, `:400`).
* `transfer_complete` takes the remainder by the packet size
  (`driver/transfer.c:255`); only reads are checked for a packet size of 0.
  `TransferArrives` says so of reads and asks nothing of writes. The bytes of an isochronous
  transfer beyond its last whole packet are not sent (`driver/transfer.c:357`).

Library:

* An abort misses a split transfer that is between two chunks; `_usb_cancel_io`
  then waits for it without a timeout. `CallsReturn` excepts this (`Missed`).
* After `usb_reset` a handle still remembers its configuration, so
  `usb_set_configuration` of the same value returns 0 and does nothing; a second
  `usb_claim_interface` overwrites the first in the handle; and another handle's
  `usb_set_configuration` is not noticed. `HandleAgrees` keeps these cases apart
  by `drift`, which is the list of all of them.
* `usb_open` reads the configuration's value as a char (`windows.c:127`): a value
  above 127 is taken for an error, and the handle starts without one.
* Control messages out to the device of more than 65536 bytes less the request's
  header are refused.
* `usb_find_devices` drops the structure of a device that gives no configuration
  without freeing it, and the list of a scan that runs out of memory; and a
  device replaced between its scan and its open gets the configurations of its
  successor. `ListsWellFormed` says that nothing else is lost.
* `usb_destroy_configuration` never frees the foreign descriptors of a
  configuration itself; a device that fails in the middle of its configurations
  leaks those before it (`descriptors.c:567`).

Installer:

* The time a stopping service is waited for is reset at every turn of the loop
  (`install.c:1075`): a service that never stops is waited for for ever.
  `CallsReturn` excepts it.
* When the service cannot be created the run returns with the devices stopped
  (`install.c:478`); a device unplugged between stop and start stays disabled;
  a device filter that is new while its class has the filter already does not
  get its device restarted. `LeftRunning` names these cases.
* A list longer than the buffer cannot be read, and an insertion replaces it by
  the driver alone. `OthersKept` is about lists that fit.
* A worker thread that cannot be started is reported as a success, although the
  comment at `install.c:2165` speaks of an error.
* While only the handle of a program that was refused is open, the semaphore
  lives on and refuses further ones.

## 6. Not modelled

* `driver_registry.c`, `driver_debug.c`, `error.c`, `libusb_dyn.c`: reads,
  formatting, forwarding. The ioctls that read the registry or the version
  change no state.
* Of `add_device`: which devices are skipped, the numbering of device objects and
  the speed.
* The surprise removal of a device together with the ioctls on its
  configuration: `pnp.c:122` frees the cached descriptor while ioctls may be
  inside. `Lifecycle` has the removal, `DeviceConfig` the ioctls; the two
  are not composed.
* Malformed descriptors: their error returns leave structures half built
  (`descriptors.c:197`).
* The dialogs of the wizard (`install_filter_win.c`), the reading of .inf files,
  and the texts that `list` prints.
* Lower-filter insertions and the branch of `insert_device_filter` for a filter
  that is found already: no command line leads there.
* `src/libusb/examples/benchmark.c` and the other examples and tests: programs
  that use the library.
* In `BusList`: the release of everything when the DLL is unloaded, and handles
  that applications hold to devices that are gone.
* In `Transfer`: the read of `c->address` after `transfer_next` (a read of freed
  memory whose value indexes an endpoint) and the MDL that is overwritten.

## 7. What would come next

1. **`Configured`** - `DeviceConfig` with the surprise removal and the REMOVE of
   `Lifecycle`; `UsesLive` against removal. It needs an abstraction of
   `Lifecycle` to its resources first, which `ResourcesCorrect` is the
   invariant of.
2. **`Benchmark`** - the transfer queue of `src/libusb/examples/benchmark.c`:
   its ring of submitted transfers against the contexts of `DllTransfer`.
3. **Malformed descriptors** - the error returns of `descriptors.c`, and what
   `usb_destroy_configuration` then frees.
