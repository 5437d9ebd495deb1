--------------------------- MODULE InstallSession ---------------------------
(***************************************************************************)
(* usb_install_npW: the named semaphore that keeps installers apart, the   *)
(* filter context, and the run of usb_install_console, either on the       *)
(* calling thread or on usb_progress_thread while the calling thread       *)
(* serves the messages of the progress window.                             *)
(*                                                                         *)
(* The semaphore is never released.  It goes when its last handle is       *)
(* closed, and the next CreateSemaphore makes a new one.                   *)
(* Its name has no "Global\" prefix: the programs are those of one login   *)
(* session.                                                                *)
(***************************************************************************)
EXTENDS Integers, Sequences, FiniteSets

CONSTANTS Programs,     \* programs that call usb_install_npW
          Windowed      \* those that pass a window

ASSUME WindowedAssumption == Windowed \subseteq Programs

VARIABLES handles,   \* programs with a handle to the semaphore
          count,     \* its count
          pc,        \* the thread that calls usb_install_npW
          context,   \* the programs whose filter context is allocated
          worker,    \* usb_progress_thread
          window,    \* g_install_progress_context and the window's messages
          ret,       \* what the call will return
          outcome    \* what usb_install_console has returned

session == <<handles, count, pc, context, worker, window, ret, outcome>>

NoWindow == [open |-> FALSE, stopped |-> FALSE, messages |-> <<>>, errors |-> FALSE, ret |-> 0]

NotRun == 1   \* no result

Messages == {"start", "stop", "close"}

Windows == [open : BOOLEAN, stopped : BOOLEAN, messages : Seq(Messages), errors : BOOLEAN,
            ret : {0, -1}]

\* The calling thread holds the semaphore.
Holding == {"locked", "allocated", "console", "window", "free", "unlock"}

SessionTypeOK ==
  /\ handles \subseteq Programs /\ count \in {0, 1}
  /\ context \subseteq Programs
  /\ pc \in [Programs -> Holding \union {"idle", "opened", "refused"}]
  /\ worker \in [Programs -> {"none", "running", "ended"}]
  /\ window \in [Programs -> Windows]
  /\ ret \in [Programs -> {0, -1}]
  /\ outcome \in [Programs -> {NotRun, 0, -1}]

SessionInit ==
  /\ handles = {} /\ count = 0
  /\ pc = [p \in Programs |-> "idle"] /\ context = {}
  /\ worker = [p \in Programs |-> "none"]
  /\ window = [p \in Programs |-> NoWindow]
  /\ ret = [p \in Programs |-> 0]
  /\ outcome = [p \in Programs |-> NotRun]

Goto(p, step) == pc' = [pc EXCEPT ![p] = step]

Return(p, r, step) == Goto(p, step) /\ ret' = [ret EXCEPT ![p] = r]

-----------------------------------------------------------------------------
(* The lock.                                                               *)

\* Mutant: a semaphore that everyone makes anew.
CreateAnotherLock(p) ==
  /\ pc[p] = "idle"
  /\ handles' = handles \union {p} /\ count' = 1
  /\ Goto(p, "opened")
  /\ UNCHANGED <<context, worker, window, ret, outcome>>

\* sem_create_lock.  (If it fails the call returns.)
CreateLock(p) ==
  /\ pc[p] = "idle"
  /\ handles' = handles \union {p}
  /\ count' = IF handles = {} THEN 1 ELSE count
  /\ Goto(p, "opened")
  /\ UNCHANGED <<context, worker, window, ret, outcome>>

\* sem_try_lock, with a timeout of 0
TryLock(p) ==
  /\ pc[p] = "opened"
  /\ \/ count = 1 /\ count' = 0 /\ Goto(p, "locked") /\ UNCHANGED ret
     \/ count = 0 /\ Return(p, -1, "refused") /\ UNCHANGED count
  /\ UNCHANGED <<handles, context, worker, window, outcome>>

\* sem_destroy_lock; the call returns.
DestroyLock(p) ==
  /\ pc[p] \in {"refused", "unlock"}
  /\ handles' = handles \ {p} /\ Return(p, 0, "idle")
  /\ count' = IF handles' = {} THEN 0 ELSE count
  /\ outcome' = [outcome EXCEPT ![p] = NotRun]
  /\ UNCHANGED <<context, worker, window>>

-----------------------------------------------------------------------------
(* The call.                                                               *)

\* The context is allocated, if memory is left and the application has not
\* set a log handler of its own.  If it has, the call ends with an
\* uninitialised filter_context: the program may go on or die (see Crash).
AllocateContext(p) ==
  /\ pc[p] = "locked"
  /\ \/ context' = context \union {p} /\ Goto(p, "allocated") /\ UNCHANGED ret
     \/ Return(p, -1, "free") /\ UNCHANGED context
  /\ UNCHANGED <<handles, count, worker, window, outcome>>

\* The arguments are parsed.  They may be wrong or ask for help only, the
\* prompt be answered with Cancel, and the window fail to open.  Creating
\* the window posts UM_PROGRESS_START.
ParseArguments(p) ==
  /\ pc[p] = "allocated"
  /\ \/ Return(p, -1, "free") /\ UNCHANGED window
     \/ p \notin Windowed /\ Goto(p, "console") /\ UNCHANGED <<window, ret>>
     \/ /\ p \in Windowed /\ Goto(p, "window")
        /\ window' = [window EXCEPT ![p] = [NoWindow EXCEPT !.open = TRUE, !.messages = <<"start">>]]
        /\ UNCHANGED ret
  /\ UNCHANGED <<handles, count, context, worker, outcome>>

\* Done: the context is freed.
FreeContext(p) ==
  /\ pc[p] = "free" /\ Goto(p, "unlock")
  /\ context' = context \ {p}
  /\ UNCHANGED <<handles, count, worker, window, ret, outcome>>

\* usb_install_console runs, on the calling thread or on the worker.
InConsole(p) == pc[p] = "console" \/ worker[p] = "running"

\* It returns r; errors says whether it has logged any.  The worker stores
\* the result, posts UM_PROGRESS_STOP and ends.
ConsoleReturns(p, r, errors) ==
  /\ InConsole(p)
  /\ outcome' = [outcome EXCEPT ![p] = r]
  /\ IF worker[p] = "running"
     THEN /\ worker' = [worker EXCEPT ![p] = "ended"]
          /\ window' = [window EXCEPT ![p].ret = r, ![p].errors = errors,
                                      ![p].messages = Append(@, "stop")]
          /\ UNCHANGED <<pc, ret>>
     ELSE Return(p, r, "free") /\ UNCHANGED <<worker, window>>
  /\ UNCHANGED <<handles, count, context>>

-----------------------------------------------------------------------------
(* The progress window: usb_progress_wndproc, on the calling thread.       *)

Takes(p, message) ==
  /\ pc[p] = "window" /\ window[p].open
  /\ window[p].messages # <<>> /\ Head(window[p].messages) = message

\* PostQuitMessage and DestroyWindow.
Destroyed(w) == [w EXCEPT !.open = FALSE, !.messages = <<>>]

Rest(w) == [w EXCEPT !.messages = Tail(@)]

\* UM_PROGRESS_STOP: the first one closes the window, unless there are errors
\* to be read or the user has asked to wait; a further one always does.
Stopped(w, waits) ==
  IF w.stopped \/ ~(w.errors \/ waits) THEN Destroyed([w EXCEPT !.stopped = TRUE])
  ELSE Rest([w EXCEPT !.stopped = TRUE])

\* Mutant: if the worker cannot be started nothing further happens.
HandleStartOnly(p) ==
  /\ Takes(p, "start")
  /\ \/ worker' = [worker EXCEPT ![p] = "running"] /\ window' = [window EXCEPT ![p] = Rest(@)]
     \/ window' = [window EXCEPT ![p] = Rest(@)] /\ UNCHANGED worker
  /\ UNCHANGED <<handles, count, pc, context, ret, outcome>>

\* UM_PROGRESS_START starts the worker.  If that fails the code goes on as
\* for UM_PROGRESS_STOP.
HandleStart(p) ==
  /\ Takes(p, "start")
  /\ \/ worker' = [worker EXCEPT ![p] = "running"] /\ window' = [window EXCEPT ![p] = Rest(@)]
     \/ \E waits \in BOOLEAN : window' = [window EXCEPT ![p] = Stopped(@, waits)] /\ UNCHANGED worker
  /\ UNCHANGED <<handles, count, pc, context, ret, outcome>>

HandleStop(p) ==
  /\ Takes(p, "stop")
  /\ \E waits \in BOOLEAN : window' = [window EXCEPT ![p] = Stopped(@, waits)]
  /\ UNCHANGED <<handles, count, pc, context, worker, ret, outcome>>

\* Mutant: WM_CLOSE closes the window while the worker runs.
CloseAlways(p) ==
  /\ Takes(p, "close")
  /\ window' = [window EXCEPT ![p] = Destroyed(@)]
  /\ UNCHANGED <<handles, count, pc, context, worker, ret, outcome>>

\* WM_CLOSE is ignored until the run has stopped.
HandleClose(p) ==
  /\ Takes(p, "close")
  /\ window' = [window EXCEPT ![p] = IF @.stopped THEN Destroyed(@) ELSE Rest(@)]
  /\ UNCHANGED <<handles, count, pc, context, worker, ret, outcome>>

\* The message loop ends; usb_install_window returns.
LeaveWindow(p) ==
  /\ pc[p] = "window" /\ ~window[p].open
  /\ Return(p, window[p].ret, "free")
  /\ window' = [window EXCEPT ![p] = NoWindow]
  /\ worker' = [worker EXCEPT ![p] = IF @ = "ended" THEN "none" ELSE @]
  /\ UNCHANGED <<handles, count, context, outcome>>

\* The user closes the window, now or while it is busy, or presses the button
\* that is shown when the run has stopped and posts UM_PROGRESS_STOP.
UserCloses(p) ==
  /\ pc[p] = "window" /\ window[p].open
  /\ \E message \in IF window[p].stopped THEN {"close", "stop"} ELSE {"close"} :
       /\ \A i \in DOMAIN window[p].messages : window[p].messages[i] # message
       /\ window' = [window EXCEPT ![p].messages = Append(@, message)]
  /\ UNCHANGED <<handles, count, pc, context, worker, ret, outcome>>

\* The program is killed, or dies: its handles are closed.
Crash(p) ==
  /\ pc[p] # "idle" /\ Goto(p, "idle")
  /\ handles' = handles \ {p} /\ context' = context \ {p}
  /\ worker' = [worker EXCEPT ![p] = "none"]
  /\ window' = [window EXCEPT ![p] = NoWindow]
  /\ ret' = [ret EXCEPT ![p] = 0]
  /\ outcome' = [outcome EXCEPT ![p] = NotRun]
  /\ count' = IF handles' = {} THEN 0 ELSE count

\* The calling thread's steps that take no decision of the user's.
Proceed(p) ==
  \/ TryLock(p) \/ AllocateContext(p) \/ FreeContext(p)
  \/ HandleStart(p) \/ HandleStop(p) \/ HandleClose(p) \/ LeaveWindow(p)

SessionNext ==
  \E p \in Programs :
    \/ CreateLock(p) \/ DestroyLock(p) \/ Proceed(p) \/ ParseArguments(p) \/ UserCloses(p) \/ Crash(p)
    \/ \E r \in {0, -1}, errors \in BOOLEAN : ConsoleReturns(p, r, errors)

SessionSpec == SessionInit /\ [][SessionNext]_session

-----------------------------------------------------------------------------
\* No two programs of a login session install at the same time, for all that the
\* semaphore is never released and lives as long as anyone, refused ones included,
\* has a handle to it.
OneInstaller ==
  \A p, q \in Programs : pc[p] \in Holding /\ pc[q] \in Holding => p = q

\* usb_install_console runs only in a program that holds the lock, and with a
\* filter context that is not freed before the worker has ended, whatever the
\* user does to the window.
ContextIsLive ==
  \A p \in Programs : InConsole(p) => p \in context /\ pc[p] \in {"console", "window"}

\* What the call returns is what usb_install_console has returned; closing
\* the window does not overtake it.  (If the worker could not be started
\* nothing has run, and the call returns 0 all the same.)
ResultIsReported ==
  \A p \in Programs :
    pc[p] \in {"free", "unlock"} /\ outcome[p] # NotRun => ret[p] = outcome[p]

SessionSafe == OneInstaller /\ ContextIsLive /\ ResultIsReported
=============================================================================
