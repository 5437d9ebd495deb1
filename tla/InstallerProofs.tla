-------------------------- MODULE InstallerProofs --------------------------
(***************************************************************************)
(* However many programs install, and however they are killed, the session *)
(* of usb_install_npW is safe.  The inductive invariant says who has a     *)
(* handle to the semaphore and what its count is, and what the state of    *)
(* one program's thread, worker and window says of each other.             *)
(*                                                                         *)
(* The run that the session is there for: one that ends well has done what *)
(* its command line asked and has left the devices running, and no run     *)
(* loses what other software has in a list.  The former has an invariant   *)
(* for each loop of the run, the latter is an induction over the entries   *)
(* of a list.                                                              *)
(***************************************************************************)
EXTENDS Installer, FiniteSetTheorems, SequenceTheorems, WellFoundedInduction, TLAPS

\* The semaphore lives as long as a program has a handle to it, and is taken
\* when a program is past it.
LockInv ==
  /\ handles = {p \in Programs : pc[p] # "idle"}
  /\ \A p \in Programs : pc[p] \in Holding => count = 0
  /\ OneInstaller

\* Where the message that starts the worker is: first, and once.
StartInv(p) ==
  LET w == window[p]
  IN /\ \A i \in DOMAIN w.messages : w.messages[i] = "start" =>
          /\ i = 1 /\ worker[p] = "none" /\ ~w.stopped
          /\ outcome[p] = NotRun
     /\ \A i \in DOMAIN w.messages : w.messages[i] = "stop" => w.stopped \/ worker[p] = "ended"
     /\ w.stopped => worker[p] # "running"

\* The thread, its worker, the window and the result.
ThreadInv(p) ==
  /\ pc[p] \in {"allocated", "console", "window"} => p \in context
  /\ worker[p] # "none" => pc[p] = "window"
  /\ pc[p] # "window" => window[p].messages = <<>>
  /\ worker[p] = "running" => window[p].open /\ outcome[p] = NotRun
  /\ outcome[p] # NotRun => pc[p] \in {"window", "free", "unlock"}
  /\ outcome[p] # NotRun /\ pc[p] = "window" => window[p].ret = outcome[p]
  /\ outcome[p] # NotRun /\ pc[p] \in {"free", "unlock"} => ret[p] = outcome[p]

SessionInv ==
  /\ SessionTypeOK /\ LockInv
  /\ \A p \in Programs : StartInv(p) /\ ThreadInv(p)

-----------------------------------------------------------------------------
\* The invariant has the three parts of the session's safety.
LEMMA SessionInvSafe == SessionInv => SessionSafe
BY DEF SessionInv, LockInv, StartInv, ThreadInv, SessionSafe, OneInstaller, ContextIsLive,
       ResultIsReported, InConsole

\* A window that is not there, or has just been opened, is a window; so is one
\* to which a message is posted and which is given a result.
LEMMA NewWindow ==
  /\ NoWindow \in Windows
  /\ [NoWindow EXCEPT !.open = TRUE, !.messages = <<"start">>] \in Windows
<1>1. <<>> \in Seq(Messages) /\ <<"start">> \in Seq(Messages)
  BY DEF Messages
<1>2. QED
  BY <1>1 DEF Windows, NoWindow

LEMMA PostedWindow ==
  ASSUME NEW w \in Windows, NEW m \in Messages
  PROVE /\ [w EXCEPT !.messages = Append(@, m)] \in Windows
        /\ \A r \in {0, -1}, errors \in BOOLEAN :
             [w EXCEPT !.ret = r, !.errors = errors, !.messages = Append(@, m)] \in Windows
<1>1. Append(w.messages, m) \in Seq(Messages)
  BY DEF Windows
<1>2. QED
  BY <1>1 DEF Windows

\* It holds before the first call.
LEMMA SessionInitInv == SessionInit => SessionInv
<1> SUFFICES ASSUME SessionInit PROVE SessionInv
  OBVIOUS
<1>1. SessionTypeOK
  BY NewWindow DEF SessionInit, SessionTypeOK, NotRun, Holding
<1>2. LockInv
  BY DEF SessionInit, LockInv, OneInstaller, Holding
<1>3. ASSUME NEW p \in Programs PROVE StartInv(p) /\ ThreadInv(p)
  BY DEF SessionInit, StartInv, ThreadInv, NoWindow, NotRun
<1>4. QED
  BY <1>1, <1>2, <1>3 DEF SessionInv

\* What is the same for a program before and after a step.
Same(q) ==
  /\ pc'[q] = pc[q] /\ (q \in context' <=> q \in context) /\ worker'[q] = worker[q]
  /\ window'[q] = window[q] /\ ret'[q] = ret[q] /\ outcome'[q] = outcome[q]

\* Its invariants then stay.
LEMMA SameKeeps ==
  ASSUME NEW q \in Programs, StartInv(q), ThreadInv(q), Same(q)
  PROVE StartInv(q)' /\ ThreadInv(q)'
BY DEF StartInv, ThreadInv, Same

\* A step of p changes nothing of another program.
Step(p) ==
  \/ CreateLock(p) \/ DestroyLock(p) \/ Proceed(p) \/ ParseArguments(p) \/ UserCloses(p)
  \/ Crash(p) \/ \E r \in {0, -1}, errors \in BOOLEAN : ConsoleReturns(p, r, errors)

LEMMA OthersSame ==
  ASSUME NEW p \in Programs, NEW q \in Programs, p # q, SessionTypeOK, Step(p)
  PROVE Same(q)
<1> USE DEF SessionTypeOK, Same, Goto, Return
<1>1. CASE CreateLock(p)
  BY <1>1 DEF CreateLock
<1>2. CASE DestroyLock(p)
  BY <1>2 DEF DestroyLock
<1>3. CASE Proceed(p)
  <2>1. CASE TryLock(p)
    BY <2>1 DEF TryLock
  <2>2. CASE AllocateContext(p)
    BY <2>2 DEF AllocateContext
  <2>3. CASE FreeContext(p)
    BY <2>3 DEF FreeContext
  <2>4. CASE HandleStart(p)
    BY <2>4 DEF HandleStart
  <2>5. CASE HandleStop(p)
    BY <2>5 DEF HandleStop
  <2>6. CASE HandleClose(p)
    BY <2>6 DEF HandleClose
  <2>7. CASE LeaveWindow(p)
    BY <2>7 DEF LeaveWindow
  <2>8. QED
    BY <1>3, <2>1, <2>2, <2>3, <2>4, <2>5, <2>6, <2>7 DEF Proceed
<1>4. CASE ParseArguments(p)
  BY <1>4 DEF ParseArguments
<1>5. CASE UserCloses(p)
  BY <1>5 DEF UserCloses
<1>6. CASE Crash(p)
  BY <1>6 DEF Crash
<1>7. CASE \E r \in {0, -1}, errors \in BOOLEAN : ConsoleReturns(p, r, errors)
  BY <1>7 DEF ConsoleReturns
<1>8. QED
  BY <1>1, <1>2, <1>3, <1>4, <1>5, <1>6, <1>7 DEF Step

-----------------------------------------------------------------------------
(* Types.                                                                  *)

\* A window stays a window when a message is taken off, or when it stops.
LEMMA WindowType ==
  ASSUME NEW w \in Windows, w.messages # <<>>
  PROVE /\ Rest(w) \in Windows /\ Destroyed(w) \in Windows
        /\ \A waits \in BOOLEAN : Stopped(w, waits) \in Windows
<1>1. Tail(w.messages) \in Seq(Messages) /\ <<>> \in Seq(Messages)
  BY DEF Windows
<1>2. Rest(w) \in Windows /\ Destroyed(w) \in Windows
  BY <1>1 DEF Windows, Rest, Destroyed
<1>3. ASSUME NEW waits \in BOOLEAN PROVE Stopped(w, waits) \in Windows
  BY <1>1 DEF Windows, Rest, Destroyed, Stopped
<1>4. QED
  BY <1>2, <1>3

\* Every step keeps the types.
LEMMA StepType ==
  ASSUME NEW p \in Programs, SessionTypeOK, Step(p)
  PROVE SessionTypeOK'
<1> USE DEF SessionTypeOK, Goto, Return, Holding
<1>0. window[p] \in Windows /\ NoWindow \in Windows
  BY NewWindow
<1>1. CASE CreateLock(p)
  BY <1>1 DEF CreateLock
<1>2. CASE DestroyLock(p)
  BY <1>2 DEF DestroyLock, NotRun
<1>3. CASE Proceed(p)
  <2>1. CASE TryLock(p)
    BY <2>1 DEF TryLock
  <2>2. CASE AllocateContext(p)
    BY <2>2 DEF AllocateContext
  <2>3. CASE FreeContext(p)
    BY <2>3 DEF FreeContext
  <2>4. CASE HandleStart(p)
    BY <1>0, <2>4, WindowType DEF HandleStart, Takes
  <2>5. CASE HandleStop(p)
    BY <1>0, <2>5, WindowType DEF HandleStop, Takes
  <2>6. CASE HandleClose(p)
    BY <1>0, <2>6, WindowType DEF HandleClose, Takes
  <2>7. CASE LeaveWindow(p)
    <3>1. window[p].ret \in {0, -1}
      BY <1>0 DEF Windows
    <3>2. QED
      BY <1>0, <2>7, <3>1 DEF LeaveWindow
  <2>8. QED
    BY <1>3, <2>1, <2>2, <2>3, <2>4, <2>5, <2>6, <2>7 DEF Proceed
<1>4. CASE ParseArguments(p)
  BY <1>4, NewWindow DEF ParseArguments
<1>5. CASE UserCloses(p)
  <2>2. PICK message \in Messages :
          window' = [window EXCEPT ![p].messages = Append(@, message)]
    BY <1>5 DEF UserCloses, Messages
  <2>3. window' \in [Programs -> Windows]
    BY <1>0, <2>2, PostedWindow
  <2>4. QED
    BY <1>5, <2>3 DEF UserCloses
<1>6. CASE Crash(p)
  BY <1>0, <1>6 DEF Crash, NotRun
<1>7. CASE \E r \in {0, -1}, errors \in BOOLEAN : ConsoleReturns(p, r, errors)
  <2>1. PICK r \in {0, -1}, errors \in BOOLEAN : ConsoleReturns(p, r, errors)
    BY <1>7
  <2>2. [window[p] EXCEPT !.ret = r, !.errors = errors, !.messages = Append(@, "stop")] \in Windows
    BY <1>0, PostedWindow DEF Messages
  <2>3. window' \in [Programs -> Windows]
    BY <2>1, <2>2 DEF ConsoleReturns
  <2>4. QED
    BY <2>1, <2>3 DEF ConsoleReturns
<1>8. QED
  BY <1>1, <1>2, <1>3, <1>4, <1>5, <1>6, <1>7 DEF Step

-----------------------------------------------------------------------------
(* The lock.                                                               *)

\* A step that leaves the semaphore alone, and neither enters nor leaves the
\* section it guards, keeps the lock's invariant.
LEMMA LockKept ==
  ASSUME NEW p \in Programs, SessionTypeOK, LockInv, UNCHANGED <<handles, count>>,
         NEW step \in Holding, pc[p] \in Holding, pc' = pc \/ pc' = [pc EXCEPT ![p] = step]
  PROVE LockInv'
BY DEF SessionTypeOK, LockInv, OneInstaller, Holding

\* Every step keeps it.
LEMMA StepLock ==
  ASSUME NEW p \in Programs, SessionInv, Step(p)
  PROVE LockInv'
<1> USE DEF Goto, Return
<1>0. SessionTypeOK /\ LockInv /\ ThreadInv(p)
  BY DEF SessionInv
<1>1. CASE CreateLock(p)
  BY <1>0, <1>1 DEF CreateLock, SessionTypeOK, LockInv, OneInstaller, Holding
<1>2. CASE DestroyLock(p)
  BY <1>0, <1>2 DEF DestroyLock, SessionTypeOK, LockInv, OneInstaller, Holding
<1>3. CASE Proceed(p)
  <2>1. CASE TryLock(p)
    BY <1>0, <2>1 DEF TryLock, SessionTypeOK, LockInv, OneInstaller, Holding
  <2>2. CASE AllocateContext(p)
    <3>1. pc[p] \in Holding /\ {"allocated", "free"} \subseteq Holding
      BY <2>2 DEF AllocateContext, Holding
    <3>2. QED
      BY <1>0, <2>2, <3>1, LockKept DEF AllocateContext
  <2>3. CASE FreeContext(p)
    BY <1>0, <2>3, LockKept DEF FreeContext, Holding
  <2>4. CASE HandleStart(p)
    BY <1>0, <2>4, LockKept DEF HandleStart, Takes, Holding
  <2>5. CASE HandleStop(p)
    BY <1>0, <2>5, LockKept DEF HandleStop, Takes, Holding
  <2>6. CASE HandleClose(p)
    BY <1>0, <2>6, LockKept DEF HandleClose, Takes, Holding
  <2>7. CASE LeaveWindow(p)
    BY <1>0, <2>7, LockKept DEF LeaveWindow, Holding
  <2>8. QED
    BY <1>3, <2>1, <2>2, <2>3, <2>4, <2>5, <2>6, <2>7 DEF Proceed
<1>4. CASE ParseArguments(p)
  BY <1>0, <1>4, LockKept DEF ParseArguments, Holding
<1>5. CASE UserCloses(p)
  BY <1>0, <1>5, LockKept DEF UserCloses, Holding
<1>6. CASE Crash(p)
  BY <1>0, <1>6 DEF Crash, SessionTypeOK, LockInv, OneInstaller, Holding
<1>7. CASE \E r \in {0, -1}, errors \in BOOLEAN : ConsoleReturns(p, r, errors)
  <2>1. pc[p] \in Holding
    BY <1>0, <1>7 DEF ConsoleReturns, InConsole, ThreadInv, Holding
  <2>2. QED
    BY <1>0, <1>7, <2>1, LockKept DEF ConsoleReturns, Holding
<1>8. QED
  BY <1>1, <1>2, <1>3, <1>4, <1>5, <1>6, <1>7 DEF Step

-----------------------------------------------------------------------------
(* The window and the worker.                                              *)

\* A window whose first message is taken off.
LEMMA RestMessages ==
  ASSUME NEW w \in Windows, w.messages # <<>>
  PROVE /\ Len(Rest(w).messages) = Len(w.messages) - 1
        /\ \A i \in DOMAIN Rest(w).messages :
             /\ i + 1 \in DOMAIN w.messages /\ i + 1 # 1
             /\ Rest(w).messages[i] = w.messages[i + 1]
        /\ Rest(w).open = w.open /\ Rest(w).stopped = w.stopped /\ Rest(w).ret = w.ret
BY DEF Windows, Rest

\* A window that has stopped is closed, or else only its first message is
\* taken off.
LEMMA StoppedWindow ==
  ASSUME NEW w \in Windows, NEW waits \in BOOLEAN
  PROVE /\ Stopped(w, waits).stopped /\ Stopped(w, waits).ret = w.ret
        /\ \/ Stopped(w, waits).messages = <<>>
           \/ Stopped(w, waits).messages = Rest(w).messages
BY DEF Windows, Stopped, Rest, Destroyed

\* A destroyed window has no message and keeps its result.
LEMMA DestroyedWindow ==
  ASSUME NEW w \in Windows
  PROVE /\ Destroyed(w).messages = <<>> /\ Destroyed(w).ret = w.ret
        /\ Destroyed(w).stopped = w.stopped
BY DEF Windows, Destroyed

\* What the message appended to a window's messages is, and where.
LEMMA AppendedMessages ==
  ASSUME NEW s \in Seq(Messages), NEW m \in Messages
  PROVE \A i \in DOMAIN Append(s, m) :
          (i \in DOMAIN s /\ Append(s, m)[i] = s[i]) \/ Append(s, m)[i] = m
OBVIOUS

\* Every step keeps the invariants of the program that takes it.
LEMMA StepThread ==
  ASSUME NEW p \in Programs, SessionTypeOK, StartInv(p), ThreadInv(p), Step(p)
  PROVE StartInv(p)' /\ ThreadInv(p)'
<1> USE DEF Goto, Return
<1>0. window[p] \in Windows /\ window[p].messages \in Seq(Messages)
  BY DEF SessionTypeOK, Windows
<1>1. CASE CreateLock(p)
  BY <1>1 DEF CreateLock, SessionTypeOK, StartInv, ThreadInv
<1>2. CASE DestroyLock(p)
  BY <1>2 DEF DestroyLock, SessionTypeOK, StartInv, ThreadInv
<1>3. CASE Proceed(p)
  <2>1. CASE TryLock(p)
    BY <2>1 DEF TryLock, SessionTypeOK, StartInv, ThreadInv
  <2>2. CASE AllocateContext(p)
    BY <2>2 DEF AllocateContext, SessionTypeOK, StartInv, ThreadInv
  <2>3. CASE FreeContext(p)
    BY <2>3 DEF FreeContext, SessionTypeOK, StartInv, ThreadInv
  <2>4. CASE HandleStart(p)
    <3>1. window[p].messages[1] = "start" /\ 1 \in DOMAIN window[p].messages
      BY <1>0, <2>4 DEF HandleStart, Takes
    <3>2. worker[p] = "none" /\ ~window[p].stopped /\ outcome[p] = NotRun /\ window[p].open
      BY <2>4, <3>1 DEF StartInv, HandleStart, Takes
    <3>3. \A i \in DOMAIN window[p].messages : window[p].messages[i] # "start" \/ i = 1
      BY DEF StartInv
    <3>4. \A i \in DOMAIN window[p].messages : window[p].messages[i] # "stop"
      BY <3>2 DEF StartInv
    <3>5. CASE worker' = [worker EXCEPT ![p] = "running"] /\ window' = [window EXCEPT ![p] = Rest(@)]
      <4>1. window'[p] = Rest(window[p]) /\ worker'[p] = "running"
        BY <3>5 DEF SessionTypeOK
      <4>2. \A i \in DOMAIN window'[p].messages : window'[p].messages[i] \notin {"start", "stop"}
        BY <1>0, <2>4, <3>3, <3>4, <4>1, RestMessages DEF HandleStart, Takes
      <4>3. StartInv(p)'
        BY <1>0, <2>4, <3>2, <4>1, <4>2, RestMessages DEF HandleStart, Takes, StartInv
      <4>4. ThreadInv(p)'
        BY <1>0, <2>4, <3>2, <4>1, RestMessages DEF HandleStart, Takes, ThreadInv
      <4>5. QED
        BY <4>3, <4>4
    <3>6. ASSUME NEW waits \in BOOLEAN, window' = [window EXCEPT ![p] = Stopped(@, waits)],
                 UNCHANGED worker
          PROVE StartInv(p)' /\ ThreadInv(p)'
      <4>1. window'[p] = Stopped(window[p], waits)
        BY <3>6 DEF SessionTypeOK
      <4>2. \A i \in DOMAIN window'[p].messages : window'[p].messages[i] # "start"
        BY <1>0, <2>4, <3>3, <4>1, RestMessages, StoppedWindow DEF HandleStart, Takes
      <4>3. StartInv(p)'
        BY <1>0, <3>2, <3>6, <4>1, <4>2, StoppedWindow DEF StartInv
      <4>4. ThreadInv(p)'
        BY <2>4, <3>2, <3>6, <4>1 DEF HandleStart, Takes, ThreadInv
      <4>5. QED
        BY <4>3, <4>4
    <3>7. QED
      BY <2>4, <3>5, <3>6 DEF HandleStart
  <2>5. CASE HandleStop(p)
    <3>1. window[p].messages # <<>> /\ window[p].messages[1] = "stop"
            /\ 1 \in DOMAIN window[p].messages
      BY <1>0, <2>5 DEF HandleStop, Takes
    <3>2. worker[p] # "running"
      BY <3>1 DEF StartInv
    <3>3. \A i \in DOMAIN window[p].messages : window[p].messages[i] # "start"
      BY <3>1 DEF StartInv
    <3>4. PICK waits \in BOOLEAN : window' = [window EXCEPT ![p] = Stopped(@, waits)]
      BY <2>5 DEF HandleStop
    <3>5. window'[p] = Stopped(window[p], waits)
      BY <3>4 DEF SessionTypeOK
    <3>6. \A i \in DOMAIN window'[p].messages : window'[p].messages[i] # "start"
      BY <1>0, <3>1, <3>3, <3>5, RestMessages, StoppedWindow
    <3>7. StartInv(p)'
      BY <1>0, <2>5, <3>2, <3>5, <3>6, StoppedWindow DEF HandleStop, StartInv
    <3>8. ThreadInv(p)'
      BY <1>0, <2>5, <3>2, <3>5, StoppedWindow DEF HandleStop, Takes, ThreadInv
    <3>9. QED
      BY <3>7, <3>8
  <2>6. CASE HandleClose(p)
    <3>1. window[p].messages # <<>> /\ window[p].messages[1] = "close"
      BY <1>0, <2>6 DEF HandleClose, Takes
    <3>2. window'[p] = IF window[p].stopped THEN Destroyed(window[p]) ELSE Rest(window[p])
      BY <2>6 DEF HandleClose, SessionTypeOK
    <3>3. \A i \in DOMAIN window'[p].messages :
            /\ window'[p].messages[i] # "start"
            /\ window'[p].messages[i] = "stop" => window[p].stopped \/ worker[p] = "ended"
      BY <1>0, <3>1, <3>2, RestMessages, DestroyedWindow DEF StartInv
    <3>4. StartInv(p)'
      BY <1>0, <2>6, <3>1, <3>2, <3>3, RestMessages, DestroyedWindow DEF HandleClose, StartInv
    <3>5. ThreadInv(p)'
      BY <1>0, <2>6, <3>1, <3>2, RestMessages, DestroyedWindow DEF HandleClose, Takes, StartInv, ThreadInv
    <3>6. QED
      BY <3>4, <3>5
  <2>7. CASE LeaveWindow(p)
    <3>1. window'[p] = NoWindow /\ worker'[p] = "none"
      BY <2>7 DEF LeaveWindow, SessionTypeOK, ThreadInv
    <3>2. StartInv(p)'
      BY <3>1 DEF StartInv, NoWindow
    <3>3. ThreadInv(p)'
      BY <2>7, <3>1 DEF LeaveWindow, SessionTypeOK, ThreadInv, NoWindow
    <3>4. QED
      BY <3>2, <3>3
  <2>8. QED
    BY <1>3, <2>1, <2>2, <2>3, <2>4, <2>5, <2>6, <2>7 DEF Proceed
<1>4. CASE ParseArguments(p)
  <2>1. outcome[p] = NotRun /\ worker[p] = "none" /\ p \in context
    BY <1>4 DEF ParseArguments, ThreadInv, SessionTypeOK
  <2>2. CASE window' = [window EXCEPT ![p] = [NoWindow EXCEPT !.open = TRUE, !.messages = <<"start">>]]
    <3>1. window'[p] = [NoWindow EXCEPT !.open = TRUE, !.messages = <<"start">>]
      BY <2>2 DEF SessionTypeOK
    <3>2. ~window'[p].stopped /\ window'[p].messages = <<"start">>
      BY <3>1 DEF NoWindow
    <3>3. StartInv(p)'
      BY <1>4, <2>1, <3>2 DEF ParseArguments, StartInv
    <3>4. ThreadInv(p)'
      BY <1>4, <2>1 DEF ParseArguments, ThreadInv, SessionTypeOK
    <3>5. QED
      BY <3>3, <3>4
  <2>3. CASE UNCHANGED window
    BY <1>4, <2>1, <2>3 DEF ParseArguments, StartInv, ThreadInv, SessionTypeOK
  <2>4. QED
    BY <1>4, <2>2, <2>3 DEF ParseArguments
<1>5. CASE UserCloses(p)
  <2>1. PICK message \in {"close", "stop"} :
          /\ message = "stop" => window[p].stopped
          /\ window' = [window EXCEPT ![p].messages = Append(@, message)]
    BY <1>5 DEF UserCloses
  <2>2. window'[p] = [window[p] EXCEPT !.messages = Append(@, message)]
    BY <2>1 DEF SessionTypeOK
  <2>3. /\ window'[p].messages = Append(window[p].messages, message)
        /\ window'[p].stopped = window[p].stopped /\ window'[p].open = window[p].open
        /\ window'[p].ret = window[p].ret
    BY <1>0, <2>2 DEF Windows
  <2>4. \A i \in DOMAIN window'[p].messages :
          \/ i \in DOMAIN window[p].messages /\ window'[p].messages[i] = window[p].messages[i]
          \/ window'[p].messages[i] = message
    BY <1>0, <2>3, AppendedMessages DEF Messages
  <2>5. StartInv(p)'
    BY <1>5, <2>1, <2>3, <2>4 DEF UserCloses, StartInv
  <2>6. ThreadInv(p)'
    BY <1>5, <2>3 DEF UserCloses, ThreadInv
  <2>7. QED
    BY <2>5, <2>6
<1>6. CASE Crash(p)
  <2>1. window'[p] = NoWindow /\ worker'[p] = "none" /\ outcome'[p] = NotRun /\ pc'[p] = "idle"
    BY <1>6 DEF Crash, SessionTypeOK
  <2>2. QED
    BY <2>1 DEF StartInv, ThreadInv, NoWindow
<1>7. CASE \E r \in {0, -1}, errors \in BOOLEAN : ConsoleReturns(p, r, errors)
  <2>1. PICK r \in {0, -1}, errors \in BOOLEAN : ConsoleReturns(p, r, errors)
    BY <1>7
  <2>2. CASE worker[p] = "running"
    <3>1. window'[p] = [window[p] EXCEPT !.ret = r, !.errors = errors,
                                         !.messages = Append(@, "stop")]
      BY <2>1, <2>2 DEF ConsoleReturns, SessionTypeOK
    <3>2. /\ window'[p].messages = Append(window[p].messages, "stop")
          /\ window'[p].stopped = window[p].stopped /\ window'[p].open = window[p].open
          /\ window'[p].ret = r
      BY <1>0, <3>1 DEF Windows
    <3>3. \A i \in DOMAIN window'[p].messages :
            \/ i \in DOMAIN window[p].messages /\ window'[p].messages[i] = window[p].messages[i]
            \/ window'[p].messages[i] = "stop"
      BY <1>0, <3>2, AppendedMessages DEF Messages
    <3>4. worker'[p] = "ended" /\ outcome'[p] = r /\ pc'[p] = pc[p] /\ pc[p] = "window"
      BY <2>1, <2>2 DEF ConsoleReturns, SessionTypeOK, ThreadInv
    <3>5. StartInv(p)'
      BY <2>2, <3>2, <3>3, <3>4 DEF StartInv
    <3>6. ThreadInv(p)'
      BY <2>1, <2>2, <3>2, <3>4 DEF ConsoleReturns, ThreadInv
    <3>7. QED
      BY <3>5, <3>6
  <2>3. CASE worker[p] # "running"
    <3>1. pc[p] = "console" /\ worker[p] = "none" /\ outcome[p] = NotRun
      BY <2>1, <2>3 DEF ConsoleReturns, InConsole, ThreadInv
    <3>2. window[p].messages = <<>>
      BY <3>1 DEF ThreadInv
    <3>3. QED
      BY <2>1, <2>3, <3>1, <3>2 DEF ConsoleReturns, StartInv, ThreadInv, SessionTypeOK
  <2>4. QED
    BY <2>2, <2>3
<1>8. QED
  BY <1>1, <1>2, <1>3, <1>4, <1>5, <1>6, <1>7 DEF Step

-----------------------------------------------------------------------------
\* Every step of a program, and of the others, keeps the invariant.
LEMMA StepKeepsInv ==
  ASSUME NEW p \in Programs, SessionInv, Step(p)
  PROVE SessionInv'
<1>1. SessionTypeOK' /\ LockInv'
  BY StepType, StepLock DEF SessionInv
<1>2. ASSUME NEW q \in Programs PROVE StartInv(q)' /\ ThreadInv(q)'
  <2>1. StartInv(q) /\ ThreadInv(q) /\ SessionTypeOK
    BY DEF SessionInv
  <2>2. CASE q = p
    BY <2>1, <2>2, StepThread
  <2>3. CASE q # p
    BY <2>1, <2>3, OthersSame, SameKeeps
  <2>4. QED
    BY <2>2, <2>3
<1>3. QED
  BY <1>1, <1>2 DEF SessionInv

\* The invariant is inductive.
LEMMA SessionStep == SessionInv /\ [SessionNext]_session => SessionInv'
<1> SUFFICES ASSUME SessionInv, [SessionNext]_session PROVE SessionInv'
  OBVIOUS
<1>1. CASE SessionNext
  <2>1. PICK p \in Programs : Step(p)
    BY <1>1 DEF SessionNext, Step
  <2>2. QED
    BY <2>1, StepKeepsInv
<1>2. CASE UNCHANGED session
  BY <1>2 DEF session, SessionInv, SessionTypeOK, LockInv, OneInstaller, StartInv, ThreadInv
<1>3. QED
  BY <1>1, <1>2

\* The session on its own is safe: two programs never install at once, the
\* filter context outlives the worker, and the call returns its result.
THEOREM SessionCorrect == SessionSpec => []SessionSafe
BY SessionStep, SessionInitInv, SessionInvSafe, PTL DEF SessionSpec

-----------------------------------------------------------------------------
(* The installer uses the session by its steps only.                       *)

\* Each step of the installer is one of the session's, or leaves it alone.
LEMMA InstallerStep == [Next]_vars => [SessionNext]_session
<1> SUFFICES ASSUME [Next]_vars PROVE [SessionNext]_session
  OBVIOUS
<1>1. ASSUME NEW p \in Programs, Step(p) PROVE SessionNext
  BY <1>1 DEF Step, SessionNext
<1>2. ASSUME NEW p \in Programs, Caller(p) PROVE SessionNext
  BY <1>1, <1>2 DEF Caller, Step
<1>3. ASSUME NEW p \in Programs, Around(p) PROVE SessionNext
  BY <1>1, <1>3 DEF Around, Step
<1>4. ASSUME NEW p \in Programs, NEW r \in {0, -1}, End(p, r) PROVE SessionNext
  <2>1. (job[p].failed \/ r = -1) \in BOOLEAN
    OBVIOUS
  <2>2. \E errors \in BOOLEAN : ConsoleReturns(p, r, errors)
    BY <1>4, <2>1 DEF End
  <2>3. QED
    BY <1>1, <2>2 DEF Step
<1>5. ASSUME NEW p \in Programs, Console(p) \/ QueryFails(p)
      PROVE \/ \E r \in {0, -1} : End(p, r)
            \/ UNCHANGED session
  <2>1. CASE Begin(p)
    <3>1. End(p, -1) \/ End(p, 0) \/ UNCHANGED session
      BY <2>1, Zenon DEF Begin
    <3>2. QED
      BY <3>1
  <2>2. CASE CreateService(p)
    BY <2>2 DEF CreateService
  <2>3. CASE InfsDone(p) \/ InfFails(p)
    BY <2>3 DEF InfsDone, InfFails
  <2>4. CASE StopDevice(p) \/ DevicesStopped(p) \/ StartDevice(p) \/ DevicesStarted(p)
    BY <2>4, Zenon DEF StopDevice, DevicesStopped, StartDevice, DevicesStarted
  <2>5. CASE InsertDeviceFilter(p) \/ DevicesInserted(p) \/ InsertClassFilter(p) \/ ClassesDone(p)
    BY <2>5, Zenon DEF InsertDeviceFilter, DevicesInserted, InsertClassFilter, ClassesDone
  <2>6. CASE RestartHubs(p) \/ StopOldService(p) \/ Poll(p) \/ DeleteOldService(p) \/ QueryFails(p)
    BY <2>6, Zenon DEF RestartHubs, StopOldService, Poll, DeleteOldService, QueryFails
  <2>7. CASE RemoveDeviceFilter(p) \/ DevicesRemoved(p) \/ RemoveClassFilter(p)
    BY <2>7, Zenon DEF RemoveDeviceFilter, DevicesRemoved, RemoveClassFilter
  <2>8. CASE InstallInf(p) \/ RemoveInf(p)
    BY <2>8, Zenon DEF InstallInf, RemoveInf
  <2>9. QED
    BY <1>5, <2>1, <2>2, <2>3, <2>4, <2>5, <2>6, <2>7, <2>8 DEF Console
<1>6. ASSUME NEW p \in Programs, Console(p) \/ QueryFails(p) PROVE [SessionNext]_session
  BY <1>4, <1>5, <1>6
<1>7. ASSUME NEW d \in Devices, Plug(d) \/ Unplug(d) PROVE UNCHANGED session
  BY <1>7, Zenon DEF Plug, Unplug
<1>8. ServiceStops \/ UNCHANGED vars => UNCHANGED session
  BY DEF ServiceStops, vars
<1>9. QED
  BY <1>2, <1>3, <1>6, <1>7, <1>8 DEF Next

\* So the session is as safe within the installer: whatever the run of
\* usb_install_console does, and wherever the program dies.
THEOREM InstallerSafe == Spec => []SessionSafe
<1>1. Init => SessionInit
  BY DEF Init
<1>2. SessionInv /\ [SessionNext]_session => SessionInv'
  BY SessionStep
<1>3. QED
  BY <1>1, <1>2, InstallerStep, SessionInitInv, SessionInvSafe, PTL DEF Spec

-----------------------------------------------------------------------------
(* Lists of filter drivers.  What Kept computes is shown by induction over *)
(* the entries, from the fact that a set of naturals has a least element.  *)

\* A set of naturals that is not empty has a least element: of the intervals
\* from 1 up to its members one has no other inside it.
LEMMA LeastNatural ==
  ASSUME NEW T, T \subseteq Nat, T # {}
  PROVE \E n \in T : \A m \in T : n <= m
<1> DEFINE Upto == {1 .. n : n \in T}
<1>1. Upto \subseteq FiniteSubsetsOf(Nat) /\ Upto # {}
  <2>1. ASSUME NEW n \in T PROVE 1 .. n \in FiniteSubsetsOf(Nat)
    <3>1. IsFiniteSet(1 .. n) /\ 1 .. n \subseteq Nat
      BY FS_Interval
    <3>2. QED
      BY <3>1 DEF FiniteSubsetsOf
  <2>2. QED
    BY <2>1
<1>2. \E x \in Upto : \A y \in Upto : <<y, x>> \notin StrictSubsetOrdering(Nat)
  BY <1>1, FS_StrictSubsetOrderingWellFounded, WFMin
<1>3. PICK n \in T : \A y \in Upto : <<y, 1 .. n>> \notin StrictSubsetOrdering(Nat)
  BY <1>2
<1>4. ASSUME NEW m \in T, m < n PROVE FALSE
  <2>1. n \in 1 .. n /\ n \notin 1 .. m /\ 1 .. m \subseteq 1 .. n
    BY <1>4
  <2>2. <<1 .. m, 1 .. n>> \in StrictSubsetOrdering(Nat)
    BY <2>1 DEF StrictSubsetOrdering
  <2>3. QED
    BY <1>3, <2>2
<1>5. QED
  BY <1>4

\* Induction up to a bound: a set that has 0, and with n also n + 1.
LEMMA UpToBound ==
  ASSUME NEW N \in Nat, NEW S, 0 \in S, \A n \in 0 .. N : n \in S /\ n < N => n + 1 \in S
  PROVE 0 .. N \subseteq S
<1> DEFINE T == {n \in 0 .. N : n \notin S}
<1>1. ASSUME T # {} PROVE FALSE
  <2> HIDE DEF T
  <2>0. T \subseteq Nat
    BY DEF T
  <2>1. PICK n \in T : \A m \in T : n <= m
    BY <1>1, <2>0, LeastNatural
  <2> USE DEF T
  <2>2. n \in 0 .. N /\ n \notin S
    BY <2>1
  <2>3. PICK m \in 0 .. N : n = m + 1
    BY <2>2
  <2>4. m \in S /\ m < N
    BY <2>1, <2>2, <2>3
  <2>5. QED
    BY <2>2, <2>3, <2>4
<1>2. QED
  BY <1>1

\* What Kept is: there is a function that its definition describes.
LEMMA KeptIs ==
  ASSUME NEW list \in Seq(STRING)
  PROVE Kept(list) = [n \in 0 .. Len(list) |->
          IF n = 0 THEN <<>>
          ELSE IF list[n] = Driver THEN Kept(list)[n - 1]
               ELSE Append(Kept(list)[n - 1], list[n])]
<1> DEFINE IsKept(f, N) ==
      /\ f = [n \in 0 .. N |-> f[n]] /\ f[0] = <<>>
      /\ \A n \in 1 .. N : f[n] = IF list[n] = Driver THEN f[n - 1] ELSE Append(f[n - 1], list[n])
    S == {N \in 0 .. Len(list) : \E f : IsKept(f, N)}
<1>1. 0 \in S
  <2>1. \E f : f = [n \in 0 .. 0 |-> <<>>]
    OBVIOUS
  <2>2. PICK f : f = [n \in 0 .. 0 |-> <<>>]
    BY <2>1
  <2>3. IsKept(f, 0)
    BY <2>2
  <2>4. QED
    BY <2>3
<1>2. ASSUME NEW N \in 0 .. Len(list), N \in S, N < Len(list) PROVE N + 1 \in S
  <2>1. PICK f : IsKept(f, N)
    BY <1>2
  <2>2. \E g : g = [n \in 0 .. N + 1 |->
                     IF n \in 0 .. N THEN f[n]
                     ELSE IF list[N + 1] = Driver THEN f[N] ELSE Append(f[N], list[N + 1])]
    OBVIOUS
  <2>3. PICK g : g = [n \in 0 .. N + 1 |->
                     IF n \in 0 .. N THEN f[n]
                     ELSE IF list[N + 1] = Driver THEN f[N] ELSE Append(f[N], list[N + 1])]
    BY <2>2
  <2>4. /\ g = [n \in 0 .. N + 1 |-> g[n]]
        /\ \A n \in 0 .. N : g[n] = f[n]
        /\ g[N + 1] = IF list[N + 1] = Driver THEN f[N] ELSE Append(f[N], list[N + 1])
    BY <2>3
  <2>5. ASSUME NEW n \in 1 .. N + 1
        PROVE g[n] = IF list[n] = Driver THEN g[n - 1] ELSE Append(g[n - 1], list[n])
    <3>1. CASE n = N + 1
      <4>1. n - 1 = N /\ N \in 0 .. N
        BY <3>1
      <4>2. QED
        BY <2>4, <3>1, <4>1
    <3>2. CASE n # N + 1
      <4>1. n \in 1 .. N /\ n \in 0 .. N /\ n - 1 \in 0 .. N
        BY <3>2
      <4>2. QED
        BY <2>1, <2>4, <4>1
    <3>3. QED
      BY <3>1, <3>2
  <2>6. IsKept(g, N + 1)
    <3>1. g[0] = <<>>
      <4>1. 0 \in 0 .. N /\ f[0] = <<>>
        BY <2>1
      <4>2. g[0] = f[0]
        BY <2>4, <4>1
      <4>3. QED
        BY <4>1, <4>2
    <3>2. QED
      BY <2>4, <2>5, <3>1
  <2>7. N + 1 \in 0 .. Len(list)
    BY <1>2
  <2>8. QED
    BY <2>6, <2>7
<1> HIDE DEF S
<1>3. 0 .. Len(list) \subseteq S
  BY <1>1, <1>2, UpToBound
<1> USE DEF S
<1>4. PICK f : IsKept(f, Len(list))
  BY <1>3
<1>5. f = [n \in 0 .. Len(list) |->
             IF n = 0 THEN <<>>
             ELSE IF list[n] = Driver THEN f[n - 1] ELSE Append(f[n - 1], list[n])]
  <2>1. \A n \in 0 .. Len(list) : n = 0 \/ n \in 1 .. Len(list)
    OBVIOUS
  <2>2. QED
    BY <1>4, <2>1
<1>6. QED
  BY <1>5 DEF Kept

\* Kept, one entry after the other.
LEMMA KeptAt ==
  ASSUME NEW list \in Seq(STRING)
  PROVE /\ Kept(list)[0] = <<>>
        /\ \A n \in 0 .. Len(list) : n + 1 <= Len(list) =>
             Kept(list)[n + 1] = IF list[n + 1] = Driver THEN Kept(list)[n]
                                 ELSE Append(Kept(list)[n], list[n + 1])
<1> DEFINE kept == Kept(list)
<1>1. kept = [n \in 0 .. Len(list) |->
                IF n = 0 THEN <<>>
                ELSE IF list[n] = Driver THEN kept[n - 1] ELSE Append(kept[n - 1], list[n])]
  BY KeptIs
<1> HIDE DEF kept
<1>2. kept[0] = <<>>
  <2>1. 0 \in 0 .. Len(list)
    OBVIOUS
  <2>2. QED
    BY <1>1, <2>1
<1>3. ASSUME NEW n \in 0 .. Len(list), n + 1 <= Len(list)
      PROVE kept[n + 1] = IF list[n + 1] = Driver THEN kept[n] ELSE Append(kept[n], list[n + 1])
  <2>1. n + 1 \in 0 .. Len(list) /\ n + 1 # 0 /\ (n + 1) - 1 = n
    BY <1>3
  <2>2. QED
    BY <1>1, <2>1
<1>4. QED
  BY <1>2, <1>3 DEF kept

\* What is left of the entries is a list without the driver, and no longer.
LEMMA KeptEntries ==
  ASSUME NEW list \in Seq(STRING), NEW n \in 0 .. Len(list)
  PROVE /\ Kept(list)[n] \in Seq(STRING) /\ Len(Kept(list)[n]) <= n
        /\ ~HasDriver(Kept(list)[n])
<1> DEFINE Good(k) == /\ Kept(list)[k] \in Seq(STRING) /\ Len(Kept(list)[k]) <= k
                      /\ \A i \in DOMAIN Kept(list)[k] : Kept(list)[k][i] # Driver
    S == {k \in 0 .. Len(list) : Good(k)}
<1>1. 0 \in S
  <2>1. 0 \in 0 .. Len(list) /\ Kept(list)[0] = <<>>
    BY KeptAt
  <2>2. <<>> \in Seq(STRING) /\ Len(<<>>) <= 0 /\ \A i \in DOMAIN <<>> : <<>>[i] # Driver
    OBVIOUS
  <2>3. QED
    BY <2>1, <2>2
<1>2. ASSUME NEW k \in 0 .. Len(list), k \in S, k < Len(list) PROVE k + 1 \in S
  <2>1. k + 1 \in 0 .. Len(list) /\ k + 1 <= Len(list) /\ list[k + 1] \in STRING
    BY <1>2
  <2>2. Kept(list)[k + 1] = IF list[k + 1] = Driver THEN Kept(list)[k]
                            ELSE Append(Kept(list)[k], list[k + 1])
    BY <2>1, KeptAt
  <2>3. Good(k)
    BY <1>2
  <2>4. CASE list[k + 1] = Driver
    BY <2>1, <2>2, <2>3, <2>4
  <2>5. CASE list[k + 1] # Driver
    <3>1. PICK s \in Seq(STRING) : s = Kept(list)[k]
      BY <2>3
    <3>2. PICK x \in STRING : x = list[k + 1]
      BY <2>1
    <3>3. \A i \in DOMAIN Append(s, x) : Append(s, x)[i] # Driver
      BY <2>3, <2>5, <3>1, <3>2
    <3>4. Append(s, x) \in Seq(STRING) /\ Len(Append(s, x)) = Len(s) + 1
      BY AppendProperties
    <3>5. Kept(list)[k + 1] = Append(s, x) /\ Len(s) <= k
      BY <2>2, <2>3, <2>5, <3>1, <3>2
    <3>6. Len(s) \in Nat /\ Len(Append(s, x)) <= k + 1
      BY <3>4, <3>5
    <3>7. Good(k + 1)
      BY <3>3, <3>4, <3>5, <3>6
    <3>8. QED
      BY <2>1, <3>7
  <2>6. QED
    BY <2>4, <2>5
<1> HIDE DEF S
<1>3. 0 .. Len(list) \subseteq S
  BY <1>1, <1>2, UpToBound
<1>4. QED
  BY <1>3 DEF S, HasDriver

\* Of a list without the driver everything is left.
LEMMA KeptWhole ==
  ASSUME NEW list \in Seq(STRING), ~HasDriver(list)
  PROVE Kept(list)[Len(list)] = list
<1> DEFINE S == {k \in 0 .. Len(list) : Kept(list)[k] = SubSeq(list, 1, k)}
<1>1. 0 \in S
  <2>1. SubSeq(list, 1, 0) = <<>> /\ 0 \in 0 .. Len(list)
    BY SubSeqEmpty
  <2>2. Kept(list)[0] = <<>>
    BY KeptAt
  <2>3. QED
    BY <2>1, <2>2
<1>2. ASSUME NEW k \in 0 .. Len(list), k \in S, k < Len(list) PROVE k + 1 \in S
  <2>1. k + 1 \in 0 .. Len(list) /\ k + 1 <= Len(list) /\ k + 1 \in DOMAIN list
    BY <1>2
  <2>2. Kept(list)[k + 1] = Append(SubSeq(list, 1, k), list[k + 1])
    BY <1>2, <2>1, KeptAt DEF HasDriver
  <2>3. SubSeq(list, 1, k + 1) = Append(SubSeq(list, 1, k), list[k + 1])
    BY <2>1
  <2>4. QED
    BY <2>1, <2>2, <2>3
<1> HIDE DEF S
<1>3. 0 .. Len(list) \subseteq S
  BY <1>1, <1>2, UpToBound
<1>4. Kept(list)[Len(list)] = SubSeq(list, 1, Len(list))
  <2>1. Len(list) \in S
    BY <1>3
  <2>2. QED
    BY <2>1 DEF S
<1>5. SubSeq(list, 1, Len(list)) = list
  OBVIOUS
<1>6. QED
  BY <1>4, <1>5

\* An entry at the end does not matter for what is before it.
LEMMA KeptPrefix ==
  ASSUME NEW list \in Seq(STRING), NEW x \in STRING
  PROVE Kept(Append(list, x))[Len(list)] = Kept(list)[Len(list)]
<1> DEFINE more == Append(list, x)
    S == {k \in 0 .. Len(list) : Kept(more)[k] = Kept(list)[k]}
<1>0. /\ more \in Seq(STRING) /\ Len(more) = Len(list) + 1
      /\ \A k \in 1 .. Len(list) : more[k] = list[k]
  <2>1. more \in Seq(STRING) /\ Len(more) = Len(list) + 1
    BY AppendProperties
  <2>2. ASSUME NEW k \in 1 .. Len(list) PROVE more[k] = list[k]
    OBVIOUS
  <2>3. QED
    BY <2>1, <2>2
<1> HIDE DEF more
<1>1. 0 \in S
  BY <1>0, KeptAt
<1>2. ASSUME NEW k \in 0 .. Len(list), k \in S, k < Len(list) PROVE k + 1 \in S
  <2>1. /\ k + 1 \in 0 .. Len(list) /\ k + 1 <= Len(list) /\ k + 1 <= Len(more)
        /\ more[k + 1] = list[k + 1] /\ k \in 0 .. Len(more)
    BY <1>0, <1>2
  <2>2. Kept(list)[k + 1] = IF list[k + 1] = Driver THEN Kept(list)[k]
                            ELSE Append(Kept(list)[k], list[k + 1])
    BY <2>1, KeptAt
  <2>3. Kept(more)[k + 1] = IF more[k + 1] = Driver THEN Kept(more)[k]
                            ELSE Append(Kept(more)[k], more[k + 1])
    BY <1>0, <2>1, KeptAt
  <2>4. QED
    BY <1>2, <2>1, <2>2, <2>3
<1> HIDE DEF S
<1>3. 0 .. Len(list) \subseteq S
  BY <1>1, <1>2, UpToBound
<1>4. Len(list) \in S
  BY <1>3
<1>5. QED
  BY <1>4 DEF S, more

\* Taking the driver out leaves the others, in their order.
LEMMA RemovedDriver ==
  ASSUME NEW list \in Lists
  PROVE /\ RemoveDriver(list) \in Lists /\ ~HasDriver(RemoveDriver(list))
        /\ Others(RemoveDriver(list)) = Others(list)
<1>1. list \in Seq(STRING) /\ Len(list) \in 0 .. Len(list) /\ Len(list) <= Fits + 1
  BY DEF Lists
<1> DEFINE rest == RemoveDriver(list)
<1>2. rest \in Seq(STRING) /\ Len(rest) <= Len(list) /\ ~HasDriver(rest)
  BY <1>1, KeptEntries DEF RemoveDriver
<1> HIDE DEF rest
<1>3. Once(rest)
  <2> DEFINE places == {i \in DOMAIN rest : rest[i] = Driver}
  <2>1. places = {}
    BY <1>2 DEF HasDriver
  <2> HIDE DEF places
  <2>2. Cardinality(places) = 0
    BY <2>1, FS_EmptySet
  <2>3. QED
    BY <2>2 DEF Once, places
<1>4. Others(rest) = rest
  BY <1>2, KeptWhole DEF Others
<1>5. Len(rest) <= Fits + 1
  BY <1>1, <1>2, InstallerAssumption
<1>6. QED
  BY <1>2, <1>3, <1>4, <1>5 DEF Lists, Others, RemoveDriver, rest

\* So does an insertion in a list that has room for it.
LEMMA AppendedDriver ==
  ASSUME NEW list \in Seq(STRING), ~HasDriver(list), Len(list) <= Fits
  PROVE /\ InsertDriver(list) \in Lists /\ HasDriver(InsertDriver(list))
        /\ Others(InsertDriver(list)) = Others(list)
<1>1. PICK x \in STRING : x = Driver
  BY InstallerAssumption
<1> DEFINE more == Append(list, x)
<1>2. /\ more \in Seq(STRING) /\ Len(more) = Len(list) + 1 /\ more[Len(list) + 1] = x
      /\ \A i \in 1 .. Len(list) : more[i] = list[i]
  BY AppendProperties
<1>3. Kept(more)[Len(list)] = Kept(list)[Len(list)]
  BY KeptPrefix
<1>4. InsertDriver(list) = more
  BY <1>1 DEF InsertDriver
<1> HIDE DEF more
<1>5. Len(list) \in Nat /\ DOMAIN list = 1 .. Len(list) /\ DOMAIN more = 1 .. Len(more)
  BY <1>2
<1>6. Len(list) + 1 \in DOMAIN more
  BY <1>2, <1>5
<1>7. HasDriver(more)
  BY <1>1, <1>2, <1>6 DEF HasDriver
<1>8. Once(more)
  <2> DEFINE places == {i \in DOMAIN more : more[i] = Driver}
  <2>1. ASSUME NEW i \in 1 .. Len(list) PROVE more[i] # Driver
    BY <1>2, <1>5 DEF HasDriver
  <2>2. \A i \in DOMAIN more : i \in 1 .. Len(list) \/ i = Len(list) + 1
    BY <1>2, <1>5
  <2>3. places = {Len(list) + 1}
    BY <1>1, <1>2, <1>6, <2>1, <2>2
  <2> HIDE DEF places
  <2>4. Cardinality(places) = 1
    BY <2>3, FS_Singleton
  <2>5. QED
    BY <2>4 DEF Once, places
<1>9. Kept(more)[Len(more)] = Kept(list)[Len(list)]
  <2>1. Len(list) \in 0 .. Len(more) /\ Len(list) + 1 <= Len(more)
    BY <1>2, <1>5
  <2>2. Kept(more)[Len(list) + 1] = Kept(more)[Len(list)]
    BY <1>1, <1>2, <2>1, KeptAt
  <2>3. QED
    BY <1>2, <1>3, <2>2
<1>10. Len(more) <= Fits + 1
  BY <1>2, <1>5, InstallerAssumption
<1>11. QED
  BY <1>2, <1>4, <1>7, <1>8, <1>9, <1>10 DEF Lists, Others

\* The empty list is one, and has nothing in it.
LEMMA EmptyList == <<>> \in Lists /\ ~Listed(<<>>)
<1> DEFINE places == {i \in DOMAIN <<>> : <<>>[i] = Driver}
<1>1. <<>> \in Seq(STRING) /\ Len(<<>>) = 0 /\ Fits \in Nat /\ places = {} /\ ~HasDriver(<<>>)
  BY InstallerAssumption DEF HasDriver
<1> HIDE DEF places
<1>2. Cardinality(places) = 0
  BY <1>1, FS_EmptySet
<1>3. Once(<<>>)
  BY <1>2 DEF Once, places
<1>4. QED
  BY <1>1, <1>3 DEF Lists, Listed

\* What an insertion made in the buffer, which does not have the driver, has
\* done to the list.
Insertion(list, buffer, new) ==
  /\ new \in Lists
  /\ ~Amiss(list, buffer) => HasDriver(new)
  /\ ~Blind(list, buffer) => Others(new) = Others(list)

LEMMA InsertedDriver ==
  ASSUME NEW list \in Lists, NEW buffer \in Reads(list), ~HasDriver(buffer), NEW new \in Inserted(buffer)
  PROVE Insertion(list, buffer, new)
<1>1. list \in Seq(STRING) /\ <<>> \in Seq(STRING) /\ Len(<<>>) = 0 /\ Fits \in Nat
  <2>1. list \in Seq(STRING)
    BY DEF Lists
  <2>2. QED
    BY <2>1, InstallerAssumption, EmptySeq
<1>2. buffer \in Seq(STRING) /\ Len(buffer) <= Fits
  <2>1. (buffer = list /\ Len(list) <= Fits) \/ buffer = <<>>
    BY DEF Reads
  <2>2. CASE buffer = <<>>
    BY <1>1, <2>2
  <2>3. CASE buffer = list /\ Len(list) <= Fits
    BY <1>1, <2>3
  <2>4. QED
    BY <2>1, <2>2, <2>3
<1>3. CASE new = InsertDriver(buffer)
  <2>1. new \in Lists /\ HasDriver(new) /\ Others(new) = Others(buffer)
    BY <1>2, <1>3, AppendedDriver
  <2>2. QED
    BY <2>1 DEF Insertion, Blind
<1>4. CASE new # InsertDriver(buffer)
  <2>1. new = <<>> /\ Full(buffer)
    BY <1>4 DEF Inserted
  <2>2. QED
    BY <2>1, EmptyList DEF Insertion, Amiss, Blind
<1>5. QED
  BY <1>3, <1>4

-----------------------------------------------------------------------------
(* Types of the registry, the devices and the runs.                        *)

Requests == {NoRequest} \union UNION {{Parsed(line) : line \in CommandLines[p]} : p \in Programs}

Fields == {"request", "step", "todo", "classes", "restart", "infs", "forInf", "failed", "dirty",
           "touched", "stopped", "away", "blind"}

\* The state of a run.  What a loop has left is devices, classes of the run,
\* or lists of devices.
JobOK(j) ==
  /\ DOMAIN j = Fields
  /\ j.request \in Requests /\ j.step \in Steps
  /\ j.classes \subseteq Classes /\ j.infs \in Seq(SUBSET Devices)
  /\ j.restart \in BOOLEAN /\ j.failed \in BOOLEAN
  /\ j.dirty \subseteq Devices
  /\ j.step \in {"stop", "start", "insert_device"} => j.todo \subseteq Devices
  /\ j.step \in {"insert_class", "remove_class"} => j.todo \subseteq j.classes
  /\ j.step = "remove_device" => j.todo \subseteq Devices \X Places

JobsOK == DOMAIN job = Programs /\ \A p \in Programs : JobOK(job[p])

RegistryInv ==
  /\ uppers \in [Classes -> Lists] /\ filters \in [Devices -> [Places -> Lists]]
  /\ DOMAIN service = Devices
  /\ present \subseteq Devices /\ disabled \subseteq Devices /\ reinstall \subseteq Devices
  /\ stale \subseteq present /\ oldService \in OldServices

\* What a command line asks for is in the registry.
LEMMA RequestsOK ==
  ASSUME NEW request \in Requests
  PROVE request.classes \subseteq Classes /\ request.infs \in Seq(SUBSET Devices)
<1>1. CASE request = NoRequest
  <2>1. <<>> \in Seq(SUBSET Devices)
    BY EmptySeq
  <2>2. QED
    BY <1>1, <2>1 DEF NoRequest
<1>2. CASE request # NoRequest
  <2>1. PICK p \in Programs : request \in {Parsed(line) : line \in CommandLines[p]}
    BY <1>2 DEF Requests
  <2>2. PICK line \in CommandLines[p] : request = Parsed(line)
    BY <2>1
  <2>3. QED
    BY <2>2, RequestsAssumption
<1>3. QED
  BY <1>1, <1>2

\* The state of no run, and of one that is about to begin.
LEMMA NewJob ==
  JobOK(NoJob) /\ \A request \in Requests : JobOK(Job(request))
<1>1. NoRequest \in Requests /\ <<>> \in Seq(SUBSET Devices)
  BY EmptySeq DEF Requests
<1>2. ASSUME NEW request \in Requests PROVE JobOK(Job(request))
  <2>1. request.infs \in Seq(SUBSET Devices)
    BY RequestsOK
  <2>2. QED
    BY <2>1 DEF Job, NoJob, JobOK, Fields, Steps
<1>3. QED
  BY <1>1, <1>2 DEF NoJob, JobOK, Fields, Steps

\* The classes of a run are the registry's.
LEMMA ContextClassesOK ==
  ASSUME NEW request \in Requests, NEW D \in SUBSET Filterable
  PROVE ContextClasses(request, D) \in SUBSET Classes
<1>1. DeviceClasses(D) \subseteq Classes
  <2>1. D \subseteq Devices
    BY DEF Filterable
  <2>2. \A d \in Devices : ClassOf[d] \in Classes
    BY InstallerAssumption
  <2>3. QED
    BY <2>1, <2>2 DEF DeviceClasses
<1>2. request.classes \subseteq Classes
  BY RequestsOK
<1>3. GivenClasses(request) \subseteq Classes
  BY <1>2 DEF GivenClasses
<1>4. QED
  BY <1>1, <1>3, InstallerAssumption DEF ContextClasses, AllClasses

\* All is in order at the start.
LEMMA InitTypes == Init => RegistryInv /\ JobsOK
<1> SUFFICES ASSUME Init PROVE RegistryInv /\ JobsOK
  OBVIOUS
<1>1. JobsOK
  BY NewJob DEF Init, JobsOK
<1>2. RegistryInv
  BY FirstsAssumption DEF Init, RegistryInv
<1>3. QED
  BY <1>1, <1>2

-----------------------------------------------------------------------------
(* What a run has done so far.                                             *)

\* The devices it has changed have been restarted, or will not be.
Settled(j) == j.dirty = {} \/ (j.classes # {} /\ j.touched = {})

\* The run has not yet looked at all devices asked for.
FirstPass(j) ==
  \/ j.step \in {"begin", "create", "insert_device", "stop_old", "poll", "delete_old", "remove_device"}
  \/ j.step \in {"stop", "start"} /\ ~j.forInf

\* Class filters come after the first pass, and then the hubs are restarted.
RestartInv(j) ==
  /\ j.step = "begin" => j.dirty = {}
  /\ FirstPass(j) => j.touched = {}
  /\ Settled(j) \/ (j.step \in {"insert_class", "remove_class", "hubs"} /\ j.restart)

\* The devices it has stopped and not started again are those that the next
\* loop starts.
StartedInv(j) ==
  LET left == (j.stopped \cap disabled) \ j.away
  IN /\ j.step = "begin" => j.stopped = {}
     /\ j.step = "stop" => \A d \in j.todo : service[d] = Driver
     /\ j.step \in {"stop", "create"} => left \subseteq LibusbDevices
     /\ j.step = "start" => left \subseteq j.todo
     /\ j.step \notin {"stop", "create", "start"} => left = {}

\* What is asked for is done, or the loop that does it has it left.
InstallInv(j) ==
  /\ j.step \in {"begin", "stop", "create", "start", "insert_device", "insert_class", "hubs", "infs"}
  /\ j.step \in {"begin", "create"} => ~j.forInf
  /\ \A d \in Asked(j.request) :
       HasFilter(d) \/ (FirstPass(j) /\ (j.step = "insert_device" => d \in j.todo))
  /\ \A c \in j.classes :
       HasDriver(uppers[c]) \/ FirstPass(j) \/ (j.step = "insert_class" /\ c \in j.todo)

AskedDevices(request) == IF request.allDevices THEN Devices ELSE Asked(request)

RemoveInv(j) ==
  /\ j.step \in {"begin", "stop_old", "poll", "delete_old", "remove_device", "remove_class", "hubs",
                 "infs"}
  /\ \A d \in AskedDevices(j.request), w \in Places :
       ~Listed(filters[d][w]) \/ (FirstPass(j) /\ (j.step = "remove_device" => <<d, w>> \in j.todo))
  /\ \A c \in j.classes :
       ~Listed(uppers[c]) \/ FirstPass(j) \/ (j.step = "remove_class" /\ c \in j.todo)

\* All this if nothing has failed.
Progress(p) ==
  ~job[p].failed =>
    /\ RestartInv(job[p]) /\ StartedInv(job[p])
    /\ job[p].request.mode = "install" => InstallInv(job[p])
    /\ job[p].request.mode = "remove" => RemoveInv(job[p])
    /\ job[p].step = "begin" \/ job[p].request.mode \in {"install", "remove"}

\* What it has done when it has ended well.
Done(p) ==
  LET j == job[p]
  IN Clean(p) =>
       /\ j.request.mode = "install" =>
            /\ \A c \in j.classes : HasDriver(uppers[c])
            /\ \A d \in Asked(j.request) : HasFilter(d)
       /\ j.request.mode = "remove" =>
            /\ \A c \in j.classes : ~Listed(uppers[c])
            /\ \A d \in AskedDevices(j.request), w \in Places : ~Listed(filters[d][w])
       /\ Settled(j) /\ j.stopped \cap disabled \subseteq j.away

RunInv(p) ==
  /\ outcome[p] = NotRun => Progress(p)
  /\ outcome[p] = NotRun /\ ~InConsole(p) => job[p].step = "begin"
  /\ Done(p)

InstallerInv == SessionInv /\ RegistryInv /\ JobsOK /\ \A p \in Programs : RunInv(p)

-----------------------------------------------------------------------------
(* Each step of a run keeps the types and what is said of the run.         *)

\* Of the runs only that of p changes, and of that only the fields given.
Only(p, fields) ==
  /\ DOMAIN job' = Programs /\ \A q \in Programs \ {p} : job'[q] = job[q]
  /\ DOMAIN job'[p] = Fields
  /\ \A f \in Fields \ fields : job'[p][f] = job[p][f]

\* The types of the others' runs are then as they were.
LEMMA JobsKept ==
  ASSUME NEW p \in Programs, NEW fields, JobsOK, Only(p, fields), JobOK(job'[p])
  PROVE JobsOK' /\ Only(p, Fields)
BY DEF JobsOK, Only

\* A loop over devices starts.
LEMMA Enumerated ==
  ASSUME NEW p \in Programs, JobsOK, NEW step, NEW items, Enumerate(p, step, items, job)
  PROVE /\ Only(p, {"step", "todo", "failed"})
        /\ job'[p].step = step /\ job'[p].failed \in BOOLEAN
        /\ job'[p].todo \in {items, {}} /\ (job[p].failed => job'[p].failed)
        /\ ~job'[p].failed => job'[p].todo = items
<1>1. PICK found \in {items, {}} :
        job' = [job EXCEPT ![p].step = step, ![p].todo = found, ![p].failed = @ \/ found # items]
  BY DEF Enumerate
<1>2. DOMAIN job = Programs /\ DOMAIN job[p] = Fields
  BY DEF JobsOK, JobOK
<1>3. Only(p, {"step", "todo", "failed"}) /\ job'[p].step = step /\ job'[p].todo = found
  BY <1>1, <1>2 DEF Only, Fields
<1>4. job'[p].failed = (job[p].failed \/ found # items)
  BY <1>1, <1>2 DEF Fields
<1>5. QED
  BY <1>1, <1>3, <1>4

\* usb_registry_stop_libusb_devices
LEMMA StopDeviceKeeps ==
  ASSUME NEW p \in Programs, RegistryInv, JobsOK, Progress(p), StopDevice(p)
  PROVE RegistryInv' /\ JobsOK' /\ Progress(p)' /\ Only(p, Fields)
<1>0. JobOK(job[p]) /\ job[p].step = "stop"
  BY DEF JobsOK, StopDevice, At
<1>1. PICK d \in job[p].todo :
        \/ /\ d \in present
           /\ disabled' = disabled \union {d} /\ stale' = stale \ {d}
           /\ job' = [[job EXCEPT ![p].todo = @ \ {d}] EXCEPT
                        ![p].stopped = @ \union ({d} \ disabled), ![p].dirty = @ \ {d}]
        \/ /\ job' = [[job EXCEPT ![p].todo = @ \ {d}] EXCEPT ![p].failed = TRUE]
           /\ UNCHANGED <<disabled, stale>>
  BY DEF StopDevice
<1>2. UNCHANGED <<uppers, filters, service, reinstall, present, oldService>>
  BY DEF StopDevice, registry
<1>3. RegistryInv'
  BY <1>1, <1>2 DEF RegistryInv
<1>4. CASE /\ d \in present
           /\ disabled' = disabled \union {d} /\ stale' = stale \ {d}
           /\ job' = [[job EXCEPT ![p].todo = @ \ {d}] EXCEPT
                        ![p].stopped = @ \union ({d} \ disabled), ![p].dirty = @ \ {d}]
  <2>1. /\ Only(p, {"todo", "stopped", "dirty"}) /\ job'[p].todo = job[p].todo \ {d}
        /\ job'[p].stopped = job[p].stopped \union ({d} \ disabled)
        /\ job'[p].dirty = job[p].dirty \ {d}
    BY <1>0, <1>4 DEF JobsOK, JobOK, Only, Fields
  <2>2. JobOK(job'[p])
    BY <1>0, <2>1 DEF JobOK, Only, Fields
  <2>3. Progress(p)'
    <3>1. CASE job[p].failed
      BY <2>1, <3>1 DEF Only, Fields, Progress
    <3>2. CASE ~job[p].failed
      <4>1. RestartInv(job[p])'
        BY <1>0, <2>1, <3>2 DEF Only, Fields, Progress, RestartInv, Settled, FirstPass
      <4>2. StartedInv(job[p])'
        BY <1>0, <1>2, <1>4, <2>1, <3>2 DEF Only, Fields, Progress, StartedInv, LibusbDevices
      <4>3. QED
        BY <1>0, <1>2, <2>1, <3>2, <4>1, <4>2 DEF Only, Fields, Progress, InstallInv, RemoveInv, HasFilter,
           FirstPass
    <3>3. QED
      BY <3>1, <3>2
  <2>4. QED
    BY <1>3, <2>1, <2>2, <2>3, JobsKept
<1>5. CASE job' = [[job EXCEPT ![p].todo = @ \ {d}] EXCEPT ![p].failed = TRUE]
  <2>1. Only(p, {"todo", "failed"}) /\ job'[p].todo = job[p].todo \ {d} /\ job'[p].failed = TRUE
    BY <1>0, <1>5 DEF JobsOK, JobOK, Only, Fields
  <2>2. JobOK(job'[p])
    BY <1>0, <2>1 DEF JobOK, Only, Fields
  <2>3. QED
    BY <1>3, <2>1, <2>2, JobsKept DEF Progress
<1>6. QED
  BY <1>1, <1>4, <1>5

\* A step that starts a loop over the libusb devices that are present.
LEMMA StartLoopKeeps ==
  ASSUME NEW p \in Programs, RegistryInv, JobsOK, Progress(p),
         Enumerate(p, "start", LibusbDevices, job),
         UNCHANGED <<registry, devices, oldService>>,
         job[p].step \in {"stop", "create"}
  PROVE RegistryInv' /\ JobsOK' /\ Progress(p)' /\ Only(p, Fields)
<1>0. JobOK(job[p]) /\ RegistryInv'
  BY DEF JobsOK, RegistryInv, registry, devices
<1>1. /\ Only(p, {"step", "todo", "failed"})
      /\ job'[p].step = "start" /\ job'[p].failed \in BOOLEAN
      /\ job'[p].todo \in {LibusbDevices, {}} /\ (job[p].failed => job'[p].failed)
      /\ ~job'[p].failed => job'[p].todo = LibusbDevices
  BY Enumerated
<1>2. JobOK(job'[p])
  BY <1>0, <1>1 DEF JobOK, Only, Fields, Steps, LibusbDevices, RegistryInv
<1>3. Progress(p)'
  BY <1>0, <1>1 DEF Only, Fields, Progress, RestartInv, Settled, FirstPass, StartedInv, InstallInv,
     RemoveInv, HasFilter, registry, devices
<1>4. QED
  BY <1>0, <1>1, <1>2, <1>3, JobsKept

\* The loop over the devices to stop ends.
LEMMA DevicesStoppedKeeps ==
  ASSUME NEW p \in Programs, RegistryInv, JobsOK, Progress(p), DevicesStopped(p)
  PROVE RegistryInv' /\ JobsOK' /\ Progress(p)' /\ Only(p, Fields)
<1>0. JobOK(job[p]) /\ job[p].step = "stop" /\ UNCHANGED <<registry, devices, oldService>>
  BY DEF JobsOK, DevicesStopped, At
<1>1. CASE job[p].forInf
  BY <1>0, <1>1, StartLoopKeeps DEF DevicesStopped
<1>2. CASE ~job[p].forInf
  <2>1. Only(p, {"step"}) /\ job'[p].step = "create"
    BY <1>0, <1>2 DEF DevicesStopped, JobsOK, JobOK, Only, Fields
  <2>2. JobOK(job'[p]) /\ RegistryInv'
    BY <1>0, <2>1 DEF JobOK, Only, Fields, Steps, RegistryInv, registry, devices
  <2>3. Progress(p)'
    BY <1>0, <1>2, <2>1 DEF Only, Fields, Progress, RestartInv, Settled, FirstPass, StartedInv, LibusbDevices,
       InstallInv, RemoveInv, HasFilter, registry, devices
  <2>4. QED
    BY <2>1, <2>2, <2>3, JobsKept
<1>3. QED
  BY <1>1, <1>2

\* usb_registry_start_libusb_devices
LEMMA StartDeviceKeeps ==
  ASSUME NEW p \in Programs, RegistryInv, JobsOK, Progress(p), StartDevice(p)
  PROVE RegistryInv' /\ JobsOK' /\ Progress(p)' /\ Only(p, Fields)
<1>0. JobOK(job[p]) /\ job[p].step = "start"
  BY DEF JobsOK, StartDevice, At
<1>1. PICK d \in job[p].todo :
        \/ d \in present /\ disabled' = disabled \ {d} /\ job' = [job EXCEPT ![p].todo = @ \ {d}]
        \/ /\ job' = [[job EXCEPT ![p].todo = @ \ {d}] EXCEPT ![p].failed = TRUE]
           /\ UNCHANGED disabled
  BY DEF StartDevice
<1>2. UNCHANGED <<uppers, filters, service, reinstall, present, stale, oldService>>
  BY DEF StartDevice, registry
<1>3. RegistryInv'
  BY <1>1, <1>2 DEF RegistryInv
<1>4. CASE disabled' = disabled \ {d} /\ job' = [job EXCEPT ![p].todo = @ \ {d}]
  <2>1. Only(p, {"todo"}) /\ job'[p].todo = job[p].todo \ {d}
    BY <1>0, <1>4 DEF JobsOK, JobOK, Only, Fields
  <2>2. JobOK(job'[p])
    BY <1>0, <2>1 DEF JobOK, Only, Fields
  <2>3. Progress(p)'
    BY <1>0, <1>2, <1>4, <2>1 DEF Only, Fields, Progress, RestartInv, Settled, FirstPass, StartedInv,
       LibusbDevices, InstallInv, RemoveInv, HasFilter
  <2>4. QED
    BY <1>3, <2>1, <2>2, <2>3, JobsKept
<1>5. CASE job' = [[job EXCEPT ![p].todo = @ \ {d}] EXCEPT ![p].failed = TRUE]
  <2>1. Only(p, {"todo", "failed"}) /\ job'[p].todo = job[p].todo \ {d} /\ job'[p].failed = TRUE
    BY <1>0, <1>5 DEF JobsOK, JobOK, Only, Fields
  <2>2. JobOK(job'[p])
    BY <1>0, <2>1 DEF JobOK, Only, Fields
  <2>3. QED
    BY <1>3, <2>1, <2>2, JobsKept DEF Progress
<1>6. QED
  BY <1>1, <1>4, <1>5

\* The loop over the devices to start ends.
LEMMA DevicesStartedKeeps ==
  ASSUME NEW p \in Programs, RegistryInv, JobsOK, Progress(p), DevicesStarted(p)
  PROVE RegistryInv' /\ JobsOK' /\ Progress(p)' /\ Only(p, Fields)
<1>0. /\ JobOK(job[p]) /\ job[p].step = "start" /\ job[p].todo = {}
      /\ UNCHANGED <<registry, devices, oldService>>
  BY DEF JobsOK, DevicesStarted, At
<1>a. RegistryInv'
  BY <1>0 DEF RegistryInv, registry, devices
<1>1. CASE job[p].forInf
  <2>1. Only(p, {"step"}) /\ job'[p].step = "infs"
    BY <1>0, <1>1 DEF DevicesStarted, JobsOK, JobOK, Only, Fields
  <2>2. JobOK(job'[p])
    BY <1>0, <2>1 DEF JobOK, Only, Fields, Steps
  <2>3. Progress(p)'
    BY <1>0, <1>1, <2>1 DEF Only, Fields, Progress, RestartInv, Settled, FirstPass, StartedInv,
       InstallInv, RemoveInv, HasFilter, registry, devices
  <2>4. QED
    BY <1>a, <2>1, <2>2, <2>3, JobsKept
<1>2. CASE ~job[p].forInf
  <2> DEFINE asked == Asked(job[p].request)
  <2>1. Enumerate(p, "insert_device", asked, job)
    BY <1>2 DEF DevicesStarted
  <2>2. asked \subseteq Devices
    BY DEF Asked
  <2> HIDE DEF asked
  <2>3. /\ Only(p, {"step", "todo", "failed"})
        /\ job'[p].step = "insert_device" /\ job'[p].failed \in BOOLEAN
        /\ job'[p].todo \in {asked, {}} /\ (job[p].failed => job'[p].failed)
        /\ ~job'[p].failed => job'[p].todo = asked
    BY <2>1, Enumerated
  <2>4. JobOK(job'[p])
    BY <1>0, <2>2, <2>3 DEF JobOK, Only, Fields, Steps
  <2>5. Progress(p)'
    BY <1>0, <1>2, <2>3 DEF Only, Fields, Progress, RestartInv, Settled, FirstPass, StartedInv,
       InstallInv, RemoveInv, HasFilter, registry, devices, asked
  <2>6. QED
    BY <1>a, <2>3, <2>4, <2>5, JobsKept
<1>3. QED
  BY <1>1, <1>2

\* The loop over the devices to be given the filter, or to lose it, ends.
LEMMA DevicesDoneKeeps ==
  ASSUME NEW p \in Programs, RegistryInv, JobsOK, Progress(p), DevicesInserted(p) \/ DevicesRemoved(p)
  PROVE RegistryInv' /\ JobsOK' /\ Progress(p)' /\ Only(p, Fields)
<1>0. /\ JobOK(job[p]) /\ job[p].step \in {"insert_device", "remove_device"} /\ job[p].todo = {}
      /\ UNCHANGED <<registry, devices, oldService>>
  BY DEF JobsOK, DevicesInserted, DevicesRemoved, At
<1>1. /\ Only(p, {"step", "todo", "blind"}) /\ job'[p].todo = job[p].classes
      /\ job'[p].step = IF job[p].step = "insert_device" THEN "insert_class" ELSE "remove_class"
  BY <1>0 DEF DevicesInserted, DevicesRemoved, At, JobsOK, JobOK, Only, Fields
<1>2. JobOK(job'[p]) /\ RegistryInv'
  BY <1>0, <1>1 DEF JobOK, Only, Fields, Steps, RegistryInv, registry, devices
<1>3. Progress(p)'
  BY <1>0, <1>1 DEF Only, Fields, Progress, RestartInv, Settled, FirstPass, StartedInv,
     InstallInv, RemoveInv, HasFilter, registry, devices
<1>4. QED
  BY <1>1, <1>2, <1>3, JobsKept

\* The loop over the classes ends.
LEMMA ClassesDoneKeeps ==
  ASSUME NEW p \in Programs, RegistryInv, JobsOK, Progress(p), ClassesDone(p)
  PROVE RegistryInv' /\ JobsOK' /\ Progress(p)' /\ Only(p, Fields)
<1>0. /\ JobOK(job[p]) /\ job[p].step \in {"insert_class", "remove_class"} /\ job[p].todo = {}
      /\ UNCHANGED <<registry, devices, oldService>>
  BY DEF JobsOK, ClassesDone
<1>1. Only(p, {"step", "blind"}) /\ job'[p].step = "hubs"
  BY <1>0 DEF ClassesDone, JobsOK, JobOK, Only, Fields
<1>2. JobOK(job'[p]) /\ RegistryInv'
  BY <1>0, <1>1 DEF JobOK, Only, Fields, Steps, RegistryInv, registry, devices
<1>3. Progress(p)'
  BY <1>0, <1>1 DEF Only, Fields, Progress, RestartInv, Settled, FirstPass, StartedInv,
     InstallInv, RemoveInv, HasFilter, registry, devices
<1>4. QED
  BY <1>1, <1>2, <1>3, JobsKept

\* usb_registry_restart_all_devices
LEMMA RestartHubsKeeps ==
  ASSUME NEW p \in Programs, RegistryInv, JobsOK, Progress(p), RestartHubs(p)
  PROVE RegistryInv' /\ JobsOK' /\ Progress(p)' /\ Only(p, Fields)
<1>0. /\ JobOK(job[p]) /\ job[p].step = "hubs"
      /\ UNCHANGED <<uppers, filters, service, reinstall, present, disabled, oldService>>
  BY DEF JobsOK, RestartHubs, At, registry
<1>a. RegistryInv'
  BY <1>0 DEF RegistryInv, RestartHubs
<1>1. CASE ~job[p].restart /\ job' = [job EXCEPT ![p].step = "infs", ![p].restart = FALSE]
  <2>1. Only(p, {"step", "restart"}) /\ job'[p].step = "infs" /\ job'[p].restart = FALSE
    BY <1>0, <1>1 DEF JobsOK, JobOK, Only, Fields
  <2>2. JobOK(job'[p])
    BY <1>0, <2>1 DEF JobOK, Only, Fields, Steps
  <2>3. Progress(p)'
    BY <1>0, <1>1, <2>1 DEF Only, Fields, Progress, RestartInv, Settled, FirstPass, StartedInv,
       InstallInv, RemoveInv, HasFilter
  <2>4. QED
    BY <1>a, <2>1, <2>2, <2>3, JobsKept
<1>2. CASE job' = Without(p, [job EXCEPT ![p].step = "infs", ![p].restart = FALSE], Devices)
  <2>1. /\ Only(p, {"step", "restart", "dirty"}) /\ job'[p].step = "infs" /\ job'[p].restart = FALSE
        /\ job'[p].dirty = job[p].dirty \ Devices
    BY <1>0, <1>2 DEF JobsOK, JobOK, Only, Fields, Without
  <2>2. JobOK(job'[p]) /\ job'[p].dirty = {}
    BY <1>0, <2>1 DEF JobOK, Only, Fields, Steps
  <2>3. Progress(p)'
    BY <1>0, <2>1, <2>2 DEF Only, Fields, Progress, RestartInv, Settled, FirstPass, StartedInv,
       InstallInv, RemoveInv, HasFilter
  <2>4. QED
    BY <1>a, <2>1, <2>2, <2>3, JobsKept
<1>3. CASE job' = [[job EXCEPT ![p].step = "infs", ![p].restart = FALSE] EXCEPT ![p].failed = TRUE]
  <2>1. /\ Only(p, {"step", "restart", "failed"}) /\ job'[p].step = "infs" /\ job'[p].restart = FALSE
        /\ job'[p].failed = TRUE
    BY <1>0, <1>3 DEF JobsOK, JobOK, Only, Fields
  <2>2. JobOK(job'[p])
    BY <1>0, <2>1 DEF JobOK, Only, Fields, Steps
  <2>3. QED
    BY <1>a, <2>1, <2>2, JobsKept DEF Progress
<1>4. QED
  BY <1>1, <1>2, <1>3 DEF RestartHubs

\* usb_service_stop, of the old service, and the polling
LEMMA StopServiceKeeps ==
  ASSUME NEW p \in Programs, RegistryInv, JobsOK, Progress(p),
         StopOldService(p) \/ Poll(p) \/ QueryFails(p)
  PROVE RegistryInv' /\ JobsOK' /\ Progress(p)' /\ Only(p, Fields)
<1>0. /\ JobOK(job[p]) /\ job[p].step \in {"stop_old", "poll"}
      /\ UNCHANGED <<registry, devices>>
  BY DEF JobsOK, StopOldService, Poll, QueryFails, At
<1>1. /\ Only(p, {"step", "failed"}) /\ job'[p].step \in {"poll", "delete_old"}
      /\ job'[p].failed \in BOOLEAN /\ (job[p].failed => job'[p].failed)
  <2>1. CASE StopOldService(p)
    <3>1. CASE job' = [job EXCEPT ![p].step = "poll"]
      BY <1>0, <3>1 DEF JobsOK, JobOK, Only, Fields
    <3>2. CASE job' = [job EXCEPT ![p].step = "delete_old", ![p].failed = @ \/ oldService = "running"]
      <4>1. Only(p, {"step", "failed"}) /\ job'[p].step = "delete_old"
        BY <1>0, <3>2 DEF JobsOK, JobOK, Only, Fields
      <4>2. job'[p].failed = (job[p].failed \/ oldService = "running")
        BY <1>0, <3>2 DEF JobsOK, JobOK, Fields
      <4>3. QED
        BY <4>1, <4>2
    <3>3. QED
      BY <2>1, <3>1, <3>2 DEF StopOldService
  <2>2. CASE Poll(p) \/ QueryFails(p)
    BY <1>0, <2>2 DEF Poll, QueryFails, JobsOK, JobOK, Only, Fields
  <2>3. QED
    BY <2>1, <2>2
<1>2. RegistryInv'
  BY <1>0 DEF RegistryInv, StopOldService, Poll, QueryFails, registry, devices, OldServices
<1>3. JobOK(job'[p])
  BY <1>0, <1>1 DEF JobOK, Only, Fields, Steps
<1>4. Progress(p)'
  BY <1>0, <1>1 DEF Only, Fields, Progress, RestartInv, Settled, FirstPass, StartedInv,
     InstallInv, RemoveInv, HasFilter, registry, devices
<1>5. QED
  BY <1>1, <1>2, <1>3, <1>4, JobsKept

\* usb_service_delete
LEMMA DeleteOldServiceKeeps ==
  ASSUME NEW p \in Programs, RegistryInv, JobsOK, Progress(p), DeleteOldService(p)
  PROVE RegistryInv' /\ JobsOK' /\ Progress(p)' /\ Only(p, Fields)
<1> DEFINE request == job[p].request
           items == {item \in AskedDevices(request) \X Places : Listed(filters[item[1]][item[2]])}
<1>0. /\ JobOK(job[p]) /\ job[p].step = "delete_old" /\ UNCHANGED <<registry, devices>>
      /\ oldService' \in {"absent", oldService}
  BY DEF JobsOK, DeleteOldService, At
<1>1. RegistryInv'
  BY <1>0 DEF RegistryInv, registry, devices, OldServices
<1>2. CASE /\ request.asked = {} /\ ~request.allDevices
           /\ job' = [[job EXCEPT ![p].failed = @ \/ oldService' # "absent"] EXCEPT
                        ![p].step = "remove_class", ![p].todo = job[p].classes]
  <2>1. /\ Only(p, {"step", "todo", "failed"}) /\ job'[p].step = "remove_class"
        /\ job'[p].todo = job[p].classes
    BY <1>0, <1>2 DEF JobsOK, JobOK, Only, Fields
  <2>2. job'[p].failed = (job[p].failed \/ oldService' # "absent")
    BY <1>0, <1>2 DEF JobsOK, JobOK, Fields
  <2>3. job'[p].failed \in BOOLEAN /\ (job[p].failed => job'[p].failed)
    BY <2>2
  <2>4. JobOK(job'[p])
    BY <1>0, <2>1, <2>3 DEF JobOK, Only, Fields, Steps
  <2>5. AskedDevices(request) = {}
    BY <1>2 DEF AskedDevices, Asked
  <2>6. Progress(p)'
    BY <1>0, <2>1, <2>3, <2>5 DEF Only, Fields, Progress, RestartInv, Settled, FirstPass, StartedInv,
       InstallInv, RemoveInv, HasFilter, registry, devices
  <2>7. QED
    BY <1>1, <2>1, <2>4, <2>6, JobsKept
<1>3. CASE Enumerate(p, "remove_device", items,
                     [job EXCEPT ![p].failed = @ \/ oldService' # "absent"])
  <2>1. PICK found \in {items, {}} :
          job' = [[job EXCEPT ![p].failed = @ \/ oldService' # "absent"] EXCEPT
                    ![p].step = "remove_device", ![p].todo = found, ![p].failed = @ \/ found # items]
    BY <1>3 DEF Enumerate
  <2>2. Only(p, {"step", "todo", "failed"}) /\ job'[p].step = "remove_device" /\ job'[p].todo = found
    BY <1>0, <2>1 DEF JobsOK, JobOK, Only, Fields
  <2>3. job'[p].failed = ((job[p].failed \/ oldService' # "absent") \/ found # items)
    BY <1>0, <2>1 DEF JobsOK, JobOK, Fields
  <2>4. /\ job'[p].failed \in BOOLEAN /\ (job[p].failed => job'[p].failed)
        /\ (~job'[p].failed => job'[p].todo = items)
    BY <2>2, <2>3
  <2>5. items \subseteq Devices \X Places
    BY DEF AskedDevices, Asked
  <2>6. \A d \in AskedDevices(request), w \in Places : Listed(filters[d][w]) => <<d, w>> \in items
    OBVIOUS
  <2> HIDE DEF items
  <2>7. JobOK(job'[p])
    BY <1>0, <2>1, <2>2, <2>4, <2>5 DEF JobOK, Only, Fields, Steps
  <2>8. Progress(p)'
    BY <1>0, <2>2, <2>4, <2>6 DEF Only, Fields, Progress, RestartInv, Settled, FirstPass, StartedInv,
       InstallInv, RemoveInv, HasFilter, registry, devices
  <2>9. QED
    BY <1>1, <2>2, <2>7, <2>8, JobsKept
<1>4. QED
  BY <1>2, <1>3 DEF DeleteOldService, AskedDevices

\* What a step does to the run that has changed the lists of device d.
DeviceDone(p, d, item) ==
  /\ Only(p, {"todo", "failed", "dirty", "blind"}) /\ job'[p].todo = job[p].todo \ {item}
  /\ job'[p].failed \in BOOLEAN /\ (job[p].failed => job'[p].failed)
  /\ job'[p].dirty \subseteq Devices
  /\ ~job'[p].failed =>
       job[p].classes # {} \/ job'[p].dirty = job[p].dirty \ {d} \/ job'[p].dirty = job[p].dirty

\* What a step does to the run that has looked at device d, or has written the
\* list made in this buffer.
DeviceLeft(p, d) == UNCHANGED filters /\ (~job'[p].failed => HasFilter(d))

DeviceSet(p, d) ==
  \E buffer \in Reads(filters[d].upper) : \E new \in Inserted(buffer) :
    /\ ~HasDriver(buffer) /\ filters' = [filters EXCEPT ![d].upper = new]
    /\ Amiss(filters[d].upper, buffer) => job'[p].failed
    /\ Blind(filters[d].upper, buffer) => <<"device", d>> \in job'[p].blind

InsertedDevice(p, d) ==
  /\ DeviceDone(p, d, d) /\ stale' \subseteq present
  /\ DeviceLeft(p, d) \/ DeviceSet(p, d)

\* The run as a turn of the loop has it before it writes.
TurnOf(p, d, j) ==
  /\ DOMAIN j = Programs /\ \A q \in Programs \ {p} : j[q] = job[q]
  /\ DOMAIN j[p] = Fields /\ j[p].todo = job[p].todo \ {d}
  /\ j[p].failed \in BOOLEAN /\ (job[p].failed => j[p].failed)
  /\ \A f \in Fields \ {"todo", "failed", "blind"} : j[p][f] = job[p][f]

\* A device may be restarted, then.
LEMMA DeviceRestarted ==
  ASSUME NEW p \in Programs, NEW d \in job[p].todo, NEW j, NEW made \in SUBSET present,
         JobsOK, job[p].step = "insert_device", TurnOf(p, d, j), RestartDevice(p, d, made, j)
  PROVE DeviceDone(p, d, d) /\ stale' \subseteq present
<1>0. JobOK(job[p])
  BY DEF JobsOK
<1>1. CASE stale' = made \ {d} /\ job' = [j EXCEPT ![p].dirty = @ \ {d}]
  <2>1. /\ Only(p, {"todo", "failed", "dirty", "blind"}) /\ job'[p].todo = job[p].todo \ {d}
        /\ job'[p].dirty = job[p].dirty \ {d}
    BY <1>1 DEF TurnOf, Only, Fields
  <2>2. job'[p].failed = j[p].failed
    BY <1>1 DEF TurnOf, Fields
  <2>3. job'[p].dirty \subseteq Devices
    BY <1>0, <2>1 DEF JobOK
  <2>4. QED
    BY <1>1, <2>1, <2>2, <2>3 DEF TurnOf, DeviceDone
<1>2. CASE stale' = made /\ job' = [j EXCEPT ![p].failed = TRUE]
  <2>1. /\ Only(p, {"todo", "failed", "dirty", "blind"}) /\ job'[p].todo = job[p].todo \ {d}
        /\ job'[p].dirty = job[p].dirty /\ job'[p].failed = TRUE
    BY <1>2 DEF TurnOf, Only, Fields
  <2>2. job'[p].dirty \subseteq Devices
    BY <1>0, <2>1 DEF JobOK
  <2>3. QED
    BY <1>2, <2>1, <2>2 DEF DeviceDone
<1>3. QED
  BY <1>1, <1>2 DEF RestartDevice, Without

\* The list is written.
LEMMA DeviceWritten ==
  ASSUME NEW p \in Programs, NEW d \in job[p].todo, NEW j, RegistryInv, JobsOK,
         job[p].step = "insert_device", TurnOf(p, d, j),
         NEW buffer \in Reads(filters[d].upper), NEW new \in Inserted(buffer), ~HasDriver(buffer),
         WriteDeviceFilter(p, d, buffer, new, j)
  PROVE InsertedDevice(p, d)
<1> DEFINE outdated == Outdated({d})
           old == filters[d].upper
           amiss == Amiss(old, buffer)
           blind == IF Blind(old, buffer) THEN {<<"device", d>>} ELSE {}
           k == [j EXCEPT ![p].dirty = @ \union outdated, ![p].failed = @ \/ amiss, ![p].blind = blind]
           made == stale \union outdated
<1>0. JobOK(job[p]) /\ "blind" \in Fields
  BY DEF JobsOK, Fields
<1>1. /\ filters' = [filters EXCEPT ![d].upper = new]
      /\ IF job[p].classes = {} THEN RestartDevice(p, d, made, k) ELSE stale' = made /\ job' = k
  BY DEF WriteDeviceFilter
<1>2. outdated \subseteq {d} /\ outdated \subseteq Devices /\ made \in SUBSET present
  BY DEF Outdated, RegistryInv
<1>3. Blind(old, buffer) => <<"device", d>> \in blind
  OBVIOUS
<1> HIDE DEF outdated, made, amiss, blind
<1>4. /\ DOMAIN k = Programs /\ \A q \in Programs \ {p} : k[q] = job[q]
      /\ DOMAIN k[p] = Fields /\ k[p].todo = job[p].todo \ {d}
      /\ k[p].dirty = job[p].dirty \union outdated /\ k[p].blind = blind
      /\ \A f \in Fields \ {"todo", "failed", "dirty", "blind"} : k[p][f] = job[p][f]
  BY DEF TurnOf, Fields
<1>5. k[p].failed = (j[p].failed \/ amiss)
  BY DEF TurnOf, Fields
<1>6. k[p].failed \in BOOLEAN /\ (job[p].failed => k[p].failed) /\ (amiss => k[p].failed)
  BY <1>5 DEF TurnOf
<1> HIDE DEF k
<1>7. /\ DeviceDone(p, d, d) /\ stale' \subseteq present /\ (amiss => job'[p].failed)
      /\ job'[p].blind = blind
  <2>1. CASE job[p].classes # {} /\ stale' = made /\ job' = k
    BY <1>0, <1>2, <1>4, <1>6, <2>1 DEF DeviceDone, Only, JobOK
  <2>2. CASE stale' = made \ {d} /\ job' = [k EXCEPT ![p].dirty = @ \ {d}]
    <3>1. /\ Only(p, {"todo", "failed", "dirty", "blind"}) /\ job'[p].todo = job[p].todo \ {d}
          /\ job'[p].dirty = (job[p].dirty \union outdated) \ {d} /\ job'[p].blind = blind
      BY <1>4, <2>2 DEF Only, Fields
    <3>2. job'[p].failed = k[p].failed
      BY <1>4, <2>2 DEF Fields
    <3>3. job'[p].dirty = job[p].dirty \ {d} /\ job'[p].dirty \subseteq Devices
      BY <1>0, <1>2, <3>1 DEF JobOK
    <3>4. QED
      BY <1>2, <1>6, <2>2, <3>1, <3>2, <3>3 DEF DeviceDone
  <2>3. CASE stale' = made /\ job' = [k EXCEPT ![p].failed = TRUE]
    <3>1. /\ Only(p, {"todo", "failed", "dirty", "blind"}) /\ job'[p].todo = job[p].todo \ {d}
          /\ job'[p].dirty = job[p].dirty \union outdated /\ job'[p].failed = TRUE
          /\ job'[p].blind = blind
      BY <1>4, <2>3 DEF Only, Fields
    <3>2. QED
      BY <1>0, <1>2, <2>3, <3>1 DEF DeviceDone, JobOK
  <2>4. QED
    BY <1>1, <2>1, <2>2, <2>3 DEF RestartDevice, Without
<1>8. DeviceSet(p, d)
  BY <1>1, <1>3, <1>7 DEF DeviceSet, amiss
<1>9. QED
  BY <1>7, <1>8 DEF InsertedDevice

\* usb_registry_insert_device_filter
LEMMA InsertDeviceEffect ==
  ASSUME NEW p \in Programs, RegistryInv, JobsOK, InsertDeviceFilter(p)
  PROVE \E d \in job[p].todo : InsertedDevice(p, d)
<1>0. JobOK(job[p]) /\ job[p].step = "insert_device" /\ job[p].todo \subseteq Devices
  BY DEF JobsOK, JobOK, InsertDeviceFilter, At
<1> DEFINE turn(d) == [job EXCEPT ![p].todo = @ \ {d}, ![p].blind = {}]
<1>1. PICK d \in job[p].todo :
        \/ /\ service[d] = NoService \/ IsServiceOrFilter(d)
           /\ job' = turn(d) /\ UNCHANGED <<filters, stale>>
        \/ /\ d \in Filterable
           /\ SetDeviceFilter(p, d, [turn(d) EXCEPT ![p].failed = @ \/ d \notin Plain])
  BY DEF InsertDeviceFilter
<1>2. CASE /\ service[d] = NoService \/ IsServiceOrFilter(d)
           /\ job' = turn(d) /\ UNCHANGED <<filters, stale>>
  <2>1. Only(p, {"todo", "blind"}) /\ job'[p].todo = job[p].todo \ {d}
    BY <1>0, <1>2 DEF JobsOK, JobOK, Only, Fields
  <2>2. HasFilter(d) /\ stale' \subseteq present
    BY <1>2 DEF HasFilter, IsServiceOrFilter, Listed, RegistryInv
  <2>3. DeviceDone(p, d, d)
    BY <1>0, <2>1 DEF DeviceDone, Only, Fields, JobOK
  <2>4. QED
    BY <1>2, <2>2, <2>3 DEF InsertedDevice, DeviceLeft
<1>3. CASE SetDeviceFilter(p, d, [turn(d) EXCEPT ![p].failed = @ \/ d \notin Plain])
  <2> DEFINE plain == d \in Plain
             j == [turn(d) EXCEPT ![p].failed = @ \/ ~plain]
  <2>a. SetDeviceFilter(p, d, j)
    BY <1>3
  <2> HIDE DEF plain
  <2>b. /\ DOMAIN j = Programs /\ \A q \in Programs \ {p} : j[q] = job[q]
        /\ DOMAIN j[p] = Fields /\ j[p].todo = job[p].todo \ {d}
        /\ \A f \in Fields \ {"todo", "failed", "blind"} : j[p][f] = job[p][f]
    BY <1>0 DEF JobsOK, JobOK, Fields
  <2>c. j[p].failed = (job[p].failed \/ ~plain)
    BY <1>0 DEF JobsOK, JobOK, Fields
  <2>d. j[p].failed \in BOOLEAN /\ (job[p].failed => j[p].failed)
    BY <2>c
  <2>e. TurnOf(p, d, j)
    BY <2>b, <2>d DEF TurnOf
  <2> HIDE DEF j
  <2>1. CASE job' = [j EXCEPT ![p].failed = TRUE] /\ UNCHANGED <<filters, stale>>
    <3>1. /\ Only(p, {"todo", "failed", "blind"}) /\ job'[p].todo = job[p].todo \ {d}
          /\ job'[p].failed = TRUE
      BY <2>b, <2>1 DEF Only, Fields
    <3>2. DeviceDone(p, d, d)
      BY <1>0, <3>1 DEF DeviceDone, Only, Fields, JobOK
    <3>3. QED
      BY <2>1, <3>1, <3>2 DEF RegistryInv, InsertedDevice, DeviceLeft
  <2>2. ASSUME NEW buffer \in Reads(filters[d].upper), HasDriver(buffer), UNCHANGED filters,
               (job' = j /\ UNCHANGED stale) \/ RestartDevice(p, d, stale, j)
        PROVE InsertedDevice(p, d)
    <3>1. HasFilter(d)
      <4>1. buffer = filters[d].upper \/ buffer = <<>>
        BY <2>2 DEF Reads
      <4>2. ~HasDriver(<<>>)
        BY DEF HasDriver
      <4>3. HasDriver(filters[d].upper) /\ "upper" \in Places
        BY <2>2, <4>1, <4>2 DEF Places
      <4>4. QED
        BY <4>3 DEF HasFilter
    <3>2. CASE job' = j /\ UNCHANGED stale
      <4>1. Only(p, {"todo", "failed", "blind"}) /\ job'[p].dirty = job[p].dirty
        BY <2>b, <3>2 DEF Only, Fields
      <4>2. DeviceDone(p, d, d)
        BY <1>0, <2>b, <2>d, <3>2, <4>1 DEF DeviceDone, Only, JobOK
      <4>3. QED
        BY <2>2, <3>1, <3>2, <4>2 DEF RegistryInv, InsertedDevice, DeviceLeft
    <3>3. CASE RestartDevice(p, d, stale, j)
      <4>1. DeviceDone(p, d, d) /\ stale' \subseteq present
        BY <1>0, <2>e, <3>3, DeviceRestarted DEF RegistryInv
      <4>2. QED
        BY <2>2, <3>1, <4>1 DEF InsertedDevice, DeviceLeft
    <3>4. QED
      BY <2>2, <3>2, <3>3
  <2>3. ASSUME NEW buffer \in Reads(filters[d].upper), NEW new \in Inserted(buffer), ~HasDriver(buffer),
               WriteDeviceFilter(p, d, buffer, new, j)
        PROVE InsertedDevice(p, d)
    BY <1>0, <2>e, <2>3, DeviceWritten
  <2>4. QED
    BY <2>a, <2>1, <2>2, <2>3 DEF SetDeviceFilter
<1>4. QED
  BY <1>1, <1>2, <1>3

\* The loop over the devices keeps what is said of the restarts and of the
\* devices that were stopped.
LEMMA DeviceDoneKeeps ==
  ASSUME NEW p \in Programs, JobsOK, Progress(p), NEW d, NEW item, DeviceDone(p, d, item),
         job[p].step \in {"insert_device", "remove_device"}, ~job'[p].failed,
         UNCHANGED <<service, present, disabled>>
  PROVE RestartInv(job[p])' /\ StartedInv(job[p])'
<1>0. JobOK(job[p])
  BY DEF JobsOK
<1>1. ~job[p].failed /\ RestartInv(job[p]) /\ StartedInv(job[p])
  BY <1>0 DEF DeviceDone, Progress, JobOK
<1>2. /\ Only(p, {"todo", "failed", "dirty", "blind"})
      /\ job[p].classes # {} \/ job'[p].dirty = job[p].dirty \ {d} \/ job'[p].dirty = job[p].dirty
  BY DEF DeviceDone
<1>3. /\ job'[p].step = job[p].step /\ job'[p].classes = job[p].classes
      /\ job'[p].touched = job[p].touched /\ job'[p].forInf = job[p].forInf
      /\ job'[p].stopped = job[p].stopped /\ job'[p].away = job[p].away
  BY <1>2 DEF Only, Fields
<1>4. RestartInv(job[p])'
  BY <1>1, <1>2, <1>3 DEF RestartInv, Settled, FirstPass
<1>5. StartedInv(job[p])'
  BY <1>1, <1>3 DEF StartedInv, LibusbDevices
<1>6. QED
  BY <1>4, <1>5

\* usb_registry_insert_device_filter
LEMMA InsertDeviceFilterKeeps ==
  ASSUME NEW p \in Programs, RegistryInv, JobsOK, Progress(p), InsertDeviceFilter(p)
  PROVE RegistryInv' /\ JobsOK' /\ Progress(p)' /\ Only(p, Fields)
<1>0. /\ JobOK(job[p]) /\ job[p].step = "insert_device" /\ job[p].todo \subseteq Devices
      /\ UNCHANGED <<uppers, service, reinstall, present, disabled, oldService>>
  BY DEF JobsOK, JobOK, InsertDeviceFilter, At
<1>1. PICK d \in job[p].todo : InsertedDevice(p, d)
  BY InsertDeviceEffect
<1>2. d \in Devices /\ filters[d].upper \in Lists /\ "upper" \in Places
  BY <1>0 DEF RegistryInv, Places
<1>a. DeviceDone(p, d, d) /\ stale' \subseteq present
  BY <1>1 DEF InsertedDevice
<1>3. /\ filters' \in [Devices -> [Places -> Lists]]
      /\ ~job'[p].failed => HasFilter(d)'
      /\ \A e \in Devices \ {d} : filters'[e] = filters[e]
  <2>1. CASE DeviceLeft(p, d)
    BY <1>0, <2>1 DEF DeviceLeft, RegistryInv, HasFilter
  <2>2. CASE DeviceSet(p, d)
    <3>0. PICK buffer \in Reads(filters[d].upper) : \E new \in Inserted(buffer) :
            /\ ~HasDriver(buffer) /\ filters' = [filters EXCEPT ![d].upper = new]
            /\ Amiss(filters[d].upper, buffer) => job'[p].failed
      BY <2>2 DEF DeviceSet
    <3>1. PICK new \in Inserted(buffer) :
            /\ ~HasDriver(buffer) /\ filters' = [filters EXCEPT ![d].upper = new]
            /\ Amiss(filters[d].upper, buffer) => job'[p].failed
      BY <3>0
    <3>2. new \in Lists /\ (~job'[p].failed => HasDriver(new))
      BY <1>2, <3>1, InsertedDriver DEF Insertion
    <3>3. filters'[d].upper = new
      BY <1>2, <3>1 DEF RegistryInv
    <3>4. /\ filters' \in [Devices -> [Places -> Lists]]
          /\ \A e \in Devices \ {d} : filters'[e] = filters[e]
      BY <1>2, <3>1, <3>2 DEF RegistryInv
    <3>5. QED
      BY <1>2, <3>2, <3>3, <3>4 DEF HasFilter
  <2>3. QED
    BY <1>1, <2>1, <2>2 DEF InsertedDevice
<1>4. RegistryInv'
  BY <1>0, <1>a, <1>3 DEF RegistryInv
<1>5. Only(p, {"todo", "failed", "dirty", "blind"}) /\ job'[p].todo = job[p].todo \ {d}
  BY <1>a DEF DeviceDone
<1>6. JobOK(job'[p])
  BY <1>0, <1>a, <1>5 DEF DeviceDone, JobOK, Only, Fields
<1>7. \A e \in Devices \ {d} : HasFilter(e)' <=> HasFilter(e)
  BY <1>0, <1>3 DEF HasFilter
<1>8. Progress(p)'
  <2> SUFFICES ASSUME ~job'[p].failed
               PROVE /\ RestartInv(job[p])' /\ StartedInv(job[p])'
                     /\ job'[p].request.mode = "install" => InstallInv(job[p])'
                     /\ job'[p].request.mode = "remove" => RemoveInv(job[p])'
                     /\ job'[p].step = "begin" \/ job'[p].request.mode \in {"install", "remove"}
    BY DEF Progress
  <2>1. RestartInv(job[p])' /\ StartedInv(job[p])'
    BY <1>0, <1>a, DeviceDoneKeeps
  <2>2. /\ job'[p].step = "insert_device" /\ job'[p].request = job[p].request
        /\ job'[p].classes = job[p].classes /\ job'[p].forInf = job[p].forInf /\ ~job[p].failed
    BY <1>0, <1>a, <1>5 DEF Only, Fields, DeviceDone, JobOK
  <2>3. job[p].request.mode = "install" /\ InstallInv(job[p])
    BY <1>0, <2>2 DEF Progress, RemoveInv
  <2>4. Asked(job[p].request) \subseteq Devices
    BY DEF Asked
  <2>5. InstallInv(job[p])'
    BY <1>0, <1>3, <1>5, <1>7, <2>2, <2>3, <2>4 DEF InstallInv, FirstPass, Asked
  <2>6. QED
    BY <2>1, <2>2, <2>3, <2>5
<1>9. QED
  BY <1>4, <1>5, <1>6, <1>8, JobsKept

\* usb_registry_remove_device_filter
LEMMA RemoveDeviceEffect ==
  ASSUME NEW p \in Programs, RegistryInv, JobsOK, RemoveDeviceFilter(p)
  PROVE \E d \in Devices, w \in Places :
          /\ DeviceDone(p, d, <<d, w>>)
          /\ stale' \subseteq present
          /\ \/ UNCHANGED filters /\ job'[p].failed
             \/ filters' = [filters EXCEPT ![d][w] = RemoveDriver(@)]
<1>0. JobOK(job[p]) /\ job[p].todo \subseteq Devices \X Places
  BY DEF JobsOK, JobOK, RemoveDeviceFilter, At
<1>a. ASSUME NEW item \in job[p].todo, UNCHANGED <<filters, stale>>,
             job' = [[job EXCEPT ![p].todo = @ \ {item}] EXCEPT ![p].failed = TRUE]
      PROVE \E d \in Devices, w \in Places :
              DeviceDone(p, d, <<d, w>>) /\ stale' \subseteq present /\ UNCHANGED filters /\ job'[p].failed
  <2>1. PICK d \in Devices, w \in Places : item = <<d, w>>
    BY <1>0, <1>a
  <2>2. Only(p, {"todo", "failed"}) /\ job'[p].todo = job[p].todo \ {item} /\ job'[p].failed = TRUE
    BY <1>0, <1>a DEF JobsOK, JobOK, Only, Fields
  <2>3. DeviceDone(p, d, <<d, w>>)
    BY <1>0, <2>1, <2>2 DEF DeviceDone, Only, Fields, JobOK
  <2>4. QED
    BY <1>a, <2>2, <2>3 DEF RegistryInv
<1>b. CASE \E item \in job[p].todo :
             /\ job' = [[job EXCEPT ![p].todo = @ \ {item}] EXCEPT ![p].failed = TRUE]
             /\ UNCHANGED <<filters, stale>>
  BY <1>a, <1>b
<1> DEFINE outdated(d, ok) == IF ok THEN Outdated({d}) ELSE {}
           j(item) == [job EXCEPT ![p].todo = @ \ {item}]
           k(item, d, ok) == [j(item) EXCEPT ![p].dirty = @ \union outdated(d, ok), ![p].failed = @ \/ ~ok]
<1>c. CASE ~\E item \in job[p].todo :
             /\ job' = [[job EXCEPT ![p].todo = @ \ {item}] EXCEPT ![p].failed = TRUE]
             /\ UNCHANGED <<filters, stale>>
  <2>1. PICK item \in job[p].todo, ok \in BOOLEAN :
          /\ filters' = IF ok THEN [filters EXCEPT ![item[1]][item[2]] = RemoveDriver(@)] ELSE filters
          /\ IF job[p].classes = {}
             THEN RestartDevice(p, item[1], stale \union outdated(item[1], ok), k(item, item[1], ok))
             ELSE stale' = stale \union outdated(item[1], ok) /\ job' = k(item, item[1], ok)
    BY <1>c, Zenon DEF RemoveDeviceFilter
  <2>2. PICK d \in Devices, w \in Places : item = <<d, w>>
    BY <1>0, <2>1
  <2> DEFINE new == outdated(d, ok)
             made == stale \union new
             m == k(item, d, ok)
  <2>3. /\ filters' = IF ok THEN [filters EXCEPT ![d][w] = RemoveDriver(@)] ELSE filters
        /\ IF job[p].classes = {} THEN RestartDevice(p, d, made, m) ELSE stale' = made /\ job' = m
    BY <2>1, <2>2
  <2>4. new \subseteq {d} /\ new \subseteq Devices /\ made \subseteq present
    BY DEF Outdated, RegistryInv
  <2>5. m = [[job EXCEPT ![p].todo = @ \ {item}]
               EXCEPT ![p].dirty = @ \union new, ![p].failed = @ \/ ~ok]
    OBVIOUS
  <2> HIDE DEF outdated, j, k, new, made, m
  <2>6. /\ DOMAIN m = Programs /\ \A q \in Programs \ {p} : m[q] = job[q]
        /\ DOMAIN m[p] = Fields /\ m[p].todo = job[p].todo \ {item}
        /\ m[p].dirty = job[p].dirty \union new
        /\ \A f \in Fields \ {"todo", "dirty", "failed"} : m[p][f] = job[p][f]
    BY <1>0, <2>5 DEF JobsOK, JobOK, Fields
  <2>7. m[p].failed = (job[p].failed \/ ~ok)
    BY <1>0, <2>5 DEF JobsOK, JobOK, Fields
  <2>8. m[p].failed \in BOOLEAN /\ (job[p].failed => m[p].failed) /\ (~m[p].failed => ok)
    BY <2>7
  <2>9. stale' \subseteq present /\ DeviceDone(p, d, item) /\ (~ok => job'[p].failed)
    <3>1. CASE job[p].classes # {} /\ stale' = made /\ job' = m
      BY <1>0, <2>4, <2>6, <2>8, <3>1 DEF DeviceDone, Only, JobOK
    <3>2. CASE stale' = made \ {d} /\ job' = [m EXCEPT ![p].dirty = @ \ {d}]
      <4>1. /\ Only(p, {"todo", "failed", "dirty", "blind"}) /\ job'[p].todo = job[p].todo \ {item}
            /\ job'[p].dirty = (job[p].dirty \union new) \ {d}
        BY <2>6, <3>2 DEF Only, Fields
      <4>2. job'[p].failed = m[p].failed
        BY <2>6, <3>2 DEF Fields
      <4>3. job'[p].dirty = job[p].dirty \ {d} /\ job'[p].dirty \subseteq Devices
        BY <1>0, <2>4, <4>1 DEF JobOK
      <4>4. QED
        BY <2>4, <2>8, <3>2, <4>1, <4>2, <4>3 DEF DeviceDone
    <3>3. CASE stale' = made /\ job' = [m EXCEPT ![p].failed = TRUE]
      <4>1. /\ Only(p, {"todo", "failed", "dirty", "blind"}) /\ job'[p].todo = job[p].todo \ {item}
            /\ job'[p].dirty = job[p].dirty \union new /\ job'[p].failed = TRUE
        BY <2>6, <3>3 DEF Only, Fields
      <4>2. QED
        BY <1>0, <2>4, <3>3, <4>1 DEF DeviceDone, JobOK
    <3>4. QED
      BY <2>3, <3>1, <3>2, <3>3 DEF RestartDevice, Without
  <2>10. QED
    BY <2>2, <2>3, <2>9
<1>d. QED
  BY <1>b, <1>c

\* The list the loop has looked at has lost the driver; the other lists are as
\* they were.
LEMMA RemoveDeviceFilterKeeps ==
  ASSUME NEW p \in Programs, RegistryInv, JobsOK, Progress(p), RemoveDeviceFilter(p)
  PROVE RegistryInv' /\ JobsOK' /\ Progress(p)' /\ Only(p, Fields)
<1>0. /\ JobOK(job[p]) /\ job[p].step = "remove_device" /\ job[p].todo \subseteq Devices \X Places
      /\ UNCHANGED <<uppers, service, reinstall, present, disabled, oldService>>
  BY DEF JobsOK, JobOK, RemoveDeviceFilter, At
<1>1. PICK d \in Devices, w \in Places :
        /\ DeviceDone(p, d, <<d, w>>)
        /\ stale' \subseteq present
        /\ \/ UNCHANGED filters /\ job'[p].failed
           \/ filters' = [filters EXCEPT ![d][w] = RemoveDriver(@)]
  BY RemoveDeviceEffect
<1>2. filters[d][w] \in Lists
  BY DEF RegistryInv
<1>3. /\ filters' \in [Devices -> [Places -> Lists]]
      /\ ~job'[p].failed => ~Listed(filters'[d][w])
      /\ \A e \in Devices, v \in Places : <<e, v>> = <<d, w>> \/ filters'[e][v] = filters[e][v]
  <2>1. CASE UNCHANGED filters /\ job'[p].failed
    BY <2>1 DEF RegistryInv
  <2>2. CASE filters' = [filters EXCEPT ![d][w] = RemoveDriver(@)]
    <3>1. RemoveDriver(filters[d][w]) \in Lists /\ ~HasDriver(RemoveDriver(filters[d][w]))
      BY <1>2, RemovedDriver
    <3>2. filters'[d][w] = RemoveDriver(filters[d][w])
      BY <2>2 DEF RegistryInv
    <3>3. filters' \in [Devices -> [Places -> Lists]]
      BY <2>2, <3>1 DEF RegistryInv
    <3>4. \A e \in Devices, v \in Places : <<e, v>> = <<d, w>> \/ filters'[e][v] = filters[e][v]
      BY <2>2 DEF RegistryInv
    <3>5. QED
      BY <3>1, <3>2, <3>3, <3>4 DEF Listed
  <2>3. QED
    BY <1>1, <2>1, <2>2
<1>4. RegistryInv'
  BY <1>0, <1>1, <1>3 DEF RegistryInv
<1>5. Only(p, {"todo", "failed", "dirty", "blind"}) /\ job'[p].todo = job[p].todo \ {<<d, w>>}
  BY <1>1 DEF DeviceDone
<1>6. JobOK(job'[p])
  BY <1>0, <1>1, <1>5 DEF DeviceDone, JobOK, Only, Fields
<1>7. Progress(p)'
  <2> SUFFICES ASSUME ~job'[p].failed
               PROVE /\ RestartInv(job[p])' /\ StartedInv(job[p])'
                     /\ job'[p].request.mode = "install" => InstallInv(job[p])'
                     /\ job'[p].request.mode = "remove" => RemoveInv(job[p])'
                     /\ job'[p].step = "begin" \/ job'[p].request.mode \in {"install", "remove"}
    BY DEF Progress
  <2>1. RestartInv(job[p])' /\ StartedInv(job[p])'
    BY <1>0, <1>1, DeviceDoneKeeps
  <2>2. /\ job'[p].step = "remove_device" /\ job'[p].request = job[p].request
        /\ job'[p].classes = job[p].classes /\ job'[p].forInf = job[p].forInf /\ ~job[p].failed
    BY <1>0, <1>1, <1>5 DEF Only, Fields, DeviceDone, JobOK
  <2>3. job[p].request.mode = "remove" /\ RemoveInv(job[p])
    BY <1>0, <2>2 DEF Progress, InstallInv
  <2>4. AskedDevices(job[p].request) \subseteq Devices
    BY DEF Asked, AskedDevices
  <2>5. RemoveInv(job[p])'
    <3>1. ASSUME NEW e \in AskedDevices(job[p].request), NEW v \in Places
          PROVE ~Listed(filters'[e][v]) \/ <<e, v>> \in job'[p].todo
      BY <1>0, <1>3, <1>5, <2>2, <2>3, <2>4 DEF RemoveInv
    <3>2. \A c \in job[p].classes : ~Listed(uppers'[c]) \/ FirstPass(job[p])'
      BY <2>2 DEF FirstPass
    <3>3. QED
      BY <2>2, <3>1, <3>2 DEF RemoveInv, FirstPass, AskedDevices, Asked
  <2>6. QED
    BY <2>1, <2>2, <2>3, <2>5
<1>8. QED
  BY <1>4, <1>5, <1>6, <1>7, JobsKept

\* A class gets another list, in a turn of the loop.
ClassWritten(p, c, list, j) ==
  /\ stale' \subseteq present
  /\ uppers' \in [Classes -> Lists] /\ uppers'[c] = list
  /\ \A b \in Classes \ {c} : uppers'[b] = uppers[b]
  /\ Only(p, {"todo", "restart", "touched", "dirty", "failed", "blind"})
  /\ job'[p].todo = job[p].todo \ {c} /\ job'[p].restart = TRUE /\ job'[p].dirty \subseteq Devices
  /\ job'[p].failed = j[p].failed /\ job'[p].blind = j[p].blind

LEMMA ClassSet ==
  ASSUME NEW p \in Programs, NEW c \in job[p].todo, NEW list \in Lists, RegistryInv, JobsOK,
         job[p].step \in {"insert_class", "remove_class"}, NEW j, TurnOf(p, c, j),
         SetClassFilters(p, c, list, j)
  PROVE ClassWritten(p, c, list, j)
<1> DEFINE outdated == Outdated({d \in Devices : ClassOf[d] = c})
<1>0. JobOK(job[p]) /\ c \in Classes
  BY DEF JobsOK, JobOK
<1>1. outdated \subseteq Devices /\ stale \union outdated \subseteq present
  BY DEF Outdated, RegistryInv
<1>2. /\ stale' = stale \union outdated /\ uppers' = [uppers EXCEPT ![c] = list]
      /\ job' = [j EXCEPT ![p].restart = TRUE, ![p].touched = @ \union {c}, ![p].dirty = @ \union outdated]
  BY DEF SetClassFilters
<1> HIDE DEF outdated
<1>3. /\ Only(p, {"todo", "restart", "touched", "dirty", "failed", "blind"})
      /\ job'[p].todo = job[p].todo \ {c} /\ job'[p].restart = TRUE
      /\ job'[p].dirty = job[p].dirty \union outdated
  BY <1>2 DEF TurnOf, Only, Fields
<1>4. job'[p].failed = j[p].failed /\ job'[p].blind = j[p].blind
  BY <1>2 DEF TurnOf, Fields
<1>5. /\ uppers' \in [Classes -> Lists] /\ uppers'[c] = list
      /\ \A b \in Classes \ {c} : uppers'[b] = uppers[b]
  BY <1>0, <1>2 DEF RegistryInv
<1>6. job'[p].dirty \subseteq Devices
  BY <1>0, <1>1, <1>3 DEF JobOK
<1>7. QED
  BY <1>1, <1>2, <1>3, <1>4, <1>5, <1>6 DEF ClassWritten

\* The list made in this buffer is written.
ClassInserted(p, c) ==
  \E buffer \in Reads(uppers[c]) : \E new \in Inserted(buffer) : \E j :
    /\ ~HasDriver(buffer) /\ ClassWritten(p, c, new, j) /\ TurnOf(p, c, j)
    /\ Amiss(uppers[c], buffer) => j[p].failed
    /\ Blind(uppers[c], buffer) => <<"class", c>> \in j[p].blind

LEMMA InsertClassEffect ==
  ASSUME NEW p \in Programs, RegistryInv, JobsOK, InsertClassFilter(p)
  PROVE \E c \in job[p].todo :
          \/ /\ Listed(uppers[c]) /\ UNCHANGED <<uppers, stale>>
             /\ job' = [job EXCEPT ![p].todo = @ \ {c}, ![p].blind = {}]
          \/ /\ job' = [[job EXCEPT ![p].todo = @ \ {c}, ![p].blind = {}] EXCEPT ![p].failed = TRUE]
             /\ UNCHANGED <<uppers, stale>>
          \/ ClassInserted(p, c)
<1>0. JobOK(job[p]) /\ job[p].step = "insert_class" /\ job[p].todo \subseteq Classes
  BY DEF JobsOK, JobOK, InsertClassFilter, At
<1> DEFINE turn(c) == [job EXCEPT ![p].todo = @ \ {c}, ![p].blind = {}]
<1>1. ASSUME NEW c \in job[p].todo, NEW buffer \in Reads(uppers[c]), NEW new \in Inserted(buffer),
             ~HasDriver(buffer),
             SetClassFilters(p, c, new,
               [turn(c) EXCEPT ![p].failed = @ \/ Amiss(uppers[c], buffer),
                               ![p].blind = IF Blind(uppers[c], buffer) THEN {<<"class", c>>} ELSE {}])
      PROVE ClassInserted(p, c)
  <2> DEFINE amiss == Amiss(uppers[c], buffer)
             blind == IF Blind(uppers[c], buffer) THEN {<<"class", c>>} ELSE {}
             j == [turn(c) EXCEPT ![p].failed = @ \/ amiss, ![p].blind = blind]
  <2>1. SetClassFilters(p, c, new, j)
    BY <1>1
  <2>2. Blind(uppers[c], buffer) => <<"class", c>> \in blind
    OBVIOUS
  <2> HIDE DEF amiss, blind
  <2>3. /\ DOMAIN j = Programs /\ \A q \in Programs \ {p} : j[q] = job[q]
        /\ DOMAIN j[p] = Fields /\ j[p].todo = job[p].todo \ {c} /\ j[p].blind = blind
        /\ \A f \in Fields \ {"todo", "failed", "blind"} : j[p][f] = job[p][f]
    BY <1>0 DEF JobsOK, JobOK, Fields
  <2>4. j[p].failed = (job[p].failed \/ amiss)
    BY <1>0 DEF JobsOK, JobOK, Fields
  <2>5. j[p].failed \in BOOLEAN /\ (job[p].failed => j[p].failed) /\ (amiss => j[p].failed)
    BY <2>4
  <2>6. TurnOf(p, c, j)
    BY <2>3, <2>5 DEF TurnOf
  <2> HIDE DEF j
  <2>7. uppers[c] \in Lists
    BY <1>0 DEF RegistryInv
  <2>8. new \in Lists
    BY <1>1, <2>7, InsertedDriver DEF Insertion
  <2>9. ClassWritten(p, c, new, j)
    BY <1>0, <2>1, <2>6, <2>8, ClassSet
  <2>10. QED
    BY <1>1, <2>2, <2>3, <2>5, <2>6, <2>9 DEF ClassInserted, amiss
<1>2. QED
  BY <1>1, Zenon DEF InsertClassFilter

\* usb_registry_insert_class_filter
LEMMA InsertClassFilterKeeps ==
  ASSUME NEW p \in Programs, RegistryInv, JobsOK, Progress(p), InsertClassFilter(p)
  PROVE RegistryInv' /\ JobsOK' /\ Progress(p)' /\ Only(p, Fields)
<1>0. /\ JobOK(job[p]) /\ job[p].step = "insert_class" /\ job[p].todo \subseteq Classes
      /\ UNCHANGED <<filters, service, reinstall, present, disabled, oldService>>
  BY DEF JobsOK, JobOK, InsertClassFilter, At
<1>1. PICK c \in job[p].todo :
        \/ /\ Listed(uppers[c]) /\ UNCHANGED <<uppers, stale>>
           /\ job' = [job EXCEPT ![p].todo = @ \ {c}, ![p].blind = {}]
        \/ /\ job' = [[job EXCEPT ![p].todo = @ \ {c}, ![p].blind = {}] EXCEPT ![p].failed = TRUE]
           /\ UNCHANGED <<uppers, stale>>
        \/ ClassInserted(p, c)
  BY InsertClassEffect
<1>2. uppers[c] \in Lists
  BY <1>0 DEF RegistryInv
<1>3. /\ stale' \subseteq present /\ uppers' \in [Classes -> Lists]
      /\ Only(p, {"todo", "restart", "touched", "dirty", "failed", "blind"}) /\ job'[p].todo = job[p].todo \ {c}
      /\ job'[p].restart \in BOOLEAN /\ job'[p].dirty \subseteq Devices
      /\ job'[p].failed \in BOOLEAN /\ (~job'[p].failed => ~job[p].failed)
      /\ ~job'[p].failed =>
           /\ HasDriver(uppers'[c]) /\ \A b \in Classes \ {c} : uppers'[b] = uppers[b]
           /\ \/ job'[p].restart
              \/ job'[p].dirty = job[p].dirty /\ job'[p].touched = job[p].touched
                   /\ job'[p].restart = job[p].restart
  <2>1. CASE /\ Listed(uppers[c]) /\ UNCHANGED <<uppers, stale>>
             /\ job' = [job EXCEPT ![p].todo = @ \ {c}, ![p].blind = {}]
    <3>1. Only(p, {"todo", "blind"}) /\ job'[p].todo = job[p].todo \ {c}
      BY <1>0, <2>1 DEF JobsOK, JobOK, Only, Fields
    <3>2. HasDriver(uppers'[c])
      BY <2>1 DEF Listed
    <3>3. QED
      BY <1>0, <2>1, <3>1, <3>2 DEF JobOK, Only, Fields, RegistryInv
  <2>2. CASE /\ job' = [[job EXCEPT ![p].todo = @ \ {c}, ![p].blind = {}] EXCEPT ![p].failed = TRUE]
             /\ UNCHANGED <<uppers, stale>>
    <3>1. Only(p, {"todo", "failed", "blind"}) /\ job'[p].todo = job[p].todo \ {c} /\ job'[p].failed = TRUE
      BY <1>0, <2>2 DEF JobsOK, JobOK, Only, Fields
    <3>2. QED
      BY <1>0, <2>2, <3>1 DEF JobOK, Only, Fields, RegistryInv
  <2>3. CASE ClassInserted(p, c)
    <3>1. PICK buffer \in Reads(uppers[c]) : \E new \in Inserted(buffer) : \E j :
            /\ ~HasDriver(buffer) /\ ClassWritten(p, c, new, j) /\ TurnOf(p, c, j)
            /\ Amiss(uppers[c], buffer) => j[p].failed
      BY <2>3 DEF ClassInserted
    <3>2. PICK new \in Inserted(buffer) : \E j :
            /\ ~HasDriver(buffer) /\ ClassWritten(p, c, new, j) /\ TurnOf(p, c, j)
            /\ Amiss(uppers[c], buffer) => j[p].failed
      BY <3>1
    <3>3. PICK j :
            /\ ~HasDriver(buffer) /\ ClassWritten(p, c, new, j) /\ TurnOf(p, c, j)
            /\ Amiss(uppers[c], buffer) => j[p].failed
      BY <3>2
    <3>4. ~j[p].failed => HasDriver(new)
      BY <1>2, <3>3, InsertedDriver DEF Insertion
    <3>5. j[p].failed \in BOOLEAN /\ (~j[p].failed => ~job[p].failed)
      BY <1>0, <3>3 DEF TurnOf
    <3>6. QED
      BY <3>3, <3>4, <3>5 DEF ClassWritten
  <2>4. QED
    BY <1>1, <2>1, <2>2, <2>3
<1>4. RegistryInv'
  BY <1>0, <1>3 DEF RegistryInv
<1>5. JobOK(job'[p])
  BY <1>0, <1>3 DEF JobOK, Only, Fields
<1>6. Progress(p)'
  <2> SUFFICES ASSUME ~job'[p].failed
               PROVE /\ RestartInv(job[p])' /\ StartedInv(job[p])'
                     /\ job'[p].request.mode = "install" => InstallInv(job[p])'
                     /\ job'[p].request.mode = "remove" => RemoveInv(job[p])'
                     /\ job'[p].step = "begin" \/ job'[p].request.mode \in {"install", "remove"}
    BY DEF Progress
  <2>1. /\ job'[p].step = "insert_class" /\ job'[p].request = job[p].request
        /\ job'[p].classes = job[p].classes /\ job'[p].forInf = job[p].forInf /\ ~job[p].failed
        /\ job'[p].stopped = job[p].stopped /\ job'[p].away = job[p].away
    BY <1>0, <1>3 DEF Only, Fields
  <2>2. RestartInv(job[p])' /\ StartedInv(job[p])'
    BY <1>0, <1>3, <2>1 DEF Progress, RestartInv, StartedInv, Settled, FirstPass
  <2>3. job[p].request.mode = "install" /\ InstallInv(job[p])
    BY <1>0, <2>1 DEF Progress, RemoveInv
  <2>4. \A d \in Asked(job[p].request) : HasFilter(d)'
    BY <1>0, <2>3 DEF InstallInv, HasFilter, FirstPass
  <2>5. \A b \in job[p].classes : HasDriver(uppers'[b]) \/ b \in job'[p].todo
    BY <1>0, <1>3, <2>3 DEF InstallInv, FirstPass, JobOK
  <2>6. InstallInv(job[p])'
    BY <2>1, <2>4, <2>5 DEF InstallInv, FirstPass, Asked
  <2>7. QED
    BY <2>1, <2>2, <2>3, <2>6
<1>7. QED
  BY <1>3, <1>4, <1>5, <1>6, JobsKept

\* usb_registry_remove_class_filter
LEMMA RemoveClassFilterKeeps ==
  ASSUME NEW p \in Programs, RegistryInv, JobsOK, Progress(p), RemoveClassFilter(p)
  PROVE RegistryInv' /\ JobsOK' /\ Progress(p)' /\ Only(p, Fields)
<1>0. /\ JobOK(job[p]) /\ job[p].step = "remove_class" /\ job[p].todo \subseteq Classes
      /\ UNCHANGED <<filters, service, reinstall, present, disabled, oldService>>
  BY DEF JobsOK, JobOK, RemoveClassFilter, At
<1>1. PICK c \in job[p].todo :
        \/ /\ ~Listed(uppers[c]) /\ job' = [job EXCEPT ![p].todo = @ \ {c}] /\ UNCHANGED <<uppers, stale>>
        \/ /\ Listed(uppers[c])
           /\ \/ /\ \E restart \in {job[p].restart, TRUE} :
                      job' = [[job EXCEPT ![p].todo = @ \ {c}] EXCEPT ![p].failed = TRUE, ![p].restart = restart]
                 /\ UNCHANGED <<uppers, stale>>
              \/ SetClassFilters(p, c, RemoveDriver(uppers[c]), [job EXCEPT ![p].todo = @ \ {c}])
  BY DEF RemoveClassFilter
<1>2. uppers[c] \in Lists
  BY <1>0 DEF RegistryInv
<1>3. /\ stale' \subseteq present /\ uppers' \in [Classes -> Lists]
      /\ Only(p, {"todo", "restart", "touched", "dirty", "failed", "blind"}) /\ job'[p].todo = job[p].todo \ {c}
      /\ job'[p].restart \in BOOLEAN /\ job'[p].dirty \subseteq Devices
      /\ job'[p].failed \in BOOLEAN /\ (~job'[p].failed => ~job[p].failed)
      /\ ~job'[p].failed =>
           /\ ~Listed(uppers'[c]) /\ \A b \in Classes \ {c} : uppers'[b] = uppers[b]
           /\ \/ job'[p].restart
              \/ job'[p].dirty = job[p].dirty /\ job'[p].touched = job[p].touched
                   /\ job'[p].restart = job[p].restart
  <2>1. CASE ~Listed(uppers[c]) /\ job' = [job EXCEPT ![p].todo = @ \ {c}] /\ UNCHANGED <<uppers, stale>>
    <3>1. Only(p, {"todo"}) /\ job'[p].todo = job[p].todo \ {c}
      BY <1>0, <2>1 DEF JobsOK, JobOK, Only, Fields
    <3>2. QED
      BY <1>0, <2>1, <3>1 DEF JobOK, Only, Fields, RegistryInv
  <2>2. ASSUME NEW restart \in {job[p].restart, TRUE}, UNCHANGED <<uppers, stale>>,
               job' = [[job EXCEPT ![p].todo = @ \ {c}] EXCEPT ![p].failed = TRUE, ![p].restart = restart]
        PROVE /\ Only(p, {"todo", "failed", "restart"}) /\ job'[p].todo = job[p].todo \ {c}
              /\ job'[p].failed = TRUE /\ job'[p].restart \in BOOLEAN
    <3>1. restart \in BOOLEAN
      BY <1>0 DEF JobOK
    <3>2. QED
      BY <1>0, <2>2, <3>1 DEF JobsOK, JobOK, Only, Fields
  <2>3. CASE /\ \E restart \in {job[p].restart, TRUE} :
                  job' = [[job EXCEPT ![p].todo = @ \ {c}] EXCEPT ![p].failed = TRUE, ![p].restart = restart]
             /\ UNCHANGED <<uppers, stale>>
    <3>1. /\ Only(p, {"todo", "failed", "restart"}) /\ job'[p].todo = job[p].todo \ {c}
          /\ job'[p].failed = TRUE /\ job'[p].restart \in BOOLEAN
      BY <2>2, <2>3
    <3>2. QED
      BY <1>0, <2>3, <3>1 DEF JobOK, Only, Fields, RegistryInv
  <2>4. CASE SetClassFilters(p, c, RemoveDriver(uppers[c]), [job EXCEPT ![p].todo = @ \ {c}])
    <3> DEFINE j == [job EXCEPT ![p].todo = @ \ {c}]
    <3>1. PICK list \in Lists : list = RemoveDriver(uppers[c])
      BY <1>2, RemovedDriver
    <3>2. ~Listed(list)
      BY <1>2, <3>1, RemovedDriver DEF Listed
    <3>3. SetClassFilters(p, c, list, j)
      BY <2>4, <3>1
    <3>4. TurnOf(p, c, j) /\ j[p].failed = job[p].failed
      BY <1>0 DEF JobsOK, JobOK, TurnOf, Fields
    <3> HIDE DEF j
    <3>5. ClassWritten(p, c, list, j)
      BY <1>0, <3>3, <3>4, ClassSet
    <3>6. QED
      BY <1>0, <3>2, <3>4, <3>5 DEF JobOK, ClassWritten
  <2>5. QED
    BY <1>1, <2>1, <2>3, <2>4
<1>4. RegistryInv'
  BY <1>0, <1>3 DEF RegistryInv
<1>5. JobOK(job'[p])
  BY <1>0, <1>3 DEF JobOK, Only, Fields
<1>6. Progress(p)'
  <2> SUFFICES ASSUME ~job'[p].failed
               PROVE /\ RestartInv(job[p])' /\ StartedInv(job[p])'
                     /\ job'[p].request.mode = "install" => InstallInv(job[p])'
                     /\ job'[p].request.mode = "remove" => RemoveInv(job[p])'
                     /\ job'[p].step = "begin" \/ job'[p].request.mode \in {"install", "remove"}
    BY DEF Progress
  <2>1. /\ job'[p].step = "remove_class" /\ job'[p].request = job[p].request
        /\ job'[p].classes = job[p].classes /\ job'[p].forInf = job[p].forInf /\ ~job[p].failed
        /\ job'[p].stopped = job[p].stopped /\ job'[p].away = job[p].away
    BY <1>0, <1>3 DEF Only, Fields
  <2>2. RestartInv(job[p])' /\ StartedInv(job[p])'
    BY <1>0, <1>3, <2>1 DEF Progress, RestartInv, StartedInv, Settled, FirstPass
  <2>3. job[p].request.mode = "remove" /\ RemoveInv(job[p])
    BY <1>0, <2>1 DEF Progress, InstallInv
  <2>4. \A d \in AskedDevices(job[p].request), w \in Places : ~Listed(filters'[d][w])
    BY <1>0, <2>3 DEF RemoveInv, FirstPass
  <2>5. \A b \in job[p].classes : ~Listed(uppers'[b]) \/ b \in job'[p].todo
    BY <1>0, <1>3, <2>3 DEF RemoveInv, FirstPass, JobOK
  <2>6. RemoveInv(job[p])'
    BY <2>1, <2>4, <2>5 DEF RemoveInv, FirstPass, AskedDevices, Asked
  <2>7. QED
    BY <2>1, <2>2, <2>3, <2>6
<1>7. QED
  BY <1>3, <1>4, <1>5, <1>6, JobsKept

\* usb_service_create, and then the loop that starts the devices
LEMMA CreateServiceKeeps ==
  ASSUME NEW p \in Programs, RegistryInv, JobsOK, Progress(p), At(p, "create"), NEW ok \in BOOLEAN,
         Enumerate(p, "start", LibusbDevices, [job EXCEPT ![p].failed = @ \/ ~ok]),
         UNCHANGED <<registry, devices, oldService>>
  PROVE RegistryInv' /\ JobsOK' /\ Progress(p)' /\ Only(p, Fields)
<1>0. JobOK(job[p]) /\ job[p].step = "create" /\ LibusbDevices \subseteq Devices
  BY DEF JobsOK, At, LibusbDevices, RegistryInv
<1>a. RegistryInv'
  BY DEF RegistryInv, registry, devices
<1>1. PICK found \in {LibusbDevices, {}} :
        job' = [[job EXCEPT ![p].failed = @ \/ ~ok] EXCEPT
                  ![p].step = "start", ![p].todo = found, ![p].failed = @ \/ found # LibusbDevices]
  BY DEF Enumerate
<1>2. Only(p, {"step", "todo", "failed"}) /\ job'[p].step = "start" /\ job'[p].todo = found
  BY <1>0, <1>1 DEF JobsOK, JobOK, Only, Fields
<1>3. job'[p].failed = ((job[p].failed \/ ~ok) \/ found # LibusbDevices)
  BY <1>0, <1>1 DEF JobsOK, JobOK, Fields
<1>4. /\ job'[p].failed \in BOOLEAN /\ (job[p].failed => job'[p].failed)
      /\ (~job'[p].failed => job'[p].todo = LibusbDevices)
  BY <1>2, <1>3
<1>5. JobOK(job'[p])
  BY <1>0, <1>1, <1>2, <1>4 DEF JobOK, Only, Fields, Steps
<1>6. Progress(p)'
  BY <1>0, <1>2, <1>4 DEF Only, Fields, Progress, RestartInv, Settled, FirstPass, StartedInv,
     InstallInv, RemoveInv, HasFilter, registry, devices
<1>7. QED
  BY <1>a, <1>2, <1>5, <1>6, JobsKept

\* usb_install_inf_np, in an installation
LEMMA InstallInfKeeps ==
  ASSUME NEW p \in Programs, RegistryInv, JobsOK, Progress(p), InstallInf(p)
  PROVE RegistryInv' /\ JobsOK' /\ Progress(p)' /\ Only(p, Fields)
<1>0. /\ JobOK(job[p]) /\ job[p].step = "infs" /\ job[p].request.mode = "install"
      /\ job[p].infs \in Seq(SUBSET Devices) /\ job[p].infs # <<>>
      /\ UNCHANGED <<uppers, filters, present, disabled, oldService>>
  BY DEF JobsOK, JobOK, InstallInf, At
<1> DEFINE named == Head(job[p].infs)
           todo == {d \in present : service'[d] = Driver}
<1>1. PICK updated \in {named \cap present, {}} :
        /\ service' = [d \in Devices |-> IF d \in updated THEN Driver ELSE service[d]]
        /\ stale' = stale \ updated
        /\ reinstall' = reinstall \union (named \ present)
        /\ Enumerate(p, "stop", todo,
                     [job EXCEPT ![p].infs = Tail(@), ![p].forInf = TRUE, ![p].dirty = @ \ updated,
                                 ![p].failed = @ \/ updated # named \cap present])
  BY DEF InstallInf
<1>2. named \in SUBSET Devices /\ Tail(job[p].infs) \in Seq(SUBSET Devices)
  BY <1>0
<1> HIDE DEF named
<1>3. RegistryInv'
  BY <1>0, <1>1, <1>2 DEF RegistryInv
<1>4. PICK found \in {todo, {}} :
        job' = [[job EXCEPT ![p].infs = Tail(@), ![p].forInf = TRUE, ![p].dirty = @ \ updated,
                            ![p].failed = @ \/ updated # named \cap present]
                  EXCEPT ![p].step = "stop", ![p].todo = found, ![p].failed = @ \/ found # todo]
  BY <1>1 DEF Enumerate
<1>5. todo \subseteq Devices /\ \A d \in todo : service'[d] = Driver
  BY DEF RegistryInv
<1> HIDE DEF todo
<1>6. /\ Only(p, {"infs", "forInf", "dirty", "failed", "step", "todo"})
      /\ job'[p].infs = Tail(job[p].infs) /\ job'[p].forInf = TRUE
      /\ job'[p].dirty = job[p].dirty \ updated /\ job'[p].step = "stop" /\ job'[p].todo = found
  BY <1>0, <1>4 DEF JobsOK, JobOK, Only, Fields
<1>7. job'[p].failed = ((job[p].failed \/ updated # named \cap present) \/ found # todo)
  BY <1>0, <1>4 DEF JobsOK, JobOK, Fields
<1>8. job'[p].failed \in BOOLEAN /\ (job[p].failed => job'[p].failed)
  BY <1>7
<1>9. JobOK(job'[p])
  <2>1. /\ job'[p].infs \in Seq(SUBSET Devices) /\ job'[p].todo \subseteq Devices
        /\ job'[p].dirty \subseteq Devices
    BY <1>0, <1>2, <1>4, <1>5, <1>6 DEF JobOK
  <2>2. /\ DOMAIN job'[p] = Fields /\ job'[p].request = job[p].request
        /\ job'[p].classes = job[p].classes /\ job'[p].restart = job[p].restart
    BY <1>6 DEF Only, Fields
  <2>3. QED
    BY <1>0, <1>6, <1>8, <2>1, <2>2 DEF JobOK, Steps
<1>10. Progress(p)'
  <2> SUFFICES ASSUME ~job'[p].failed
               PROVE /\ RestartInv(job[p])' /\ StartedInv(job[p])'
                     /\ job'[p].request.mode = "install" => InstallInv(job[p])'
                     /\ job'[p].request.mode = "remove" => RemoveInv(job[p])'
                     /\ job'[p].step = "begin" \/ job'[p].request.mode \in {"install", "remove"}
    BY DEF Progress
  <2>1. /\ job'[p].request = job[p].request /\ job'[p].classes = job[p].classes
        /\ job'[p].touched = job[p].touched /\ job'[p].stopped = job[p].stopped
        /\ job'[p].away = job[p].away /\ ~job[p].failed
    BY <1>0, <1>6, <1>8 DEF Only, Fields, JobOK
  <2>2. RestartInv(job[p])'
    BY <1>0, <1>6, <2>1 DEF Progress, RestartInv, Settled, FirstPass
  <2>3. StartedInv(job[p])'
    BY <1>0, <1>4, <1>5, <1>6, <2>1 DEF Progress, StartedInv
  <2>4. \A d \in Asked(job[p].request) : HasFilter(d)'
    BY <1>0, <1>1, <2>1 DEF Progress, InstallInv, FirstPass, HasFilter, Asked
  <2>5. \A c \in job[p].classes : HasDriver(uppers'[c])
    BY <1>0, <2>1 DEF Progress, InstallInv, FirstPass
  <2>6. InstallInv(job[p])'
    BY <1>6, <2>1, <2>4, <2>5 DEF InstallInv, Asked
  <2>7. QED
    BY <1>0, <2>1, <2>2, <2>3, <2>6
<1>11. QED
  BY <1>3, <1>6, <1>9, <1>10, JobsKept

\* What becomes of the devices an .inf file names: some are rolled back, some
\* are uninstalled.
InfRemoved(p, named, back, uninstalled) ==
  /\ service' = [d \in Devices |-> IF d \in back THEN "other"
                                   ELSE IF d \in uninstalled THEN NoService ELSE service[d]]
  /\ filters' = [d \in Devices |-> IF d \in uninstalled THEN [w \in Places |-> <<>>] ELSE filters[d]]
  /\ reinstall' = reinstall \ uninstalled /\ disabled' = disabled \ uninstalled
  /\ stale' = stale \ (back \union uninstalled)
  /\ job' = [job EXCEPT ![p].infs = Tail(@), ![p].step = "hubs",
                         ![p].restart = uninstalled # {},
                         ![p].dirty = @ \ (back \union uninstalled),
                         ![p].failed = @ \/ back \union uninstalled # named]

LEMMA RemoveInfEffect ==
  ASSUME NEW p \in Programs, RemoveInf(p)
  PROVE LET named == Head(job[p].infs)
        IN \E back \in {named, {}}, gone \in {named, {}} : InfRemoved(p, named, back, gone \ back)
BY ZenonT(30) DEF RemoveInf, InfRemoved

\* usb_install_inf_np, in a removal
LEMMA RemoveInfKeeps ==
  ASSUME NEW p \in Programs, RegistryInv, JobsOK, Progress(p), RemoveInf(p)
  PROVE RegistryInv' /\ JobsOK' /\ Progress(p)' /\ Only(p, Fields)
<1>0. /\ JobOK(job[p]) /\ job[p].step = "infs" /\ job[p].request.mode = "remove"
      /\ job[p].infs \in Seq(SUBSET Devices) /\ job[p].infs # <<>>
      /\ UNCHANGED <<uppers, present, oldService>>
  BY DEF JobsOK, JobOK, RemoveInf, At
<1> DEFINE named == Head(job[p].infs)
<1>1. PICK back \in {named, {}}, gone \in {named, {}} : InfRemoved(p, named, back, gone \ back)
  BY RemoveInfEffect
<1>2. Tail(job[p].infs) \in Seq(SUBSET Devices)
  BY <1>0
<1> DEFINE uninstalled == gone \ back
           settled == back \union uninstalled
<1>3. /\ DOMAIN service' = Devices
      /\ filters' = [d \in Devices |-> IF d \in uninstalled THEN [w \in Places |-> <<>>] ELSE filters[d]]
      /\ reinstall' = reinstall \ uninstalled /\ disabled' = disabled \ uninstalled
      /\ stale' = stale \ settled
      /\ job' = [job EXCEPT ![p].infs = Tail(@), ![p].step = "hubs", ![p].restart = uninstalled # {},
                            ![p].dirty = @ \ settled, ![p].failed = @ \/ settled # named]
  BY <1>1 DEF InfRemoved
<1> HIDE DEF named, uninstalled, settled
<1>4. /\ filters' \in [Devices -> [Places -> Lists]]
      /\ \A d \in Devices, w \in Places : Listed(filters'[d][w]) => Listed(filters[d][w])
  BY <1>3, EmptyList DEF RegistryInv
<1>5. RegistryInv'
  BY <1>0, <1>3, <1>4 DEF RegistryInv
<1>6. /\ Only(p, {"infs", "step", "restart", "dirty", "failed"})
      /\ job'[p].infs = Tail(job[p].infs) /\ job'[p].step = "hubs"
      /\ job'[p].dirty = job[p].dirty \ settled
  BY <1>0, <1>3 DEF JobsOK, JobOK, Only, Fields
<1>7. job'[p].failed = (job[p].failed \/ settled # named) /\ job'[p].restart = (uninstalled # {})
  BY <1>0, <1>3 DEF JobsOK, JobOK, Fields
<1>8. /\ job'[p].failed \in BOOLEAN /\ job'[p].restart \in BOOLEAN
      /\ (job[p].failed => job'[p].failed)
  BY <1>7
<1>9. JobOK(job'[p])
  BY <1>0, <1>2, <1>6, <1>8 DEF JobOK, Only, Fields, Steps
<1>10. Progress(p)'
  <2> SUFFICES ASSUME ~job'[p].failed
               PROVE /\ RestartInv(job[p])' /\ StartedInv(job[p])'
                     /\ job'[p].request.mode = "install" => InstallInv(job[p])'
                     /\ job'[p].request.mode = "remove" => RemoveInv(job[p])'
                     /\ job'[p].step = "begin" \/ job'[p].request.mode \in {"install", "remove"}
    BY DEF Progress
  <2>1. /\ job'[p].request = job[p].request /\ job'[p].classes = job[p].classes
        /\ job'[p].touched = job[p].touched /\ job'[p].stopped = job[p].stopped
        /\ job'[p].away = job[p].away /\ job'[p].forInf = job[p].forInf /\ ~job[p].failed
    BY <1>0, <1>6, <1>8 DEF Only, Fields, JobOK
  <2>2. RestartInv(job[p])'
    BY <1>0, <1>6, <2>1 DEF Progress, RestartInv, Settled, FirstPass
  <2>3. StartedInv(job[p])'
    BY <1>0, <1>3, <1>6, <2>1 DEF Progress, StartedInv
  <2>4. \A d \in AskedDevices(job[p].request), w \in Places : ~Listed(filters'[d][w])
    BY <1>0, <1>4, <2>1 DEF Progress, RemoveInv, FirstPass, AskedDevices, Asked
  <2>5. \A c \in job[p].classes : ~Listed(uppers'[c])
    BY <1>0, <2>1 DEF Progress, RemoveInv, FirstPass
  <2>6. RemoveInv(job[p])'
    BY <1>6, <2>1, <2>4, <2>5 DEF RemoveInv, AskedDevices, Asked
  <2>7. QED
    BY <1>0, <2>1, <2>2, <2>3, <2>6
<1>11. QED
  BY <1>5, <1>6, <1>9, <1>10, JobsKept

\* usb_install_console starts: the classes are those of the filter context.
LEMMA BeginKeeps ==
  ASSUME NEW p \in Programs, RegistryInv, JobsOK, Progress(p), Begin(p), ~End(p, -1), ~End(p, 0)
  PROVE RegistryInv' /\ JobsOK' /\ Progress(p)' /\ Only(p, Fields)
<1> DEFINE request == job[p].request
<1>0. /\ JobOK(job[p]) /\ job[p].step = "begin" /\ request.mode \in {"install", "remove"}
      /\ UNCHANGED <<registry, devices, oldService>>
  BY DEF JobsOK, Begin, At
<1>a. RegistryInv'
  BY <1>0 DEF RegistryInv, registry, devices
<1> DEFINE classes(D) == ContextClasses(request, D)
           begun(D) == [job EXCEPT ![p].classes = classes(D),
                                   ![p].failed = @ \/ classes(D) # ContextClasses(request, Plain)]
<1>b. PICK found \in SUBSET Filterable :
        CASE request.mode = "remove" -> job' = [begun(found) EXCEPT ![p].step = "stop_old"]
          [] request.mode = "install" /\ (classes(found) # {} \/ request.all \/ request.asked # {}) ->
               Enumerate(p, "stop", LibusbDevices, begun(found))
          [] OTHER -> job' = [begun(found) EXCEPT ![p].step = "infs"]
  BY Zenon DEF Begin
<1> DEFINE given == classes(found)
           other == given # ContextClasses(request, Plain)
           j == [job EXCEPT ![p].classes = given, ![p].failed = @ \/ other]
<1>c. \/ request.mode = "remove" /\ job' = [j EXCEPT ![p].step = "stop_old"]
      \/ /\ request.mode = "install" /\ given = {} /\ request.asked = {}
         /\ job' = [j EXCEPT ![p].step = "infs"]
      \/ request.mode = "install" /\ Enumerate(p, "stop", LibusbDevices, j)
  <2>1. CASE request.mode = "remove"
    BY <1>b, <2>1
  <2>2. CASE request.mode = "install"
    BY <1>b, <2>2
  <2>3. QED
    BY <1>0, <2>1, <2>2
<1>d. LibusbDevices \subseteq Devices /\ given \subseteq Classes
  <2>1. request \in Requests
    BY <1>0 DEF JobOK
  <2>2. QED
    BY <2>1, ContextClassesOK DEF LibusbDevices, RegistryInv
<1> HIDE DEF classes, begun, given, other
<1>e. /\ DOMAIN j = Programs /\ \A q \in Programs \ {p} : j[q] = job[q]
      /\ DOMAIN j[p] = Fields /\ j[p].classes = given
      /\ \A f \in Fields \ {"classes", "failed"} : j[p][f] = job[p][f]
  BY <1>0 DEF JobsOK, JobOK, Fields
<1>f. j[p].failed = (job[p].failed \/ other)
  BY <1>0 DEF JobsOK, JobOK, Fields
<1>g. j[p].failed \in BOOLEAN /\ (job[p].failed => j[p].failed)
  BY <1>f
<1> HIDE DEF j
<1>1. CASE \/ request.mode = "remove" /\ job' = [j EXCEPT ![p].step = "stop_old"]
           \/ /\ request.mode = "install" /\ given = {} /\ request.asked = {}
              /\ job' = [j EXCEPT ![p].step = "infs"]
  <2>1. /\ Only(p, {"classes", "step", "failed"}) /\ job'[p].classes = given
        /\ job'[p].step = IF request.mode = "remove" THEN "stop_old" ELSE "infs"
    BY <1>e, <1>1 DEF Only, Fields
  <2>a. job'[p].failed = j[p].failed
    BY <1>e, <1>1 DEF Fields
  <2>2. JobOK(job'[p])
    BY <1>0, <1>d, <1>g, <2>1, <2>a DEF JobOK, Only, Fields, Steps
  <2>3. request.mode = "install" => given = {} /\ Asked(request) = {}
    BY <1>1 DEF Asked
  <2>4. Progress(p)'
    <3> SUFFICES ASSUME ~job'[p].failed PROVE Progress(p)'
      BY DEF Progress
    <3>1. ~job[p].failed
      BY <1>0, <1>g, <2>a DEF JobOK
    <3>2. QED
      BY <1>0, <2>1, <2>3, <3>1 DEF Only, Fields, Progress, RestartInv, Settled, FirstPass, StartedInv,
         InstallInv, RemoveInv, HasFilter, registry, devices, Asked
  <2>5. QED
    BY <1>a, <2>1, <2>2, <2>4, JobsKept
<1>2. CASE request.mode = "install" /\ Enumerate(p, "stop", LibusbDevices, j)
  <2>1. PICK items \in {LibusbDevices, {}} :
          job' = [j EXCEPT ![p].step = "stop", ![p].todo = items,
                           ![p].failed = @ \/ items # LibusbDevices]
    BY <1>2 DEF Enumerate
  <2>2. /\ Only(p, {"classes", "step", "todo", "failed"}) /\ job'[p].classes = given
        /\ job'[p].step = "stop" /\ job'[p].todo = items
    BY <1>e, <2>1 DEF Only, Fields
  <2>3. job'[p].failed = (j[p].failed \/ items # LibusbDevices)
    BY <1>e, <2>1 DEF Fields
  <2>4. job'[p].failed \in BOOLEAN /\ (job[p].failed => job'[p].failed)
    BY <1>g, <2>3
  <2>5. JobOK(job'[p])
    BY <1>0, <1>d, <2>1, <2>2, <2>4 DEF JobOK, Only, Fields, Steps
  <2>6. items \subseteq LibusbDevices
    BY <2>1
  <2>7. Progress(p)'
    BY <1>0, <1>2, <2>2, <2>4, <2>6 DEF Only, Fields, Progress, RestartInv, Settled, FirstPass, StartedInv,
       InstallInv, RemoveInv, HasFilter, registry, devices, Asked, LibusbDevices
  <2>8. QED
    BY <1>a, <2>2, <2>5, <2>7, JobsKept
<1>3. QED
  BY <1>c, <1>1, <1>2

-----------------------------------------------------------------------------
(* The run as a whole: what it has done lasts until the call returns.      *)

\* While usb_install_console runs no other program has run it.
LEMMA Alone ==
  ASSUME NEW p \in Programs, NEW q \in Programs, p # q, SessionInv, InConsole(p)
  PROVE outcome[q] = NotRun /\ ~InConsole(q)
<1>1. pc[p] \in Holding /\ ThreadInv(q) /\ OneInstaller
  BY DEF SessionInv, LockInv, ThreadInv, InConsole, Holding
<1>2. pc[q] \notin Holding
  BY <1>1 DEF OneInstaller
<1>3. QED
  BY <1>1, <1>2 DEF ThreadInv, InConsole, Holding, SessionInv, SessionTypeOK

\* The program that runs it has no result yet.
LEMMA Running ==
  ASSUME NEW p \in Programs, SessionInv, InConsole(p)
  PROVE outcome[p] = NotRun
BY DEF SessionInv, ThreadInv, InConsole

\* A run that has not begun has nothing to lose, whatever happens to the
\* registry and the devices.
LEMMA NotBegun ==
  ASSUME NEW q \in Programs, RunInv(q), job'[q] = job[q], outcome[q] = NotRun, ~InConsole(q),
         outcome'[q] = NotRun
  PROVE RunInv(q)'
<1>1. Progress(q) /\ job[q].step = "begin"
  BY DEF RunInv
<1>2. Progress(q)'
  BY <1>1 DEF Progress, RestartInv, Settled, FirstPass, StartedInv, InstallInv, RemoveInv
<1>3. Done(q)'
  BY DEF Done, Clean, NotRun
<1>4. QED
  BY <1>1, <1>2, <1>3 DEF RunInv

\* A step of the run leaves the others as they are.
LEMMA RunKeeps ==
  ASSUME NEW p \in Programs, InstallerInv, InConsole(p), UNCHANGED session, Only(p, Fields), Progress(p)'
  PROVE \A q \in Programs : RunInv(q)'
<1>0. SessionInv /\ outcome' = outcome /\ (\A q \in Programs : RunInv(q))
  BY DEF InstallerInv, session
<1>1. ASSUME NEW q \in Programs, q # p PROVE RunInv(q)'
  <2>1. job'[q] = job[q] /\ outcome[q] = NotRun /\ ~InConsole(q)
    BY <1>0, <1>1, Alone DEF Only
  <2>2. QED
    BY <1>0, <2>1, NotBegun
<1>2. RunInv(p)'
  <2>1. outcome'[p] = NotRun /\ InConsole(p)'
    BY <1>0, Running DEF session, InConsole
  <2>2. Done(p)'
    BY <2>1 DEF Done, Clean, NotRun
  <2>3. QED
    BY <2>1, <2>2 DEF RunInv
<1>3. QED
  BY <1>1, <1>2

\* usb_install_console returns: what was asked for is done if it returns 0,
\* after all its .inf files or with the list.
LEMMA EndKeeps ==
  ASSUME NEW p \in Programs, InstallerInv, NEW r \in {0, -1}, End(p, r),
         UNCHANGED <<registry, devices, oldService>>,
         r = 0 => job[p].step = "infs" \/ (job[p].step = "begin" /\ job[p].request.mode = "list")
  PROVE RegistryInv' /\ JobsOK' /\ \A q \in Programs : RunInv(q)'
<1>0. /\ SessionInv /\ RegistryInv /\ JobsOK /\ JobOK(job[p]) /\ InConsole(p)
      /\ outcome' = [outcome EXCEPT ![p] = r] /\ (\A q \in Programs : RunInv(q))
  BY DEF InstallerInv, JobsOK, End, ConsoleReturns
<1>1. RegistryInv'
  BY <1>0 DEF RegistryInv, registry, devices
<1>2. Only(p, {"failed", "step"}) /\ job'[p].step = "begin"
  BY <1>0 DEF End, JobsOK, JobOK, Only, Fields
<1>3. job'[p].failed = (job[p].failed \/ r = -1)
  BY <1>0 DEF End, JobsOK, JobOK, Fields
<1>4. job'[p].failed \in BOOLEAN /\ (job[p].failed => job'[p].failed)
  BY <1>3
<1>5. JobsOK'
  <2>1. JobOK(job'[p])
    BY <1>0, <1>2, <1>4 DEF JobOK, Only, Fields, Steps
  <2>2. QED
    BY <1>0, <1>2, <2>1, JobsKept
<1>6. ASSUME NEW q \in Programs, q # p PROVE RunInv(q)'
  <2>1. /\ job'[q] = job[q] /\ outcome[q] = NotRun /\ ~InConsole(q) /\ outcome'[q] = outcome[q]
    BY <1>0, <1>2, <1>6, Alone DEF Only, SessionInv, SessionTypeOK
  <2>2. QED
    BY <1>0, <2>1, NotBegun
<1>7. RunInv(p)'
  <2>1. outcome'[p] = r /\ r # NotRun /\ outcome[p] = NotRun
    BY <1>0, Running DEF SessionInv, SessionTypeOK, NotRun
  <2>2. Done(p)'
    <3> SUFFICES ASSUME r = 0, ~job'[p].failed
                 PROVE /\ job'[p].request.mode = "install" =>
                            /\ \A c \in job'[p].classes : HasDriver(uppers'[c])
                            /\ \A d \in Asked(job[p].request)' : HasFilter(d)'
                       /\ job'[p].request.mode = "remove" =>
                            /\ \A c \in job'[p].classes : ~Listed(uppers'[c])
                            /\ \A d \in AskedDevices(job[p].request)', w \in Places : ~Listed(filters'[d][w])
                       /\ Settled(job[p])' /\ job'[p].stopped \cap disabled' \subseteq job'[p].away
      BY <2>1 DEF Done, Clean
    <3>1. /\ job'[p].request = job[p].request /\ job'[p].classes = job[p].classes
          /\ job'[p].stopped = job[p].stopped /\ job'[p].away = job[p].away
          /\ job'[p].dirty = job[p].dirty /\ job'[p].touched = job[p].touched
      BY <1>2 DEF Only, Fields
    <3>2. ~job[p].failed /\ Progress(p)
      BY <1>0, <1>4, <2>1 DEF RunInv, JobOK
    <3>3. /\ job[p].request.mode = "install" =>
               /\ \A c \in job[p].classes : HasDriver(uppers[c])
               /\ \A d \in Asked(job[p].request) : HasFilter(d)
          /\ job[p].request.mode = "remove" =>
               /\ \A c \in job[p].classes : ~Listed(uppers[c])
               /\ \A d \in AskedDevices(job[p].request), w \in Places : ~Listed(filters[d][w])
      BY <3>2 DEF Progress, InstallInv, RemoveInv, FirstPass
    <3>4. Settled(job[p]) /\ job[p].stopped \cap disabled \subseteq job[p].away
      BY <3>2 DEF Progress, RestartInv, StartedInv, Settled
    <3>5. Settled(job[p])' /\ job'[p].stopped \cap disabled' \subseteq job'[p].away
      BY <3>1, <3>4 DEF Settled, devices
    <3>6. QED
      BY <3>1, <3>3, <3>5 DEF registry, HasFilter, Asked, AskedDevices
  <2>3. QED
    BY <2>1, <2>2 DEF RunInv
<1>8. QED
  BY <1>1, <1>5, <1>6, <1>7

\* Every step of usb_install_console.
LEMMA ConsoleKeeps ==
  ASSUME NEW p \in Programs, InstallerInv, Console(p) \/ QueryFails(p)
  PROVE RegistryInv' /\ JobsOK' /\ \A q \in Programs : RunInv(q)'
<1>0. RegistryInv /\ JobsOK /\ SessionInv /\ RunInv(p)
  BY DEF InstallerInv
<1>1. ASSUME InConsole(p), UNCHANGED session, RegistryInv' /\ JobsOK' /\ Progress(p)' /\ Only(p, Fields)
      PROVE RegistryInv' /\ JobsOK' /\ \A q \in Programs : RunInv(q)'
  BY <1>1, RunKeeps
<1>2. InConsole(p) => Progress(p)
  BY <1>0, Running DEF RunInv
<1>3. CASE Begin(p)
  <2>1. InConsole(p) /\ job[p].step = "begin" /\ UNCHANGED <<registry, devices, oldService>>
    BY <1>3 DEF Begin, At
  <2>2. CASE End(p, -1)
    BY <2>1, <2>2, EndKeeps
  <2>3. CASE End(p, 0) /\ job[p].request.mode = "list"
    BY <2>1, <2>3, EndKeeps
  <2>4. CASE ~End(p, -1) /\ ~End(p, 0)
    <3>1. UNCHANGED session
      BY <1>3, <2>4 DEF Begin
    <3>2. QED
      BY <1>0, <1>1, <1>2, <1>3, <2>1, <2>4, <3>1, BeginKeeps
  <2>5. CASE End(p, 0) /\ job[p].request.mode # "list"
    <3>1. End(p, -1) \/ UNCHANGED session
      BY <1>3, <2>5 DEF Begin
    <3>2. UNCHANGED session => outcome'[p] = NotRun
      BY <1>0, <2>1, Running DEF session
    <3>3. outcome'[p] = 0
      BY <1>0, <2>5 DEF End, ConsoleReturns, SessionInv, SessionTypeOK
    <3>4. QED
      BY <2>2, <3>1, <3>2, <3>3 DEF NotRun
  <2>6. QED
    BY <2>2, <2>3, <2>4, <2>5
<1>4. CASE CreateService(p)
  <2>1. At(p, "create") /\ InConsole(p) /\ UNCHANGED <<registry, devices, oldService>>
    BY <1>4 DEF CreateService, At
  <2>2. CASE End(p, -1)
    BY <2>1, <2>2, EndKeeps
  <2>3. CASE ~End(p, -1)
    <3>1. PICK ok \in BOOLEAN :
            Enumerate(p, "start", LibusbDevices, [job EXCEPT ![p].failed = @ \/ ~ok])
      BY <1>4, <2>3 DEF CreateService
    <3>2. UNCHANGED session
      BY <1>4, <2>3 DEF CreateService
    <3>3. QED
      BY <1>0, <1>1, <1>2, <2>1, <3>1, <3>2, CreateServiceKeeps
  <2>4. QED
    BY <2>2, <2>3
<1>5. CASE InfsDone(p) \/ InfFails(p)
  <2>1. job[p].step = "infs" /\ UNCHANGED <<registry, devices, oldService>>
    BY <1>5 DEF InfsDone, InfFails, At
  <2>2. End(p, 0) \/ End(p, -1)
    BY <1>5 DEF InfsDone, InfFails
  <2>3. QED
    BY <2>1, <2>2, EndKeeps
<1>6. CASE StopDevice(p) \/ DevicesStopped(p) \/ StartDevice(p) \/ DevicesStarted(p)
  <2>1. InConsole(p) /\ UNCHANGED session
    BY <1>6, Zenon DEF StopDevice, DevicesStopped, StartDevice, DevicesStarted, At
  <2>2. QED
    BY <1>0, <1>1, <1>2, <1>6, <2>1, StopDeviceKeeps, DevicesStoppedKeeps, StartDeviceKeeps,
       DevicesStartedKeeps
<1>7. CASE InsertDeviceFilter(p) \/ DevicesInserted(p) \/ InsertClassFilter(p) \/ ClassesDone(p)
  <2>1. InConsole(p) /\ UNCHANGED session
    BY <1>7, Zenon DEF InsertDeviceFilter, DevicesInserted, InsertClassFilter, ClassesDone, At
  <2>2. QED
    BY <1>0, <1>1, <1>2, <1>7, <2>1, InsertDeviceFilterKeeps, DevicesDoneKeeps, InsertClassFilterKeeps,
       ClassesDoneKeeps
<1>8. CASE RestartHubs(p) \/ StopOldService(p) \/ Poll(p) \/ DeleteOldService(p) \/ QueryFails(p)
  <2>1. InConsole(p) /\ UNCHANGED session
    BY <1>8, Zenon DEF RestartHubs, StopOldService, Poll, DeleteOldService, QueryFails, At
  <2>2. QED
    BY <1>0, <1>1, <1>2, <1>8, <2>1, RestartHubsKeeps, StopServiceKeeps, DeleteOldServiceKeeps
<1>9. CASE RemoveDeviceFilter(p) \/ DevicesRemoved(p) \/ RemoveClassFilter(p)
  <2>1. InConsole(p) /\ UNCHANGED session
    BY <1>9, Zenon DEF RemoveDeviceFilter, DevicesRemoved, RemoveClassFilter, At
  <2>2. QED
    BY <1>0, <1>1, <1>2, <1>9, <2>1, RemoveDeviceFilterKeeps, DevicesDoneKeeps, RemoveClassFilterKeeps
<1>10. CASE InstallInf(p) \/ RemoveInf(p)
  <2>1. InConsole(p) /\ UNCHANGED session
    BY <1>10, Zenon DEF InstallInf, RemoveInf, At
  <2>2. QED
    BY <1>0, <1>1, <1>2, <1>10, <2>1, InstallInfKeeps, RemoveInfKeeps
<1>11. QED
  BY <1>3, <1>4, <1>5, <1>6, <1>7, <1>8, <1>9, <1>10 DEF Console

-----------------------------------------------------------------------------
(* Around the run.                                                         *)

\* A run that neither the step nor the registry has changed.
LEMMA RunSame ==
  ASSUME NEW q \in Programs, RunInv(q), job'[q] = job[q], outcome'[q] = outcome[q],
         InConsole(q) => InConsole(q)', UNCHANGED <<registry, devices>>
  PROVE RunInv(q)'
<1>1. Progress(q) => Progress(q)'
  <2>1. \A request : Asked(request)' = Asked(request) /\ AskedDevices(request)' = AskedDevices(request)
    BY DEF Asked, AskedDevices
  <2>2. LibusbDevices' = LibusbDevices
    BY DEF LibusbDevices, registry, devices
  <2>3. QED
    BY <2>1, <2>2 DEF Progress, RestartInv, Settled, FirstPass, StartedInv, InstallInv, RemoveInv,
       HasFilter, registry, devices, Asked, AskedDevices
<1>2. Done(q) => Done(q)'
  BY DEF Done, Clean, Settled, HasFilter, registry, devices, Asked, AskedDevices
<1>3. QED
  BY <1>1, <1>2 DEF RunInv

\* A run that is about to begin, or over, is in order.
LEMMA RunNew ==
  ASSUME NEW q \in Programs, NEW request, job'[q] = Job(request) \/ job'[q] = NoJob,
         outcome'[q] = NotRun
  PROVE RunInv(q)'
<1>1. /\ job'[q].step = "begin" /\ job'[q].failed = FALSE /\ job'[q].dirty = {}
      /\ job'[q].touched = {} /\ job'[q].stopped = {} /\ job'[q].forInf = FALSE
  <2> DEFINE Blank(j) == /\ j.step = "begin" /\ j.failed = FALSE /\ j.dirty = {}
                         /\ j.touched = {} /\ j.stopped = {} /\ j.forInf = FALSE
  <2>1. Blank(NoJob)
    BY DEF NoJob
  <2>2. Blank(Job(request))
    BY DEF NoJob, Job
  <2>3. QED
    BY <2>1, <2>2
<1>2. Progress(q)'
  <2>1. RestartInv(job[q])' /\ StartedInv(job[q])'
    BY <1>1 DEF RestartInv, Settled, FirstPass, StartedInv
  <2>2. InstallInv(job[q])' /\ RemoveInv(job[q])'
    BY <1>1 DEF InstallInv, RemoveInv, FirstPass
  <2>3. QED
    BY <1>1, <2>1, <2>2 DEF Progress
<1>3. Done(q)'
  BY DEF Done, Clean, NotRun
<1>4. QED
  BY <1>1, <1>2, <1>3 DEF RunInv

\* No step of the session but its end takes a program out of
\* usb_install_console.
LEMMA ProceedKeeps ==
  ASSUME NEW p \in Programs, SessionInv, Proceed(p)
  PROVE outcome' = outcome /\ (InConsole(p) => InConsole(p)')
<1>0. SessionTypeOK /\ StartInv(p) /\ ThreadInv(p) /\ window[p].messages \in Seq(Messages)
  BY DEF SessionInv, SessionTypeOK, Windows
<1>1. CASE TryLock(p) \/ AllocateContext(p) \/ FreeContext(p)
  BY <1>0, <1>1 DEF TryLock, AllocateContext, FreeContext, ThreadInv, InConsole
<1>2. CASE HandleStart(p)
  BY <1>0, <1>2 DEF HandleStart, Takes, InConsole, SessionTypeOK, ThreadInv
<1>3. CASE HandleStop(p) \/ HandleClose(p)
  BY <1>0, <1>3 DEF HandleStop, HandleClose, Takes, InConsole
<1>4. CASE LeaveWindow(p)
  BY <1>0, <1>4 DEF LeaveWindow, InConsole, ThreadInv
<1>5. QED
  BY <1>1, <1>2, <1>3, <1>4 DEF Proceed

\* The steps of the call around the run.
LEMMA CallKeeps ==
  ASSUME NEW p \in Programs, InstallerInv, Caller(p) \/ Around(p)
  PROVE RegistryInv' /\ JobsOK' /\ \A q \in Programs : RunInv(q)'
<1>0. /\ SessionInv /\ SessionTypeOK /\ ThreadInv(p) /\ RegistryInv /\ JobsOK
      /\ DOMAIN job = Programs /\ (\A q \in Programs : RunInv(q))
      /\ UNCHANGED <<registry, devices, oldService>>
  BY DEF InstallerInv, SessionInv, JobsOK, Caller, Around
<1>1. RegistryInv'
  BY <1>0 DEF RegistryInv, registry, devices
<1>2. ASSUME NEW q \in Programs, q # p, Step(p), job'[q] = job[q] PROVE RunInv(q)'
  <2>1. Same(q)
    BY <1>0, <1>2, OthersSame
  <2>2. outcome'[q] = outcome[q] /\ (InConsole(q) => InConsole(q)')
    BY <2>1 DEF Same, InConsole
  <2>3. QED
    BY <1>0, <1>2, <2>2, RunSame
<1>3. CASE /\ UNCHANGED job /\ Step(p) /\ outcome'[p] = outcome[p] /\ (InConsole(p) => InConsole(p)')
  <2>1. \A q \in Programs : RunInv(q)'
    BY <1>0, <1>2, <1>3, RunSame
  <2>2. QED
    BY <1>0, <1>1, <1>3, <2>1 DEF JobsOK
<1>4. ASSUME NEW j, job' = [job EXCEPT ![p] = j], NEW request \in Requests, j = NoJob \/ j = Job(request),
             Step(p), outcome'[p] = NotRun
      PROVE RegistryInv' /\ JobsOK' /\ \A q \in Programs : RunInv(q)'
  <2>1. DOMAIN job' = Programs /\ job'[p] = j /\ \A q \in Programs \ {p} : job'[q] = job[q]
    BY <1>0, <1>4
  <2>2. JobsOK'
    BY <1>0, <1>4, <2>1, NewJob DEF JobsOK
  <2>3. RunInv(p)'
    BY <1>4, <2>1, RunNew
  <2>4. QED
    BY <1>1, <1>2, <1>4, <2>1, <2>2, <2>3
<1>5. NoRequest \in Requests
  BY DEF Requests
<1>6. CASE (DestroyLock(p) \/ Crash(p)) /\ job' = [job EXCEPT ![p] = NoJob]
  <2>1. Step(p) /\ outcome'[p] = NotRun
    BY <1>0, <1>6 DEF Step, DestroyLock, Crash, SessionTypeOK
  <2>2. QED
    BY <1>4, <1>5, <1>6, <2>1
<1>7. CASE \E line \in CommandLines[p] : ParseArguments(p) /\ job' = [job EXCEPT ![p] = Job(Parsed(line))]
  <2>1. PICK line \in CommandLines[p] : ParseArguments(p) /\ job' = [job EXCEPT ![p] = Job(Parsed(line))]
    BY <1>7
  <2>2. Parsed(line) \in Requests
    BY DEF Requests
  <2>3. Step(p) /\ outcome'[p] = NotRun
    BY <1>0, <2>1 DEF Step, ParseArguments, ThreadInv
  <2>4. QED
    BY <1>4, <2>1, <2>2, <2>3
<1>8. CASE Proceed(p) /\ UNCHANGED job
  BY <1>0, <1>3, <1>8, ProceedKeeps DEF Step
<1>9. CASE (CreateLock(p) \/ UserCloses(p)) /\ UNCHANGED job
  <2>1. Step(p) /\ outcome'[p] = outcome[p] /\ (InConsole(p) => InConsole(p)')
    BY <1>0, <1>9 DEF Step, CreateLock, UserCloses, InConsole, ThreadInv
  <2>2. QED
    BY <1>3, <1>9, <2>1
<1>10. QED
  <2>1. CASE Caller(p)
    BY <1>6, <1>7, <1>8, <2>1 DEF Caller
  <2>2. CASE Around(p)
    BY <1>6, <1>9, <2>2 DEF Around
  <2>3. QED
    BY <2>1, <2>2

\* A device comes.
LEMMA PlugKeeps ==
  ASSUME NEW d \in Devices, InstallerInv, Plug(d)
  PROVE RegistryInv' /\ JobsOK' /\ \A q \in Programs : RunInv(q)'
<1>0. /\ RegistryInv /\ JobsOK /\ (\A q \in Programs : RunInv(q))
      /\ UNCHANGED <<session, uppers, filters, disabled, stale, oldService, job>>
      /\ present' = present \union {d} /\ reinstall' = reinstall \ {d}
      /\ service' = [service EXCEPT ![d] = IF d \in reinstall THEN Driver ELSE @]
  BY DEF InstallerInv, Plug
<1>1. RegistryInv' /\ JobsOK'
  BY <1>0 DEF RegistryInv, JobsOK
<1>2. \A e \in Devices : service'[e] = Driver \/ service'[e] = service[e]
  BY <1>0 DEF RegistryInv
<1>3. LibusbDevices \subseteq LibusbDevices' /\ \A e \in Devices : HasFilter(e) => HasFilter(e)'
  BY <1>0, <1>2 DEF LibusbDevices, HasFilter, RegistryInv
<1>4. ASSUME NEW q \in Programs PROVE RunInv(q)'
  <2>0. JobOK(job[q]) /\ RunInv(q) /\ job'[q] = job[q]
    BY <1>0 DEF JobsOK
  <2>1. StartedInv(job[q]) => StartedInv(job[q])'
    BY <1>0, <1>2, <1>3, <2>0 DEF StartedInv, JobOK
  <2>2. InstallInv(job[q]) => InstallInv(job[q])'
    BY <1>0, <1>3, <2>0 DEF InstallInv, FirstPass, Asked
  <2>3. /\ RestartInv(job[q]) => RestartInv(job[q])'
        /\ RemoveInv(job[q]) => RemoveInv(job[q])'
    BY <1>0, <2>0 DEF RestartInv, RemoveInv, Settled, FirstPass, AskedDevices, Asked
  <2>4. Progress(q) => Progress(q)'
    BY <2>0, <2>1, <2>2, <2>3 DEF Progress
  <2>5. Done(q) => Done(q)'
    BY <1>0, <1>3, <2>0 DEF Done, Clean, Settled, AskedDevices, Asked, session
  <2>6. QED
    BY <1>0, <2>0, <2>4, <2>5 DEF RunInv, InConsole, session
<1>5. QED
  BY <1>1, <1>4

\* A device goes, and is no longer one that the run has to restart or to start.
LEMMA UnplugKeeps ==
  ASSUME NEW d \in Devices, InstallerInv, Unplug(d)
  PROVE RegistryInv' /\ JobsOK' /\ \A q \in Programs : RunInv(q)'
<1>0. /\ RegistryInv /\ JobsOK /\ (\A q \in Programs : RunInv(q))
      /\ UNCHANGED <<session, uppers, filters, service, reinstall, disabled, oldService>>
      /\ present' = present \ {d} /\ stale' = stale \ {d}
      /\ job' = [p \in Programs |-> [job[p] EXCEPT !.dirty = @ \ {d}, !.away = @ \union {d}]]
  BY DEF InstallerInv, Unplug, registry
<1>1. RegistryInv'
  BY <1>0 DEF RegistryInv
<1>2. ASSUME NEW q \in Programs
      PROVE /\ DOMAIN job'[q] = Fields /\ job'[q].dirty = job[q].dirty \ {d}
            /\ job'[q].away = job[q].away \union {d}
            /\ \A f \in Fields \ {"dirty", "away"} : job'[q][f] = job[q][f]
  <2>1. JobOK(job[q])
    BY <1>0 DEF JobsOK
  <2>2. job'[q] = [job[q] EXCEPT !.dirty = @ \ {d}, !.away = @ \union {d}]
    BY <1>0
  <2>3. QED
    BY <2>1, <2>2 DEF JobOK, Fields
<1>3. JobsOK'
  <2>1. ASSUME NEW q \in Programs PROVE JobOK(job'[q])
    <3>1. JobOK(job[q])
      BY <1>0 DEF JobsOK
    <3>2. QED
      BY <1>2, <3>1 DEF JobOK, Fields
  <2>2. QED
    BY <1>0, <2>1 DEF JobsOK
<1>4. ASSUME NEW q \in Programs PROVE RunInv(q)'
  <2>0. /\ RunInv(q) /\ job'[q].request = job[q].request /\ job'[q].step = job[q].step
        /\ job'[q].todo = job[q].todo /\ job'[q].classes = job[q].classes
        /\ job'[q].restart = job[q].restart /\ job'[q].forInf = job[q].forInf
        /\ job'[q].failed = job[q].failed /\ job'[q].touched = job[q].touched
        /\ job'[q].stopped = job[q].stopped
        /\ job'[q].dirty = job[q].dirty \ {d} /\ job'[q].away = job[q].away \union {d}
    BY <1>0, <1>2 DEF Fields
  <2>1. StartedInv(job[q]) => StartedInv(job[q])'
    BY <1>0, <2>0 DEF StartedInv, LibusbDevices
  <2>2. InstallInv(job[q]) => InstallInv(job[q])'
    BY <1>0, <2>0 DEF InstallInv, FirstPass, HasFilter, Asked
  <2>3. RemoveInv(job[q]) => RemoveInv(job[q])'
    BY <1>0, <2>0 DEF RemoveInv, FirstPass, AskedDevices, Asked
  <2>4. RestartInv(job[q]) => RestartInv(job[q])'
    BY <2>0 DEF RestartInv, Settled, FirstPass
  <2>5. Progress(q) => Progress(q)'
    BY <2>0, <2>1, <2>2, <2>3, <2>4 DEF Progress
  <2>6. Done(q) => Done(q)'
    BY <1>0, <2>0 DEF Done, Clean, Settled, HasFilter, AskedDevices, Asked, session
  <2>7. QED
    BY <1>0, <2>0, <2>5, <2>6 DEF RunInv, InConsole, session
<1>5. QED
  BY <1>1, <1>3, <1>4

\* The invariant holds at the start ...
LEMMA InstallerInit == Init => InstallerInv
<1> SUFFICES ASSUME Init PROVE InstallerInv
  OBVIOUS
<1>1. SessionInv /\ RegistryInv /\ JobsOK
  BY SessionInitInv, InitTypes DEF Init
<1>2. ASSUME NEW q \in Programs PROVE RunInv(q)
  <2>1. job[q] = NoJob /\ outcome[q] = NotRun
    BY DEF Init, SessionInit
  <2>2. QED
    BY <2>1 DEF NoJob, RunInv, Progress, RestartInv, Settled, FirstPass, StartedInv, InstallInv,
       RemoveInv, Done, Clean, NotRun, NoRequest
<1>3. QED
  BY <1>1, <1>2 DEF InstallerInv

\* ... and is inductive.
LEMMA InstallerStepInv == InstallerInv /\ [Next]_vars => InstallerInv'
<1> SUFFICES ASSUME InstallerInv, [Next]_vars PROVE InstallerInv'
  OBVIOUS
<1>1. SessionInv'
  BY SessionStep, InstallerStep DEF InstallerInv
<1>2. CASE \E p \in Programs : Caller(p) \/ Around(p) \/ Console(p) \/ QueryFails(p)
  BY <1>1, <1>2, CallKeeps, ConsoleKeeps DEF InstallerInv
<1>3. CASE \E d \in Devices : Plug(d) \/ Unplug(d)
  BY <1>1, <1>3, PlugKeeps, UnplugKeeps DEF InstallerInv
<1>4. CASE ServiceStops \/ UNCHANGED vars
  <2>0. /\ UNCHANGED <<session, registry, devices, job>> /\ oldService' \in OldServices
        /\ RegistryInv /\ JobsOK /\ \A q \in Programs : RunInv(q)
    BY <1>4 DEF ServiceStops, vars, InstallerInv, RegistryInv, OldServices
  <2>1. RegistryInv' /\ JobsOK'
    BY <2>0 DEF RegistryInv, JobsOK, registry, devices
  <2>2. ASSUME NEW q \in Programs PROVE RunInv(q)'
    BY <2>0, RunSame DEF InConsole, session
  <2>3. QED
    BY <1>1, <2>1, <2>2 DEF InstallerInv
<1>5. QED
  BY <1>2, <1>3, <1>4 DEF Next

\* Types of the whole: every list stays one that the buffer holds or is just
\* too long for it, and every run is at a step there is.
THEOREM InstallerTypes == Spec => []TypeOK
<1>1. InstallerInv => TypeOK
  <2> SUFFICES ASSUME InstallerInv PROVE TypeOK
    OBVIOUS
  <2>1. RegistryInv /\ JobsOK /\ SessionTypeOK
    BY DEF InstallerInv, SessionInv
  <2>2. \A c \in Classes : Len(uppers[c]) <= Fits + 1
    BY <2>1 DEF RegistryInv, Lists
  <2>3. \A d \in Devices, w \in Places : Len(filters[d][w]) <= Fits + 1
    BY <2>1 DEF RegistryInv, Lists
  <2>4. \A p \in Programs : job[p].step \in Steps
    BY <2>1 DEF JobsOK, JobOK
  <2>5. QED
    BY <2>1, <2>2, <2>3, <2>4 DEF TypeOK, RegistryTypeOK, RegistryInv
<1>2. QED
  BY <1>1, InstallerInit, InstallerStepInv, PTL DEF Spec

\* A run that returns 0 without a failed request has done what the command
\* line asked for, whatever earlier runs have left, whoever else wants to
\* install, and whatever devices come and go; and no list has the driver twice.
THEOREM InstallCorrect == Spec => []AsAsked
<1>1. InstallerInv => AsAsked
  <2> SUFFICES ASSUME InstallerInv PROVE AsAsked
    OBVIOUS
  <2>1. RegistryInv /\ \A p \in Programs : Done(p)
    BY DEF InstallerInv, RunInv
  <2>2. \A c \in Classes : Once(uppers[c])
    BY <2>1 DEF RegistryInv, Lists
  <2>3. \A d \in Devices, w \in Places : Once(filters[d][w])
    BY <2>1 DEF RegistryInv, Lists
  <2>4. QED
    BY <2>1, <2>2, <2>3 DEF AsAsked, Done, AskedDevices
<1>2. QED
  BY <1>1, InstallerInit, InstallerStepInv, PTL DEF Spec

\* Such a run leaves no device running with other filters than the registry
\* has because of what it has changed, and none disabled that it has stopped.
THEOREM InstallRestarts == Spec => []LeftRunning
<1>1. InstallerInv => LeftRunning
  BY DEF InstallerInv, RunInv, LeftRunning, Done, Settled
<1>2. QED
  BY <1>1, InstallerInit, InstallerStepInv, PTL DEF Spec

-----------------------------------------------------------------------------
(* What other software has in the lists stays there.                       *)

BlindNow(item) == \E p \in Programs : item \in job'[p].blind

OthersStay ==
  /\ \A c \in Classes : Others(uppers'[c]) = Others(uppers[c]) \/ BlindNow(<<"class", c>>)
  /\ \A d \in Devices : service'[d] # NoService =>
       /\ Others(filters'[d].lower) = Others(filters[d].lower)
       /\ Others(filters'[d].upper) = Others(filters[d].upper) \/ BlindNow(<<"device", d>>)

\* The insertion loops keep it in a list that they have read and that has room,
\* the removal loops always.
LEMMA InsertDeviceStays ==
  ASSUME NEW p \in Programs, RegistryInv, JobsOK, InsertDeviceFilter(p)
  PROVE OthersStay
<1>0. JobOK(job[p]) /\ job[p].todo \subseteq Devices /\ UNCHANGED <<uppers, service>>
  BY DEF JobsOK, JobOK, InsertDeviceFilter, At
<1>1. PICK d \in job[p].todo : InsertedDevice(p, d)
  BY InsertDeviceEffect
<1>2. CASE DeviceLeft(p, d)
  BY <1>0, <1>2 DEF DeviceLeft, OthersStay
<1>3. CASE DeviceSet(p, d)
  <2>1. PICK buffer \in Reads(filters[d].upper) : \E new \in Inserted(buffer) :
          /\ ~HasDriver(buffer) /\ filters' = [filters EXCEPT ![d].upper = new]
          /\ Blind(filters[d].upper, buffer) => <<"device", d>> \in job'[p].blind
    BY <1>3 DEF DeviceSet
  <2>2. PICK new \in Inserted(buffer) :
          /\ ~HasDriver(buffer) /\ filters' = [filters EXCEPT ![d].upper = new]
          /\ Blind(filters[d].upper, buffer) => <<"device", d>> \in job'[p].blind
    BY <2>1
  <2>3. d \in Devices /\ filters[d].upper \in Lists
    BY <1>0 DEF RegistryInv, Places
  <2>4. Others(new) = Others(filters[d].upper) \/ BlindNow(<<"device", d>>)
    BY <2>2, <2>3, InsertedDriver DEF Insertion, BlindNow
  <2>5. /\ \A e \in Devices \ {d} : filters'[e] = filters[e]
        /\ filters'[d].upper = new /\ filters'[d].lower = filters[d].lower
    BY <2>2, <2>3 DEF RegistryInv, Places
  <2>6. QED
    BY <1>0, <2>4, <2>5 DEF OthersStay
<1>4. QED
  BY <1>1, <1>2, <1>3 DEF InsertedDevice

LEMMA InsertClassStays ==
  ASSUME NEW p \in Programs, RegistryInv, JobsOK, InsertClassFilter(p)
  PROVE OthersStay
<1>0. JobOK(job[p]) /\ job[p].todo \subseteq Classes /\ UNCHANGED <<filters, service>>
  BY DEF JobsOK, JobOK, InsertClassFilter, At
<1>1. PICK c \in job[p].todo : UNCHANGED uppers \/ ClassInserted(p, c)
  BY InsertClassEffect
<1>2. CASE UNCHANGED uppers
  BY <1>0, <1>2 DEF OthersStay
<1>3. CASE ClassInserted(p, c)
  <2>1. PICK buffer \in Reads(uppers[c]) : \E new \in Inserted(buffer) : \E j :
          /\ ~HasDriver(buffer) /\ ClassWritten(p, c, new, j)
          /\ Blind(uppers[c], buffer) => <<"class", c>> \in j[p].blind
    BY <1>3 DEF ClassInserted
  <2>2. PICK new \in Inserted(buffer) : \E j :
          /\ ~HasDriver(buffer) /\ ClassWritten(p, c, new, j)
          /\ Blind(uppers[c], buffer) => <<"class", c>> \in j[p].blind
    BY <2>1
  <2>3. uppers'[c] = new /\ \A b \in Classes \ {c} : uppers'[b] = uppers[b]
    BY <2>2 DEF ClassWritten
  <2>4. Blind(uppers[c], buffer) => <<"class", c>> \in job'[p].blind
    BY <2>2 DEF ClassWritten
  <2>5. uppers[c] \in Lists
    BY <1>0 DEF RegistryInv
  <2>6. Others(new) = Others(uppers[c]) \/ BlindNow(<<"class", c>>)
    BY <2>2, <2>4, <2>5, InsertedDriver DEF Insertion, BlindNow
  <2>7. QED
    BY <1>0, <2>3, <2>6 DEF OthersStay
<1>4. QED
  BY <1>1, <1>2, <1>3

LEMMA RemovalStays ==
  ASSUME NEW p \in Programs, RegistryInv, JobsOK, RemoveDeviceFilter(p) \/ RemoveClassFilter(p)
  PROVE OthersStay
<1>1. JobOK(job[p]) /\ (\A list \in Lists : Others(RemoveDriver(list)) = Others(list))
  BY RemovedDriver DEF JobsOK
<1>2. CASE RemoveDeviceFilter(p)
  <2>1. PICK d \in Devices, w \in Places :
          UNCHANGED filters \/ filters' = [filters EXCEPT ![d][w] = RemoveDriver(@)]
    BY <1>2, RemoveDeviceEffect
  <2>2. UNCHANGED uppers
    BY <1>2 DEF RemoveDeviceFilter
  <2>3. \A e \in Devices, v \in Places : filters'[e][v] \in {filters[e][v], RemoveDriver(filters[e][v])}
    BY <2>1 DEF RegistryInv
  <2>4. \A e \in Devices, v \in Places : Others(filters'[e][v]) = Others(filters[e][v])
    BY <1>1, <2>3 DEF RegistryInv
  <2>5. QED
    BY <2>2, <2>4 DEF OthersStay, Places
<1>3. CASE RemoveClassFilter(p)
  <2>1. PICK c \in job[p].todo : UNCHANGED uppers \/ uppers' = [uppers EXCEPT ![c] = RemoveDriver(uppers[c])]
    BY <1>3, Zenon DEF RemoveClassFilter, SetClassFilters
  <2>2. UNCHANGED filters
    BY <1>3 DEF RemoveClassFilter
  <2>3. \A b \in Classes : uppers'[b] \in {uppers[b], RemoveDriver(uppers[b])}
    BY <2>1 DEF RegistryInv
  <2>4. \A b \in Classes : Others(uppers'[b]) = Others(uppers[b])
    BY <1>1, <2>3 DEF RegistryInv
  <2>5. QED
    BY <2>2, <2>4 DEF OthersStay
<1>4. QED
  BY <1>2, <1>3

\* So does every other step of the run, but for a device that it uninstalls.
LEMMA ConsoleStays ==
  ASSUME NEW p \in Programs, InstallerInv, Console(p) \/ QueryFails(p)
  PROVE OthersStay
<1>0. RegistryInv /\ JobsOK
  BY DEF InstallerInv
<1>1. CASE UNCHANGED <<uppers, filters>>
  BY <1>1 DEF OthersStay
<1>2. CASE Begin(p) \/ CreateService(p) \/ InfsDone(p) \/ InfFails(p)
  BY <1>1, <1>2, Zenon DEF Begin, CreateService, InfsDone, InfFails, registry
<1>3. CASE StopDevice(p) \/ DevicesStopped(p) \/ StartDevice(p) \/ DevicesStarted(p)
  BY <1>1, <1>3, Zenon DEF StopDevice, DevicesStopped, StartDevice, DevicesStarted, registry
<1>4. CASE DevicesInserted(p) \/ ClassesDone(p) \/ DevicesRemoved(p) \/ InstallInf(p)
  BY <1>1, <1>4, Zenon DEF DevicesInserted, ClassesDone, DevicesRemoved, InstallInf, registry
<1>5. CASE RestartHubs(p) \/ StopOldService(p) \/ Poll(p) \/ DeleteOldService(p) \/ QueryFails(p)
  BY <1>1, <1>5, Zenon DEF RestartHubs, StopOldService, Poll, DeleteOldService, QueryFails, registry
<1>6. CASE InsertDeviceFilter(p)
  BY <1>0, <1>6, InsertDeviceStays
<1>7. CASE InsertClassFilter(p)
  BY <1>0, <1>7, InsertClassStays
<1>8. CASE RemoveDeviceFilter(p) \/ RemoveClassFilter(p)
  BY <1>0, <1>8, RemovalStays
<1>9. CASE RemoveInf(p)
  <2>1. UNCHANGED uppers
    BY <1>9, Zenon DEF RemoveInf
  <2>2. PICK back, gone : InfRemoved(p, Head(job[p].infs), back, gone \ back)
    BY <1>9, RemoveInfEffect
  <2>3. \A d \in Devices : service'[d] = NoService \/ filters'[d] = filters[d]
    BY <2>2 DEF InfRemoved
  <2>4. QED
    BY <2>1, <2>3 DEF OthersStay
<1>10. QED
  BY <1>2, <1>3, <1>4, <1>5, <1>6, <1>7, <1>8, <1>9 DEF Console

\* No step of any program disturbs what other software has in a list, whether
\* the driver is inserted or removed, another request fails, or the program is
\* killed, but for two: an insertion that writes the list without having read
\* it, or past the end of the buffer, and the uninstalling of a device, which
\* loses its lists.
THEOREM InstallHarmless == Spec => OthersKept
<1>1. InstallerInv /\ [Next]_vars => [OthersStay]_registry
  <2> SUFFICES ASSUME InstallerInv, Next, ~UNCHANGED registry PROVE OthersStay
    BY DEF vars, registry
  <2>1. ASSUME NEW p \in Programs, Console(p) \/ QueryFails(p) PROVE OthersStay
    BY <2>1, ConsoleStays
  <2>2. CASE UNCHANGED <<uppers, filters>>
    BY <2>2 DEF OthersStay
  <2>3. ASSUME NEW p \in Programs, Caller(p) \/ Around(p) PROVE UNCHANGED <<uppers, filters>>
    BY <2>3, Zenon DEF Caller, Around, registry
  <2>4. ASSUME NEW d \in Devices, Plug(d) \/ Unplug(d) PROVE UNCHANGED <<uppers, filters>>
    BY <2>4, Zenon DEF Plug, Unplug, registry
  <2>5. ServiceStops => UNCHANGED <<uppers, filters>>
    BY DEF ServiceStops, registry
  <2>6. QED
    BY <2>1, <2>2, <2>3, <2>4, <2>5 DEF Next
<1>2. QED
  BY <1>1, InstallerInit, InstallerStepInv, PTL DEF Spec, OthersKept, OthersStay, BlindNow
=============================================================================
