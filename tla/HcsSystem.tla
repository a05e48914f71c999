----------------------------- MODULE HcsSystem -----------------------------
(***************************************************************************)
(* Handles of the Host Compute Service (internal/hcs/v2): compute systems  *)
(* and their processes, the callback HCS makes on them, the goroutines     *)
(* that wait for an exit; and the utility VM (internal/uvm) on top of a    *)
(* system: its creation, Start, Wait and Close, with the goroutine that    *)
(* processes the output of the VM.                                         *)
(*                                                                         *)
(* The handles Kill opens for itself are gone when it returns: only what   *)
(* it does to the handles of others is modelled.  A VM is closed by one    *)
(* goroutine at a time.                                                    *)
(***************************************************************************)
EXTENDS FiniteSets, Naturals

CONSTANTS
    Systems, Procs,  \* handles
    SystemOf,        \* process handle -> the handle it was created through
    Outputs,         \* how the output of a VM is processed: "none", "linux", "windows"
    Callers,         \* goroutines that pause, resume and save
    OpKinds,         \* which of the three they do
    MaxOps,          \* how often each of them does
    HcsFaults,       \* "create", "properties", "register", "open", "files", "lost",
                     \* "terminate", "connect" and "disconnect"
    MaxFailing       \* how many of these fail in one behaviour

Handles == Systems \cup Procs
Nobody == "nobody"

ASSUME HcsAssumption ==
    /\ SystemOf \in [Procs -> Systems] /\ Systems \cap Procs = {}
    /\ Outputs \subseteq {"none", "linux", "windows"}
    /\ OpKinds \subseteq {"Pause", "Resume", "Save"}
    /\ MaxOps \in Nat /\ MaxFailing \in Nat
    /\ Nobody \notin Systems \cup Callers /\ Systems \cap Callers = {}

VARIABLES
    handle,    \* is the handle open?
    callback,  \* is its callback registered?
    notify,    \* handle -> what the callback signalled: "none", "exit", "abort"
    waitBlock, \* handle -> "blocked", or how Wait returned
    background,\* handle -> where waitBackground is
    life,      \* handle -> where its owner is
    output,    \* VM -> its outputListener, outputProcessingDone and connection
    waiter,    \* VM -> where a goroutine in UtilityVM.Wait is
    op,        \* caller -> the operation it waits for, and how many it did
    kill,      \* process -> where a Kill of it is
    unblock,   \* process -> a signal found it gone: unblock its waiters
    service,   \* external: the state of HCS
    guest,     \* external: system or process -> what it is doing
    refused,   \* external: the systems HCS refused to terminate
    pending,   \* external: system -> the operation HCS is carrying out
    notes,     \* external: handle -> notifications HCS has still to make
    failing    \* the calls that may fail in this behaviour

handleVars == <<handle, callback, notify, waitBlock, background, life>>
vmVars == <<output, waiter>>
callVars == <<op, kill, unblock>>
externalVars == <<service, guest, refused, pending, notes>>
hcsVars == <<handleVars, vmVars, callVars, externalVars>>

HcsFails(call) == IF call \in failing THEN BOOLEAN ELSE {FALSE}
NoCall == [kind |-> "none", system |-> Nobody, done |-> 0]
NoOp == [by |-> Nobody, kind |-> "none"]
NoOutput == [kind |-> "none", listener |-> FALSE, done |-> FALSE, conn |-> "none"]

\* A behaviour has processes or callers, to keep their product small.
HcsInit ==
    /\ handle = [h \in Handles |-> FALSE]
    /\ callback = [h \in Handles |-> FALSE]
    /\ notify = [h \in Handles |-> "none"]
    /\ waitBlock = [h \in Handles |-> "blocked"]
    /\ background = [h \in Handles |-> "none"]
    /\ \E processes \in BOOLEAN :
          /\ life = [h \in Handles |-> IF h \in Procs /\ ~processes THEN "ended" ELSE "new"]
          /\ op = [c \in Callers |-> [NoCall EXCEPT !.done = IF processes THEN MaxOps ELSE 0]]
    /\ output = [s \in Systems |-> NoOutput]
    /\ waiter = [s \in Systems |-> "none"]
    /\ kill = [p \in Procs |-> "idle"]
    /\ unblock = [p \in Procs |-> FALSE]
    /\ service = "up"
    /\ guest = [h \in Handles |-> "absent"]
    /\ refused = {}
    /\ pending = [s \in Systems |-> NoOp]
    /\ notes = [h \in Handles |-> {}]
    /\ failing \in {f \in SUBSET HcsFaults : Cardinality(f) <= MaxFailing}

-----------------------------------------------------------------------------
(* HCS: it carries out one operation on a system at a time, notifies every  *)
(* registered callback of an exit, once, and forgets what it has not        *)
(* delivered when a handle is closed.  A system that was not started ends   *)
(* only if it is told to.                                                   *)

Alive(h) == guest[h] \in {"created", "running", "paused"}

\* The state an operation is accepted in, and the state it leads to.
Before(kind) == CASE kind = "Start" -> "created"
                  [] kind = "Pause" -> "running"
                  [] kind \in {"Resume", "Save"} -> "paused"
After(kind) == IF kind \in {"Start", "Resume"} THEN "running" ELSE "paused"

Accepts(s, kind) == service = "up" /\ guest[s] = Before(kind) /\ pending[s] = NoOp

Told(h, type) == [notes EXCEPT ![h] = IF callback[h] THEN @ \cup {type} ELSE @]

Completes(s) ==
    /\ service = "up" /\ pending[s] # NoOp /\ Alive(s)
    /\ guest' = [guest EXCEPT ![s] = After(pending[s].kind)]
    /\ pending' = [pending EXCEPT ![s] = NoOp]
    /\ UNCHANGED <<handleVars, vmVars, callVars, service, refused, notes>>

\* A system takes its processes with it.  HCS may lose track of the exit of a
\* process.  Nobody hears of an exit after the service has gone.
Exits(h) ==
    /\ service = "up"
    /\ guest[h] \in {"running", "paused", "ending"}
    /\ h \in Systems => \A p \in Procs : SystemOf[p] = h => guest[p] \in {"absent", "exited"}
    /\ guest' = [guest EXCEPT ![h] = "exited"]
    /\ pending' = IF h \in Systems THEN [pending EXCEPT ![h] = NoOp] ELSE pending
    /\ \E lost \in IF h \in Procs THEN HcsFails("lost") ELSE {FALSE} :
          notes' = IF lost THEN notes ELSE Told(h, "Exited")
    /\ UNCHANGED <<handleVars, vmVars, callVars, service, refused>>

\* The service goes away.
Disconnects ==
    /\ "disconnect" \in failing /\ service = "up"
    /\ service' = "down"
    /\ pending' = [s \in Systems |-> NoOp]
    /\ notes' = [h \in Handles |-> IF callback[h] THEN notes[h] \cup {"Disconnect"} ELSE notes[h]]
    /\ UNCHANGED <<handleVars, vmVars, callVars, guest, refused>>

-----------------------------------------------------------------------------
(* Callbacks and waits.                                                     *)

\* Mutant: the end of the service reads like an exit.
DisconnectIsExit(type) == "exit"
\* notificationHandler: an exit, and the end of the service as an abort.
SignalOf(type) == IF type = "Exited" THEN "exit" ELSE "abort"

\* signalExit and signalAbort: the first signal wins.
NotificationHandler(h, type) ==
    /\ type \in notes[h]
    /\ notes' = [notes EXCEPT ![h] = @ \ {type}]
    /\ notify' = [notify EXCEPT ![h] = IF @ = "none" THEN SignalOf(type) ELSE @]
    /\ UNCHANGED <<handle, callback, waitBlock, background, life, vmVars, callVars,
                   service, guest, refused, pending>>

\* closedWaitOnce.
Unblocked(h, how) == [waitBlock EXCEPT ![h] = IF @ = "blocked" THEN how ELSE @]
Stopped(h) == waitBlock[h] # "blocked"

\* waitBackground of a system and of a process: Close released the waiters, or
\* a signal came, of an exit with its status or of an abort.
WaitBackground(h) ==
    /\ background[h] = "waiting"
    /\ \/ Stopped(h) /\ UNCHANGED waitBlock
       \/ notify[h] = "exit" /\ waitBlock' = Unblocked(h, "exited")
       \/ notify[h] = "abort" /\ waitBlock' = Unblocked(h, "failed")
    /\ background' = [background EXCEPT ![h] = "done"]
    /\ UNCHANGED <<handle, callback, notify, life, vmVars, callVars, externalVars>>

-----------------------------------------------------------------------------
(* handleLock.  An operation holds it to read until it is over, and Close   *)
(* to write.  A writer that waits keeps new readers out.                    *)

Closers(s) == {p \in Procs : SystemOf[p] = s /\ kill[p] = "locking"} \cup
              (IF life[s] = "locking" THEN {s} ELSE {})
Readers(s) == {c \in Callers : op[c].system = s} \cup
              (IF life[s] = "starting" THEN {s} ELSE {})
RLock(h) ==
    IF h \in Systems THEN Closers(h) = {} ELSE life[h] # "locking"
Lock(h) ==
    IF h \in Systems THEN Readers(h) = {} ELSE kill[h] \notin {"terminate", "locking"}

\* Close, once it has the lock: HCS closes the handle and with it the callback,
\* and the waiters are released.
Close(h) ==
    /\ Lock(h)
    /\ handle' = [handle EXCEPT ![h] = FALSE]
    /\ callback' = [callback EXCEPT ![h] = FALSE]
    /\ notes' = [notes EXCEPT ![h] = {}]
    /\ waitBlock' = IF handle[h] THEN Unblocked(h, "failed") ELSE waitBlock

\* System.Terminate: nothing is asked of HCS for a handle that is closed or
\* whose system is known to have stopped.  A system that is ending, or gone, is
\* no error; a request HCS refuses is one.
TerminateSystem(s) ==
    LET asked == handle[s] /\ ~Stopped(s) /\ service = "up" /\ Alive(s) IN
    \/ ~asked /\ UNCHANGED <<guest, refused>>
    \/ asked /\ guest' = [guest EXCEPT ![s] = "ending"] /\ UNCHANGED refused
    \/ asked /\ "terminate" \in failing /\ refused' = refused \cup {s} /\ UNCHANGED guest
TerminateFails(s) ==
    handle[s] /\ ~Stopped(s) /\ (service = "down" \/ (Alive(s) /\ guest'[s] = guest[s]))

-----------------------------------------------------------------------------
(* The utility VM: create, Start.                                           *)

\* CreateComputeSystem.  When it fails after HCS has made the system, it is
\* terminated and the handle closed.
CreateComputeSystem(s) ==
    /\ life[s] = "new" /\ service = "up"
    /\ \/ /\ "create" \in failing
          /\ life' = [life EXCEPT ![s] = "ended"]
          /\ UNCHANGED <<handle, callback, waitBlock, background, output, guest>>
       \/ /\ failing \cap {"create", "register", "properties"} # {}
          /\ life' = [life EXCEPT ![s] = "ended"]
          /\ \E unheard \in HcsFails("terminate") :
                guest' = [guest EXCEPT ![s] = IF unheard THEN "created" ELSE "ending"]
          /\ waitBlock' = Unblocked(s, "failed")
          /\ background' = [background EXCEPT ![s] =
                IF "properties" \in failing THEN "waiting" ELSE @]
          /\ UNCHANGED <<handle, callback, output>>
       \/ /\ life' = [life EXCEPT ![s] = "creating"]
          /\ handle' = [handle EXCEPT ![s] = TRUE]
          /\ callback' = [callback EXCEPT ![s] = TRUE]
          /\ guest' = [guest EXCEPT ![s] = "created"]
          /\ background' = [background EXCEPT ![s] = "waiting"]
          /\ \E k \in Outputs : output' = [output EXCEPT ![s] =
                [NoOutput EXCEPT !.kind = k, !.listener = (k # "none")]]
          /\ UNCHANGED waitBlock
    /\ UNCHANGED <<notify, waiter, callVars, service, refused, pending, notes>>

\* UtilityVM.create: a VM whose properties cannot be read is terminated, and
\* its exit waited for; its handle is not closed.
SystemCreated(s) ==
    /\ life[s] = "creating" /\ RLock(s)
    /\ \/ life' = [life EXCEPT ![s] = "created"] /\ UNCHANGED <<guest, refused>>
       \/ /\ "properties" \in failing
          /\ life' = [life EXCEPT ![s] = "abandoning"]
          /\ TerminateSystem(s)
    /\ UNCHANGED <<handle, callback, notify, waitBlock, background, vmVars, callVars,
                   service, pending, notes>>

Abandoned(s) ==
    /\ life[s] = "abandoning" /\ Stopped(s)
    /\ life' = [life EXCEPT ![s] = "ended"]
    /\ UNCHANGED <<handle, callback, notify, waitBlock, background, vmVars, callVars, externalVars>>

\* UtilityVM.Start up to the wait for System.Start.  A Linux VM is expected to
\* connect for its output before Start is over, a Windows VM at any time.
Start(s) ==
    /\ life[s] = "created" /\ RLock(s)
    /\ output' = [output EXCEPT ![s].conn = IF output[s].kind = "linux" THEN "accepting" ELSE @]
    /\ IF handle[s] /\ Accepts(s, "Start")
       THEN /\ pending' = [pending EXCEPT ![s] = [by |-> s, kind |-> "Start"]]
            /\ life' = [life EXCEPT ![s] = "starting"]
       ELSE /\ life' = [life EXCEPT ![s] = "failed"]
            /\ UNCHANGED pending
    /\ UNCHANGED <<handle, callback, notify, waitBlock, background, waiter, callVars,
                   service, guest, refused, notes>>

\* runOperation: the result is there, or its time is up and the operation is
\* cancelled, which HCS may no longer be able to.
Results(by, s) == IF pending[s].by = by THEN {}
                  ELSE IF guest[s] \in {"running", "paused"} THEN {TRUE}
                  ELSE IF guest[s] = "created" THEN {FALSE} ELSE BOOLEAN
TimesOut(by, s) ==
    /\ pending[s].by = by
    /\ \/ UNCHANGED pending
       \/ pending' = [pending EXCEPT ![s] = NoOp]

SystemStarted(s) ==
    /\ life[s] = "starting"
    /\ \/ /\ \E ok \in Results(s, s) :
                life' = [life EXCEPT ![s] = IF ok THEN "connecting" ELSE "failed"]
          /\ UNCHANGED pending
       \/ /\ TimesOut(s, s)
          /\ life' = [life EXCEPT ![s] = "failed"]
    /\ UNCHANGED <<handle, callback, notify, waitBlock, background, vmVars, callVars,
                   service, guest, refused, notes>>

\* accept of the output of a Linux VM: the VM connects and its output is
\* processed, or Start failed or ran out of time, or the VM exited.
AcceptOutput(s) ==
    /\ output[s].conn = "accepting"
    /\ \/ /\ guest[s] = "running"
          /\ output' = [output EXCEPT ![s].conn = "open", ![s].listener = FALSE]
       \/ output' = [output EXCEPT ![s].conn = "refused", ![s].listener = FALSE, ![s].done = TRUE]
    /\ UNCHANGED <<handleVars, waiter, callVars, externalVars>>

\* outputHandler returns.
OutputEnds(s) ==
    /\ output[s].conn = "open"
    /\ output' = [output EXCEPT ![s].conn = "closed", ![s].done = TRUE]
    /\ UNCHANGED <<handleVars, waiter, callVars, externalVars>>

\* The rest of Start, which connects to the guest.  If that fails the VM is
\* terminated and its exit waited for, and then closed by the caller of Start:
\* the same again.
Connected(s) ==
    /\ life[s] = "connecting" /\ output[s].conn # "accepting"
    /\ \/ /\ ~Stopped(s) /\ output[s].conn # "refused"
          /\ life' = [life EXCEPT ![s] = "running"]
       \/ /\ "connect" \in failing \/ Stopped(s) \/ output[s].conn = "refused"
          /\ life' = [life EXCEPT ![s] = "stop"]
    /\ UNCHANGED <<handle, callback, notify, waitBlock, background, vmVars, callVars, externalVars>>

\* Start fails once the goroutine that accepts the output has returned.
StartFailed(s) ==
    /\ life[s] = "failed" /\ output[s].conn # "accepting"
    /\ life' = [life EXCEPT ![s] = "stop"]
    /\ UNCHANGED <<handle, callback, notify, waitBlock, background, vmVars, callVars, externalVars>>

-----------------------------------------------------------------------------
(* The utility VM: Wait and Close.                                          *)

\* UtilityVM.WaitCtx: the exit of the system, then the end of its output.
OutputProcessed(s) == output[s].kind = "none" \/ output[s].done

Wait(s) ==
    /\ life[s] = "running" /\ waiter[s] = "none"
    /\ waiter' = [waiter EXCEPT ![s] = "waiting"]
    /\ UNCHANGED <<handleVars, output, callVars, externalVars>>

WaitReturns(s) ==
    /\ waiter[s] = "waiting" /\ Stopped(s) /\ OutputProcessed(s)
    /\ waiter' = [waiter EXCEPT ![s] = "returned"]
    /\ UNCHANGED <<handleVars, output, callVars, externalVars>>

\* UtilityVM.CloseCtx: terminate the system and wait for it; close the listener
\* if it is there, wait for the output, and close the handle.
CloseVM(s) ==
    /\ life[s] \in {"created", "running"}
    /\ life' = [life EXCEPT ![s] = "stop"]
    /\ UNCHANGED <<handle, callback, notify, waitBlock, background, vmVars, callVars, externalVars>>

StopVM(s) ==
    /\ life[s] = "stop" /\ RLock(s)
    /\ TerminateSystem(s)
    /\ life' = [life EXCEPT ![s] = "waiting"]
    /\ UNCHANGED <<handle, callback, notify, waitBlock, background, vmVars, callVars,
                   service, pending, notes>>

\* Mutant: the channel is left to a goroutine that need not exist.
LeavesOutput(s) ==
    /\ life[s] = "waiting" /\ Stopped(s)
    /\ life' = [life EXCEPT ![s] = "output"]
    /\ output' = [output EXCEPT ![s].listener = FALSE]
    /\ UNCHANGED <<handle, callback, notify, waitBlock, background, waiter, callVars, externalVars>>

WaitVM(s) ==
    /\ life[s] = "waiting" /\ Stopped(s)
    /\ life' = [life EXCEPT ![s] = "output"]
    /\ output' = [output EXCEPT ![s].listener = FALSE, ![s].done = @ \/ output[s].listener]
    /\ UNCHANGED <<handle, callback, notify, waitBlock, background, waiter, callVars, externalVars>>

WaitOutput(s) ==
    /\ life[s] = "output" /\ OutputProcessed(s)
    /\ life' = [life EXCEPT ![s] = "locking"]
    /\ UNCHANGED <<handle, callback, notify, waitBlock, background, vmVars, callVars, externalVars>>

CloseHandle(h) ==
    /\ life[h] = "locking"
    /\ Close(h)
    /\ life' = [life EXCEPT ![h] = "ended"]
    /\ UNCHANGED <<notify, background, vmVars, callVars, service, guest, refused, pending>>

-----------------------------------------------------------------------------
(* Pause, Resume and Save.                                                  *)

Made(s) == life[s] \notin {"new", "creating", "abandoning"} /\ handle[s]

Operate(c, s, kind) ==
    /\ op[c].kind = "none" /\ op[c].done < MaxOps
    /\ Made(s) /\ RLock(s) /\ Accepts(s, kind)
    /\ op' = [op EXCEPT ![c] = [kind |-> kind, system |-> s, done |-> @.done + 1]]
    /\ pending' = [pending EXCEPT ![s] = [by |-> c, kind |-> kind]]
    /\ UNCHANGED <<handleVars, vmVars, kill, unblock, service, guest, refused, notes>>

Operated(c) ==
    LET s == op[c].system IN
    /\ op[c].kind # "none"
    /\ \/ pending[s].by # c /\ UNCHANGED pending
       \/ TimesOut(c, s)
    /\ op' = [op EXCEPT ![c] = [NoCall EXCEPT !.done = op[c].done]]
    /\ UNCHANGED <<handleVars, vmVars, kill, unblock, service, guest, refused, notes>>

-----------------------------------------------------------------------------
(* Processes.                                                               *)

\* createProcess, which holds the lock of the system.  The system is a container:
\* the processes of a VM are created through its guest connection.
CreateProcess(p) ==
    LET s == SystemOf[p] IN
    /\ life[p] = "new" /\ output[s].kind = "none"
    /\ Made(s) /\ RLock(s) /\ service = "up" /\ guest[s] = "running"
    /\ handle' = [handle EXCEPT ![p] = TRUE]
    /\ guest' = [guest EXCEPT ![p] = "running"]
    /\ life' = [life EXCEPT ![p] = "creating"]
    /\ UNCHANGED <<callback, notify, waitBlock, background, vmVars, callVars, service,
                   refused, pending, notes>>

\* The rest of CreateProcess: the callback is registered when the process may
\* have ended.  A handle whose pipes or whose callback fail is closed.
ProcessCreated(p) ==
    /\ life[p] = "creating"
    /\ \/ /\ life' = [life EXCEPT ![p] = "running"]
          /\ callback' = [callback EXCEPT ![p] = TRUE]
          /\ background' = [background EXCEPT ![p] = "waiting"]
       \/ /\ failing \cap {"register", "files"} # {}
          /\ life' = [life EXCEPT ![p] = "locking"]
          /\ UNCHANGED <<callback, background>>
    /\ UNCHANGED <<handle, notify, waitBlock, vmVars, callVars, externalVars>>

\* Signal: a process that is gone while its waiters are blocked has them
\* unblocked a second later.
Signal(p) ==
    /\ life[p] # "creating" /\ RLock(p) /\ handle[p] /\ guest[p] = "exited" /\ ~Stopped(p)
    /\ ~unblock[p]
    /\ unblock' = [unblock EXCEPT ![p] = TRUE]
    /\ UNCHANGED <<handleVars, vmVars, op, kill, externalVars>>

ForceUnblock(p) ==
    /\ unblock[p]
    /\ unblock' = [unblock EXCEPT ![p] = FALSE]
    /\ waitBlock' = Unblocked(p, "failed")
    /\ UNCHANGED <<handle, callback, notify, background, life, vmVars, op, kill, externalVars>>

\* Kill, once per process: through handles of its own, which end the process;
\* if the system cannot be opened it is terminated and its handle closed.
KillProcess(p) ==
    /\ kill[p] = "idle" /\ life[p] = "running" /\ RLock(p) /\ handle[p] /\ ~Stopped(p)
    /\ \/ /\ service = "up"
          /\ guest' = [guest EXCEPT ![p] = IF Alive(p) THEN "ending" ELSE @]
          /\ kill' = [kill EXCEPT ![p] = "returned"]
       \/ /\ service = "down" \/ failing \cap {"open", "register", "properties"} # {}
          /\ kill' = [kill EXCEPT ![p] = "terminate"]
          /\ UNCHANGED guest
    /\ UNCHANGED <<handleVars, vmVars, op, unblock, service, refused, pending, notes>>

KillTerminates(p) ==
    LET s == SystemOf[p] IN
    /\ kill[p] = "terminate" /\ RLock(s)
    /\ TerminateSystem(s)
    /\ kill' = [kill EXCEPT ![p] = IF TerminateFails(s) THEN "returned" ELSE "locking"]
    /\ UNCHANGED <<handleVars, vmVars, op, unblock, service, pending, notes>>

KillCloses(p) ==
    /\ kill[p] = "locking"
    /\ Close(SystemOf[p])
    /\ kill' = [kill EXCEPT ![p] = "returned"]
    /\ UNCHANGED <<notify, background, life, vmVars, op, unblock, service, guest, refused, pending>>

CloseProcess(p) ==
    /\ life[p] = "running"
    /\ life' = [life EXCEPT ![p] = "locking"]
    /\ UNCHANGED <<handle, callback, notify, waitBlock, background, vmVars, callVars, externalVars>>

-----------------------------------------------------------------------------
SystemFor(h) == IF h \in Systems THEN h ELSE SystemOf[h]

\* What runs without being asked to: HCS, the goroutines, and calls that have
\* begun.  The output of a VM ends when the VM does.
Service(h) ==
    \/ "ending" \in {guest[h], guest[SystemFor(h)]} /\ Exits(h)
    \/ \E t \in notes[h] : NotificationHandler(h, t)
    \/ h \in Systems /\ ~Alive(h) /\ OutputEnds(h)
Calls(s) ==
    \/ SystemCreated(s) \/ Abandoned(s)
    \/ SystemStarted(s) \/ AcceptOutput(s) \/ Connected(s) \/ StartFailed(s)
    \/ WaitReturns(s) \/ StopVM(s) \/ WaitVM(s) \/ WaitOutput(s)

Running ==
    \/ \E h \in Handles : Service(h) \/ WaitBackground(h) \/ CloseHandle(h)
    \/ \E s \in Systems : Calls(s)
    \/ \E c \in Callers : Operated(c)
    \/ \E p \in Procs : ProcessCreated(p) \/ ForceUnblock(p) \/ KillTerminates(p) \/ KillCloses(p)

HcsNext == UNCHANGED failing /\
   (\/ Running
    \/ Disconnects
    \/ \E h \in Handles : Exits(h)
    \/ \E s \in Systems : CreateComputeSystem(s) \/ Start(s) \/ Wait(s) \/ CloseVM(s)
                          \/ Completes(s) \/ OutputEnds(s)
    \/ \E c \in Callers, s \in Systems, k \in OpKinds : Operate(c, s, k)
    \/ \E p \in Procs : CreateProcess(p) \/ CloseProcess(p) \/ Signal(p) \/ KillProcess(p))

\* Each of these takes finitely many steps, so that one condition is enough
\* for all of them to end.
HcsFairness == WF_hcsVars(Running)

-----------------------------------------------------------------------------
(* Properties.                                                              *)

\* A Wait that returns without an error was for a system, or a process, that
\* has exited, whatever handles are closed, callbacks lost and calls refused.
WaitIsTrue == \A h \in Handles : waitBlock[h] = "exited" => guest[h] = "exited"

\* The VM could not be told to end and still runs: HCS refused to terminate it,
\* or is gone while the output of the VM is being processed.
StillRuns(s) ==
    Alive(s) /\ (s \in refused \/ (service = "down" /\ output[s].conn = "open"))

\* UtilityVM.Start, Close and Process.Close are not waiting for anything, and no
\* goroutine waits behind a handle that is closed.  Close ignores an error of
\* Terminate: it stays where it is while the VM it cannot end still runs.
HandlesClosed ==
    \A h \in Handles :
        /\ life[h] \in {"failed", "abandoning", "stop", "waiting", "output", "locking"}
              => h \in Systems /\ StillRuns(h)
        /\ background[h] = "waiting" => handle[h]

\* Nobody is left in UtilityVM.Wait after the VM has exited.  The channel of the
\* output of a Windows VM is closed by Close alone: until then Wait goes on.
WaitsReturn ==
    \A s \in Systems : waiter[s] = "waiting" /\ Stopped(s) =>
        \/ StillRuns(s)
        \/ output[s].kind = "windows" /\ life[s] = "running"
=============================================================================
