------------------------------ MODULE Threads ------------------------------
(***************************************************************************)
(* The threads of ts-M1M3supportd: the subscriber and the outer loop clock *)
(* put commands into the queue of ControllerThread, the controller thread  *)
(* executes them, main waits for ExitControl and then stops and joins the  *)
(* others, and signal handlers put an ExitControl command into the queue   *)
(* from whatever thread they interrupt.                                    *)
(*                                                                         *)
(* One step is what a thread does between two accesses to something that   *)
(* another thread changes: a mutex, the queue, a keep-running flag.  The   *)
(* flags are plain bools read without a lock; a read may return any value  *)
(* the flag had since the thread last synchronized, which is what reading  *)
(* it in a step of its own, at any time, comes to.                         *)
(***************************************************************************)
EXTENDS Naturals, Sequences, FiniteSets

CONSTANTS Clients,   \* the commands SAL clients send (each once: the bound of a run)
          Signals,   \* the SIGINT and SIGTERM the process gets (the bound of a run)
          Receivers  \* the threads that may be interrupted by a signal

Threads == {"main", "pps", "subscriber", "controller", "outerLoop"}
Processes == Threads \cup Signals
Producers == {"subscriber", "outerLoop"} \cup Signals

\* Names that are not threads, signals or clients.
Internal == {"free", "none", "enterControl", "update"}

ASSUME ThreadsAssumption ==
  /\ Receivers \subseteq Threads
  /\ Signals \cap (Threads \cup Internal) = {}
  /\ Clients \cap (Signals \cup Internal) = {}

VARIABLES
  pc,            \* where each thread and each signal handler is
  frames,        \* for each thread, the handlers running on its stack, innermost first
  queue,         \* ControllerThread::_queue
  mutex,         \* the owner of ControllerThread::_mutex
  keepRunning,   \* each thread's _keepRunning
  executing,     \* the command in ControllerThread::_execute
  updateLocked,  \* whether OuterLoopClockThread::_updateMutex is locked
  exitLocked,    \* whether Model::_mutex is locked
  state,         \* Context::_currentState; Operating stands for every state but two
  unsent,        \* the clients' commands that did not arrive yet
  parcel,        \* the command in SubscriberThread::_enqueueCommandIfAvailable
  acks           \* the acknowledgements each client got

client == <<unsent, parcel, acks>>
data == <<queue, executing, updateLocked, exitLocked, state, client>>
control == <<frames, mutex, keepRunning>>
vars == <<pc, control, data>>

-----------------------------------------------------------------------------
(* Commands                                                                *)

ClientKinds == {"Start", "Standby", "ExitControl", "Other"}

EnterControl == [id |-> "enterControl", kind |-> "EnterControl"]
Update == [id |-> "update", kind |-> "Update"]
ExitControl(s) == [id |-> s, kind |-> "ExitControl"]
NoCommand == [id |-> "none", kind |-> "None"]

ClientCommands == [id : Clients, kind : ClientKinds]
Commands == {EnterControl, Update} \cup ClientCommands \cup {ExitControl(s) : s \in Signals}

\* What executing a command may come to: the state it leads to, and whether
\* it is done, rejected by the state, or ended by an exception, which leaves
\* the state as it was (Context::_updateCurrentStateIfRequired is skipped).
Outcomes(kind) ==
  LET Done(s) == [result |-> "done", next |-> s]
      Rejected == [result |-> "rejected", next |-> state]
      Exception == [result |-> "exception", next |-> state]
  IN CASE kind = "EnterControl" ->
            IF state = "Offline" THEN {Done("Standby"), Exception} ELSE {Done(state)}
       [] kind = "Start" ->
            IF state = "Standby" THEN {Done("Operating"), Exception} ELSE {Rejected}
       [] kind = "Standby" ->
            IF state = "Operating" THEN {Done("Standby"), Done("Operating"), Rejected, Exception}
            ELSE {Rejected}
       [] kind = "ExitControl" ->
            IF state = "Standby" THEN {Done("Offline")} ELSE {Rejected}
       [] kind = "Update" ->
            IF state = "Offline" THEN {Rejected} ELSE {Done(state), Exception}
       [] OTHER -> {Done(state), Rejected, Exception}

\* The acknowledgements after command c was acknowledged with new ones;
\* those of internal commands and of a signal's go to nobody.
Acknowledged(c, new) ==
  IF c.id \in Clients THEN [acks EXCEPT ![c.id] = @ \o new] ELSE acks

-----------------------------------------------------------------------------
(* Steps                                                                   *)

\* A thread runs unless a handler interrupted it, a handler unless another did.
Runs(p) ==
  IF p \in Threads THEN frames[p] = <<>>
  ELSE \E t \in Threads : frames[t] # <<>> /\ Head(frames[t]) = p

\* An exception that a thread does not catch ends the process.
Aborted == \E t \in {"pps", "outerLoop"} : pc[t] = "Terminated"

At(p, label) == pc[p] = label /\ Runs(p) /\ ~Aborted

Goto(p, label) == pc' = [pc EXCEPT ![p] = label]

\* A step that changes nothing but where p is.
Step(p, from, to) == At(p, from) /\ Goto(p, to) /\ UNCHANGED <<control, data>>

\* p locks and unlocks ControllerThread::_mutex.
Acquire(p, from, to) ==
  /\ At(p, from) /\ Goto(p, to)
  /\ mutex = "free" /\ mutex' = p
  /\ UNCHANGED <<frames, keepRunning, data>>

Release(p, from, to) ==
  /\ At(p, from) /\ Goto(p, to)
  /\ mutex' = "free"
  /\ UNCHANGED <<frames, keepRunning, data>>

-----------------------------------------------------------------------------
(* ControllerThread::enqueue, called by the producers                      *)

\* The command a producer puts into the queue.
Hand(p) ==
  CASE p = "subscriber" -> parcel
    [] p = "outerLoop" -> Update
    [] OTHER -> ExitControl(p)

LockQueue(p) == Acquire(p, "Enqueue", "Push")

AfterEnqueue(p) ==
  CASE p = "subscriber" -> "Poll"
    [] p = "outerLoop" -> "Await"
    [] OTHER -> "Return"

\* Mutant: enqueue without notify_one.
PushSilently(p) ==
  /\ At(p, "Push")
  /\ queue' = Append(queue, Hand(p))
  /\ mutex' = "free"
  /\ Goto(p, AfterEnqueue(p))
  /\ UNCHANGED <<frames, keepRunning, executing, updateLocked, exitLocked, state, client>>

\* Mutant: the newest command first.
PushFirst(p) ==
  /\ At(p, "Push")
  /\ queue' = <<Hand(p)>> \o queue
  /\ mutex' = "free"
  /\ Goto(p, "Notify")
  /\ UNCHANGED <<frames, keepRunning, executing, updateLocked, exitLocked, state, client>>

Push(p) ==
  /\ At(p, "Push")
  /\ queue' = Append(queue, Hand(p))
  /\ mutex' = "free"
  /\ Goto(p, "Notify")
  /\ UNCHANGED <<frames, keepRunning, executing, updateLocked, exitLocked, state, client>>

\* pc after p called _cv.notify_one and went on to label: only the
\* controller waits for _cv, and it has to lock the mutex again.
Notified(p, label) ==
  [pc EXCEPT ![p] = label,
             !["controller"] = IF pc["controller"] = "Waiting" THEN "Lock" ELSE @]

Notify(p) ==
  /\ At(p, "Notify")
  /\ pc' = Notified(p, AfterEnqueue(p))
  /\ UNCHANGED <<control, data>>

Enqueue(p) == LockQueue(p) \/ Push(p) \/ Notify(p)

-----------------------------------------------------------------------------
(* ControllerThread::run                                                   *)

ControllerCheck ==
  Step("controller", "Check", IF keepRunning["controller"] THEN "Lock" ELSE "Done")

\* The unique_lock, and the end of a wait that was notified.
ControllerLock == Acquire("controller", "Lock", "Test")

\* The predicate of the wait.
ControllerTest ==
  Step("controller", "Test", IF queue = <<>> /\ keepRunning["controller"] THEN "Wait" ELSE "Pop")

ControllerWait == Release("controller", "Wait", "Waiting")

\* A condition variable may wake without being notified.
SpuriousWakeup == Step("controller", "Waiting", "Lock")

ControllerPop ==
  /\ At("controller", "Pop")
  /\ queue # <<>>
  /\ executing' = Head(queue)
  /\ queue' = Tail(queue)
  /\ Goto("controller", "Execute")
  /\ UNCHANGED <<control, updateLocked, exitLocked, state, client>>

ControllerUnlock == queue = <<>> /\ Release("controller", "Pop", "Check")

\* ackInProgress and execute.  A rejection acknowledges the failure itself,
\* and execute returns.  StandbyState::exitControl unlocks Model::_mutex.
Execute ==
  /\ At("controller", "Execute")
  /\ \E o \in Outcomes(executing.kind) :
       /\ state' = o.next
       /\ exitLocked' = (exitLocked /\ ~(executing.kind = "ExitControl" /\ o.result = "done"))
       /\ acks' = Acknowledged(executing, IF o.result = "rejected"
                                          THEN <<"InProgress", "Failed">> ELSE <<"InProgress">>)
       /\ Goto("controller", IF o.result = "exception" THEN "Fail" ELSE "Complete")
  /\ UNCHANGED <<control, queue, executing, updateLocked, unsent, parcel>>

\* Mutant: delete inside the try block, skipped by an exception.
FinishWithoutDelete(label, ack) ==
  /\ At("controller", label)
  /\ acks' = Acknowledged(executing, <<ack>>)
  /\ executing' = NoCommand
  /\ updateLocked' = (updateLocked /\ ~(executing = Update /\ label = "Complete"))
  /\ Goto("controller", "Pop")
  /\ UNCHANGED <<control, queue, exitLocked, state, unsent, parcel>>

\* Mutant: the exception is logged and not acknowledged.
FinishWithoutFailure(label, ack) ==
  /\ At("controller", label)
  /\ acks' = IF label = "Fail" THEN acks ELSE Acknowledged(executing, <<ack>>)
  /\ executing' = NoCommand
  /\ updateLocked' = (updateLocked /\ executing # Update)
  /\ Goto("controller", "Pop")
  /\ UNCHANGED <<control, queue, exitLocked, state, unsent, parcel>>

\* The last acknowledgement and the delete; ~UpdateCommand unlocks the
\* update mutex.
FinishCommand(label, ack) ==
  /\ At("controller", label)
  /\ acks' = Acknowledged(executing, <<ack>>)
  /\ executing' = NoCommand
  /\ updateLocked' = (updateLocked /\ executing # Update)
  /\ Goto("controller", "Pop")
  /\ UNCHANGED <<control, queue, exitLocked, state, unsent, parcel>>

Controller ==
  \/ ControllerCheck \/ ControllerLock \/ ControllerTest \/ ControllerWait
  \/ ControllerPop \/ ControllerUnlock \/ Execute
  \/ FinishCommand("Complete", "Complete") \/ FinishCommand("Fail", "Failed")

-----------------------------------------------------------------------------
(* OuterLoopClockThread::run                                               *)

OuterLoopCheck ==
  Step("outerLoop", "Check", IF keepRunning["outerLoop"] THEN "Tick" ELSE "Done")

\* Mutant: the time-out of the clock is caught outside the loop.
OuterLoopTickOrEnd ==
  /\ At("outerLoop", "Tick")
  /\ \/ Goto("outerLoop", IF keepRunning["outerLoop"] THEN "Construct" ELSE "Await")
     \/ Goto("outerLoop", "Done")
  /\ UNCHANGED <<control, data>>

\* The clock ticked, or waiting for it timed out, which is only logged.
OuterLoopTick ==
  Step("outerLoop", "Tick", IF keepRunning["outerLoop"] THEN "Construct" ELSE "Await")

\* The constructor of UpdateCommand locks the update mutex.
ConstructUpdate ==
  /\ At("outerLoop", "Construct")
  /\ ~updateLocked
  /\ updateLocked' = TRUE
  /\ Goto("outerLoop", "Enqueue")
  /\ UNCHANGED <<control, queue, executing, exitLocked, state, client>>

\* Locking and unlocking the update mutex waits until the update is deleted.
AwaitUpdate ==
  /\ ~updateLocked
  /\ Step("outerLoop", "Await", "Acknowledge")

\* ackOuterLoopClock may throw, and nothing in the thread catches it.
AcknowledgeClock ==
  Step("outerLoop", "Acknowledge", "Check") \/ Step("outerLoop", "Acknowledge", "Terminated")

OuterLoop ==
  \/ OuterLoopCheck \/ OuterLoopTick \/ ConstructUpdate \/ Enqueue("outerLoop")
  \/ AwaitUpdate \/ AcknowledgeClock

-----------------------------------------------------------------------------
(* SubscriberThread::run                                                   *)

\* The flag is read once for a pass over all the commands' topics.
SubscriberCheck ==
  Step("subscriber", "Check", IF keepRunning["subscriber"] THEN "Poll" ELSE "Done")

\* A command arrived; it is enqueued when its parameters are valid.
AcceptCommand ==
  /\ At("subscriber", "Poll")
  /\ \E c \in ClientCommands :
       /\ c.id \in unsent
       /\ unsent' = unsent \ {c.id}
       /\ \/ parcel' = c /\ Goto("subscriber", "Enqueue") /\ UNCHANGED acks
          \/ acks' = Acknowledged(c, <<"Failed">>) /\ UNCHANGED <<parcel, pc>>
  /\ UNCHANGED <<control, queue, executing, updateLocked, exitLocked, state>>

\* Mutant: no command arrived, and the null pointer is enqueued.
EnqueueNull ==
  /\ At("subscriber", "Poll")
  /\ parcel' = NoCommand
  /\ Goto("subscriber", "Enqueue")
  /\ UNCHANGED <<control, queue, executing, updateLocked, exitLocked, state, unsent, acks>>

EndPass == Step("subscriber", "Poll", "Check")

Subscriber == SubscriberCheck \/ AcceptCommand \/ Enqueue("subscriber") \/ EndPass

-----------------------------------------------------------------------------
(* PPSThread::run, which shares only its flag with the others              *)

PPSEnds ==
  /\ ~keepRunning["pps"]
  /\ Step("pps", "Check", "Done")

\* ackPPS and writeTimestampFIFO may throw, and nothing catches it.
PPSThrows == Step("pps", "Check", "Terminated")

-----------------------------------------------------------------------------
(* runFPGAs, in the main thread                                            *)

StartThread(t, from, to) ==
  /\ At("main", from)
  /\ pc' = [pc EXCEPT !["main"] = to, ![t] = "Check"]
  /\ UNCHANGED <<control, data>>

\* Model::waitForExitControl locks Model::_mutex and unlocks it.
WaitForExitControl ==
  /\ ~exitLocked
  /\ Step("main", "WaitForExit", "StopPPS")

StopThread(t, from, to) ==
  /\ At("main", from)
  /\ keepRunning' = [keepRunning EXCEPT ![t] = FALSE]
  /\ Goto("main", to)
  /\ UNCHANGED <<frames, mutex, data>>

\* ControllerThread::stop clears the flag under the mutex and notifies.
LockToStop == Acquire("main", "LockToStop", "StopController")

StopController ==
  /\ At("main", "StopController")
  /\ keepRunning' = [keepRunning EXCEPT !["controller"] = FALSE]
  /\ mutex' = "free"
  /\ Goto("main", "NotifyStop")
  /\ UNCHANGED <<frames, data>>

\* Mutant: stop without notify_one.
StopSilently == Step("main", "NotifyStop", "StopOuterLoop")

NotifyStop ==
  /\ At("main", "NotifyStop")
  /\ pc' = Notified("main", "StopOuterLoop")
  /\ UNCHANGED <<control, data>>

Join(t, from, to) ==
  /\ pc[t] = "Done"
  /\ Step("main", from, to)

\* ~ControllerThread, after main returned: _clear deletes the first command
\* again and again when there is one, which is undefined behaviour.
Clear ==
  /\ mutex = "free"
  /\ Step("main", "Clear", IF queue = <<>> THEN "Ended" ELSE "Undefined")

Main ==
  \/ StartThread("pps", "StartPPS", "StartSubscriber")
  \/ StartThread("subscriber", "StartSubscriber", "StartController")
  \/ StartThread("controller", "StartController", "StartOuterLoop")
  \/ StartThread("outerLoop", "StartOuterLoop", "WaitForExit")
  \/ WaitForExitControl
  \/ StopThread("pps", "StopPPS", "StopSubscriber")
  \/ StopThread("subscriber", "StopSubscriber", "LockToStop")
  \/ LockToStop \/ StopController \/ NotifyStop
  \/ StopThread("outerLoop", "StopOuterLoop", "JoinPPS")
  \/ Join("pps", "JoinPPS", "JoinSubscriber")
  \/ Join("subscriber", "JoinSubscriber", "JoinController")
  \/ Join("controller", "JoinController", "JoinOuterLoop")
  \/ Join("outerLoop", "JoinOuterLoop", "Clear")
  \/ Clear

-----------------------------------------------------------------------------
(* Signals                                                                 *)

\* Nothing more happens to the process.
Over == pc["main"] \in {"Ended", "Undefined"} \/ Aborted

\* The system interrupts a thread and runs sigKill on its stack, until the
\* process ends.
Deliver(s) ==
  /\ ~Over
  /\ pc[s] = "Idle"
  /\ \E t \in Receivers :
       /\ pc[t] \notin {"Off", "Done"}
       /\ frames' = [frames EXCEPT ![t] = <<s>> \o @]
  /\ Goto(s, "Enqueue")
  /\ UNCHANGED <<data, mutex, keepRunning>>

Return(s) ==
  /\ At(s, "Return")
  /\ frames' = [t \in Threads |->
                  IF frames[t] # <<>> /\ Head(frames[t]) = s THEN Tail(frames[t]) ELSE frames[t]]
  /\ Goto(s, "Done")
  /\ UNCHANGED <<data, mutex, keepRunning>>

Handler(s) == Enqueue(s) \/ Return(s)

-----------------------------------------------------------------------------

\* runFPGAs enqueues EnterControl and installs the handlers, then starts the
\* threads; the constructor of Model locked its mutex.
Init ==
  /\ pc = [p \in Processes |-> IF p = "main" THEN "StartPPS"
                               ELSE IF p \in Threads THEN "Off" ELSE "Idle"]
  /\ frames = [t \in Threads |-> <<>>]
  /\ queue = <<EnterControl>>
  /\ mutex = "free"
  /\ keepRunning = [t \in Threads |-> TRUE]
  /\ executing = NoCommand
  /\ updateLocked = FALSE
  /\ exitLocked = TRUE
  /\ state = "Offline"
  /\ unsent = Clients
  /\ parcel = NoCommand
  /\ acks = [c \in Clients |-> <<>>]

Next ==
  \/ Controller \/ SpuriousWakeup \/ OuterLoop \/ Subscriber \/ PPSEnds \/ PPSThrows \/ Main
  \/ \E s \in Signals : Deliver(s) \/ Handler(s)

Spec == Init /\ [][Next]_vars

\* Every thread and handler that can go on does.  std::mutex is not fair,
\* but the controller leaves the mutex free for most of each 20 ms period
\* of the outer loop, so a thread that asks for it gets it in the end.
Fairness ==
  /\ WF_vars(Controller) /\ SF_vars(ControllerLock)
  /\ WF_vars(OuterLoop) /\ WF_vars(Subscriber) /\ WF_vars(PPSEnds)
  /\ WF_vars(Main) /\ SF_vars(LockToStop)
  /\ \A p \in Producers : SF_vars(LockQueue(p))
  /\ \A s \in Signals : WF_vars(Handler(s))

FairSpec == Spec /\ Fairness

-----------------------------------------------------------------------------
(* Properties                                                              *)

ControllerLabels == {"Off", "Check", "Lock", "Test", "Wait", "Waiting", "Pop", "Execute",
                     "Complete", "Fail", "Done"}
OuterLoopLabels == {"Off", "Check", "Tick", "Construct", "Enqueue", "Push", "Notify", "Await",
                    "Acknowledge", "Done", "Terminated"}
SubscriberLabels == {"Off", "Check", "Poll", "Enqueue", "Push", "Notify", "Done"}
MainLabels == {"StartPPS", "StartSubscriber", "StartController", "StartOuterLoop",
               "WaitForExit", "StopPPS", "StopSubscriber", "LockToStop", "StopController",
               "NotifyStop", "StopOuterLoop", "JoinPPS", "JoinSubscriber", "JoinController",
               "JoinOuterLoop", "Clear", "Ended", "Undefined"}
HandlerLabels == {"Idle", "Enqueue", "Push", "Notify", "Return", "Done"}

Labels(p) ==
  CASE p = "main" -> MainLabels
    [] p = "pps" -> {"Off", "Check", "Done", "Terminated"}
    [] p = "subscriber" -> SubscriberLabels
    [] p = "controller" -> ControllerLabels
    [] p = "outerLoop" -> OuterLoopLabels
    [] OTHER -> HandlerLabels

AllLabels == UNION {Labels(p) : p \in Processes}

\* The types of the variables.
TypeOK ==
  /\ pc \in [Processes -> AllLabels] /\ \A p \in Processes : pc[p] \in Labels(p)
  /\ frames \in [Threads -> Seq(Signals)]
  /\ queue \in Seq(Commands)
  /\ mutex \in Processes \cup {"free"}
  /\ keepRunning \in [Threads -> BOOLEAN]
  /\ executing \in Commands \cup {NoCommand}
  /\ updateLocked \in BOOLEAN /\ exitLocked \in BOOLEAN
  /\ state \in {"Offline", "Standby", "Operating"}
  /\ unsent \subseteq Clients
  /\ parcel \in ClientCommands \cup {NoCommand}
  /\ acks \in [Clients -> Seq({"InProgress", "Failed", "Complete"})]

\* Where a thread touches the queue or the controller's flag.
InCriticalSection(p) ==
  \/ pc[p] \in {"Push", "StopController"}
  \/ p = "controller" /\ pc[p] \in {"Test", "Wait", "Pop", "Execute", "Complete", "Fail"}

\* The queue and the controller's flag are only touched by the owner of
\* ControllerThread::_mutex, handlers included, and whoever is past those
\* lines has given the mutex back.
QueueIsGuarded == \A p \in Processes : InCriticalSection(p) <=> mutex = p

\* While the controller waits on its condition variable, with a command
\* in the queue or told to stop, somebody is about to notify it.
NoLostWakeup ==
  pc["controller"] = "Waiting" /\ (queue # <<>> \/ ~keepRunning["controller"])
    => \E p \in Processes : pc[p] \in {"Notify", "NotifyStop"}

QueuedUpdates == {i \in DOMAIN queue : queue[i] = Update}
UpdateInHand == pc["outerLoop"] \in {"Enqueue", "Push"}

\* The update mutex is locked exactly while an update command exists, and
\* there is one at most: in the outer loop's hand, queued, or executed.
OneUpdate ==
  /\ updateLocked <=> UpdateInHand \/ QueuedUpdates # {} \/ executing = Update
  /\ \A i, j \in QueuedUpdates : i = j
  /\ UpdateInHand => QueuedUpdates = {} /\ executing # Update
  /\ executing = Update => QueuedUpdates = {}

\* The outer loop thread does not end before the update command that holds a
\* pointer to its mutex is deleted; runFPGAs destroys the mutex after that.
NoDanglingUpdate == pc["outerLoop"] = "Done" => QueuedUpdates = {} /\ executing # Update

\* Once ExitControl was executed, commands that were queued behind it, or
\* still come while the threads stop, never take control again.
ExitIsFinal == ~exitLocked => state = "Offline"

Executor == INSTANCE SerialExecutor WITH
  Initial <- <<EnterControl>>,
  line <- IF executing = NoCommand THEN queue ELSE <<executing>> \o queue,
  busy <- executing # NoCommand

\* Commands are executed one at a time in the order of the queue.
ImplementsSerialExecutor == Executor!Spec

\* The controller ended before the update that the outer loop waits for.
Stranded == pc["controller"] = "Done" /\ updateLocked

\* A handler waits for the mutex that the thread it interrupted owns, or a
\* handler it interrupted does.
SelfDeadlock ==
  \E t \in Threads :
    /\ frames[t] # <<>> /\ pc[Head(frames[t])] = "Enqueue"
    /\ mutex = t \/ \E i \in 2..Len(frames[t]) : mutex = frames[t][i]

\* p does nothing more before one of W does something.  An interrupted thread
\* or handler waits for the innermost handler, a thread at the mutex of the
\* queue for its owner, the controller for those about to notify it, the
\* outer loop for the update to be deleted, and main for ExitControl or for
\* the end of the thread it joins; after ExitControl, a thread that begins
\* another pass of its loop only waits for main to stop it.
Joining == [pps |-> "JoinPPS", subscriber |-> "JoinSubscriber",
            controller |-> "JoinController", outerLoop |-> "JoinOuterLoop"]
Waits(p, W) ==
  \/ /\ ~Runs(p)
     /\ \A t \in Threads :
          frames[t] # <<>> /\ (p = t \/ \E i \in DOMAIN frames[t] : frames[t][i] = p)
            => Head(frames[t]) \in W
  \/ pc[p] \in {"Enqueue", "Lock", "LockToStop", "Clear"} /\ mutex # "free" /\ mutex \in W
  \/ pc[p] = "Waiting" /\ {q \in Processes : pc[q] \in {"Notify", "NotifyStop"}} \subseteq W
  \/ pc[p] \in {"Construct", "Await"} /\ updateLocked /\ "controller" \in W
  \/ ~exitLocked /\ p \in Threads /\ pc[p] = "Check" /\ keepRunning[p] /\ "main" \in W
  \/ pc[p] = "WaitForExit" /\ exitLocked /\ "controller" \in W
  \/ \E t \in DOMAIN Joining \cap W : pc[p] = Joining[t] /\ pc[t] # "Done"
  \/ pc[p] \in {"Off", "Idle", "Done", "Terminated", "Ended", "Undefined"}

\* Those that t waits for, directly or not, wait for one another.
Deadlocked(t) == \E W \in SUBSET Processes : t \in W /\ \A p \in W : Waits(p, W)

\* The part of ShutdownEnds that no scheduler can mend: once ExitControl was
\* executed main never waits in a circle, unless one of two things goes wrong.
NoThirdDeadlock == ~exitLocked /\ Deadlocked("main") => Over \/ Stranded \/ SelfDeadlock

\* The same part of UpdatesKeepComing: until then neither the updates nor the
\* clients' commands are held up by a circle, unless a handler causes it.
NoDeadlockInOperation ==
  exitLocked => \A t \in {"outerLoop", "subscriber"} :
    Deadlocked(t) => pc[t] = "Off" \/ Over \/ SelfDeadlock

\* After ExitControl was executed the program ends, unless one of two things
\* goes wrong: there is no third way to hang.
ShutdownEnds == ~exitLocked ~> Over \/ Stranded \/ SelfDeadlock

\* Updates are executed for ever until the daemon exits: what the fairness of
\* MirrorControl, ForceControl, ILCs, BumpTest, Hardpoints and Supervision assumes.
UpdatesKeepComing ==
  []<>(executing = Update) \/ <>(~exitLocked \/ Over \/ SelfDeadlock)

Answered(c) == \E i \in DOMAIN acks[c] : acks[c][i] \in {"Failed", "Complete"}

\* Every command that arrived is answered, unless the controller ended first.
CommandsAreAnswered ==
  \A c \in Clients :
    c \notin unsent ~> Answered(c) \/ pc["controller"] = "Done" \/ Over \/ SelfDeadlock

\* "Once this command has been executed the software will stop running"
\* (ExitControlCommand.h).  The program does not keep it: see Stranded.
ExitEndsTheProgram == ~exitLocked ~> Over

=============================================================================
