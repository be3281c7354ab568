--------------------------- MODULE ThreadsProofs ---------------------------
(***************************************************************************)
(* Proofs of the safety properties of Threads, for any number of clients'  *)
(* commands and signals, whichever threads the signals interrupt.          *)
(***************************************************************************)
EXTENDS Threads, SequenceTheorems, TLAPS

\* A command is being executed exactly between the pop and the delete, and
\* a producer that is about to enqueue has a command to enqueue.
CommandInHand ==
  /\ executing # NoCommand <=> pc["controller"] \in {"Execute", "Complete", "Fail"}
  /\ pc["subscriber"] \in {"Enqueue", "Push"} => parcel \in ClientCommands

\* The controller decides to wait, and has not yet given the mutex back, on
\* an empty queue.
WaitsForNothing ==
  pc["controller"] = "Wait" => queue = <<>> /\ keepRunning["controller"]

\* Where the outer loop is while it has no update out.
OuterLoopIsFree ==
  pc["outerLoop"] \notin {"Enqueue", "Push", "Notify", "Await"} => ~updateLocked

\* A thread is nowhere before main starts it.
NotYetStarted ==
  /\ pc["main"] \in {"StartPPS", "StartSubscriber"} => pc["subscriber"] = "Off"
  /\ pc["main"] \in {"StartPPS", "StartSubscriber", "StartController"} => pc["controller"] = "Off"
  /\ pc["main"] \in {"StartPPS", "StartSubscriber", "StartController", "StartOuterLoop"}
       => pc["outerLoop"] = "Off"

\* EnterControl is executed once, before every other command.
EnterControlIsFirst ==
  /\ \A i \in DOMAIN queue : queue[i] = EnterControl =>
       i = 1 /\ state = "Offline" /\ exitLocked /\ executing = NoCommand
  /\ pc["controller"] = "Execute" /\ executing = EnterControl =>
       state = "Offline" /\ exitLocked

Inductive ==
  /\ TypeOK
  /\ CommandInHand
  /\ QueueIsGuarded
  /\ WaitsForNothing
  /\ NoLostWakeup
  /\ OneUpdate
  /\ OuterLoopIsFree
  /\ NotYetStarted
  /\ EnterControlIsFirst
  /\ ExitIsFinal

-----------------------------------------------------------------------------
(* Types                                                                   *)

LEMMA ThreadsAreProcesses ==
  /\ \A t \in Threads : t \in Processes
  /\ \A s \in Signals : s \in Processes /\ s \notin Threads
  /\ \A p \in Producers : p \in Processes
BY ThreadsAssumption DEF Processes, Producers, Threads

LEMMA LabelSets ==
  /\ Labels("main") = MainLabels
  /\ Labels("pps") = {"Off", "Check", "Done", "Terminated"}
  /\ Labels("subscriber") = SubscriberLabels
  /\ Labels("controller") = ControllerLabels
  /\ Labels("outerLoop") = OuterLoopLabels
  /\ \A s \in Signals : Labels(s) = HandlerLabels
<1>1. Labels("main") = MainLabels
  BY DEF Labels
<1>2. Labels("pps") = {"Off", "Check", "Done", "Terminated"}
  BY DEF Labels
<1>3. Labels("subscriber") = SubscriberLabels
  BY DEF Labels
<1>4. Labels("controller") = ControllerLabels
  BY DEF Labels
<1>5. Labels("outerLoop") = OuterLoopLabels
  BY DEF Labels
<1>6. ASSUME NEW s \in Signals PROVE Labels(s) = HandlerLabels
  BY <1>6, ThreadsAreProcesses DEF Labels, Threads
<1> QED BY <1>1, <1>2, <1>3, <1>4, <1>5, <1>6

\* A step that moves p to one of its labels, and nothing else.
LEMMA GotoEffect ==
  ASSUME TypeOK, NEW p \in Processes, NEW to \in Labels(p), Goto(p, to)
  PROVE  /\ pc' \in [Processes -> AllLabels] /\ \A q \in Processes : pc'[q] \in Labels(q)
         /\ pc'[p] = to
         /\ \A q \in Processes : q # p => pc'[q] = pc[q]
<1>1. to \in AllLabels
  BY DEF AllLabels
<1> QED BY <1>1 DEF Goto, TypeOK

LEMMA NotifiedEffect ==
  ASSUME TypeOK, NEW p \in Processes, p # "controller", NEW to \in Labels(p),
         pc' = Notified(p, to)
  PROVE  /\ pc' \in [Processes -> AllLabels] /\ \A q \in Processes : pc'[q] \in Labels(q)
         /\ pc'[p] = to
         /\ pc'["controller"] = IF pc["controller"] = "Waiting" THEN "Lock" ELSE pc["controller"]
         /\ \A q \in Processes \ {p, "controller"} : pc'[q] = pc[q]
<1>1. "controller" \in Processes
  BY DEF Processes, Threads
<1> DEFINE woken == IF pc["controller"] = "Waiting" THEN "Lock" ELSE pc["controller"]
<1>2. pc' = [pc EXCEPT ![p] = to, !["controller"] = woken]
  BY DEF Notified
<1>3. woken \in Labels("controller")
  BY <1>1, LabelSets DEF ControllerLabels, TypeOK
<1>4. woken \in AllLabels /\ to \in AllLabels
  BY <1>1, <1>3 DEF AllLabels
<1> HIDE DEF woken
<1>5. /\ pc' \in [Processes -> AllLabels] /\ pc'[p] = to /\ pc'["controller"] = woken
      /\ \A q \in Processes \ {p, "controller"} : pc'[q] = pc[q]
  BY <1>1, <1>2, <1>4 DEF TypeOK
<1>6. \A q \in Processes : pc'[q] \in Labels(q)
  BY <1>3, <1>5 DEF TypeOK
<1> QED BY <1>5, <1>6 DEF woken

LEMMA HandType ==
  ASSUME TypeOK, CommandInHand, NEW p \in Producers, pc[p] \in {"Enqueue", "Push"}
  PROVE  Hand(p) \in Commands
<1>1. CASE p = "subscriber"
  BY <1>1 DEF Hand, CommandInHand, Commands
<1>2. CASE p = "outerLoop"
  BY <1>2 DEF Hand, Commands
<1>3. CASE p \in Signals
  BY <1>3, ThreadsAreProcesses DEF Hand, Commands, Threads
<1> QED BY <1>1, <1>2, <1>3 DEF Producers

LEMMA AcknowledgedType ==
  ASSUME TypeOK, NEW c, NEW new \in Seq({"InProgress", "Failed", "Complete"})
  PROVE  Acknowledged(c, new) \in [Clients -> Seq({"InProgress", "Failed", "Complete"})]
BY DEF Acknowledged, TypeOK

-----------------------------------------------------------------------------
(* Commands                                                                *)

LEMMA CommandKinds ==
  /\ \A c \in Commands : c # NoCommand /\ c.kind \in {"EnterControl", "Update"} \cup ClientKinds
  /\ \A c \in Commands : c.kind = "EnterControl" => c = EnterControl
  /\ \A c \in ClientCommands : c # Update /\ c # EnterControl
  /\ \A s \in Signals : ExitControl(s) # Update /\ ExitControl(s) # EnterControl
  /\ Update # EnterControl
  /\ Update \in Commands /\ EnterControl \in Commands
BY DEF Commands, ClientCommands, ClientKinds, ExitControl, Update, EnterControl, NoCommand

\* Only the outer loop enqueues updates, and no producer enqueues EnterControl.
LEMMA HandKind ==
  ASSUME CommandInHand, NEW p \in Producers, pc[p] \in {"Enqueue", "Push"}
  PROVE  /\ Hand(p) # EnterControl
         /\ Hand(p) = Update <=> p = "outerLoop"
<1>1. CASE p = "subscriber"
  BY <1>1, CommandKinds DEF Hand, CommandInHand
<1>2. CASE p = "outerLoop"
  BY <1>2, CommandKinds DEF Hand
<1>3. CASE p \in Signals
  BY <1>3, CommandKinds, ThreadsAreProcesses DEF Hand, Threads
<1> QED BY <1>1, <1>2, <1>3 DEF Producers

-----------------------------------------------------------------------------
(* Steps that move threads between places where they touch nothing shared  *)

\* Where a thread is part of what Inductive says, whoever it is.
Marked == {"Push", "Notify", "NotifyStop", "StopController", "Test", "Wait", "Waiting", "Pop",
           "Execute", "Complete", "Fail"}

LEMMA QuietMove ==
  ASSUME Inductive,
         pc' \in [Processes -> AllLabels], \A q \in Processes : pc'[q] \in Labels(q),
         \A q \in Processes : pc'[q] = pc[q] \/ (pc[q] \notin Marked /\ pc'[q] \notin Marked),
         pc'["subscriber"] = "Enqueue" => pc["subscriber"] = "Enqueue",
         pc'["outerLoop"] = "Enqueue" <=> pc["outerLoop"] = "Enqueue",
         updateLocked => pc'["outerLoop"] = pc["outerLoop"],
         frames' \in [Threads -> Seq(Signals)], mutex' = mutex,
         keepRunning' \in [Threads -> BOOLEAN],
         keepRunning'["controller"] = keepRunning["controller"],
         NotYetStarted', UNCHANGED data
  PROVE  Inductive'
<1> USE DEF data, client
<1>1. {"main", "subscriber", "controller", "outerLoop"} \subseteq Processes
  BY DEF Processes, Threads
<1>2. TypeOK'
  BY DEF Inductive, TypeOK
<1>3. CommandInHand'
  BY <1>1 DEF Inductive, CommandInHand, Marked
<1>4. QueueIsGuarded'
  BY DEF Inductive, QueueIsGuarded, InCriticalSection, Marked
<1>5. WaitsForNothing'
  BY <1>1 DEF Inductive, WaitsForNothing, Marked
<1>6. NoLostWakeup'
  BY <1>1 DEF Inductive, NoLostWakeup, Marked
<1>7. OneUpdate'
  <2>1. QueuedUpdates' = QueuedUpdates
    BY DEF QueuedUpdates
  <2>2. UpdateInHand' <=> UpdateInHand
    BY <1>1 DEF UpdateInHand, Marked
  <2>3. OneUpdate
    BY DEF Inductive
  <2> QED BY <2>1, <2>2, <2>3 DEF OneUpdate
<1>8. OuterLoopIsFree' /\ NotYetStarted'
  BY <1>1 DEF Inductive, OuterLoopIsFree, NotYetStarted
<1>9. EnterControlIsFirst' /\ ExitIsFinal'
  BY <1>1 DEF Inductive, EnterControlIsFirst, ExitIsFinal, Marked
<1> QED BY <1>2, <1>3, <1>4, <1>5, <1>6, <1>7, <1>8, <1>9 DEF Inductive

StartLabels == {"StartPPS", "StartSubscriber", "StartController", "StartOuterLoop"}

\* A step of one thread between two such places.
LEMMA QuietStep ==
  ASSUME Inductive, NEW p \in Processes, NEW from, NEW to \in Labels(p),
         Step(p, from, to), from \notin Marked \cup {"Off"}, to \notin Marked,
         p = "main" => to \notin StartLabels,
         p = "subscriber" => to # "Enqueue",
         p = "outerLoop" => from # "Enqueue" /\ to # "Enqueue" /\ ~updateLocked
  PROVE  Inductive'
<1>1. pc[p] = from /\ Goto(p, to) /\ UNCHANGED <<control, data>>
  BY DEF Step, At
<1>2. TypeOK
  BY DEF Inductive
<1>3. /\ pc' \in [Processes -> AllLabels] /\ \A q \in Processes : pc'[q] \in Labels(q)
      /\ pc'[p] = to
      /\ \A q \in Processes : q # p => pc'[q] = pc[q]
  BY <1>1, <1>2, GotoEffect
<1>4. "subscriber" \in Processes /\ "outerLoop" \in Processes
  BY DEF Processes, Threads
<1>5. frames' \in [Threads -> Seq(Signals)] /\ keepRunning' \in [Threads -> BOOLEAN]
  BY <1>1, <1>2 DEF control, TypeOK
<1>6. NotYetStarted'
  <2>1. {"main", "controller"} \subseteq Processes
    BY DEF Processes, Threads
  <2> QED BY <1>1, <1>3, <1>4, <2>1 DEF Inductive, NotYetStarted, StartLabels
<1> QED BY <1>1, <1>3, <1>4, <1>5, <1>6, QuietMove DEF control

-----------------------------------------------------------------------------
(* Steps that take or give back the mutex of the queue                     *)

LEMMA AcquireStep ==
  ASSUME Inductive, NEW p \in Processes, NEW from, NEW to \in Labels(p), Acquire(p, from, to),
         \/ p \in Producers /\ from = "Enqueue" /\ to = "Push"
         \/ p = "controller" /\ from = "Lock" /\ to = "Test"
         \/ p = "main" /\ from = "LockToStop" /\ to = "StopController"
  PROVE  Inductive'
<1> USE DEF data, client
<1>1. pc[p] = from /\ Goto(p, to) /\ mutex = "free" /\ mutex' = p
      /\ UNCHANGED <<frames, keepRunning, data>>
  BY DEF Acquire, At
<1>2. /\ pc' \in [Processes -> AllLabels] /\ \A q \in Processes : pc'[q] \in Labels(q)
      /\ pc'[p] = to
      /\ \A q \in Processes : q # p => pc'[q] = pc[q]
  BY <1>1, GotoEffect DEF Inductive
<1>3. {"main", "subscriber", "controller", "outerLoop"} \subseteq Processes
  BY DEF Processes, Threads
<1>4. "free" \notin Processes /\ "controller" \notin Producers
  BY ThreadsAssumption DEF Processes, Producers, Threads, Internal
<1>5. TypeOK'
  BY <1>1, <1>2 DEF Inductive, TypeOK
<1>6. CommandInHand'
  BY <1>1, <1>2, <1>3, <1>4 DEF Inductive, CommandInHand
<1>7. QueueIsGuarded'
  <2>1. \A q \in Processes : ~InCriticalSection(q)
    BY <1>1, <1>4 DEF Inductive, QueueIsGuarded
  <2>2. InCriticalSection(p)'
    BY <1>2 DEF InCriticalSection
  <2>3. \A q \in Processes : q # p => ~InCriticalSection(q)'
    BY <1>2, <2>1 DEF InCriticalSection
  <2> QED BY <1>1, <2>2, <2>3 DEF QueueIsGuarded
<1>8. WaitsForNothing'
  BY <1>1, <1>2, <1>3 DEF Inductive, WaitsForNothing
<1>9. NoLostWakeup'
  BY <1>1, <1>2, <1>3 DEF Inductive, NoLostWakeup
<1>10. OneUpdate'
  <2>1. QueuedUpdates' = QueuedUpdates
    BY <1>1 DEF QueuedUpdates
  <2>2. UpdateInHand' <=> UpdateInHand
    BY <1>1, <1>2, <1>3 DEF UpdateInHand
  <2>3. OneUpdate
    BY DEF Inductive
  <2> QED BY <1>1, <2>1, <2>2, <2>3 DEF OneUpdate
<1>11. OuterLoopIsFree' /\ NotYetStarted'
  BY <1>1, <1>2, <1>3 DEF Inductive, OuterLoopIsFree, NotYetStarted
<1>12. EnterControlIsFirst' /\ ExitIsFinal'
  BY <1>1, <1>2, <1>3 DEF Inductive, EnterControlIsFirst, ExitIsFinal
<1> QED BY <1>5, <1>6, <1>7, <1>8, <1>9, <1>10, <1>11, <1>12 DEF Inductive

\* Whoever gives the mutex back leaves it to nobody.
LEMMA GuardReleased ==
  ASSUME QueueIsGuarded, NEW p \in Processes, mutex = p, mutex' = "free",
         pc'[p] \notin {"Push", "StopController", "Test", "Wait", "Pop", "Execute", "Complete", "Fail"},
         \A q \in Processes : q # p => pc'[q] = pc[q]
  PROVE  QueueIsGuarded'
<1>1. "free" \notin Processes
  BY ThreadsAssumption DEF Processes, Threads, Internal
<1>2. \A q \in Processes : q # p => ~InCriticalSection(q)'
  BY DEF QueueIsGuarded, InCriticalSection
<1>3. ~InCriticalSection(p)'
  BY DEF InCriticalSection
<1> QED BY <1>1, <1>2, <1>3 DEF QueueIsGuarded

\* The controller gives it back to wait, or because there is nothing to do.
LEMMA ReleaseStep ==
  ASSUME Inductive, NEW from, NEW to, Release("controller", from, to), queue = <<>>,
         \/ from = "Wait" /\ to = "Waiting"
         \/ from = "Pop" /\ to = "Check"
  PROVE  Inductive'
<1> USE DEF data, client
<1>1. pc["controller"] = from /\ Goto("controller", to) /\ mutex' = "free"
      /\ UNCHANGED <<frames, keepRunning, data>>
  BY DEF Release, At
<1>2. {"main", "subscriber", "controller", "outerLoop"} \subseteq Processes
  BY DEF Processes, Threads
<1>3. /\ pc' \in [Processes -> AllLabels] /\ \A q \in Processes : pc'[q] \in Labels(q)
      /\ pc'["controller"] = to
      /\ \A q \in Processes : q # "controller" => pc'[q] = pc[q]
  <2>1. to \in Labels("controller")
    BY LabelSets DEF ControllerLabels
  <2> QED BY <1>1, <1>2, <2>1, GotoEffect DEF Inductive
<1>4. mutex = "controller"
  BY <1>1, <1>2 DEF Inductive, QueueIsGuarded, InCriticalSection
<1>5. TypeOK'
  BY <1>1, <1>3 DEF Inductive, TypeOK
<1>6. CommandInHand'
  BY <1>1, <1>2, <1>3 DEF Inductive, CommandInHand
<1>7. QueueIsGuarded'
  BY <1>1, <1>2, <1>3, <1>4, GuardReleased DEF Inductive
<1>8. WaitsForNothing'
  BY <1>2, <1>3 DEF WaitsForNothing
<1>9. NoLostWakeup'
  BY <1>1, <1>2, <1>3 DEF Inductive, NoLostWakeup, WaitsForNothing
<1>10. OneUpdate'
  <2>1. QueuedUpdates' = QueuedUpdates
    BY <1>1 DEF QueuedUpdates
  <2>2. UpdateInHand' <=> UpdateInHand
    BY <1>1, <1>2, <1>3 DEF UpdateInHand
  <2>3. OneUpdate
    BY DEF Inductive
  <2> QED BY <1>1, <2>1, <2>2, <2>3 DEF OneUpdate
<1>11. OuterLoopIsFree' /\ NotYetStarted'
  BY <1>1, <1>2, <1>3 DEF Inductive, OuterLoopIsFree, NotYetStarted
<1>12. EnterControlIsFirst' /\ ExitIsFinal'
  BY <1>1, <1>2, <1>3 DEF Inductive, EnterControlIsFirst, ExitIsFinal
<1> QED BY <1>5, <1>6, <1>7, <1>8, <1>9, <1>10, <1>11, <1>12 DEF Inductive

LEMMA StopControllerStep ==
  ASSUME Inductive, StopController
  PROVE  Inductive'
<1> USE DEF data, client
<1>1. /\ pc["main"] = "StopController" /\ Goto("main", "NotifyStop") /\ mutex' = "free"
      /\ keepRunning' = [keepRunning EXCEPT !["controller"] = FALSE]
      /\ UNCHANGED <<frames, data>>
  BY DEF StopController, At
<1>2. {"main", "subscriber", "controller", "outerLoop"} \subseteq Processes
  BY DEF Processes, Threads
<1>3. /\ pc' \in [Processes -> AllLabels] /\ \A q \in Processes : pc'[q] \in Labels(q)
      /\ pc'["main"] = "NotifyStop"
      /\ \A q \in Processes : q # "main" => pc'[q] = pc[q]
  <2>1. "NotifyStop" \in Labels("main")
    BY LabelSets DEF MainLabels
  <2> QED BY <1>1, <1>2, <2>1, GotoEffect DEF Inductive
<1>4. mutex = "main"
  BY <1>1, <1>2 DEF Inductive, QueueIsGuarded, InCriticalSection
<1>5. TypeOK'
  BY <1>1, <1>3 DEF Inductive, TypeOK
<1>6. CommandInHand'
  BY <1>1, <1>2, <1>3 DEF Inductive, CommandInHand
<1>7. QueueIsGuarded'
  BY <1>1, <1>2, <1>3, <1>4, GuardReleased DEF Inductive
<1>8. WaitsForNothing'
  <2>1. pc["controller"] # "Wait"
    BY <1>2, <1>4 DEF Inductive, QueueIsGuarded, InCriticalSection
  <2> QED BY <1>2, <1>3, <2>1 DEF WaitsForNothing
<1>9. NoLostWakeup'
  BY <1>2, <1>3 DEF NoLostWakeup
<1>10. OneUpdate'
  <2>1. QueuedUpdates' = QueuedUpdates
    BY <1>1 DEF QueuedUpdates
  <2>2. UpdateInHand' <=> UpdateInHand
    BY <1>2, <1>3 DEF UpdateInHand
  <2>3. OneUpdate
    BY DEF Inductive
  <2> QED BY <1>1, <2>1, <2>2, <2>3 DEF OneUpdate
<1>11. OuterLoopIsFree' /\ NotYetStarted'
  BY <1>1, <1>2, <1>3 DEF Inductive, OuterLoopIsFree, NotYetStarted
<1>12. EnterControlIsFirst' /\ ExitIsFinal'
  BY <1>1, <1>2, <1>3 DEF Inductive, EnterControlIsFirst, ExitIsFinal
<1> QED BY <1>5, <1>6, <1>7, <1>8, <1>9, <1>10, <1>11, <1>12 DEF Inductive

-----------------------------------------------------------------------------
(* The queue                                                               *)

LEMMA PushStep ==
  ASSUME Inductive, NEW p \in Producers, Push(p)
  PROVE  Inductive'
<1> USE DEF data, client
<1>1. /\ pc[p] = "Push" /\ Goto(p, "Notify") /\ mutex' = "free"
      /\ queue' = Append(queue, Hand(p))
      /\ UNCHANGED <<frames, keepRunning, executing, updateLocked, exitLocked, state, client>>
  BY DEF Push, At
<1>2. /\ {"main", "subscriber", "controller", "outerLoop"} \subseteq Processes
      /\ p \in Processes /\ p # "controller"
  BY ThreadsAssumption DEF Processes, Producers, Threads
<1>3. /\ pc' \in [Processes -> AllLabels] /\ \A q \in Processes : pc'[q] \in Labels(q)
      /\ pc'[p] = "Notify"
      /\ \A q \in Processes : q # p => pc'[q] = pc[q]
  <2>1. "Notify" \in Labels(p)
    BY LabelSets DEF Producers, SubscriberLabels, OuterLoopLabels, HandlerLabels
  <2> QED BY <1>1, <1>2, <2>1, GotoEffect DEF Inductive
<1>4. mutex = p
  BY <1>1, <1>2 DEF Inductive, QueueIsGuarded, InCriticalSection
<1>5. queue \in Seq(Commands) /\ Hand(p) \in Commands
  BY <1>1, HandType DEF Inductive, TypeOK
<1>6. /\ queue' \in Seq(Commands) /\ Len(queue') = Len(queue) + 1
      /\ \A i \in 1..Len(queue) : queue'[i] = queue[i]
      /\ queue'[Len(queue) + 1] = Hand(p)
  BY <1>1, <1>5, AppendProperties
<1>7. DOMAIN queue = 1..Len(queue) /\ DOMAIN queue' = 1..Len(queue) + 1 /\ Len(queue) \in Nat
  BY <1>5, <1>6, LenProperties
<1>8. /\ Hand(p) # EnterControl
      /\ Hand(p) = Update <=> p = "outerLoop"
  BY <1>1, HandKind DEF Inductive
<1>9. TypeOK'
  BY <1>1, <1>3, <1>6 DEF Inductive, TypeOK
<1>10. CommandInHand'
  BY <1>1, <1>2, <1>3 DEF Inductive, CommandInHand
<1>11. QueueIsGuarded'
  BY <1>1, <1>2, <1>3, <1>4, GuardReleased DEF Inductive
<1>12. WaitsForNothing'
  <2>1. pc["controller"] # "Wait"
    BY <1>2, <1>4 DEF Inductive, QueueIsGuarded, InCriticalSection
  <2> QED BY <1>2, <1>3, <2>1 DEF WaitsForNothing
<1>13. NoLostWakeup'
  BY <1>2, <1>3 DEF NoLostWakeup
<1>14. OneUpdate'
  <2>1. OneUpdate
    BY DEF Inductive
  <2>2. CASE p = "outerLoop"
    <3>1. UpdateInHand /\ ~UpdateInHand'
      BY <1>1, <1>3, <2>2 DEF UpdateInHand
    <3>2. QueuedUpdates' = {Len(queue) + 1}
      BY <1>6, <1>7, <1>8, <2>1, <2>2, <3>1 DEF OneUpdate, QueuedUpdates
    <3> QED BY <1>1, <2>1, <3>1, <3>2 DEF OneUpdate
  <2>3. CASE p # "outerLoop"
    <3>1. UpdateInHand' <=> UpdateInHand
      BY <1>2, <1>3, <2>3 DEF UpdateInHand
    <3>2. QueuedUpdates' = QueuedUpdates
      BY <1>6, <1>7, <1>8, <2>3 DEF QueuedUpdates
    <3> QED BY <1>1, <2>1, <3>1, <3>2 DEF OneUpdate
  <2> QED BY <2>2, <2>3
<1>15. OuterLoopIsFree' /\ NotYetStarted'
  BY <1>1, <1>2, <1>3 DEF Inductive, OuterLoopIsFree, NotYetStarted
<1>16. EnterControlIsFirst'
  <2>1. EnterControlIsFirst
    BY DEF Inductive
  <2>2. ASSUME NEW i \in DOMAIN queue', queue'[i] = EnterControl
        PROVE  i = 1 /\ state' = "Offline" /\ exitLocked' /\ executing' = NoCommand
    <3>1. i \in DOMAIN queue /\ queue[i] = EnterControl
      BY <1>6, <1>7, <1>8, <2>2
    <3> QED BY <1>1, <2>1, <3>1 DEF EnterControlIsFirst
  <2>3. pc'["controller"] = pc["controller"]
    BY <1>2, <1>3
  <2> QED BY <1>1, <2>1, <2>2, <2>3 DEF EnterControlIsFirst
<1>17. ExitIsFinal'
  BY <1>1 DEF Inductive, ExitIsFinal
<1> QED BY <1>9, <1>10, <1>11, <1>12, <1>13, <1>14, <1>15, <1>16, <1>17 DEF Inductive

\* Waking the controller up, at the end of enqueue and of stop.
LEMMA NotifiedStep ==
  ASSUME Inductive, NEW p \in Processes, p # "controller", NEW to \in Labels(p),
         pc[p] \in {"Notify", "NotifyStop"}, pc' = Notified(p, to),
         \/ p = "subscriber" /\ to = "Poll"
         \/ p = "outerLoop" /\ to = "Await"
         \/ p \in Signals /\ to = "Return"
         \/ p = "main" /\ to = "StopOuterLoop",
         UNCHANGED <<control, data>>
  PROVE  Inductive'
<1> USE DEF data, client, control
<1>1. {"main", "subscriber", "controller", "outerLoop"} \subseteq Processes
  BY DEF Processes, Threads
<1>2. /\ pc' \in [Processes -> AllLabels] /\ \A q \in Processes : pc'[q] \in Labels(q)
      /\ pc'[p] = to
      /\ pc'["controller"] = IF pc["controller"] = "Waiting" THEN "Lock" ELSE pc["controller"]
      /\ \A q \in Processes \ {p, "controller"} : pc'[q] = pc[q]
  BY NotifiedEffect DEF Inductive
<1>3. "main" \notin Signals /\ "subscriber" \notin Signals /\ "outerLoop" \notin Signals
  BY ThreadsAssumption DEF Threads
<1>4. TypeOK'
  BY <1>2 DEF Inductive, TypeOK
<1>5. CommandInHand'
  BY <1>1, <1>2, <1>3 DEF Inductive, CommandInHand
<1>6. QueueIsGuarded'
  <2>1. ASSUME NEW q \in Processes PROVE InCriticalSection(q)' <=> InCriticalSection(q)
    BY <1>1, <1>2, <1>3, <2>1 DEF InCriticalSection
  <2> QED BY <2>1 DEF Inductive, QueueIsGuarded
<1>7. WaitsForNothing'
  BY <1>2 DEF Inductive, WaitsForNothing
<1>8. NoLostWakeup'
  BY <1>2 DEF NoLostWakeup
<1>9. OneUpdate'
  <2>1. QueuedUpdates' = QueuedUpdates
    BY DEF QueuedUpdates
  <2>2. UpdateInHand' <=> UpdateInHand
    BY <1>1, <1>2, <1>3 DEF UpdateInHand
  <2>3. OneUpdate
    BY DEF Inductive
  <2> QED BY <2>1, <2>2, <2>3 DEF OneUpdate
<1>10. OuterLoopIsFree' /\ NotYetStarted'
  BY <1>1, <1>2, <1>3 DEF Inductive, OuterLoopIsFree, NotYetStarted
<1>11. EnterControlIsFirst' /\ ExitIsFinal'
  BY <1>2 DEF Inductive, EnterControlIsFirst, ExitIsFinal
<1> QED BY <1>4, <1>5, <1>6, <1>7, <1>8, <1>9, <1>10, <1>11 DEF Inductive

LEMMA PopStep ==
  ASSUME Inductive, ControllerPop
  PROVE  Inductive'
<1> USE DEF data, client, control
<1>1. /\ pc["controller"] = "Pop" /\ Goto("controller", "Execute") /\ queue # <<>>
      /\ executing' = Head(queue) /\ queue' = Tail(queue)
      /\ UNCHANGED <<control, updateLocked, exitLocked, state, client>>
  BY DEF ControllerPop, At
<1>2. {"main", "subscriber", "controller", "outerLoop"} \subseteq Processes
  BY DEF Processes, Threads
<1>3. /\ pc' \in [Processes -> AllLabels] /\ \A q \in Processes : pc'[q] \in Labels(q)
      /\ pc'["controller"] = "Execute"
      /\ \A q \in Processes : q # "controller" => pc'[q] = pc[q]
  <2>1. "Execute" \in Labels("controller")
    BY LabelSets DEF ControllerLabels
  <2> QED BY <1>1, <1>2, <2>1, GotoEffect DEF Inductive
<1>4. queue \in Seq(Commands)
  BY DEF Inductive, TypeOK
<1>5. /\ executing' \in Commands /\ executing' = queue[1]
      /\ queue' \in Seq(Commands) /\ Len(queue') = Len(queue) - 1
      /\ \A i \in 1..Len(queue') : queue'[i] = queue[i + 1]
  BY <1>1, <1>4, HeadTailProperties
<1>6. /\ DOMAIN queue = 1..Len(queue) /\ DOMAIN queue' = 1..Len(queue')
      /\ Len(queue) \in Nat /\ Len(queue) >= 1
  BY <1>1, <1>4, <1>5, LenProperties, EmptySeq
<1>7. executing = NoCommand
  BY <1>1 DEF Inductive, CommandInHand
<1>8. TypeOK'
  BY <1>1, <1>3, <1>5 DEF Inductive, TypeOK
<1>9. CommandInHand'
  BY <1>1, <1>2, <1>3, <1>5, CommandKinds DEF Inductive, CommandInHand
<1>10. QueueIsGuarded'
  <2>1. ASSUME NEW q \in Processes PROVE InCriticalSection(q)' <=> InCriticalSection(q)
    BY <1>1, <1>2, <1>3, <2>1 DEF InCriticalSection
  <2> QED BY <1>1, <2>1 DEF Inductive, QueueIsGuarded
<1>11. WaitsForNothing'
  BY <1>3 DEF WaitsForNothing
<1>12. NoLostWakeup'
  BY <1>3 DEF NoLostWakeup
<1>13. OneUpdate'
  <2>1. OneUpdate
    BY DEF Inductive
  <2>2. UpdateInHand' <=> UpdateInHand
    BY <1>2, <1>3 DEF UpdateInHand
  <2>3. executing' = Update <=> 1 \in QueuedUpdates
    BY <1>5, <1>6 DEF QueuedUpdates
  <2>4. \A i \in QueuedUpdates' : i + 1 \in QueuedUpdates /\ i \in Nat /\ i + 1 # 1
    BY <1>5, <1>6 DEF QueuedUpdates
  <2>5. \A i \in QueuedUpdates : i # 1 => i - 1 \in QueuedUpdates'
    BY <1>5, <1>6 DEF QueuedUpdates
  <2>6. executing # Update
    BY <1>7, CommandKinds
  <2>7. \A i, j \in QueuedUpdates' : i = j
    BY <2>1, <2>4 DEF OneUpdate
  <2>8. executing' = Update => QueuedUpdates' = {}
    BY <2>1, <2>3, <2>4 DEF OneUpdate
  <2>9. UpdateInHand' => QueuedUpdates' = {} /\ executing' # Update
    BY <2>1, <2>2, <2>3, <2>4 DEF OneUpdate
  <2>10. QueuedUpdates # {} <=> QueuedUpdates' # {} \/ executing' = Update
    BY <2>3, <2>4, <2>5
  <2> QED BY <1>1, <2>1, <2>2, <2>6, <2>7, <2>8, <2>9, <2>10 DEF OneUpdate
<1>14. OuterLoopIsFree' /\ NotYetStarted'
  BY <1>1, <1>2, <1>3 DEF Inductive, OuterLoopIsFree, NotYetStarted
<1>15. EnterControlIsFirst'
  <2>1. EnterControlIsFirst
    BY DEF Inductive
  <2>2. \A i \in DOMAIN queue' : queue'[i] # EnterControl
    BY <1>5, <1>6, <2>1 DEF EnterControlIsFirst
  <2>3. executing' = EnterControl => state' = "Offline" /\ exitLocked'
    BY <1>1, <1>5, <1>6, <2>1 DEF EnterControlIsFirst
  <2> QED BY <2>2, <2>3 DEF EnterControlIsFirst
<1>16. ExitIsFinal'
  BY <1>1 DEF Inductive, ExitIsFinal
<1> QED BY <1>8, <1>9, <1>10, <1>11, <1>12, <1>13, <1>14, <1>15, <1>16 DEF Inductive

-----------------------------------------------------------------------------
(* The controller thread                                                   *)

LEMMA TestStep ==
  ASSUME Inductive, ControllerTest \/ SpuriousWakeup
  PROVE  Inductive'
<1> USE DEF data, client, control
<1>1. PICK to \in {"Wait", "Pop", "Lock"} :
        /\ Goto("controller", to) /\ UNCHANGED <<control, data>>
        /\ \/ pc["controller"] = "Test" /\ to = "Pop"
           \/ pc["controller"] = "Test" /\ to = "Wait" /\ queue = <<>> /\ keepRunning["controller"]
           \/ pc["controller"] = "Waiting" /\ to = "Lock"
  BY DEF ControllerTest, SpuriousWakeup, Step, At
<1>2. {"main", "subscriber", "controller", "outerLoop"} \subseteq Processes
  BY DEF Processes, Threads
<1>3. /\ pc' \in [Processes -> AllLabels] /\ \A q \in Processes : pc'[q] \in Labels(q)
      /\ pc'["controller"] = to
      /\ \A q \in Processes : q # "controller" => pc'[q] = pc[q]
  <2>1. to \in Labels("controller")
    BY LabelSets DEF ControllerLabels
  <2> QED BY <1>1, <1>2, <2>1, GotoEffect DEF Inductive
<1>4. TypeOK'
  BY <1>1, <1>3 DEF Inductive, TypeOK
<1>5. CommandInHand'
  BY <1>1, <1>2, <1>3 DEF Inductive, CommandInHand
<1>6. QueueIsGuarded'
  <2>1. ASSUME NEW q \in Processes PROVE InCriticalSection(q)' <=> InCriticalSection(q)
    BY <1>1, <1>3, <2>1 DEF InCriticalSection
  <2> QED BY <1>1, <2>1 DEF Inductive, QueueIsGuarded
<1>7. WaitsForNothing'
  BY <1>1, <1>3 DEF WaitsForNothing
<1>8. NoLostWakeup'
  BY <1>3 DEF NoLostWakeup
<1>9. OneUpdate'
  <2>1. QueuedUpdates' = QueuedUpdates
    BY <1>1 DEF QueuedUpdates
  <2>2. UpdateInHand' <=> UpdateInHand
    BY <1>2, <1>3 DEF UpdateInHand
  <2>3. OneUpdate
    BY DEF Inductive
  <2> QED BY <1>1, <2>1, <2>2, <2>3 DEF OneUpdate
<1>10. OuterLoopIsFree' /\ NotYetStarted'
  BY <1>1, <1>2, <1>3 DEF Inductive, OuterLoopIsFree, NotYetStarted
<1>11. EnterControlIsFirst' /\ ExitIsFinal'
  BY <1>1, <1>3 DEF Inductive, EnterControlIsFirst, ExitIsFinal
<1> QED BY <1>4, <1>5, <1>6, <1>7, <1>8, <1>9, <1>10, <1>11 DEF Inductive

States == {"Offline", "Standby", "Operating"}

\* Executing a command other than EnterControl does not take control, and a
\* successful ExitControl gives it up.
LEMMA OutcomesEffect ==
  ASSUME state \in States, NEW c \in Commands, NEW o \in Outcomes(c.kind)
  PROVE  /\ o.next \in States
         /\ c.kind # "EnterControl" /\ state = "Offline" => o.next = "Offline"
         /\ c.kind = "ExitControl" /\ o.result = "done" => o.next = "Offline"
<1>1. CASE c.kind = "EnterControl"
  BY <1>1 DEF Outcomes, States
<1>2. CASE c.kind = "Start"
  BY <1>2 DEF Outcomes, States
<1>3. CASE c.kind = "Standby"
  BY <1>3 DEF Outcomes, States
<1>4. CASE c.kind = "ExitControl"
  BY <1>4 DEF Outcomes, States
<1>5. CASE c.kind = "Update"
  BY <1>5 DEF Outcomes, States
<1>6. CASE c.kind = "Other"
  BY <1>6 DEF Outcomes, States
<1> QED BY <1>1, <1>2, <1>3, <1>4, <1>5, <1>6, CommandKinds DEF ClientKinds

\* What a step of the controller that keeps the mutex and the queue does to
\* the conjuncts that it cannot disturb.
LEMMA ControllerKeeps ==
  ASSUME Inductive, NEW to \in Labels("controller"),
         pc["controller"] \in {"Execute", "Complete", "Fail"}, Goto("controller", to),
         to \in {"Complete", "Fail", "Pop"},
         UNCHANGED <<control, queue, unsent, parcel>>
  PROVE  /\ pc' \in [Processes -> AllLabels] /\ \A q \in Processes : pc'[q] \in Labels(q)
         /\ pc'["controller"] = to
         /\ \A q \in Processes : q # "controller" => pc'[q] = pc[q]
         /\ QueueIsGuarded' /\ WaitsForNothing' /\ NoLostWakeup'
         /\ QueuedUpdates' = QueuedUpdates
         /\ UpdateInHand' <=> UpdateInHand
         /\ pc'["subscriber"] \in {"Enqueue", "Push"} => parcel' \in ClientCommands
         /\ executing \in Commands
         /\ \A i \in DOMAIN queue : queue[i] # EnterControl
<1> USE DEF control
<1>1. {"main", "subscriber", "controller", "outerLoop"} \subseteq Processes
  BY DEF Processes, Threads
<1>2. /\ pc' \in [Processes -> AllLabels] /\ \A q \in Processes : pc'[q] \in Labels(q)
      /\ pc'["controller"] = to
      /\ \A q \in Processes : q # "controller" => pc'[q] = pc[q]
  BY <1>1, GotoEffect DEF Inductive
<1>3. QueueIsGuarded'
  <2>1. ASSUME NEW q \in Processes PROVE InCriticalSection(q)' <=> InCriticalSection(q)
    BY <1>2, <2>1 DEF InCriticalSection
  <2> QED BY <2>1 DEF Inductive, QueueIsGuarded
<1>4. WaitsForNothing' /\ NoLostWakeup'
  BY <1>2 DEF WaitsForNothing, NoLostWakeup
<1>5. QueuedUpdates' = QueuedUpdates
  BY DEF QueuedUpdates
<1>6. UpdateInHand' <=> UpdateInHand
  BY <1>1, <1>2 DEF UpdateInHand
<1>7. pc'["subscriber"] \in {"Enqueue", "Push"} => parcel' \in ClientCommands
  BY <1>1, <1>2 DEF Inductive, CommandInHand
<1>8. executing # NoCommand /\ executing \in Commands
  BY DEF Inductive, CommandInHand, TypeOK
<1>9. \A i \in DOMAIN queue : queue[i] # EnterControl
  BY <1>8 DEF Inductive, EnterControlIsFirst
<1> QED BY <1>2, <1>3, <1>4, <1>5, <1>6, <1>7, <1>8, <1>9

LEMMA ExecuteStep ==
  ASSUME Inductive, Execute
  PROVE  Inductive'
<1> USE DEF control
<1>1. PICK o \in Outcomes(executing.kind) :
        /\ state' = o.next
        /\ exitLocked' = (exitLocked /\ ~(executing.kind = "ExitControl" /\ o.result = "done"))
        /\ acks' = Acknowledged(executing, IF o.result = "rejected"
                                           THEN <<"InProgress", "Failed">> ELSE <<"InProgress">>)
        /\ Goto("controller", IF o.result = "exception" THEN "Fail" ELSE "Complete")
  BY DEF Execute
<1>2. /\ pc["controller"] = "Execute"
      /\ UNCHANGED <<control, queue, executing, updateLocked, unsent, parcel>>
  BY DEF Execute, At
<1> DEFINE to == IF o.result = "exception" THEN "Fail" ELSE "Complete"
           answer == IF o.result = "rejected" THEN <<"InProgress", "Failed">> ELSE <<"InProgress">>
<1>3. to \in Labels("controller") /\ to \in {"Complete", "Fail"}
  BY LabelSets DEF ControllerLabels
<1>4. Goto("controller", to)
  BY <1>1
<1> HIDE DEF to
<1>5. /\ pc' \in [Processes -> AllLabels] /\ \A q \in Processes : pc'[q] \in Labels(q)
      /\ pc'["controller"] = to
      /\ \A q \in Processes : q # "controller" => pc'[q] = pc[q]
      /\ QueueIsGuarded' /\ WaitsForNothing' /\ NoLostWakeup'
      /\ QueuedUpdates' = QueuedUpdates
      /\ UpdateInHand' <=> UpdateInHand
      /\ pc'["subscriber"] \in {"Enqueue", "Push"} => parcel' \in ClientCommands
      /\ executing \in Commands
      /\ \A i \in DOMAIN queue : queue[i] # EnterControl
  BY <1>2, <1>3, <1>4, ControllerKeeps
<1>6. state \in States /\ exitLocked \in BOOLEAN
  BY DEF Inductive, TypeOK, States
<1>7. /\ state' \in States
      /\ executing.kind # "EnterControl" /\ state = "Offline" => state' = "Offline"
      /\ executing.kind = "ExitControl" /\ o.result = "done" => state' = "Offline"
  BY <1>1, <1>5, <1>6, OutcomesEffect
<1>8. TypeOK'
  <2>1. answer \in Seq({"InProgress", "Failed", "Complete"})
    <3>1. <<"InProgress", "Failed">> \in Seq({"InProgress", "Failed", "Complete"})
      OBVIOUS
    <3>2. <<"InProgress">> \in Seq({"InProgress", "Failed", "Complete"})
      OBVIOUS
    <3> QED BY <3>1, <3>2, Zenon
  <2>2. acks' = Acknowledged(executing, answer)
    BY <1>1
  <2> HIDE DEF answer
  <2>3. acks' \in [Clients -> Seq({"InProgress", "Failed", "Complete"})]
    BY <2>1, <2>2, AcknowledgedType DEF Inductive
  <2>4. exitLocked' \in BOOLEAN
    BY <1>1
  <2> QED BY <1>2, <1>5, <1>7, <2>3, <2>4 DEF Inductive, TypeOK, States
<1>9. CommandInHand'
  BY <1>2, <1>3, <1>5 DEF Inductive, CommandInHand
<1>10. OneUpdate'
  BY <1>2, <1>5 DEF Inductive, OneUpdate
<1>11. OuterLoopIsFree' /\ NotYetStarted'
  <2>1. {"main", "subscriber", "outerLoop"} \subseteq Processes
    BY DEF Processes, Threads
  <2> QED BY <1>2, <1>5, <2>1 DEF Inductive, OuterLoopIsFree, NotYetStarted
<1>12. EnterControlIsFirst'
  BY <1>2, <1>3, <1>5 DEF EnterControlIsFirst
<1>13. ExitIsFinal'
  <2>1. CASE ~exitLocked
    <3>1. state = "Offline"
      BY <2>1 DEF Inductive, ExitIsFinal
    <3>2. executing.kind # "EnterControl"
      BY <1>2, <1>5, <2>1, CommandKinds DEF Inductive, EnterControlIsFirst
    <3> QED BY <1>7, <3>1, <3>2 DEF ExitIsFinal
  <2>2. CASE exitLocked
    BY <1>1, <1>7, <2>2 DEF ExitIsFinal
  <2> QED BY <2>1, <2>2
<1> QED BY <1>5, <1>8, <1>9, <1>10, <1>11, <1>12, <1>13 DEF Inductive

LEMMA FinishStep ==
  ASSUME Inductive, NEW label \in {"Complete", "Fail"}, NEW ack \in {"Complete", "Failed"},
         FinishCommand(label, ack)
  PROVE  Inductive'
<1> USE DEF control
<1>1. /\ pc["controller"] = label /\ Goto("controller", "Pop")
      /\ acks' = Acknowledged(executing, <<ack>>)
      /\ executing' = NoCommand
      /\ updateLocked' = (updateLocked /\ executing # Update)
      /\ UNCHANGED <<control, queue, exitLocked, state, unsent, parcel>>
  BY DEF FinishCommand, At
<1>2. "Pop" \in Labels("controller")
  BY LabelSets DEF ControllerLabels
<1>3. /\ pc' \in [Processes -> AllLabels] /\ \A q \in Processes : pc'[q] \in Labels(q)
      /\ pc'["controller"] = "Pop"
      /\ \A q \in Processes : q # "controller" => pc'[q] = pc[q]
      /\ QueueIsGuarded' /\ WaitsForNothing' /\ NoLostWakeup'
      /\ QueuedUpdates' = QueuedUpdates
      /\ UpdateInHand' <=> UpdateInHand
      /\ pc'["subscriber"] \in {"Enqueue", "Push"} => parcel' \in ClientCommands
      /\ executing \in Commands
      /\ \A i \in DOMAIN queue : queue[i] # EnterControl
  BY <1>1, <1>2, ControllerKeeps
<1>4. TypeOK'
  <2>1. acks' \in [Clients -> Seq({"InProgress", "Failed", "Complete"})]
    <3>1. <<ack>> \in Seq({"InProgress", "Failed", "Complete"})
      OBVIOUS
    <3> QED BY <1>1, <3>1, AcknowledgedType DEF Inductive
  <2>2. updateLocked' \in BOOLEAN
    BY <1>1 DEF Inductive, TypeOK
  <2> QED BY <1>1, <1>3, <2>1, <2>2 DEF Inductive, TypeOK
<1>5. CommandInHand'
  BY <1>1, <1>3 DEF CommandInHand
<1>6. OneUpdate'
  <2>1. OneUpdate /\ executing' # Update
    BY <1>1, CommandKinds DEF Inductive
  <2>2. CASE executing = Update
    BY <1>1, <1>3, <2>1, <2>2 DEF OneUpdate
  <2>3. CASE executing # Update
    BY <1>1, <1>3, <2>1, <2>3 DEF OneUpdate
  <2> QED BY <2>2, <2>3
<1>7. OuterLoopIsFree' /\ NotYetStarted'
  <2>1. {"main", "subscriber", "outerLoop"} \subseteq Processes
    BY DEF Processes, Threads
  <2> QED BY <1>1, <1>3, <2>1 DEF Inductive, OuterLoopIsFree, NotYetStarted
<1>8. EnterControlIsFirst'
  BY <1>1, <1>3 DEF EnterControlIsFirst
<1>9. ExitIsFinal'
  BY <1>1 DEF Inductive, ExitIsFinal
<1> QED BY <1>3, <1>4, <1>5, <1>6, <1>7, <1>8, <1>9 DEF Inductive

-----------------------------------------------------------------------------
(* The producers and the signals                                           *)

LEMMA ConstructStep ==
  ASSUME Inductive, ConstructUpdate
  PROVE  Inductive'
<1> USE DEF data, client, control
<1>1. /\ pc["outerLoop"] = "Construct" /\ Goto("outerLoop", "Enqueue")
      /\ ~updateLocked /\ updateLocked' = TRUE
      /\ UNCHANGED <<control, queue, executing, exitLocked, state, client>>
  BY DEF ConstructUpdate, At
<1>2. {"main", "subscriber", "controller", "outerLoop"} \subseteq Processes
  BY DEF Processes, Threads
<1>3. /\ pc' \in [Processes -> AllLabels] /\ \A q \in Processes : pc'[q] \in Labels(q)
      /\ pc'["outerLoop"] = "Enqueue"
      /\ \A q \in Processes : q # "outerLoop" => pc'[q] = pc[q]
  <2>1. "Enqueue" \in Labels("outerLoop")
    BY LabelSets DEF OuterLoopLabels
  <2> QED BY <1>1, <1>2, <2>1, GotoEffect DEF Inductive
<1>4. TypeOK'
  BY <1>1, <1>3 DEF Inductive, TypeOK
<1>5. CommandInHand'
  BY <1>1, <1>2, <1>3 DEF Inductive, CommandInHand
<1>6. QueueIsGuarded'
  <2>1. ASSUME NEW q \in Processes PROVE InCriticalSection(q)' <=> InCriticalSection(q)
    BY <1>1, <1>3, <2>1 DEF InCriticalSection
  <2> QED BY <1>1, <2>1 DEF Inductive, QueueIsGuarded
<1>7. WaitsForNothing'
  BY <1>1, <1>2, <1>3 DEF Inductive, WaitsForNothing
<1>8. NoLostWakeup'
  BY <1>1, <1>2, <1>3 DEF Inductive, NoLostWakeup
<1>9. OneUpdate'
  <2>1. QueuedUpdates' = QueuedUpdates
    BY <1>1 DEF QueuedUpdates
  <2>2. UpdateInHand'
    BY <1>3 DEF UpdateInHand
  <2>3. QueuedUpdates = {} /\ executing # Update
    BY <1>1 DEF Inductive, OneUpdate
  <2> QED BY <1>1, <2>1, <2>2, <2>3 DEF OneUpdate
<1>10. OuterLoopIsFree' /\ NotYetStarted'
  BY <1>1, <1>2, <1>3 DEF Inductive, OuterLoopIsFree, NotYetStarted
<1>11. EnterControlIsFirst' /\ ExitIsFinal'
  BY <1>1, <1>2, <1>3 DEF Inductive, EnterControlIsFirst, ExitIsFinal
<1> QED BY <1>4, <1>5, <1>6, <1>7, <1>8, <1>9, <1>10, <1>11 DEF Inductive

LEMMA AcceptStep ==
  ASSUME Inductive, AcceptCommand
  PROVE  Inductive'
<1> USE DEF control
<1>1. PICK c \in ClientCommands :
        /\ c.id \in unsent
        /\ unsent' = unsent \ {c.id}
        /\ \/ parcel' = c /\ Goto("subscriber", "Enqueue") /\ UNCHANGED acks
           \/ acks' = Acknowledged(c, <<"Failed">>) /\ UNCHANGED <<parcel, pc>>
  BY DEF AcceptCommand
<1>2. /\ pc["subscriber"] = "Poll"
      /\ UNCHANGED <<control, queue, executing, updateLocked, exitLocked, state>>
  BY DEF AcceptCommand, At
<1>3. {"main", "subscriber", "controller", "outerLoop"} \subseteq Processes
  BY DEF Processes, Threads
<1>4. /\ pc' \in [Processes -> AllLabels] /\ \A q \in Processes : pc'[q] \in Labels(q)
      /\ \/ pc'["subscriber"] = "Enqueue" /\ parcel' \in ClientCommands
         \/ pc'["subscriber"] = "Poll" /\ parcel' = parcel
      /\ \A q \in Processes : q # "subscriber" => pc'[q] = pc[q]
  <2>1. CASE Goto("subscriber", "Enqueue") /\ parcel' = c
    <3>1. "Enqueue" \in Labels("subscriber")
      BY LabelSets DEF SubscriberLabels
    <3> QED BY <1>3, <2>1, <3>1, GotoEffect DEF Inductive
  <2>2. CASE UNCHANGED <<parcel, pc>>
    BY <1>2, <2>2 DEF Inductive, TypeOK
  <2> QED BY <1>1, <2>1, <2>2
<1>5. TypeOK'
  <2>1. acks' \in [Clients -> Seq({"InProgress", "Failed", "Complete"})]
    <3>1. <<"Failed">> \in Seq({"InProgress", "Failed", "Complete"})
      OBVIOUS
    <3>2. CASE acks' = acks
      BY <3>2 DEF Inductive, TypeOK
    <3>3. CASE acks' = Acknowledged(c, <<"Failed">>)
      BY <3>1, <3>3, AcknowledgedType DEF Inductive
    <3> QED BY <1>1, <3>2, <3>3
  <2>2. unsent' \subseteq Clients
    BY <1>1 DEF Inductive, TypeOK
  <2>3. parcel' \in ClientCommands \cup {NoCommand}
    BY <1>4 DEF Inductive, TypeOK
  <2> QED BY <1>2, <1>4, <2>1, <2>2, <2>3 DEF Inductive, TypeOK
<1>6. CommandInHand'
  BY <1>2, <1>3, <1>4 DEF Inductive, CommandInHand
<1>7. QueueIsGuarded'
  <2>1. ASSUME NEW q \in Processes PROVE InCriticalSection(q)' <=> InCriticalSection(q)
    BY <1>2, <1>4, <2>1 DEF InCriticalSection
  <2> QED BY <1>2, <2>1 DEF Inductive, QueueIsGuarded
<1>8. WaitsForNothing'
  BY <1>2, <1>3, <1>4 DEF Inductive, WaitsForNothing
<1>9. NoLostWakeup'
  BY <1>2, <1>3, <1>4 DEF Inductive, NoLostWakeup
<1>10. OneUpdate'
  <2>1. QueuedUpdates' = QueuedUpdates
    BY <1>2 DEF QueuedUpdates
  <2>2. UpdateInHand' <=> UpdateInHand
    BY <1>3, <1>4 DEF UpdateInHand
  <2>3. OneUpdate
    BY DEF Inductive
  <2> QED BY <1>2, <2>1, <2>2, <2>3 DEF OneUpdate
<1>11. OuterLoopIsFree' /\ NotYetStarted'
  BY <1>2, <1>3, <1>4 DEF Inductive, OuterLoopIsFree, NotYetStarted
<1>12. EnterControlIsFirst' /\ ExitIsFinal'
  BY <1>2, <1>3, <1>4 DEF Inductive, EnterControlIsFirst, ExitIsFinal
<1> QED BY <1>4, <1>5, <1>6, <1>7, <1>8, <1>9, <1>10, <1>11, <1>12 DEF Inductive

\* A signal handler begins, and returns.
LEMMA SignalStep ==
  ASSUME Inductive, NEW s \in Signals, Deliver(s) \/ Return(s)
  PROVE  Inductive'
<1> USE DEF control
<1>1. PICK to \in {"Enqueue", "Done"} :
        /\ pc[s] \in {"Idle", "Return"} /\ Goto(s, to)
        /\ UNCHANGED <<data, mutex, keepRunning>>
  BY DEF Deliver, Return, At
<1>2. s \in Processes /\ s \notin Threads
  BY ThreadsAreProcesses
<1>3. /\ pc' \in [Processes -> AllLabels] /\ \A q \in Processes : pc'[q] \in Labels(q)
      /\ pc'[s] = to
      /\ \A q \in Processes : q # s => pc'[q] = pc[q]
  <2>1. to \in Labels(s)
    BY LabelSets DEF HandlerLabels
  <2> QED BY <1>1, <1>2, <2>1, GotoEffect DEF Inductive
<1>4. frames' \in [Threads -> Seq(Signals)]
  <2>1. frames \in [Threads -> Seq(Signals)]
    BY DEF Inductive, TypeOK
  <2>2. CASE Deliver(s)
    <3>1. PICK t \in Receivers : frames' = [frames EXCEPT ![t] = <<s>> \o @]
      BY <2>2 DEF Deliver
    <3>2. t \in Threads
      BY ThreadsAssumption
    <3>3. <<s>> \o frames[t] \in Seq(Signals)
      BY <2>1, <3>2, ConcatProperties
    <3> QED BY <2>1, <3>1, <3>2, <3>3
  <2>3. CASE Return(s)
    <3>1. frames' = [t \in Threads |-> IF frames[t] # <<>> /\ Head(frames[t]) = s
                                       THEN Tail(frames[t]) ELSE frames[t]]
      BY <2>3 DEF Return
    <3>2. \A t \in Threads : frames[t] # <<>> => Tail(frames[t]) \in Seq(Signals)
      BY <2>1, HeadTailProperties
    <3> QED BY <2>1, <3>1, <3>2
  <2> QED BY <2>2, <2>3
<1>5. "subscriber" \in Processes \ {s} /\ "outerLoop" \in Processes \ {s}
  BY <1>2 DEF Processes, Threads
<1>6. keepRunning' \in [Threads -> BOOLEAN]
  BY <1>1 DEF Inductive, TypeOK
<1>7. pc[s] \notin Marked /\ pc'[s] \notin Marked
  BY <1>1, <1>3 DEF Marked
<1>8. NotYetStarted'
  <2>1. {"main", "controller"} \subseteq Processes \ {s}
    BY <1>2 DEF Processes, Threads
  <2> QED BY <1>3, <1>5, <2>1 DEF Inductive, NotYetStarted
<1> QED BY <1>1, <1>3, <1>4, <1>5, <1>6, <1>7, <1>8, QuietMove

-----------------------------------------------------------------------------
(* The main thread                                                         *)

LEMMA StartStep ==
  ASSUME Inductive, NEW t \in Threads, NEW from, NEW to, StartThread(t, from, to),
         \/ t = "pps" /\ from = "StartPPS" /\ to = "StartSubscriber"
         \/ t = "subscriber" /\ from = "StartSubscriber" /\ to = "StartController"
         \/ t = "controller" /\ from = "StartController" /\ to = "StartOuterLoop"
         \/ t = "outerLoop" /\ from = "StartOuterLoop" /\ to = "WaitForExit"
  PROVE  Inductive'
<1> USE DEF control
<1>1. /\ pc["main"] = from /\ pc' = [pc EXCEPT !["main"] = to, ![t] = "Check"]
      /\ UNCHANGED <<control, data>>
  BY DEF StartThread, At
<1>2. {"main", "subscriber", "controller", "outerLoop", t} \subseteq Processes
  BY DEF Processes, Threads
<1>3. "Check" \in Labels(t) /\ to \in Labels("main")
  BY LabelSets DEF MainLabels, SubscriberLabels, ControllerLabels, OuterLoopLabels
<1>4. "Check" \in AllLabels /\ to \in AllLabels
  BY <1>2, <1>3 DEF AllLabels
<1>5. /\ pc' \in [Processes -> AllLabels]
      /\ pc'["main"] = to /\ pc'[t] = "Check"
      /\ \A q \in Processes \ {"main", t} : pc'[q] = pc[q]
  BY <1>1, <1>2, <1>4 DEF Inductive, TypeOK
<1>6. \A q \in Processes : pc'[q] \in Labels(q)
  BY <1>3, <1>5 DEF Inductive, TypeOK
<1>7. frames' \in [Threads -> Seq(Signals)] /\ keepRunning' \in [Threads -> BOOLEAN]
  BY <1>1 DEF Inductive, TypeOK
<1>8. NotYetStarted'
  BY <1>1, <1>2, <1>5 DEF Inductive, NotYetStarted
<1>9. pc[t] \in {"Off", "Check", "Done", "Terminated"} /\ (t # "pps" => pc[t] = "Off")
  BY <1>1, <1>2, LabelSets DEF Inductive, NotYetStarted, TypeOK
<1>10. t = "outerLoop" => ~updateLocked
  BY <1>9 DEF Inductive, OuterLoopIsFree
<1>11. pc[t] \notin Marked /\ pc'[t] \notin Marked /\ from \notin Marked /\ to \notin Marked
  BY <1>5, <1>9 DEF Marked
<1> QED BY <1>1, <1>2, <1>5, <1>6, <1>7, <1>8, <1>9, <1>10, <1>11, QuietMove

LEMMA StopStep ==
  ASSUME Inductive, NEW t \in Threads, t # "controller", NEW from, NEW to \in MainLabels,
         StopThread(t, from, to), from \notin Marked, to \notin Marked \cup StartLabels
  PROVE  Inductive'
<1> USE DEF control
<1>1. /\ pc["main"] = from /\ Goto("main", to)
      /\ keepRunning' = [keepRunning EXCEPT ![t] = FALSE]
      /\ UNCHANGED <<frames, mutex, data>>
  BY DEF StopThread, At
<1>2. {"main", "subscriber", "controller", "outerLoop"} \subseteq Processes
  BY DEF Processes, Threads
<1>3. /\ pc' \in [Processes -> AllLabels] /\ \A q \in Processes : pc'[q] \in Labels(q)
      /\ pc'["main"] = to
      /\ \A q \in Processes : q # "main" => pc'[q] = pc[q]
  BY <1>1, <1>2, LabelSets, GotoEffect DEF Inductive
<1>4. /\ frames' \in [Threads -> Seq(Signals)] /\ keepRunning' \in [Threads -> BOOLEAN]
      /\ keepRunning'["controller"] = keepRunning["controller"]
  BY <1>1 DEF Inductive, TypeOK, Threads
<1>5. NotYetStarted'
  BY <1>2, <1>3 DEF NotYetStarted, StartLabels
<1> QED BY <1>1, <1>2, <1>3, <1>4, <1>5, QuietMove

-----------------------------------------------------------------------------
(* Every step                                                              *)

LEMMA InitEstablishes == Init => Inductive
<1> SUFFICES ASSUME Init PROVE Inductive
  OBVIOUS
<1> USE DEF Init
<1>1. /\ {"main", "pps", "subscriber", "controller", "outerLoop"} \subseteq Processes
      /\ \A p \in Processes : pc[p] \in {"StartPPS", "Off", "Idle"}
      /\ pc["main"] = "StartPPS" /\ pc["controller"] = "Off"
      /\ pc["subscriber"] = "Off" /\ pc["outerLoop"] = "Off"
  BY DEF Processes, Threads
<1>2. \A p \in Processes : pc[p] \in Labels(p)
  <2>1. \A t \in Threads : pc[t] \in Labels(t)
    BY LabelSets DEF Processes, Threads, MainLabels, SubscriberLabels, ControllerLabels,
                     OuterLoopLabels
  <2>2. \A s \in Signals : pc[s] \in Labels(s)
    BY LabelSets, ThreadsAreProcesses DEF Threads, HandlerLabels
  <2> QED BY <2>1, <2>2 DEF Processes
<1>3. pc \in [Processes -> AllLabels]
  BY <1>2 DEF AllLabels
<1>4. queue \in Seq(Commands) /\ frames \in [Threads -> Seq(Signals)]
      /\ acks \in [Clients -> Seq({"InProgress", "Failed", "Complete"})]
  <2>1. EnterControl \in Commands
    BY CommandKinds
  <2> QED BY <2>1, EmptySeq
<1>5. TypeOK
  BY <1>2, <1>3, <1>4 DEF TypeOK
<1>6. CommandInHand /\ WaitsForNothing /\ NoLostWakeup /\ OuterLoopIsFree /\ NotYetStarted
  BY <1>1 DEF CommandInHand, WaitsForNothing, NoLostWakeup, OuterLoopIsFree, NotYetStarted
<1>7. QueueIsGuarded
  <2>1. "free" \notin Processes
    BY ThreadsAssumption DEF Processes, Threads, Internal
  <2> QED BY <1>1, <2>1 DEF QueueIsGuarded, InCriticalSection
<1>8. DOMAIN queue = {1} /\ queue[1] = EnterControl
  OBVIOUS
<1>9. OneUpdate
  <2>1. QueuedUpdates = {}
    BY <1>8, CommandKinds DEF QueuedUpdates
  <2>2. ~UpdateInHand
    BY <1>1 DEF UpdateInHand
  <2>3. executing # Update
    BY CommandKinds
  <2> QED BY <2>1, <2>2, <2>3 DEF OneUpdate
<1>10. EnterControlIsFirst /\ ExitIsFinal
  BY <1>1, <1>8 DEF EnterControlIsFirst, ExitIsFinal
<1> QED BY <1>5, <1>6, <1>7, <1>9, <1>10 DEF Inductive

LEMMA EnqueueStep ==
  ASSUME Inductive, NEW p \in Producers, Enqueue(p)
  PROVE  Inductive'
<1>1. p \in Processes /\ p # "controller"
  BY ThreadsAreProcesses DEF Producers, Threads
<1>2. CASE LockQueue(p)
  <2>1. "Push" \in Labels(p)
    BY LabelSets DEF Producers, SubscriberLabels, OuterLoopLabels, HandlerLabels
  <2> QED BY <1>1, <1>2, <2>1, AcquireStep DEF LockQueue
<1>3. CASE Push(p)
  BY <1>3, PushStep
<1>4. CASE Notify(p)
  <2> DEFINE to == AfterEnqueue(p)
  <2>1. \/ p = "subscriber" /\ to = "Poll"
        \/ p = "outerLoop" /\ to = "Await"
        \/ p \in Signals /\ to = "Return"
    <3>1. CASE p = "subscriber"
      BY <3>1 DEF AfterEnqueue
    <3>2. CASE p = "outerLoop"
      BY <3>2 DEF AfterEnqueue
    <3>3. CASE p \in Signals
      BY <3>3, ThreadsAreProcesses DEF AfterEnqueue, Threads
    <3> QED BY <3>1, <3>2, <3>3 DEF Producers
  <2>2. pc[p] = "Notify" /\ pc' = Notified(p, to) /\ UNCHANGED <<control, data>>
    BY <1>4 DEF Notify, At
  <2> HIDE DEF to
  <2>3. to \in Labels(p)
    BY <2>1, LabelSets DEF SubscriberLabels, OuterLoopLabels, HandlerLabels
  <2> QED BY <1>1, <2>1, <2>2, <2>3, NotifiedStep
<1> QED BY <1>2, <1>3, <1>4 DEF Enqueue

LEMMA ControllerStep ==
  ASSUME Inductive, Controller \/ SpuriousWakeup
  PROVE  Inductive'
<1>1. "controller" \in Processes
  BY DEF Processes, Threads
<1>2. CASE ControllerCheck
  <2> DEFINE to == IF keepRunning["controller"] THEN "Lock" ELSE "Done"
  <2>1. to \in Labels("controller") /\ to \notin Marked
    BY LabelSets DEF ControllerLabels, Marked
  <2>2. "Check" \notin Marked \cup {"Off"}
    BY DEF Marked
  <2>3. Step("controller", "Check", to)
    BY <1>2 DEF ControllerCheck
  <2> QED BY <1>1, <2>1, <2>2, <2>3, QuietStep
<1>3. CASE ControllerLock
  <2>1. "Test" \in Labels("controller")
    BY LabelSets DEF ControllerLabels
  <2> QED BY <1>1, <1>3, <2>1, AcquireStep DEF ControllerLock
<1>4. CASE ControllerTest \/ SpuriousWakeup
  BY <1>4, TestStep
<1>5. CASE ControllerWait
  <2>1. queue = <<>>
    BY <1>5 DEF Inductive, WaitsForNothing, ControllerWait, Release, At
  <2> QED BY <1>5, <2>1, ReleaseStep DEF ControllerWait
<1>6. CASE ControllerPop
  BY <1>6, PopStep
<1>7. CASE ControllerUnlock
  BY <1>7, ReleaseStep DEF ControllerUnlock
<1>8. CASE Execute
  BY <1>8, ExecuteStep
<1>9. CASE FinishCommand("Complete", "Complete") \/ FinishCommand("Fail", "Failed")
  BY <1>9, FinishStep
<1> QED BY <1>2, <1>3, <1>4, <1>5, <1>6, <1>7, <1>8, <1>9 DEF Controller

LEMMA OuterLoopStep ==
  ASSUME Inductive, OuterLoop
  PROVE  Inductive'
<1>1. "outerLoop" \in Processes /\ "outerLoop" \in Producers
  BY DEF Processes, Threads, Producers
<1>2. /\ pc["outerLoop"] \in {"Check", "Tick", "Acknowledge"} => ~updateLocked
  BY DEF Inductive, OuterLoopIsFree
<1>3. \A to \in OuterLoopLabels : to \in Labels("outerLoop")
  BY LabelSets
<1>4. CASE OuterLoopCheck
  <2> DEFINE to == IF keepRunning["outerLoop"] THEN "Tick" ELSE "Done"
  <2>1. to \in OuterLoopLabels /\ to \notin Marked \cup {"Enqueue"}
    BY DEF OuterLoopLabels, Marked
  <2>2. "Check" \notin Marked \cup {"Off"} /\ ~updateLocked
    BY <1>2, <1>4 DEF Marked, OuterLoopCheck, Step, At
  <2>3. Step("outerLoop", "Check", to)
    BY <1>4 DEF OuterLoopCheck
  <2> HIDE DEF to
  <2> QED BY <1>1, <1>3, <2>1, <2>2, <2>3, QuietStep
<1>5. CASE OuterLoopTick
  <2> DEFINE to == IF keepRunning["outerLoop"] THEN "Construct" ELSE "Await"
  <2>1. to \in OuterLoopLabels /\ to \notin Marked \cup {"Enqueue"}
    BY DEF OuterLoopLabels, Marked
  <2>2. "Tick" \notin Marked \cup {"Off"} /\ ~updateLocked
    BY <1>2, <1>5 DEF Marked, OuterLoopTick, Step, At
  <2>3. Step("outerLoop", "Tick", to)
    BY <1>5 DEF OuterLoopTick
  <2> HIDE DEF to
  <2> QED BY <1>1, <1>3, <2>1, <2>2, <2>3, QuietStep
<1>6. CASE ConstructUpdate
  BY <1>6, ConstructStep
<1>7. CASE Enqueue("outerLoop")
  BY <1>1, <1>7, EnqueueStep
<1>8. CASE AwaitUpdate
  <2>1. "Acknowledge" \in OuterLoopLabels /\ "Await" \notin Marked \cup {"Off"}
        /\ "Acknowledge" \notin Marked
    BY DEF OuterLoopLabels, Marked
  <2> QED BY <1>1, <1>3, <1>8, <2>1, QuietStep DEF AwaitUpdate
<1>9. CASE AcknowledgeClock
  <2>1. PICK to \in {"Check", "Terminated"} : Step("outerLoop", "Acknowledge", to)
    BY <1>9 DEF AcknowledgeClock
  <2>2. to \in OuterLoopLabels /\ "Acknowledge" \notin Marked \cup {"Off"} /\ to \notin Marked
    BY DEF OuterLoopLabels, Marked
  <2>3. ~updateLocked
    BY <1>2, <2>1 DEF Step, At
  <2> QED BY <1>1, <1>3, <2>1, <2>2, <2>3, QuietStep
<1> QED BY <1>4, <1>5, <1>6, <1>7, <1>8, <1>9 DEF OuterLoop

LEMMA SubscriberStep ==
  ASSUME Inductive, Subscriber
  PROVE  Inductive'
<1>1. "subscriber" \in Processes /\ "subscriber" \in Producers
  BY DEF Processes, Threads, Producers
<1>2. CASE SubscriberCheck \/ EndPass
  <2>1. PICK from \in {"Check", "Poll"}, to \in {"Poll", "Done", "Check"} :
          Step("subscriber", from, to)
    BY <1>2 DEF SubscriberCheck, EndPass
  <2>2. to \in Labels("subscriber") /\ from \notin Marked \cup {"Off"} /\ to \notin Marked
    BY LabelSets DEF SubscriberLabels, Marked
  <2> QED BY <1>1, <2>1, <2>2, QuietStep
<1>3. CASE AcceptCommand
  BY <1>3, AcceptStep
<1>4. CASE Enqueue("subscriber")
  BY <1>1, <1>4, EnqueueStep
<1> QED BY <1>2, <1>3, <1>4 DEF Subscriber

LEMMA PPSStep ==
  ASSUME Inductive, PPSEnds \/ PPSThrows
  PROVE  Inductive'
<1>1. PICK to \in {"Done", "Terminated"} : Step("pps", "Check", to)
  BY DEF PPSEnds, PPSThrows
<1>2. /\ "pps" \in Processes /\ to \in Labels("pps")
      /\ "Check" \notin Marked \cup {"Off"} /\ to \notin Marked
  BY LabelSets DEF Processes, Threads, Marked
<1> QED BY <1>1, <1>2, QuietStep

LEMMA MainStep ==
  ASSUME Inductive, Main
  PROVE  Inductive'
<1>1. "main" \in Processes /\ "main" \notin Producers /\ \A to \in MainLabels : to \in Labels("main")
  BY LabelSets, ThreadsAssumption DEF Processes, Threads, Producers
<1>2. CASE \/ StartThread("pps", "StartPPS", "StartSubscriber")
           \/ StartThread("subscriber", "StartSubscriber", "StartController")
           \/ StartThread("controller", "StartController", "StartOuterLoop")
           \/ StartThread("outerLoop", "StartOuterLoop", "WaitForExit")
  BY <1>2, StartStep DEF Threads
<1>3. CASE \/ WaitForExitControl
           \/ \E t \in Threads, from, to \in MainLabels :
                /\ Join(t, from, to)
                /\ from \in {"JoinPPS", "JoinSubscriber", "JoinController", "JoinOuterLoop"}
                /\ to \in {"JoinSubscriber", "JoinController", "JoinOuterLoop", "Clear"}
           \/ Clear
  <2>1. PICK from \in {"WaitForExit", "JoinPPS", "JoinSubscriber", "JoinController",
                       "JoinOuterLoop", "Clear"},
             to \in {"StopPPS", "JoinSubscriber", "JoinController", "JoinOuterLoop", "Clear",
                     "Ended", "Undefined"} :
          Step("main", from, to)
    BY <1>3 DEF WaitForExitControl, Join, Clear
  <2>2. to \in MainLabels \ StartLabels /\ from \notin Marked \cup {"Off"} /\ to \notin Marked
    BY DEF MainLabels, StartLabels, Marked
  <2> QED BY <1>1, <2>1, <2>2, QuietStep
<1>4. CASE \/ StopThread("pps", "StopPPS", "StopSubscriber")
           \/ StopThread("subscriber", "StopSubscriber", "LockToStop")
           \/ StopThread("outerLoop", "StopOuterLoop", "JoinPPS")
  <2>1. PICK t \in {"pps", "subscriber", "outerLoop"},
             from \in {"StopPPS", "StopSubscriber", "StopOuterLoop"},
             to \in {"StopSubscriber", "LockToStop", "JoinPPS"} :
          StopThread(t, from, to)
    BY <1>4
  <2>2. /\ t \in Threads /\ t # "controller" /\ to \in MainLabels
        /\ from \notin Marked /\ to \notin Marked \cup StartLabels
    BY DEF Threads, MainLabels, Marked, StartLabels
  <2> QED BY <2>1, <2>2, StopStep
<1>5. CASE LockToStop
  <2>1. "StopController" \in MainLabels
    BY DEF MainLabels
  <2> QED BY <1>1, <1>5, <2>1, AcquireStep DEF LockToStop
<1>6. CASE StopController
  BY <1>6, StopControllerStep
<1>7. CASE NotifyStop
  <2>1. pc["main"] = "NotifyStop" /\ pc' = Notified("main", "StopOuterLoop")
        /\ UNCHANGED <<control, data>>
    BY <1>7 DEF NotifyStop, At
  <2>2. "StopOuterLoop" \in MainLabels
    BY DEF MainLabels
  <2> QED BY <1>1, <2>1, <2>2, NotifiedStep
<1>8. CASE \/ Join("pps", "JoinPPS", "JoinSubscriber")
           \/ Join("subscriber", "JoinSubscriber", "JoinController")
           \/ Join("controller", "JoinController", "JoinOuterLoop")
           \/ Join("outerLoop", "JoinOuterLoop", "Clear")
  BY <1>3, <1>8 DEF Threads, MainLabels
<1> QED BY <1>2, <1>3, <1>4, <1>5, <1>6, <1>7, <1>8 DEF Main

LEMMA NextPreserves == Inductive /\ [Next]_vars => Inductive'
<1> SUFFICES ASSUME Inductive, [Next]_vars PROVE Inductive'
  OBVIOUS
<1>1. CASE Controller \/ SpuriousWakeup
  BY <1>1, ControllerStep
<1>2. CASE OuterLoop
  BY <1>2, OuterLoopStep
<1>3. CASE Subscriber
  BY <1>3, SubscriberStep
<1>4. CASE PPSEnds \/ PPSThrows
  BY <1>4, PPSStep
<1>5. CASE Main
  BY <1>5, MainStep
<1>6. ASSUME NEW s \in Signals, Deliver(s) \/ Handler(s) PROVE Inductive'
  BY <1>6, SignalStep, EnqueueStep DEF Handler, Producers
<1>7. CASE UNCHANGED vars
  BY <1>7 DEF vars, control, data, client, Inductive, TypeOK, CommandInHand, QueueIsGuarded,
              InCriticalSection, WaitsForNothing, NoLostWakeup, OneUpdate, QueuedUpdates,
              UpdateInHand, OuterLoopIsFree, NotYetStarted, EnterControlIsFirst, ExitIsFinal
<1> QED BY <1>1, <1>2, <1>3, <1>4, <1>5, <1>6, <1>7 DEF Next

-----------------------------------------------------------------------------
(* Theorems                                                                *)

\* The conjuncts of Inductive hold whatever the threads and the signals do.
THEOREM Invariance == Spec => []Inductive
BY InitEstablishes, NextPreserves, PTL DEF Spec

\* The variables keep their types, and each thread is at one of its places.
THEOREM TypeCorrect == Spec => []TypeOK
BY Invariance, PTL DEF Inductive

\* Only the owner of the mutex touches the queue and the controller's flag,
\* however many signal handlers interrupt whichever threads.
THEOREM Guarded == Spec => []QueueIsGuarded
BY Invariance, PTL DEF Inductive

\* The controller never waits on a command or an order to stop that nobody
\* is about to notify it of: no wake-up is lost.
THEOREM WakeUps == Spec => []NoLostWakeup
BY Invariance, PTL DEF Inductive

\* The update mutex, locked by one thread and unlocked by another, is locked
\* exactly while the one update command exists.
THEOREM UpdateMutex == Spec => []OneUpdate
BY Invariance, PTL DEF Inductive

\* The outer loop thread outlives every update, which points to its mutex.
THEOREM NoDangling == Spec => []NoDanglingUpdate
<1>1. Inductive => NoDanglingUpdate
  BY DEF Inductive, OuterLoopIsFree, OneUpdate, NoDanglingUpdate
<1> QED BY <1>1, Invariance, PTL

\* No command that is executed after ExitControl takes control again.
THEOREM ExitStays == Spec => []ExitIsFinal
BY Invariance, PTL DEF Inductive

-----------------------------------------------------------------------------
(* No third deadlock: the handlers on the stacks, and what main has done   *)

\* Where a handler is while it is on the stack of a thread.
Active == {"Enqueue", "Push", "Notify", "Return"}

\* The handlers that run are on one stack each, and only they.
Stacks ==
  /\ \A t \in Threads : \A i \in DOMAIN frames[t] : pc[frames[t][i]] \in Active
  /\ \A s \in Signals : pc[s] \in Active =>
       \E t \in Threads : \E i \in DOMAIN frames[t] : frames[t][i] = s
  /\ \A t, u \in Threads : \A i \in DOMAIN frames[t], j \in DOMAIN frames[u] :
       frames[t][i] = frames[u][j] => t = u /\ i = j

\* Main has started every thread it is to stop and to join.
Started ==
  /\ pc["main"] # "StartPPS" => pc["pps"] # "Off"
  /\ pc["main"] \notin {"StartPPS", "StartSubscriber"} => pc["subscriber"] # "Off"
  /\ pc["main"] \notin {"StartPPS", "StartSubscriber", "StartController"} => pc["controller"] # "Off"
  /\ pc["main"] \notin StartLabels => pc["outerLoop"] # "Off"

\* Main has told every thread that it is past stopping.
BeforeStops == StartLabels \cup {"WaitForExit", "StopPPS"}
BeforeControllerStops == BeforeStops \cup {"StopSubscriber", "LockToStop", "StopController"}
ToldToStop ==
  /\ pc["main"] \notin BeforeStops => ~keepRunning["pps"]
  /\ pc["main"] \notin BeforeStops \cup {"StopSubscriber"} => ~keepRunning["subscriber"]
  /\ pc["main"] \notin BeforeControllerStops => ~keepRunning["controller"]
  /\ pc["main"] \notin BeforeControllerStops \cup {"NotifyStop", "StopOuterLoop"}
       => ~keepRunning["outerLoop"]

\* Before ExitControl is executed nobody is told to stop, and nobody ends
\* who was not told.
Begun == StartLabels \cup {"WaitForExit"}
StopsWhenTold ==
  /\ exitLocked => pc["main"] \in Begun
  /\ pc["main"] \in Begun => \A t \in Threads : keepRunning[t]
  /\ \A t \in Threads : pc[t] = "Done" => ~keepRunning[t]

OnTheWay == Stacks /\ Started /\ ToldToStop /\ StopsWhenTold

\* A step of p to a place where it is not "Off", with or without a notification.
MovesTo(p, to) ==
  /\ to # "Off"
  /\ to = "Done" => p \in Threads /\ ~keepRunning[p]
  /\ Goto(p, to) \/ (p # "controller" /\ pc' = Notified(p, to))
  /\ p \in Signals => pc[p] \in Active /\ to \in Active

LEMMA MovesToFacts ==
  ASSUME TypeOK, NEW p \in Processes, NEW to, MovesTo(p, to)
  PROVE  /\ \A t \in Threads : pc[t] # "Off" => pc'[t] # "Off"
         /\ \A s \in Signals : pc'[s] \in Active <=> pc[s] \in Active
         /\ \A t \in Threads \ {"controller"} : t # p => pc'[t] = pc[t]
         /\ \A t \in Threads : pc'[t] = "Done" => pc[t] = "Done" \/ ~keepRunning[t]
         /\ p \in Threads => pc'[p] = to
<1>1. /\ "controller" \in Processes
      /\ \A t \in Threads : t \in Processes
      /\ \A s \in Signals : s \in Processes /\ s \notin Threads /\ s # "controller"
  BY ThreadsAreProcesses DEF Threads
<1>2. CASE Goto(p, to)
  BY <1>1, <1>2 DEF Goto, TypeOK, MovesTo
<1>3. CASE p # "controller" /\ pc' = Notified(p, to)
  <2> DEFINE woken == IF pc["controller"] = "Waiting" THEN "Lock" ELSE pc["controller"]
  <2>1. pc' = [pc EXCEPT ![p] = to, !["controller"] = woken]
    BY <1>3 DEF Notified
  <2>2. /\ pc["controller"] # "Off" => woken # "Off"
        /\ woken = "Done" => pc["controller"] = "Done"
    OBVIOUS
  <2> HIDE DEF woken
  <2> QED BY <1>1, <1>3, <2>1, <2>2 DEF TypeOK, MovesTo
<1> QED BY <1>2, <1>3 DEF MovesTo

\* A producer that enqueues moves on, and a handler stays on its stack.
LEMMA EnqueueMoves ==
  ASSUME NEW p \in Producers, Enqueue(p)
  PROVE  UNCHANGED <<frames, keepRunning, exitLocked>> /\ \E to : MovesTo(p, to)
<1> USE DEF control, data
<1>1. p # "controller"
  BY ThreadsAssumption DEF Producers, Threads
<1>2. CASE LockQueue(p)
  <2>1. MovesTo(p, "Push") /\ UNCHANGED <<frames, keepRunning, exitLocked>>
    BY <1>2 DEF LockQueue, Acquire, At, MovesTo, Active
  <2> QED BY <2>1
<1>3. CASE Push(p)
  <2>1. MovesTo(p, "Notify") /\ UNCHANGED <<frames, keepRunning, exitLocked>>
    BY <1>3 DEF Push, At, MovesTo, Active
  <2> QED BY <2>1
<1>4. CASE Notify(p)
  <2>1. p \in Signals => AfterEnqueue(p) = "Return"
    BY ThreadsAreProcesses DEF AfterEnqueue, Threads
  <2>2. AfterEnqueue(p) \notin {"Off", "Done"}
    BY DEF AfterEnqueue
  <2>3. pc[p] = "Notify" /\ pc' = Notified(p, AfterEnqueue(p)) /\ UNCHANGED <<frames, keepRunning, exitLocked>>
    BY <1>4 DEF Notify, At
  <2>4. MovesTo(p, AfterEnqueue(p))
    BY <1>1, <2>1, <2>2, <2>3 DEF MovesTo, Active
  <2> QED BY <2>3, <2>4
<1> QED BY <1>2, <1>3, <1>4 DEF Enqueue

\* So does every thread but main, when it takes a step.
LEMMA WorkerMoves ==
  ASSUME Controller \/ SpuriousWakeup \/ OuterLoop \/ Subscriber \/ PPSEnds \/ PPSThrows
  PROVE  /\ UNCHANGED <<frames, keepRunning>> /\ (exitLocked' => exitLocked)
         /\ UNCHANGED pc \/ \E p \in Threads \ {"main"} : \E to : MovesTo(p, to)
<1> USE DEF control, data
<1>1. /\ \A t \in Threads : t \notin Signals
      /\ {"pps", "subscriber", "controller", "outerLoop"} \subseteq Threads \ {"main"}
  BY ThreadsAreProcesses DEF Threads
<1>2. ASSUME NEW p \in Threads \ {"main"}, NEW from, NEW to, to # "Off",
             to = "Done" => ~keepRunning[p], Step(p, from, to)
      PROVE  UNCHANGED <<frames, keepRunning, exitLocked>> /\ MovesTo(p, to)
  BY <1>1, <1>2 DEF Step, MovesTo
<1>3. CASE Controller \/ SpuriousWakeup
  <2>1. CASE ControllerCheck \/ ControllerTest \/ SpuriousWakeup
    <3>1. PICK from, to : to # "Off" /\ (to = "Done" => ~keepRunning["controller"]) /\ Step("controller", from, to)
      BY <2>1 DEF ControllerCheck, ControllerTest, SpuriousWakeup
    <3> QED BY <1>1, <1>2, <3>1
  <2>2. CASE ControllerLock \/ ControllerWait \/ ControllerUnlock
    <3>1. PICK to : /\ to \notin {"Off", "Done"} /\ Goto("controller", to)
                    /\ UNCHANGED <<frames, keepRunning>> /\ (exitLocked' => exitLocked)
      BY <2>2 DEF ControllerLock, ControllerWait, ControllerUnlock, Acquire, Release
    <3> QED BY <1>1, <3>1 DEF MovesTo
  <2>3. CASE ControllerPop \/ Execute
    <3>1. CASE ControllerPop
      BY <1>1, <3>1 DEF ControllerPop, MovesTo
    <3>2. CASE Execute
      <4>1. PICK o \in Outcomes(executing.kind) :
              /\ exitLocked' = (exitLocked /\ ~(executing.kind = "ExitControl" /\ o.result = "done"))
              /\ Goto("controller", IF o.result = "exception" THEN "Fail" ELSE "Complete")
        BY <3>2 DEF Execute
      <4>2. PICK to \in {"Fail", "Complete"} : Goto("controller", to)
        BY <4>1
      <4>3. MovesTo("controller", to) /\ "controller" \in Threads \ {"main"}
        BY <1>1, <4>2 DEF MovesTo
      <4>4. UNCHANGED <<frames, keepRunning>>
        BY <3>2 DEF Execute
      <4>5. exitLocked' => exitLocked
        BY <4>1, Zenon
      <4> QED BY <4>3, <4>4, <4>5
    <3> QED BY <2>3, <3>1, <3>2
  <2>4. CASE FinishCommand("Complete", "Complete") \/ FinishCommand("Fail", "Failed")
    <3>1. PICK to : /\ to \notin {"Off", "Done"} /\ Goto("controller", to)
                    /\ UNCHANGED <<frames, keepRunning>> /\ (exitLocked' => exitLocked)
      BY <2>4 DEF FinishCommand
    <3> QED BY <1>1, <3>1 DEF MovesTo
  <2> QED BY <1>3, <2>1, <2>2, <2>3, <2>4 DEF Controller
<1>4. CASE OuterLoop
  <2>1. CASE OuterLoopCheck \/ OuterLoopTick \/ AwaitUpdate \/ AcknowledgeClock
    <3>1. PICK from, to : to # "Off" /\ (to = "Done" => ~keepRunning["outerLoop"]) /\ Step("outerLoop", from, to)
      BY <2>1 DEF OuterLoopCheck, OuterLoopTick, AwaitUpdate, AcknowledgeClock
    <3> QED BY <1>1, <1>2, <3>1
  <2>2. CASE ConstructUpdate
    BY <1>1, <2>2 DEF ConstructUpdate, MovesTo
  <2>3. CASE Enqueue("outerLoop")
    BY <1>1, <2>3, EnqueueMoves DEF Producers
  <2> QED BY <1>4, <2>1, <2>2, <2>3 DEF OuterLoop
<1>5. CASE Subscriber
  <2>1. CASE SubscriberCheck \/ EndPass
    <3>1. PICK from, to : to # "Off" /\ (to = "Done" => ~keepRunning["subscriber"]) /\ Step("subscriber", from, to)
      BY <2>1 DEF SubscriberCheck, EndPass
    <3> QED BY <1>1, <1>2, <3>1
  <2>2. CASE AcceptCommand
    BY <1>1, <2>2 DEF AcceptCommand, MovesTo
  <2>3. CASE Enqueue("subscriber")
    BY <1>1, <2>3, EnqueueMoves DEF Producers
  <2> QED BY <1>5, <2>1, <2>2, <2>3 DEF Subscriber
<1>6. CASE PPSEnds \/ PPSThrows
  <2>1. PICK from, to : to # "Off" /\ (to = "Done" => ~keepRunning["pps"]) /\ Step("pps", from, to)
    BY <1>6 DEF PPSEnds, PPSThrows
  <2> QED BY <1>1, <1>2, <2>1
<1> QED BY <1>3, <1>4, <1>5, <1>6

\* A step of anybody but main that leaves the stacks and the flags alone.
LEMMA MovesKeep ==
  ASSUME TypeOK, OnTheWay, UNCHANGED <<frames, keepRunning>>,
         exitLocked' => exitLocked,
         UNCHANGED pc \/ \E p \in Processes \ {"main"} : \E to : MovesTo(p, to)
  PROVE  OnTheWay'
<1>1. {"main", "pps", "subscriber", "controller", "outerLoop"} \subseteq Threads
  BY DEF Threads
<1>2. /\ \A t \in Threads : pc[t] # "Off" => pc'[t] # "Off"
      /\ \A s \in Signals : pc'[s] \in Active <=> pc[s] \in Active
      /\ pc'["main"] = pc["main"]
      /\ \A t \in Threads : pc'[t] = "Done" => pc[t] = "Done" \/ ~keepRunning[t]
  BY <1>1, MovesToFacts
<1>3. Stacks'
  BY <1>2 DEF OnTheWay, Stacks, TypeOK
<1>4. Started' /\ ToldToStop' /\ StopsWhenTold'
  BY <1>1, <1>2 DEF OnTheWay, Started, ToldToStop, StopsWhenTold
<1> QED BY <1>3, <1>4 DEF OnTheWay

\* Main starts the threads, stops them and joins them in this order.
LEMMA MainMoves ==
  ASSUME TypeOK, OnTheWay, Main
  PROVE  OnTheWay'
<1> USE DEF control, data, StartLabels, BeforeStops, BeforeControllerStops
<1>1. /\ \A t \in Threads : t \in Processes
      /\ \A s \in Signals : s \in Processes /\ s \notin Threads
      /\ {"main", "pps", "subscriber", "controller", "outerLoop"} = Threads
  BY ThreadsAreProcesses DEF Threads
<1>2. ASSUME NEW from, NEW to, to # "Off", pc["main"] = from, frames' = frames,
             Goto("main", to) \/ pc' = Notified("main", to),
             to \notin StartLabels \cup {"WaitForExit"},
             from \notin StartLabels,
             \A t \in Threads : ~keepRunning[t] => ~keepRunning'[t],
             to # "Done", exitLocked' = exitLocked, from = "WaitForExit" => ~exitLocked,
             from \in BeforeStops => to \in BeforeStops \/ ~keepRunning'["pps"],
             from \in BeforeStops \cup {"StopSubscriber"}
               => to \in BeforeStops \cup {"StopSubscriber"} \/ ~keepRunning'["subscriber"],
             from \in BeforeControllerStops
               => to \in BeforeControllerStops \/ ~keepRunning'["controller"],
             from \in BeforeControllerStops \cup {"NotifyStop", "StopOuterLoop"}
               => \/ to \in BeforeControllerStops \cup {"NotifyStop", "StopOuterLoop"}
                  \/ ~keepRunning'["outerLoop"]
      PROVE  OnTheWay'
  <2>1. MovesTo("main", to)
    BY <1>1, <1>2 DEF MovesTo
  <2>2. /\ \A t \in Threads : pc[t] # "Off" => pc'[t] # "Off"
        /\ \A s \in Signals : pc'[s] \in Active <=> pc[s] \in Active
        /\ pc'["main"] = to
    BY <1>1, <2>1, MovesToFacts
  <2>3. Stacks'
    BY <1>2, <2>2 DEF OnTheWay, Stacks, TypeOK
  <2>4. Started'
    BY <1>1, <1>2, <2>2 DEF OnTheWay, Started
  <2>5. ToldToStop'
    BY <1>1, <1>2, <2>2 DEF OnTheWay, ToldToStop
  <2>6. StopsWhenTold'
    <3>1. \A t \in Threads : pc'[t] = "Done" => pc[t] = "Done" \/ ~keepRunning[t]
      BY <1>1, <2>1, MovesToFacts
    <3> QED BY <1>1, <1>2, <2>2, <3>1 DEF OnTheWay, StopsWhenTold, Begun
  <2> QED BY <2>3, <2>4, <2>5, <2>6 DEF OnTheWay
<1>3. ASSUME NEW t \in Threads, NEW from, NEW to, StartThread(t, from, to),
             \/ t = "pps" /\ from = "StartPPS" /\ to = "StartSubscriber"
             \/ t = "subscriber" /\ from = "StartSubscriber" /\ to = "StartController"
             \/ t = "controller" /\ from = "StartController" /\ to = "StartOuterLoop"
             \/ t = "outerLoop" /\ from = "StartOuterLoop" /\ to = "WaitForExit"
      PROVE  OnTheWay'
  <2>1. /\ pc["main"] = from /\ pc' = [pc EXCEPT !["main"] = to, ![t] = "Check"]
        /\ UNCHANGED <<frames, keepRunning, exitLocked>>
    BY <1>3 DEF StartThread, At
  <2>2. /\ pc'["main"] = to /\ pc'[t] = "Check"
        /\ \A q \in Processes \ {"main", t} : pc'[q] = pc[q]
    BY <1>1, <1>3, <2>1 DEF TypeOK
  <2>3. \A s \in Signals : pc'[s] = pc[s]
    BY <1>1, <2>2
  <2>4. Stacks'
    <3>1. /\ frames' = frames
          /\ \A s \in Signals : pc'[s] \in Active <=> pc[s] \in Active
      BY <2>1, <2>3
    <3>2. \A u \in Threads : \A i \in DOMAIN frames[u] : frames[u][i] \in Signals
      BY DEF TypeOK
    <3> QED BY <3>1, <3>2 DEF OnTheWay, Stacks
  <2>5. Started'
    BY <1>1, <1>3, <2>1, <2>2 DEF OnTheWay, Started
  <2>6. ToldToStop'
    BY <1>1, <1>3, <2>1, <2>2 DEF OnTheWay, ToldToStop
  <2>7. StopsWhenTold'
    BY <1>1, <1>3, <2>1, <2>2 DEF OnTheWay, StopsWhenTold, Begun
  <2> QED BY <2>4, <2>5, <2>6, <2>7 DEF OnTheWay
<1>4. CASE \/ StartThread("pps", "StartPPS", "StartSubscriber")
           \/ StartThread("subscriber", "StartSubscriber", "StartController")
           \/ StartThread("controller", "StartController", "StartOuterLoop")
           \/ StartThread("outerLoop", "StartOuterLoop", "WaitForExit")
  BY <1>1, <1>3, <1>4
<1>5. CASE WaitForExitControl \/ LockToStop \/ NotifyStop \/ Clear
  <2>1. CASE WaitForExitControl
    BY <1>2, <2>1 DEF WaitForExitControl, Step, At
  <2>2. CASE LockToStop
    BY <1>2, <2>2 DEF LockToStop, Acquire, At
  <2>3. CASE NotifyStop
    BY <1>2, <2>3 DEF NotifyStop, At
  <2>4. CASE Clear
    <3>1. PICK to \in {"Ended", "Undefined"} : Step("main", "Clear", to)
      BY <2>4 DEF Clear
    <3> QED BY <1>2, <3>1 DEF Step, At
  <2> QED BY <1>5, <2>1, <2>2, <2>3, <2>4
<1>6. CASE \/ StopThread("pps", "StopPPS", "StopSubscriber")
           \/ StopThread("subscriber", "StopSubscriber", "LockToStop")
           \/ StopThread("outerLoop", "StopOuterLoop", "JoinPPS")
           \/ StopController
  <2>1. CASE StopThread("pps", "StopPPS", "StopSubscriber")
    BY <1>1, <1>2, <2>1 DEF StopThread, At, TypeOK
  <2>2. CASE StopThread("subscriber", "StopSubscriber", "LockToStop")
    BY <1>1, <1>2, <2>2 DEF StopThread, At, TypeOK
  <2>3. CASE StopThread("outerLoop", "StopOuterLoop", "JoinPPS")
    BY <1>1, <1>2, <2>3 DEF StopThread, At, TypeOK
  <2>4. CASE StopController
    BY <1>1, <1>2, <2>4 DEF StopController, At, TypeOK
  <2> QED BY <1>6, <2>1, <2>2, <2>3, <2>4
<1>7. CASE \/ Join("pps", "JoinPPS", "JoinSubscriber")
           \/ Join("subscriber", "JoinSubscriber", "JoinController")
           \/ Join("controller", "JoinController", "JoinOuterLoop")
           \/ Join("outerLoop", "JoinOuterLoop", "Clear")
  <2>1. PICK from \in {"JoinPPS", "JoinSubscriber", "JoinController", "JoinOuterLoop"},
             to \in {"JoinSubscriber", "JoinController", "JoinOuterLoop", "Clear"} :
          Step("main", from, to)
    BY <1>7 DEF Join
  <2> QED BY <1>2, <2>1 DEF Step, At
<1> QED BY <1>4, <1>5, <1>6, <1>7 DEF Main

\* A handler is put on top of a stack.
LEMMA DeliverMoves ==
  ASSUME TypeOK, OnTheWay, NEW s \in Signals, Deliver(s)
  PROVE  OnTheWay'
<1>1. /\ s \in Processes /\ s \notin Threads /\ \A q \in Signals : q \in Processes
      /\ {"main", "pps", "subscriber", "controller", "outerLoop"} = Threads
      /\ \A t \in Threads : t \in Processes
  BY ThreadsAreProcesses DEF Threads
<1>2. /\ pc[s] = "Idle" /\ Goto(s, "Enqueue") /\ UNCHANGED <<keepRunning, exitLocked>>
  BY DEF Deliver, data
<1>3. PICK t \in Threads : frames' = [frames EXCEPT ![t] = <<s>> \o @]
  BY ThreadsAssumption DEF Deliver
<1>4. pc'[s] = "Enqueue" /\ \A q \in Processes : q # s => pc'[q] = pc[q]
  BY <1>1, <1>2 DEF Goto, TypeOK
<1>5. /\ \A u \in Threads : frames[u] \in Seq(Signals)
      /\ \A u \in Threads : u # t => frames'[u] = frames[u]
      /\ frames'[t] = <<s>> \o frames[t]
  BY <1>3 DEF TypeOK
<1>6. /\ DOMAIN frames'[t] = 1 .. Len(frames[t]) + 1
      /\ frames'[t][1] = s
      /\ \A i \in DOMAIN frames[t] : i \in 1 .. Len(frames[t]) /\ frames'[t][i + 1] = frames[t][i]
      /\ \A i \in DOMAIN frames'[t] : i = 1 \/ (i - 1 \in DOMAIN frames[t] /\ frames'[t][i] = frames[t][i - 1])
  <2>1. frames[t] \in Seq(Signals) /\ <<s>> \in Seq(Signals) /\ Len(<<s>>) = 1 /\ <<s>>[1] = s
    BY <1>5
  <2>2. /\ Len(<<s>> \o frames[t]) = 1 + Len(frames[t]) /\ <<s>> \o frames[t] \in Seq(Signals)
        /\ \A i \in 1 .. 1 + Len(frames[t]) :
             (<<s>> \o frames[t])[i] = IF i <= 1 THEN <<s>>[i] ELSE frames[t][i - 1]
    BY <2>1, ConcatProperties
  <2>3. DOMAIN frames[t] = 1 .. Len(frames[t]) /\ Len(frames[t]) \in Nat
    BY <2>1
  <2> DEFINE new == <<s>> \o frames[t]
  <2>4. DOMAIN new = 1 .. Len(frames[t]) + 1
    BY <2>2, <2>3
  <2>5. \A i \in DOMAIN new : new[i] = IF i <= 1 THEN s ELSE frames[t][i - 1]
    BY <2>1, <2>2, <2>3, <2>4
  <2>6. frames'[t] = new
    BY <1>5
  <2> HIDE DEF new
  <2> DEFINE old == frames[t]
  <2>7. /\ DOMAIN old = 1 .. Len(old) /\ Len(old) \in Nat /\ DOMAIN new = 1 .. Len(old) + 1
        /\ \A i \in DOMAIN new : new[i] = IF i <= 1 THEN s ELSE old[i - 1]
    BY <2>3, <2>4, <2>5
  <2> HIDE DEF old
  <2>8. 1 \in DOMAIN new /\ new[1] = s
    BY <2>7
  <2>9. ASSUME NEW i \in DOMAIN old PROVE i \in 1 .. Len(old) /\ new[i + 1] = old[i]
    <3>1. i \in Int /\ 1 <= i /\ i <= Len(old) /\ i + 1 \in DOMAIN new
      BY <2>7
    <3>2. new[i + 1] = old[i + 1 - 1] /\ i + 1 - 1 = i
      BY <2>7, <3>1
    <3> QED BY <2>7, <3>2
  <2>10. ASSUME NEW i \in DOMAIN new PROVE i = 1 \/ (i - 1 \in DOMAIN old /\ new[i] = old[i - 1])
    BY <2>7
  <2>11. /\ DOMAIN new = 1 .. Len(old) + 1
         /\ new[1] = s
         /\ \A i \in DOMAIN old : i \in 1 .. Len(old) /\ new[i + 1] = old[i]
         /\ \A i \in DOMAIN new : i = 1 \/ (i - 1 \in DOMAIN old /\ new[i] = old[i - 1])
    BY <2>7, <2>8, <2>9, <2>10
  <2> QED BY <2>6, <2>11 DEF old
<1>7. \A u \in Threads : \A i \in DOMAIN frames[u] : frames[u][i] # s /\ frames[u][i] \in Signals
  <2>1. \A u \in Threads : \A i \in DOMAIN frames[u] : frames[u][i] \in Signals
    BY <1>5
  <2>2. \A u \in Threads : \A i \in DOMAIN frames[u] : pc[frames[u][i]] \in Active
    BY DEF OnTheWay, Stacks
  <2>3. pc[s] \notin Active
    BY <1>2 DEF Active
  <2> QED BY <2>1, <2>2, <2>3
<1>8. Stacks'
  <2>1. ASSUME NEW u \in Threads, NEW i \in DOMAIN frames'[u] PROVE pc'[frames'[u][i]] \in Active
    <3>1. \A v \in Threads : \A k \in DOMAIN frames[v] : pc'[frames[v][k]] \in Active
      BY <1>1, <1>4, <1>7 DEF OnTheWay, Stacks
    <3>2. CASE u = t
      <4>1. i = 1 \/ (i - 1 \in DOMAIN frames[t] /\ frames'[t][i] = frames[t][i - 1])
        BY <1>6, <2>1, <3>2
      <4> QED BY <1>4, <1>6, <3>1, <3>2, <4>1 DEF Active
    <3>3. CASE u # t
      BY <1>5, <2>1, <3>1, <3>3
    <3> QED BY <3>2, <3>3
  <2>2. ASSUME NEW q \in Signals, pc'[q] \in Active
        PROVE  \E u \in Threads : \E i \in DOMAIN frames'[u] : frames'[u][i] = q
    <3>1. CASE q = s
      BY <1>6, <3>1
    <3>2. CASE q # s
      <4>1. PICK u \in Threads : \E i \in DOMAIN frames[u] : frames[u][i] = q
        BY <1>1, <1>4, <2>2, <3>2 DEF OnTheWay, Stacks
      <4>2. PICK i \in DOMAIN frames[u] : frames[u][i] = q
        BY <4>1
      <4>3. CASE u = t
        <5>1. i + 1 \in DOMAIN frames'[t] /\ frames'[t][i + 1] = q
          BY <1>5, <1>6, <4>2, <4>3
        <5> QED BY <5>1
      <4> QED BY <1>5, <4>2, <4>3
    <3> QED BY <3>1, <3>2
  <2>3. ASSUME NEW u \in Threads, NEW v \in Threads,
               NEW i \in DOMAIN frames'[u], NEW j \in DOMAIN frames'[v],
               frames'[u][i] = frames'[v][j]
        PROVE  u = v /\ i = j
    <3>1. \A x, y \in Threads : \A k \in DOMAIN frames[x], l \in DOMAIN frames[y] :
            frames[x][k] = frames[y][l] => x = y /\ k = l
      BY DEF OnTheWay, Stacks
    <3>2. CASE u # t /\ v # t
      BY <1>5, <2>3, <3>1, <3>2
    <3> DEFINE Below(x, k) == \/ k = 1 /\ frames'[x][k] = s
                              \/ k - 1 \in DOMAIN frames[t] /\ frames'[x][k] = frames[t][k - 1]
    <3>3. CASE u = t /\ v # t
      <4>1. Below(u, i)
        BY <1>6, <3>3
      <4>2. j \in DOMAIN frames[v] /\ frames'[v][j] = frames[v][j]
        BY <1>5, <3>3
      <4> QED BY <1>7, <2>3, <3>1, <3>3, <4>1, <4>2
    <3>4. CASE u # t /\ v = t
      <4>1. Below(v, j)
        BY <1>6, <3>4
      <4>2. i \in DOMAIN frames[u] /\ frames'[u][i] = frames[u][i]
        BY <1>5, <3>4
      <4> QED BY <1>7, <2>3, <3>1, <3>4, <4>1, <4>2
    <3>5. CASE u = t /\ v = t
      <4>1. i \in Int /\ j \in Int
        BY <1>6, <3>5
      <4>2. Below(u, i) /\ Below(v, j)
        BY <1>6, <3>5
      <4>3. (i = 1 <=> frames'[u][i] = s) /\ (j = 1 <=> frames'[v][j] = s)
        BY <1>6, <1>7, <3>5, <4>2
      <4>4. CASE i # 1 /\ j # 1
        <5>1. i - 1 \in DOMAIN frames[t] /\ j - 1 \in DOMAIN frames[t]
              /\ frames[t][i - 1] = frames[t][j - 1]
          BY <2>3, <4>2, <4>4
        <5>2. i - 1 = j - 1
          BY <3>1, <5>1
        <5> QED BY <3>5, <4>1, <5>2
      <4> QED BY <2>3, <3>5, <4>3, <4>4
    <3> QED BY <3>2, <3>3, <3>4, <3>5
  <2> QED BY <2>1, <2>2, <2>3 DEF Stacks
<1>9. Started' /\ ToldToStop' /\ StopsWhenTold'
  BY <1>1, <1>2, <1>4 DEF OnTheWay, Started, ToldToStop, StopsWhenTold
<1> QED BY <1>8, <1>9 DEF OnTheWay

\* The innermost handler of a stack returns to what it interrupted.
LEMMA ReturnMoves ==
  ASSUME TypeOK, OnTheWay, NEW s \in Signals, Return(s)
  PROVE  OnTheWay'
<1>1. /\ s \in Processes /\ s \notin Threads /\ \A q \in Signals : q \in Processes
      /\ {"main", "pps", "subscriber", "controller", "outerLoop"} = Threads
      /\ \A t \in Threads : t \in Processes
  BY ThreadsAreProcesses DEF Threads
<1>2. /\ Goto(s, "Done") /\ UNCHANGED <<keepRunning, exitLocked>> /\ Runs(s)
      /\ frames' = [t \in Threads |-> IF frames[t] # <<>> /\ Head(frames[t]) = s
                                      THEN Tail(frames[t]) ELSE frames[t]]
  BY DEF Return, At, data
<1>3. PICK t \in Threads : frames[t] # <<>> /\ Head(frames[t]) = s
  BY <1>1, <1>2 DEF Runs
<1>4. pc'[s] = "Done" /\ \A q \in Processes : q # s => pc'[q] = pc[q]
  BY <1>1, <1>2 DEF Goto, TypeOK
<1>5. \A u \in Threads : frames[u] \in Seq(Signals)
  BY DEF TypeOK
<1>6. \A x, y \in Threads : \A k \in DOMAIN frames[x], l \in DOMAIN frames[y] :
        frames[x][k] = frames[y][l] => x = y /\ k = l
  BY DEF OnTheWay, Stacks
<1>7. /\ 1 \in DOMAIN frames[t] /\ frames[t][1] = s
      /\ \A u \in Threads : u # t => frames'[u] = frames[u]
      /\ frames'[t] = Tail(frames[t])
  <2>1. \A u \in Threads : frames[u] # <<>> => 1 \in DOMAIN frames[u] /\ Head(frames[u]) = frames[u][1]
    BY <1>5
  <2> QED BY <1>2, <1>3, <1>6, <2>1
<1>8. /\ \A i \in DOMAIN frames[t] : i = 1 \/ (i - 1 \in DOMAIN frames'[t] /\ frames'[t][i - 1] = frames[t][i])
      /\ \A i \in DOMAIN frames'[t] : /\ i \in Int /\ i >= 1
                                     /\ i + 1 \in DOMAIN frames[t] /\ frames'[t][i] = frames[t][i + 1]
  BY <1>3, <1>5, <1>7
<1>9. \A u \in Threads : \A i \in DOMAIN frames[u] :
        frames[u][i] \in Signals /\ (frames[u][i] = s => u = t /\ i = 1)
  BY <1>5, <1>6, <1>7
<1>10. Stacks'
  <2>1. ASSUME NEW u \in Threads, NEW i \in DOMAIN frames'[u] PROVE pc'[frames'[u][i]] \in Active
    <3>1. PICK k \in DOMAIN frames[u] : frames'[u][i] = frames[u][k] /\ (u = t => k # 1)
      <4>1. CASE u = t
        BY <1>8, <2>1, <4>1
      <4>2. CASE u # t
        BY <1>7, <2>1, <4>2
      <4> QED BY <4>1, <4>2
    <3>2. frames[u][k] \in Signals /\ frames[u][k] # s
      BY <1>9, <3>1
    <3> QED BY <1>1, <1>4, <3>1, <3>2 DEF OnTheWay, Stacks
  <2>2. ASSUME NEW q \in Signals, pc'[q] \in Active
        PROVE  \E u \in Threads : \E i \in DOMAIN frames'[u] : frames'[u][i] = q
    <3>1. q # s /\ pc[q] \in Active
      BY <1>1, <1>4, <2>2 DEF Active
    <3>2. PICK u \in Threads : \E i \in DOMAIN frames[u] : frames[u][i] = q
      BY <3>1 DEF OnTheWay, Stacks
    <3>3. PICK i \in DOMAIN frames[u] : frames[u][i] = q
      BY <3>2
    <3>4. CASE u = t
      BY <1>7, <1>8, <3>1, <3>3, <3>4
    <3>5. CASE u # t
      BY <1>7, <3>3, <3>5
    <3> QED BY <3>4, <3>5
  <2>3. ASSUME NEW u \in Threads, NEW v \in Threads,
               NEW i \in DOMAIN frames'[u], NEW j \in DOMAIN frames'[v],
               frames'[u][i] = frames'[v][j]
        PROVE  u = v /\ i = j
    <3>1. CASE u # t /\ v # t
      BY <1>6, <1>7, <2>3, <3>1
    <3>2. CASE u = t /\ v # t
      <4>1. i + 1 \in DOMAIN frames[t] /\ frames'[u][i] = frames[t][i + 1]
        BY <1>8, <3>2
      <4>2. j \in DOMAIN frames[v] /\ frames'[v][j] = frames[v][j]
        BY <1>7, <3>2
      <4> QED BY <1>6, <2>3, <3>2, <4>1, <4>2
    <3>3. CASE u # t /\ v = t
      <4>1. j + 1 \in DOMAIN frames[t] /\ frames'[v][j] = frames[t][j + 1]
        BY <1>8, <3>3
      <4>2. i \in DOMAIN frames[u] /\ frames'[u][i] = frames[u][i]
        BY <1>7, <3>3
      <4> QED BY <1>6, <2>3, <3>3, <4>1, <4>2
    <3>4. CASE u = t /\ v = t
      BY <1>6, <1>8, <2>3, <3>4
    <3> QED BY <3>1, <3>2, <3>3, <3>4
  <2> QED BY <2>1, <2>2, <2>3 DEF Stacks
<1>11. Started' /\ ToldToStop' /\ StopsWhenTold'
  BY <1>1, <1>2, <1>4 DEF OnTheWay, Started, ToldToStop, StopsWhenTold
<1> QED BY <1>10, <1>11 DEF OnTheWay

LEMMA WayBegins == Init => OnTheWay
<1> SUFFICES ASSUME Init PROVE OnTheWay
  OBVIOUS
<1>1. "main" \in Processes /\ "main" \in Threads /\ pc["main"] = "StartPPS"
  BY DEF Init, Processes, Threads
<1>2. Stacks
  <2>1. \A t \in Threads : frames[t] = <<>> /\ DOMAIN frames[t] = {}
    BY DEF Init
  <2>2. \A s \in Signals : pc[s] = "Idle"
    BY ThreadsAreProcesses DEF Init, Threads
  <2> QED BY <2>1, <2>2 DEF Stacks, Active
<1>3. Started /\ ToldToStop
  BY <1>1 DEF Started, ToldToStop, StartLabels, BeforeStops, BeforeControllerStops
<1>4. StopsWhenTold
  <2>1. \A t \in Threads : pc[t] # "Done" /\ keepRunning[t]
    BY DEF Init, Processes
  <2> QED BY <1>1, <2>1 DEF StopsWhenTold, Begun, StartLabels
<1> QED BY <1>2, <1>3, <1>4 DEF OnTheWay

LEMMA WayContinues == TypeOK /\ OnTheWay /\ [Next]_vars => OnTheWay'
<1> SUFFICES ASSUME TypeOK, OnTheWay, [Next]_vars PROVE OnTheWay'
  OBVIOUS
<1>1. /\ \A t \in Threads : t \in Processes
      /\ \A s \in Signals : s \in Processes \ {"main"} /\ s \in Producers
  BY ThreadsAreProcesses DEF Threads, Producers
<1>2. CASE Controller \/ SpuriousWakeup \/ OuterLoop \/ Subscriber \/ PPSEnds \/ PPSThrows
  BY <1>1, <1>2, WorkerMoves, MovesKeep
<1>3. CASE Main
  BY <1>3, MainMoves
<1>4. ASSUME NEW s \in Signals, Deliver(s) \/ Handler(s) PROVE OnTheWay'
  <2>1. CASE Deliver(s)
    BY <2>1, DeliverMoves
  <2>2. CASE Enqueue(s)
    BY <1>1, <2>2, EnqueueMoves, MovesKeep
  <2>3. CASE Return(s)
    BY <2>3, ReturnMoves
  <2> QED BY <1>4, <2>1, <2>2, <2>3 DEF Handler
<1>5. CASE UNCHANGED vars
  BY <1>5, MovesKeep DEF vars, control, data
<1> QED BY <1>2, <1>3, <1>4, <1>5 DEF Next

\* Handlers, threads and flags are where main's progress says, whichever
\* threads signals interrupt.
THEOREM WayInvariance == Spec => []OnTheWay
<1>1. Spec => []TypeOK
  BY TypeCorrect
<1> QED BY <1>1, WayBegins, WayContinues, PTL DEF Spec

-----------------------------------------------------------------------------
(* No third deadlock: along what main waits for                            *)

\* Who owns the mutex, and is not interrupted, does not wait.  If it is
\* interrupted the innermost handler on its stack waits for it.
LEMMA OwnerWaits ==
  ASSUME Inductive, OnTheWay, ~SelfDeadlock, NEW W \in SUBSET Processes,
         \A p \in W : Waits(p, W)
  PROVE  mutex \notin W
<1> SUFFICES ASSUME mutex \in W PROVE FALSE
  OBVIOUS
<1>1. mutex \in Processes /\ InCriticalSection(mutex) /\ TypeOK
  BY DEF Inductive, QueueIsGuarded
<1>2. pc[mutex] \in {"Push", "StopController", "Test", "Wait", "Pop", "Execute", "Complete", "Fail"}
  BY <1>1 DEF InCriticalSection
<1>3. ~Runs(mutex)
  <2>1. \A t \in DOMAIN Joining :
          Joining[t] \in {"JoinPPS", "JoinSubscriber", "JoinController", "JoinOuterLoop"}
    BY DEF Joining
  <2> QED BY <1>2, <2>1 DEF Waits
<1>4. PICK t \in Threads : frames[t] # <<>> /\ (mutex = t \/ \E i \in DOMAIN frames[t] : frames[t][i] = mutex)
  <2>1. CASE mutex \in Threads
    BY <1>3, <2>1 DEF Runs
  <2>2. CASE mutex \in Signals
    <3>1. pc[mutex] \in Active
      <4>1. pc[mutex] \in HandlerLabels
        BY <1>1, <2>2, LabelSets DEF TypeOK
      <4> QED BY <1>2, <4>1 DEF HandlerLabels, Active
    <3>2. PICK t \in Threads : \E i \in DOMAIN frames[t] : frames[t][i] = mutex
      BY <2>2, <3>1 DEF OnTheWay, Stacks
    <3> QED BY <3>2
  <2> QED BY <1>1, <2>1, <2>2 DEF Processes
<1>5. frames[t] \in Seq(Signals)
  BY <1>1 DEF TypeOK
<1> DEFINE h == Head(frames[t])
<1>6. h \in Signals /\ h \notin Threads /\ h = frames[t][1] /\ 1 \in DOMAIN frames[t]
  BY <1>4, <1>5, ThreadsAreProcesses
<1>7. pc[h] \in Active /\ Runs(h)
  BY <1>4, <1>6 DEF OnTheWay, Stacks, Runs
<1>8. h \in W
  BY <1>3, <1>4, <1>2, <1>7 DEF Waits, Active, Joining
<1>9. pc[h] = "Enqueue"
  <2>1. \A u \in DOMAIN Joining :
          Joining[u] \in {"JoinPPS", "JoinSubscriber", "JoinController", "JoinOuterLoop"}
    BY DEF Joining
  <2>2. Waits(h, W)
    BY <1>8
  <2> QED BY <1>7, <2>1, <2>2 DEF Waits, Active
<1>10. SelfDeadlock
  <2>1. h # mutex
    BY <1>2, <1>9
  <2>2. mutex = t \/ \E i \in 2 .. Len(frames[t]) : mutex = frames[t][i]
    BY <1>4, <1>5, <1>6, <2>1
  <2> QED BY <1>4, <1>9, <2>2 DEF SelfDeadlock
<1> QED BY <1>10

\* Nobody waits for the mutex, and nobody for a handler, which could only
\* wait for the mutex.
LEMMA WaitsElsewhere ==
  ASSUME Inductive, OnTheWay, ~SelfDeadlock, NEW W \in SUBSET Processes,
         \A p \in W : Waits(p, W),
         NEW p \in W, p \in Threads \/ pc[p] \in Active
  PROVE  \/ pc[p] = "Waiting" /\ {q \in Processes : pc[q] \in {"Notify", "NotifyStop"}} \subseteq W
         \/ pc[p] \in {"Construct", "Await"} /\ updateLocked /\ "controller" \in W
         \/ ~exitLocked /\ p \in Threads /\ pc[p] = "Check" /\ keepRunning[p]
         \/ pc[p] = "WaitForExit" /\ exitLocked
         \/ \E t \in DOMAIN Joining \cap W : pc[p] = Joining[t] /\ pc[t] # "Done"
         \/ pc[p] \in {"Off", "Idle", "Done", "Terminated", "Ended", "Undefined"}
<1>0. mutex \notin W
  BY OwnerWaits
<1> SUFFICES ASSUME ~Runs(p),
                    \A t \in Threads :
                      frames[t] # <<>> /\ (p = t \/ \E i \in DOMAIN frames[t] : frames[t][i] = p)
                        => Head(frames[t]) \in W
             PROVE  FALSE
  BY <1>0 DEF Waits
<1>1. \A u \in DOMAIN Joining :
        Joining[u] \in {"JoinPPS", "JoinSubscriber", "JoinController", "JoinOuterLoop"}
  BY DEF Joining
<1>2. PICK t \in Threads : frames[t] # <<>> /\ (p = t \/ \E i \in DOMAIN frames[t] : frames[t][i] = p)
  <2>1. CASE p \in Threads
    BY <2>1 DEF Runs
  <2>2. CASE p \notin Threads
    <3>1. p \in Signals /\ pc[p] \in Active
      BY <2>2 DEF Processes
    <3>2. PICK t \in Threads : \E i \in DOMAIN frames[t] : frames[t][i] = p
      BY <3>1 DEF OnTheWay, Stacks
    <3> QED BY <3>2
  <2> QED BY <2>1, <2>2
<1>3. frames[t] \in Seq(Signals)
  BY DEF Inductive, TypeOK
<1> DEFINE h == Head(frames[t])
<1>4. h \in Signals /\ h \notin Threads /\ h = frames[t][1] /\ 1 \in DOMAIN frames[t]
  BY <1>2, <1>3, ThreadsAreProcesses
<1>5. pc[h] \in Active /\ Runs(h)
  BY <1>2, <1>4 DEF OnTheWay, Stacks, Runs
<1>6. h \notin W
  BY <1>0, <1>1, <1>5 DEF Waits, Active
<1> QED BY <1>2, <1>6

\* Whoever is about to notify the controller does so.
LEMMA NotifierGoesOn ==
  ASSUME Inductive, OnTheWay, ~SelfDeadlock, NEW W \in SUBSET Processes,
         \A p \in W : Waits(p, W),
         NEW q \in W, pc[q] \in {"Notify", "NotifyStop"}
  PROVE  FALSE
<1>1. q \in Threads \/ pc[q] \in Active
  <2>1. q \in Signals => pc[q] \in HandlerLabels
    BY LabelSets DEF Inductive, TypeOK
  <2> QED BY <2>1 DEF Processes, HandlerLabels, Active
<1>2. \A v \in DOMAIN Joining : pc[q] # Joining[v]
  BY DEF Joining
<1>3. \/ pc[q] \in {"Waiting", "Construct", "Await", "Check", "WaitForExit", "Off", "Idle", "Done",
                   "Terminated", "Ended", "Undefined"}
      \/ \E v \in DOMAIN Joining \cap W : pc[q] = Joining[v] /\ pc[v] # "Done"
  BY <1>1, WaitsElsewhere
<1> QED BY <1>2, <1>3

\* What a thread other than main, that was started and did not end, waits for:
\* the controller for a command, the outer loop for the end of its update, and
\* after ExitControl any of them to be told to stop.
LEMMA WorkerWaits ==
  ASSUME Inductive, OnTheWay, ~Over, ~SelfDeadlock, NEW W \in SUBSET Processes,
         \A p \in W : Waits(p, W),
         NEW t \in Threads \cap W, t # "main", pc[t] \notin {"Off", "Done"}
  PROVE  \/ /\ t = "controller" /\ pc[t] = "Waiting"
            /\ queue = <<>> /\ keepRunning["controller"]
         \/ t = "outerLoop" /\ updateLocked /\ "controller" \in W
         \/ ~exitLocked /\ keepRunning[t]
<1>1. pc[t] \notin {"WaitForExit", "JoinPPS", "JoinSubscriber", "JoinController", "JoinOuterLoop",
                   "Off", "Idle", "Done", "Terminated", "Ended", "Undefined"}
      /\ (pc[t] = "Waiting" => t = "controller") /\ (pc[t] \in {"Construct", "Await"} => t = "outerLoop")
  <2>1. t \in Processes /\ pc[t] \in Labels(t)
    BY DEF Inductive, TypeOK
  <2>2. CASE t = "pps"
    BY <2>1, <2>2, LabelSets DEF Over, Aborted
  <2>3. CASE t = "subscriber"
    BY <2>1, <2>3, LabelSets DEF SubscriberLabels
  <2>4. CASE t = "controller"
    BY <2>1, <2>4, LabelSets DEF ControllerLabels
  <2>5. CASE t = "outerLoop"
    BY <2>1, <2>5, LabelSets DEF OuterLoopLabels, Over, Aborted
  <2> QED BY <2>2, <2>3, <2>4, <2>5 DEF Threads
<1>2. \A v \in DOMAIN Joining : pc[t] # Joining[v]
  BY <1>1 DEF Joining
<1>3. \/ pc[t] = "Waiting" /\ {q \in Processes : pc[q] \in {"Notify", "NotifyStop"}} \subseteq W
      \/ pc[t] \in {"Construct", "Await"} /\ updateLocked /\ "controller" \in W
      \/ ~exitLocked /\ t \in Threads /\ pc[t] = "Check" /\ keepRunning[t]
      \/ pc[t] = "WaitForExit" /\ exitLocked
      \/ \E v \in DOMAIN Joining \cap W : pc[t] = Joining[v] /\ pc[v] # "Done"
      \/ pc[t] \in {"Off", "Idle", "Done", "Terminated", "Ended", "Undefined"}
  BY WaitsElsewhere
<1>4. CASE pc[t] = "Waiting" /\ {q \in Processes : pc[q] \in {"Notify", "NotifyStop"}} \subseteq W
  <2>1. queue = <<>> /\ keepRunning["controller"]
    <3>1. \A q \in Processes : pc[q] \notin {"Notify", "NotifyStop"}
      BY <1>4, NotifierGoesOn
    <3> QED BY <1>1, <1>4, <3>1 DEF Inductive, NoLostWakeup
  <2> QED BY <1>1, <1>4, <2>1
<1> QED BY <1>1, <1>2, <1>3, <1>4

\* Along what main waits for, from the thread it joins to the controller,
\* somebody does not wait.
LEMMA MainGoesOn ==
  ASSUME Inductive, OnTheWay, ~exitLocked, ~Over, ~Stranded, ~SelfDeadlock,
         NEW W \in SUBSET Processes, "main" \in W, \A p \in W : Waits(p, W)
  PROVE  FALSE
<1>1. /\ {"main", "pps", "subscriber", "controller", "outerLoop"} = Threads
      /\ Threads \subseteq Processes
      /\ \A u \in DOMAIN Joining :
           Joining[u] \in {"JoinPPS", "JoinSubscriber", "JoinController", "JoinOuterLoop"}
      /\ DOMAIN Joining = {"pps", "subscriber", "controller", "outerLoop"}
  BY ThreadsAreProcesses DEF Threads, Joining
<1>2. PICK t \in DOMAIN Joining \cap W : pc["main"] = Joining[t] /\ pc[t] # "Done"
  <2>1. pc["main"] \in MainLabels
    BY <1>1, LabelSets DEF Inductive, TypeOK
  <2>2. pc["main"] \notin {"Ended", "Undefined"}
    BY DEF Over
  <2> QED BY <1>1, <2>1, <2>2, WaitsElsewhere DEF MainLabels
<1>3. \A u \in DOMAIN Joining : pc[u] # "Off" /\ ~keepRunning[u]
  <2>1. /\ pc["main"] \notin StartLabels
        /\ pc["main"] \notin BeforeControllerStops \cup {"NotifyStop", "StopOuterLoop"}
    BY <1>1, <1>2 DEF StartLabels, BeforeControllerStops, BeforeStops
  <2>2. \A u \in DOMAIN Joining : pc[u] # "Off"
    BY <1>1, <2>1 DEF OnTheWay, Started, StartLabels
  <2>3. \A u \in DOMAIN Joining : ~keepRunning[u]
    BY <1>1, <2>1 DEF OnTheWay, ToldToStop, BeforeControllerStops
  <2> QED BY <2>2, <2>3
<1>4. t = "outerLoop" /\ updateLocked /\ "controller" \in W
  BY <1>1, <1>2, <1>3, WorkerWaits
<1>5. pc["controller"] = "Done"
  BY <1>1, <1>3, <1>4, WorkerWaits
<1> QED BY <1>4, <1>5 DEF Stranded

\* Before, the controller waits with no update left, so the outer loop and the
\* subscriber go on.
LEMMA ProducersGoOn ==
  ASSUME Inductive, OnTheWay, exitLocked, ~Over, ~SelfDeadlock,
         NEW W \in SUBSET Processes, \A p \in W : Waits(p, W),
         NEW t \in {"outerLoop", "subscriber"}, t \in W, pc[t] # "Off"
  PROVE  FALSE
<1>1. /\ {"main", "pps", "subscriber", "controller", "outerLoop"} = Threads
      /\ Threads \subseteq Processes
  BY ThreadsAreProcesses DEF Threads
<1>2. \A u \in Threads : keepRunning[u] /\ pc[u] # "Done"
  BY DEF OnTheWay, StopsWhenTold
<1>3. t = "outerLoop" /\ updateLocked /\ "controller" \in W
  BY <1>1, <1>2, WorkerWaits
<1>4. pc["controller"] # "Off"
  BY <1>3 DEF Inductive, NotYetStarted, OnTheWay, Started
<1>5. pc["controller"] = "Waiting" /\ queue = <<>>
  BY <1>1, <1>2, <1>3, <1>4, WorkerWaits
<1>6. executing # Update
  BY <1>1, <1>5, CommandKinds DEF Inductive, CommandInHand
<1>7. QueuedUpdates = {}
  BY <1>5 DEF QueuedUpdates
<1>8. UpdateInHand
  BY <1>3, <1>6, <1>7 DEF Inductive, OneUpdate
<1>9. pc["outerLoop"] \in {"Construct", "Await"}
  BY <1>3, <1>8, WaitsElsewhere DEF UpdateInHand, Joining, Threads
<1> QED BY <1>8, <1>9 DEF UpdateInHand

\* Once ExitControl was executed nothing that main waits for goes in a circle,
\* but for the two ways to hang that the program has: no third deadlock, for
\* any number of signals that interrupt any threads and one another.
THEOREM ShutdownHasNoThirdDeadlock == Spec => []NoThirdDeadlock
<1>1. Inductive /\ OnTheWay => NoThirdDeadlock
  BY MainGoesOn DEF NoThirdDeadlock, Deadlocked
<1> QED BY <1>1, Invariance, WayInvariance, PTL

\* Until ExitControl is executed the outer loop and the subscriber are never
\* part of a circle of threads that wait for one another, unless a signal
\* handler waits for the thread it interrupted.
THEOREM OperationHasNoDeadlock == Spec => []NoDeadlockInOperation
<1>1. Inductive /\ OnTheWay => NoDeadlockInOperation
  BY ProducersGoOn DEF NoDeadlockInOperation, Deadlocked
<1> QED BY <1>1, Invariance, WayInvariance, PTL

-----------------------------------------------------------------------------
(* The refinement                                                          *)

\* A step that is not a push, a pop or the end of a command changes neither
\* the queue nor the command that is executed.
LEMMA RestOfNext ==
  ASSUME Next
  PROVE  \/ \E p \in Producers : Push(p)
         \/ ControllerPop
         \/ FinishCommand("Complete", "Complete") \/ FinishCommand("Fail", "Failed")
         \/ UNCHANGED <<queue, executing>>
<1> USE DEF data, client
<1>1. ASSUME NEW p \in Producers, Enqueue(p)
      PROVE  Push(p) \/ UNCHANGED <<queue, executing>>
  BY <1>1 DEF Enqueue, LockQueue, Acquire, Notify
<1>2. CASE Controller \/ SpuriousWakeup
  BY <1>2 DEF Controller, ControllerCheck, ControllerLock, ControllerTest, ControllerWait,
              ControllerUnlock, Execute, SpuriousWakeup, Step, Acquire, Release
<1>3. CASE OuterLoop
  BY <1>1, <1>3 DEF OuterLoop, OuterLoopCheck, OuterLoopTick, ConstructUpdate, AwaitUpdate,
                    AcknowledgeClock, Step, Producers
<1>4. CASE Subscriber
  BY <1>1, <1>4 DEF Subscriber, SubscriberCheck, AcceptCommand, EndPass, Step, Producers
<1>5. CASE PPSEnds \/ PPSThrows
  BY <1>5 DEF PPSEnds, PPSThrows, Step
<1>6. CASE Main
  BY <1>6 DEF Main, StartThread, WaitForExitControl, StopThread, LockToStop, StopController,
              NotifyStop, Join, Clear, Step, Acquire
<1>7. ASSUME NEW s \in Signals, Deliver(s) \/ Handler(s)
      PROVE  (\E p \in Producers : Push(p)) \/ UNCHANGED <<queue, executing>>
  BY <1>1, <1>7 DEF Deliver, Handler, Return, Producers
<1> QED BY <1>2, <1>3, <1>4, <1>5, <1>6, <1>7 DEF Next

LEMMA ImplementsAccept ==
  ASSUME Inductive, NEW p \in Producers, Push(p)
  PROVE  Executor!Accept
<1>1. pc[p] = "Push" /\ queue' = Append(queue, Hand(p)) /\ executing' = executing
  BY DEF Push, At
<1>2. p \in Processes /\ p # "controller" /\ "controller" \in Processes
  BY ThreadsAreProcesses DEF Producers, Threads
<1>3. executing = NoCommand
  BY <1>1, <1>2 DEF Inductive, QueueIsGuarded, InCriticalSection, CommandInHand
<1>4. Hand(p) \in Commands
  BY <1>1, HandType DEF Inductive
<1> QED BY <1>1, <1>3, <1>4 DEF Executor!Accept

LEMMA ImplementsBegin ==
  ASSUME Inductive, ControllerPop
  PROVE  Executor!Begin
<1>1. /\ pc["controller"] = "Pop" /\ queue # <<>>
      /\ executing' = Head(queue) /\ queue' = Tail(queue)
  BY DEF ControllerPop, At
<1>2. queue \in Seq(Commands) /\ executing = NoCommand
  BY <1>1 DEF Inductive, TypeOK, CommandInHand
<1>3. /\ Head(queue) \in Commands /\ Head(queue) # NoCommand
      /\ <<Head(queue)>> \o Tail(queue) = queue
  BY <1>1, <1>2, HeadTailProperties, CommandKinds
<1> QED BY <1>1, <1>2, <1>3 DEF Executor!Begin

LEMMA ImplementsFinish ==
  ASSUME Inductive, NEW label \in {"Complete", "Fail"}, NEW ack, FinishCommand(label, ack)
  PROVE  Executor!Finish
<1>1. pc["controller"] = label /\ executing' = NoCommand /\ queue' = queue
  BY DEF FinishCommand, At
<1>2. queue \in Seq(Commands) /\ executing \in Commands /\ executing # NoCommand
  BY <1>1 DEF Inductive, TypeOK, CommandInHand
<1>3. Tail(<<executing>> \o queue) = queue
  BY <1>2
<1> QED BY <1>1, <1>2, <1>3 DEF Executor!Finish

\* Commands are executed one at a time in the order of the queue, whichever
\* thread or signal handler puts them there.
THEOREM Refinement == Spec => ImplementsSerialExecutor
<1>1. Init => Executor!Init
  BY DEF Init, Executor!Init
<1>2. Inductive /\ [Next]_vars => [Executor!Next]_<<IF executing = NoCommand THEN queue
                                                    ELSE <<executing>> \o queue,
                                                    executing # NoCommand>>
  <2> SUFFICES ASSUME Inductive, [Next]_vars,
                      ~UNCHANGED <<queue, executing>>
               PROVE  Executor!Next
    OBVIOUS
  <2>1. Next
    BY DEF vars, data
  <2>2. \/ \E p \in Producers : Push(p)
        \/ ControllerPop
        \/ FinishCommand("Complete", "Complete") \/ FinishCommand("Fail", "Failed")
    BY <2>1, RestOfNext
  <2> QED BY <2>2, ImplementsAccept, ImplementsBegin, ImplementsFinish DEF Executor!Next
<1> QED BY <1>1, <1>2, Invariance, PTL DEF Spec, ImplementsSerialExecutor, Executor!Spec
=============================================================================
