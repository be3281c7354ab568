-------------------------------- MODULE ILCs --------------------------------
(***************************************************************************)
(* The traffic with the inner loop controllers (ILCs): the bus lists and    *)
(* their round robins, the responses ILCResponseParser expects and         *)
(* verifies, the FPGA's response queues (as SimulatedFPGA keeps them) and  *)
(* the mode each ILC is in, driven by the handlers of the states.          *)
(*                                                                         *)
(* A handler writes its bus lists one after the other; after each it waits *)
(* for the subnets and reads them in order.  A subnet that has nothing to  *)
(* read ends the handler with an exception.                                *)
(***************************************************************************)
EXTENDS Integers, Sequences, FiniteSets, FiniteSetsExt, Functions

CONSTANTS
  Bus,         \* for each subnet, its ILCs in the order of the bus lists
  Hardpoints,  \* those of them that are hardpoints
  Monitors,    \* those that are hardpoint monitors; the others are force actuators
  Far,         \* for each force actuator, its far neighbours (the neighbours table)
  Flaky,       \* the ILCs that may fail to answer
  LVDTPeriod,  \* what the LVDT sample clock restarts at; 4 in the code
  Scenarios,   \* what a behaviour may meet: at most so many faults of the bus of these kinds,
               \* settings files with these disabled actuators, commands that disable some
  Depth        \* responses to lists an FPGA queue holds (external)

Subnets == DOMAIN Bus
On(s) == Range(Bus[s])
ILCNames == UNION {On(s) : s \in Subnets}
FAs == ILCNames \ (Hardpoints \cup Monitors)
WithFAs == {s \in Subnets : On(s) \cap FAs # {}}
SubnetOf(i) == CHOOSE s \in Subnets : i \in On(s)

Kinds == SUBSET {"silent", "late", "dead"}
Settings == SUBSET SUBSET FAs
ScenarioKinds == [faults : Nat, kinds : Kinds, settings : Settings, reconfigure : BOOLEAN]

\* Two force actuators of each subnet are far neighbours of each other, so that no
\* sequence of commands disables a whole subnet (buildBuffer would never end); no
\* settings file lists far neighbours; the clock is advanced once per update.
ASSUME ILCsAssumption ==
  /\ Bus \in Seq(Seq(ILCNames))
  /\ Hardpoints \cup Monitors \subseteq ILCNames /\ Hardpoints \cap Monitors = {}
  /\ Cardinality({s \in Subnets : On(s) \cap Monitors # {}}) = 1
  /\ Far \in [FAs -> SUBSET FAs]
  /\ \A s \in WithFAs : \E f, g \in On(s) \cap FAs : f # g /\ f \in Far[g] /\ g \in Far[f]
  /\ \A x \in Scenarios :
       /\ x \in ScenarioKinds
       /\ \A S \in x.settings : \A f, g \in S : g \notin Far[f]
  /\ Flaky \subseteq ILCNames
  /\ LVDTPeriod \in Nat /\ Depth \in Nat \ {0}

VARIABLES
  state,     \* the states by the lists they write; Enabled is every state in control
  handler,   \* the running handler, or none
  todo,      \* the lists it has still to write
  disabled,  \* ILCSubnetData: the force actuators with Disabled set
  lists,     \* the three lists that change from one update to the next
  toggle,    \* _controlListToggle
  expected,  \* ILCResponseParser's expected responses
  queue,     \* for each subnet, to how many lists the FPGA holds the responses
  frames,    \* for each ILC, how many of the frames held there the parser will accept
  warned,    \* the ILCs with a response timeout in ILCWarning
  mode,      \* the mode each ILC is in
  latch,     \* SafetyController holds a fault
  scenario   \* what may still happen in this behaviour

bus == <<lists, toggle, expected, queue, frames, mode>>
vars == <<state, handler, todo, disabled, warned, latch, scenario, bus>>

States == {"Standby", "Disabled", "Enabled", "Fault"}
Handlers == {"none", "start", "update", "enable", "disable", "standby"}
ModeLists == {"ModeClearFaults", "ModeDisabled", "ModeEnabled", "ModeStandby"}
UpdateLists == {"FreezeSensor", "Raised", "Active"}

\* StandbyState::start's lists, in order.
StartLists == <<"ModeClearFaults", "ReportServerID", "ReportServerStatus", "ReportADCScanRate",
                "ReadCalibration", "ReadBoostValveDCAGains", "ReportDCAID", "ReportDCAStatus",
                "ModeDisabled">>

\* What a list of the updates keeps: the force actuators it asks, the one of each subnet
\* whose turn it is, whether it asks for the LVDT and when it will, what it expects.
Asked == SUBSET FAs
Turns == [WithFAs -> FAs]
Clocks == 0..LVDTPeriod
Responses == [ILCNames -> Int]
ChangingLists == [asked : Asked, status : Turns, lvdt : BOOLEAN, clock : Clocks, expected : Responses]

\* RoundRobin::Inc
Inc(index, limit) == IF index + 1 < limit THEN index + 1 ELSE 0

Nothing == [i \in ILCNames |-> 0]

----------------------------------------------------------------------------
(* BusList: what each list asks of each ILC, as numbers of responses. *)

\* The lists that are the same every time.
ConfigResponses(l) ==
  LET fa == 1
      hp == IF l \in {"ReadBoostValveDCAGains", "ReportDCAID", "ReportDCAStatus"} THEN 0 ELSE 1
      hm == IF l \in {"ReportADCScanRate", "ReadCalibration", "ReadBoostValveDCAGains"} THEN 0 ELSE 1
  IN [i \in ILCNames |-> IF i \in disabled THEN 0
                      ELSE IF i \in FAs THEN fa ELSE IF i \in Hardpoints THEN hp ELSE hm]

\* The commands in the buffer of a list of the updates: a force status for every force
\* actuator that is asked, a server status for one of them per subnet in turn, the LVDT
\* once in a while.
Commands(L) ==
  [i \in ILCNames |->
     IF i \in FAs THEN (IF i \in L.asked THEN 1 ELSE 0) + (IF i \in Range(L.status) THEN 1 ELSE 0)
     ELSE IF i \in Hardpoints THEN 2
     ELSE IF L.lvdt THEN 4 ELSE 3]

\* The first force actuator of subnet s that is not in D, from position k on, and from
\* the start of the subnet if there is none.
NextEnabled(s, k, D) ==
  LET enabled == {j \in DOMAIN Bus[s] : Bus[s][j] \in FAs \ D}
      onwards == {j \in enabled : j >= k}
  IN Bus[s][Min(IF onwards # {} THEN onwards ELSE enabled)]

Position(f, s) == CHOOSE k \in DOMAIN Bus[s] : Bus[s][k] = f

\* buildBuffer of FreezeSensorBusList, RaisedBusList and ActiveBusList with D disabled
BuildBuffer(D) ==
  LET status == [s \in WithFAs |-> NextEnabled(s, 1, D)]
  IN [asked |-> FAs \ D, status |-> status, lvdt |-> FALSE, clock |-> 0,
      expected |-> [i \in ILCNames |->
         IF i \in Range(status) THEN 2 ELSE IF i \in D THEN 0 ELSE IF i \in FAs THEN 1
         ELSE IF i \in Hardpoints THEN 2 ELSE 3]]

BuildBusLists(D) == [l \in UpdateLists |-> BuildBuffer(D)]

\* Mutant: the force actuator whose turn is over is still expected to answer twice.
UpdateListForgetting(L) ==
  LET next == [s \in WithFAs |-> NextEnabled(s, Position(L.status[s], s) + 1, disabled)]
      lvdt == L.clock = 0
  IN [L EXCEPT !.status = next, !.lvdt = lvdt, !.clock = IF lvdt THEN LVDTPeriod ELSE @ - 1,
               !.expected = [i \in ILCNames |->
                  IF i \in Range(next) THEN 2
                  ELSE IF i \in Monitors THEN IF lvdt THEN 4 ELSE 3
                  ELSE @[i]]]

\* Mutant: the next actuator's turn comes even if it is disabled; without one, the
\* turn stays where it is.
UpdateListStuck(L) ==
  LET turn(s) == NextEnabled(s, Position(L.status[s], s) + 1, {})
      next == [s \in WithFAs |-> IF turn(s) \in disabled THEN L.status[s] ELSE turn(s)]
      lvdt == L.clock = 0
  IN [L EXCEPT !.status = next, !.lvdt = lvdt, !.clock = IF lvdt THEN LVDTPeriod ELSE @ - 1,
               !.expected = [i \in ILCNames |->
                  IF i \in Range(next) THEN 2 ELSE IF i \in Range(L.status) THEN 1
                  ELSE IF i \in Monitors THEN IF lvdt THEN 4 ELSE 3
                  ELSE @[i]]]

\* update of the same lists: the turn goes to the next enabled force actuator of each
\* subnet, and the monitors report the LVDT when the clock is at zero.
UpdateList(L) ==
  LET next == [s \in WithFAs |-> NextEnabled(s, Position(L.status[s], s) + 1, disabled)]
      lvdt == L.clock = 0
  IN [L EXCEPT !.status = next, !.lvdt = lvdt, !.clock = IF lvdt THEN LVDTPeriod ELSE @ - 1,
               !.expected = [i \in ILCNames |->
                  IF i \in Range(next) THEN 2 ELSE IF i \in Range(L.status) THEN 1
                  ELSE IF i \in Monitors THEN IF lvdt THEN 4 ELSE 3
                  ELSE @[i]]]

----------------------------------------------------------------------------
(* The bus (external: the ILCs and the FPGA). *)

\* What may go wrong in one exchange: nothing, an ILC does not answer, a subnet's
\* responses come after they were read, a subnet is dead.  At most one thing does.
Faults == {<<"none">>} \cup ({"silent"} \X Flaky) \cup ({"late", "dead"} \X Subnets)
NoFault == <<"none">>

Answers(asked, fault) == [i \in ILCNames |-> IF fault = <<"silent", i>> THEN 0 ELSE asked[i]]

\* SimulatedFPGA starts the responses to a list with a time stamp.  The parser skips
\* one time stamp per read: the next one makes the CRC of the first frame behind it
\* wrong, and the frame is lost.
Spoilt(s, answers) ==
  {Bus[s][k] : k \in {k \in DOMAIN Bus[s] :
                        answers[Bus[s][k]] > 0 /\ \A j \in 1..k - 1 : answers[Bus[s][j]] = 0}}

\* What the queue of i's subnet holds for i when the responses to one more list come.
Pushed(n, held, answers, i) ==
  IF n = 0 THEN answers[i]
  ELSE IF n = Depth THEN held
  ELSE held + answers[i] - IF i \in Spoilt(SubnetOf(i), answers) THEN 1 ELSE 0

More(n) == IF n < Depth THEN n + 1 ELSE n

----------------------------------------------------------------------------
(* Handlers. *)

Begin(h, l) ==
  /\ handler = "none"
  /\ handler' = h
  /\ todo' = l

Idle(next) ==
  /\ handler' = "none"
  /\ todo' = <<>>
  /\ state' = next

\* Model::loadSettings makes a new SSILCs, and a new SafetyController; flushAll empties
\* the queues.
Start ==
  /\ state = "Standby"
  /\ Begin("start", StartLists)
  /\ disabled' \in scenario.settings
  /\ lists' = BuildBusLists(disabled')
  /\ toggle' = 0
  /\ expected' = Nothing
  /\ queue' = [s \in Subnets |-> 0]
  /\ frames' = Nothing
  /\ latch' = FALSE
  /\ UNCHANGED <<state, warned, mode>>

ControlList == IF toggle = 0 THEN "Raised" ELSE "Active"

Update ==
  /\ state # "Standby"
  /\ Begin("update", <<IF state = "Enabled" THEN ControlList ELSE "FreezeSensor">>)
  /\ UNCHANGED <<state, disabled, warned, latch, bus>>

\* Mutant: disable does not wait for the ILCs it switches off.
ChangeModeUnverified ==
  /\ \/ state = "Disabled" /\ Begin("enable", <<"ModeEnabled">>)
     \/ state = "Enabled" /\ Begin("disable", <<>>)
     \/ state \in {"Disabled", "Fault"} /\ Begin("standby", <<"ModeStandby">>)
  /\ UNCHANGED <<state, disabled, warned, latch, bus>>

\* enable, disable and standby
ChangeMode ==
  /\ \/ state = "Disabled" /\ Begin("enable", <<"ModeEnabled">>)
     \/ state = "Enabled" /\ Begin("disable", <<"ModeDisabled">>)
     \/ state \in {"Disabled", "Fault"} /\ Begin("standby", <<"ModeStandby">>)
  /\ UNCHANGED <<state, disabled, warned, latch, bus>>

\* ChangeILCModeBusList's modes.  Cleared faults leave an ILC in standby (external).
NewMode(l, i) ==
  IF l = "ModeEnabled" \/ (l = "ModeDisabled" /\ i \in Monitors) THEN "Enabled"
  ELSE IF l = "ModeDisabled" THEN "Disabled" ELSE "Standby"

\* FPGA::waitForModbusIRQs: a subnet that is late or dead raises no interrupt in time
\* (external), which latches ModbusIRQTimeout.
Wait(latched, quiet) == latched \/ quiet # {}

\* One list: write..., triggerModbus, waitForAllSubnets and readAll, which reads the
\* subnets before the first that holds nothing.
Exchange(fault) ==
  /\ todo # <<>>
  /\ LET l == Head(todo)
         L == UpdateList(lists[l])
         asked == IF l \in UpdateLists THEN Commands(L) ELSE ConfigResponses(l)
         answers == Answers(asked, fault)
         quiet == {s \in Subnets : fault \in {<<"late", s>>, <<"dead", s>>}}
         here == [s \in Subnets |-> IF s \in quiet THEN queue[s] ELSE More(queue[s])]
         held == [i \in ILCNames |-> IF SubnetOf(i) \in quiet THEN frames[i]
                                   ELSE Pushed(queue[SubnetOf(i)], frames[i], answers, i)]
         read == {s \in Subnets : \A r \in 1..s : here[r] > 0}
         left == [s \in Subnets |-> IF s \in read THEN 0 ELSE here[s]]
         rest == [i \in ILCNames |-> IF SubnetOf(i) \in read THEN 0 ELSE held[i]]
     IN /\ lists' = (IF l \in UpdateLists THEN [lists EXCEPT ![l] = L] ELSE lists)
        /\ toggle' = (IF l \in {"Raised", "Active"} THEN Inc(toggle, 3) ELSE toggle)
        /\ expected' = [i \in ILCNames |->
             expected[i] + (IF l \in UpdateLists THEN L.expected[i] ELSE asked[i])
               - (IF SubnetOf(i) \in read THEN held[i] ELSE 0)]
        /\ queue' = [s \in Subnets |-> IF fault = <<"late", s>> THEN More(left[s]) ELSE left[s]]
        /\ frames' = [i \in ILCNames |->
             IF fault = <<"late", SubnetOf(i)>> THEN Pushed(left[SubnetOf(i)], rest[i], answers, i)
             ELSE rest[i]]
        /\ mode' = [i \in ILCNames |->
             IF l \in ModeLists /\ answers[i] > 0 /\ fault # <<"dead", SubnetOf(i)>>
             THEN NewMode(l, i) ELSE mode[i]]
        /\ latch' = Wait(latch, quiet)
        /\ IF read = Subnets THEN todo' = Tail(todo) /\ UNCHANGED <<state, handler>> ELSE Idle(state)
  /\ UNCHANGED <<disabled, warned>>

After(h) == CASE h = "start" -> "Disabled" [] h = "update" -> state [] h = "enable" -> "Enabled"
              [] h = "disable" -> "Disabled" [] h = "standby" -> "Standby"

\* Mutant: verifyResponses leaves the counts of the ILCs it reports.
VerifyKeeping ==
  /\ handler # "none"
  /\ todo = <<>>
  /\ warned' = {i \in ILCNames : expected[i] # 0}
  /\ UNCHANGED expected
  /\ IF state = "Fault"
     THEN /\ Idle(After(handler))
          /\ latch' \in (IF handler = "standby" THEN {FALSE} ELSE {latch, latch \/ warned' # {}})
     ELSE /\ latch' = FALSE
          /\ \/ ~latch /\ Idle(After(handler))
             \/ Idle("Fault")
  /\ UNCHANGED <<disabled, lists, toggle, queue, frames, mode>>

\* verifyResponses, then checkSafety or what else may fault the mirror in this handler.
\* The handlers of the fault state do not check; its standby clears the error.
Verify ==
  /\ handler # "none"
  /\ todo = <<>>
  /\ warned' = {i \in ILCNames : expected[i] # 0}
  /\ expected' = Nothing
  /\ IF state = "Fault"
     THEN /\ Idle(After(handler))
          /\ latch' \in (IF handler = "standby" THEN {FALSE} ELSE {latch, latch \/ warned' # {}})
     ELSE /\ latch' = FALSE
          /\ \/ ~latch /\ Idle(After(handler))
             \/ Idle("Fault")
  /\ UNCHANGED <<disabled, lists, toggle, queue, frames, mode>>

\* SSILCs::disableFA, which refuses what has a disabled far neighbour; enableFA;
\* enableAllFA.
Reconfigure(D) ==
  /\ disabled' = D
  /\ lists' = BuildBusLists(D)
  /\ UNCHANGED <<state, handler, todo, toggle, expected, queue, frames, warned, mode, latch>>

InEngineering == scenario.reconfigure /\ state = "Enabled" /\ handler = "none"

DisableFA(f) == InEngineering /\ Far[f] \cap disabled = {} /\ Reconfigure(disabled \cup {f})
EnableFA(f) == InEngineering /\ Reconfigure(disabled \ {f})
EnableAllFA == InEngineering /\ Reconfigure({})

\* Panic, and the commands that find a fault.
Panic ==
  /\ handler = "none"
  /\ state \in {"Disabled", "Enabled"}
  /\ Idle("Fault")
  /\ UNCHANGED <<disabled, warned, latch, bus>>

----------------------------------------------------------------------------
(* The specification. *)

Init ==
  /\ state = "Standby"
  /\ handler = "none"
  /\ todo = <<>>
  /\ scenario \in Scenarios
  /\ disabled \in scenario.settings
  /\ lists = BuildBusLists(disabled)
  /\ toggle = 0
  /\ expected = Nothing
  /\ queue = [s \in Subnets |-> 0]
  /\ frames = Nothing
  /\ warned = {}
  /\ mode = [i \in ILCNames |-> "Standby"]
  /\ latch = FALSE

Meets(fault) ==
  IF fault = NoFault THEN UNCHANGED scenario
  ELSE /\ scenario.faults > 0 /\ fault[1] \in scenario.kinds
       /\ scenario' = [scenario EXCEPT !.faults = @ - 1]

Cycle ==
  \/ (Update \/ Verify) /\ UNCHANGED scenario
  \/ \E fault \in Faults : Meets(fault) /\ Exchange(fault)

Command ==
  \/ Start \/ ChangeMode \/ EnableAllFA \/ Panic
  \/ \E f \in FAs : DisableFA(f) \/ EnableFA(f)

Next == Cycle \/ (Command /\ UNCHANGED scenario)

\* A handler that was begun goes on, and the outer loop begins updates for ever.
Spec == Init /\ [][Next]_vars /\ WF_vars(Cycle)

----------------------------------------------------------------------------
(* Properties. *)

\* Every variable holds a value of its kind.
TypeOK ==
  /\ state \in States
  /\ handler \in Handlers
  /\ todo \in Seq(UpdateLists \cup ModeLists \cup Range(StartLists))
  /\ disabled \subseteq FAs
  /\ lists \in [UpdateLists -> ChangingLists]
  /\ toggle \in 0..2
  /\ expected \in [ILCNames -> Int]
  /\ queue \in [Subnets -> 0..Depth]
  /\ frames \in [ILCNames -> Nat]
  /\ warned \subseteq ILCNames
  /\ mode \in [ILCNames -> {"Standby", "Disabled", "Enabled"}]
  /\ latch \in BOOLEAN
  /\ scenario \in ScenarioKinds

\* The responses a list of the updates expects are those its buffer asks for, through
\* turns of the round robin, LVDT samples and changes of the disabled actuators: no
\* healthy ILC is reported, and none that is disabled is asked.
BuffersAgree ==
  \A l \in UpdateLists :
    /\ lists[l].expected = Commands(lists[l])
    /\ \A f \in disabled : Commands(lists[l])[f] = 0
    /\ \A f \in FAs \ disabled : Commands(lists[l])[f] > 0

\* The bus lists have their types and ask each ILC for what they expect of it.
ILCInv == TypeOK /\ BuffersAgree

\* When the mirror is enabled or disabled, each ILC that takes part is in its new mode
\* or is reported: no response left from an earlier list passes for the one that is
\* missing, and a subnet that lags a list behind does not go unnoticed.
ModesFollow ==
  [][state' # state /\ state' \in {"Disabled", "Enabled"} =>
       \A i \in ILCNames \ (disabled \cup warned') :
         mode'[i] = NewMode(IF state' = "Disabled" THEN "ModeDisabled" ELSE "ModeEnabled", i)]_vars

\* However exceptions, late and lost responses have upset the count, it recovers by
\* itself: after the last fault of the bus, no ILC stays reported.
CountRecovers == <>[](state # "Standby") => <>[](warned = {})

\* While the bus runs and no command rebuilds the lists, every enabled force actuator's
\* status is asked for again and again in each list that control uses.
StatusPolled ==
  <>[](state = "Enabled") /\ <>[][handler' # handler \/ todo' # todo]_vars =>
    \A f \in FAs, l \in {"Raised", "Active"} :
      <>[](f \in disabled) \/ []<>(f \in Range(lists[l].status))

=============================================================================
