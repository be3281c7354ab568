----------------------------- MODULE ILCsProofs -----------------------------
(***************************************************************************)
(* Proofs about ILCs, for any bus lists, tables of neighbours, faults of   *)
(* the bus and depths of the queues that ILCsAssumption admits.            *)
(***************************************************************************)
EXTENDS ILCs, FiniteSetTheorems, SequenceTheorems, WellFoundedInduction, TLAPS

----------------------------------------------------------------------------
(* The inductive invariant. *)

\* The lists ask the enabled force actuators, and the turn is with one of them.
TurnsFit ==
  \A l \in UpdateLists :
    /\ lists[l].asked = FAs \ disabled
    /\ \A s \in WithFAs : lists[l].status[s] \in (On(s) \cap FAs) \ disabled

\* No two force actuators that are far neighbours of each other are disabled, nor would
\* they be after any start.
Spaced(S) == \A f, g \in S : f # g => ~(f \in Far[g] /\ g \in Far[f])
NeighborsFit == Spaced(disabled) /\ \A S \in scenario.settings : Spaced(S)

\* A handler runs in the state it belongs to, and a mode list is its last.
HandlersFit ==
  /\ handler = "none" => todo = <<>>
  /\ handler = "start" => state = "Standby"
  /\ state = "Standby" => handler \in {"none", "start"}
  /\ handler = "enable" => state = "Disabled" /\ todo \in {<<>>, <<"ModeEnabled">>}
  /\ handler = "disable" => state = "Enabled"
  /\ handler \in {"start", "disable"} /\ todo # <<>> => todo[Len(todo)] = "ModeDisabled"

\* Nothing is lost track of: unless the state is one that a start has to leave anyway, a
\* subnet that was late or dead has latched a fault.
Trusted == state # "Fault" /\ ~latch /\ (state = "Standby" => handler = "start")

\* Then no queue holds anything, so what is read is what was just asked for.
QueuesFit ==
  Trusted =>
    /\ \A s \in Subnets : queue[s] = 0
    /\ \A i \in ILCNames : frames[i] = 0 /\ expected[i] >= 0

\* The mode a handler is about to announce.
NewModeOf(h, i) == NewMode(IF h = "enable" THEN "ModeEnabled" ELSE "ModeDisabled", i)

\* Then an ILC that missed the mode change is owed a response.
ModesFit ==
  Trusted /\ todo = <<>> /\ handler \in {"start", "enable", "disable"} =>
    \A i \in ILCNames \ disabled : expected[i] > 0 \/ mode[i] = NewModeOf(handler, i)

Inductive == ILCInv /\ TurnsFit /\ NeighborsFit /\ HandlersFit /\ QueuesFit /\ ModesFit

----------------------------------------------------------------------------
(* Subnets and turns. *)

\* A finite set of numbers that is not empty has a smallest one.
LEMMA SmallestExists ==
  ASSUME NEW S \in SUBSET Int, IsFiniteSet(S), S # {}
  PROVE  \E x \in S : \A y \in S : x <= y
<1> DEFINE T == {U \in FiniteSubsetsOf(Int) : U # {} /\ ~\E x \in U : \A y \in U : x <= y}
<1> SUFFICES ASSUME T # {} PROVE FALSE
  BY DEF FiniteSubsetsOf
<1>1. PICK U \in T : \A V \in T : ~(<<V, U>> \in StrictSubsetOrdering(Int))
  <2>1. IsWellFoundedOn(StrictSubsetOrdering(Int), FiniteSubsetsOf(Int))
    BY FS_StrictSubsetOrderingWellFounded
  <2>2. T \subseteq FiniteSubsetsOf(Int)
    OBVIOUS
  <2> HIDE DEF T
  <2> QED BY <2>1, <2>2, WFMin
<1>2. U \subseteq Int /\ IsFiniteSet(U) /\ U # {} /\ ~\E x \in U : \A y \in U : x <= y
  BY DEF FiniteSubsetsOf
<1>3. PICK x \in U : TRUE
  BY <1>2
<1> DEFINE V == U \ {x}
<1>4. V \in FiniteSubsetsOf(Int) /\ <<V, U>> \in StrictSubsetOrdering(Int)
  BY <1>2, FS_RemoveElement DEF FiniteSubsetsOf, StrictSubsetOrdering
<1>5. V = {} \/ \E m \in V : \A y \in V : m <= y
  BY <1>1, <1>4
<1>6. CASE V = {}
  BY <1>2, <1>6
<1>7. CASE \E m \in V : \A y \in V : m <= y
  <2>1. PICK m \in V : \A y \in V : m <= y
    BY <1>7
  <2>2. CASE x <= m
    BY <1>2, <2>1, <2>2
  <2>3. CASE ~(x <= m)
    BY <1>2, <2>1, <2>3
  <2> QED BY <2>2, <2>3
<1> QED BY <1>5, <1>6, <1>7

LEMMA MinFacts ==
  ASSUME NEW S \in SUBSET Int, IsFiniteSet(S), S # {}
  PROVE  Min(S) \in S
BY SmallestExists DEF Min

\* A subnet has finitely many positions, and every ILC is on its subnet.
LEMMA SubnetFacts ==
  /\ \A s \in Subnets : /\ DOMAIN Bus[s] \in SUBSET Int /\ IsFiniteSet(DOMAIN Bus[s])
                        /\ \A k \in DOMAIN Bus[s] : Bus[s][k] \in On(s)
  /\ \A i \in ILCNames : SubnetOf(i) \in Subnets /\ i \in On(SubnetOf(i))
<1>1. ASSUME NEW s \in Subnets
      PROVE  /\ DOMAIN Bus[s] \in SUBSET Int /\ IsFiniteSet(DOMAIN Bus[s])
             /\ \A k \in DOMAIN Bus[s] : Bus[s][k] \in On(s)
  <2>1. Bus[s] \in Seq(ILCNames)
    BY ILCsAssumption DEF Subnets
  <2>2. DOMAIN Bus[s] = 1 .. Len(Bus[s]) /\ Len(Bus[s]) \in Nat
    BY <2>1
  <2>3. IsFiniteSet(1 .. Len(Bus[s]))
    BY <2>2, FS_Interval
  <2> QED BY <2>2, <2>3 DEF On, Range
<1>2. ASSUME NEW i \in ILCNames
      PROVE  SubnetOf(i) \in Subnets /\ i \in On(SubnetOf(i))
  <2>1. \E s \in Subnets : i \in On(s)
    BY DEF ILCNames
  <2> QED BY <2>1 DEF SubnetOf
<1> QED BY <1>1, <1>2

\* What is not all of a subnet's force actuators leaves one whose turn it can be.
LEMMA NextEnabledFacts ==
  ASSUME NEW D \in SUBSET FAs, Spaced(D), NEW s \in WithFAs, NEW k
  PROVE  NextEnabled(s, k, D) \in (On(s) \cap FAs) \ D
<1> DEFINE enabled == {j \in DOMAIN Bus[s] : Bus[s][j] \in FAs \ D}
           onwards == {j \in enabled : j >= k}
           turns == IF onwards # {} THEN onwards ELSE enabled
<1>1. s \in Subnets
  BY DEF WithFAs
<1>2. enabled # {}
  <2>1. PICK f, g \in On(s) \cap FAs : f # g /\ f \in Far[g] /\ g \in Far[f]
    BY ILCsAssumption
  <2>2. f \notin D \/ g \notin D
    BY <2>1 DEF Spaced
  <2>3. PICK h \in On(s) \cap FAs : h \notin D
    BY <2>1, <2>2
  <2>4. PICK j \in DOMAIN Bus[s] : Bus[s][j] = h
    BY <2>3 DEF On, Range
  <2> QED BY <2>3, <2>4
<1>3. turns \in SUBSET enabled /\ turns # {}
  BY <1>2
<1>4. enabled \in SUBSET Int /\ IsFiniteSet(enabled)
  BY <1>1, SubnetFacts, FS_Subset
<1>5. Min(turns) \in turns
  <2> HIDE DEF turns, enabled
  <2> QED BY <1>3, <1>4, FS_Subset, MinFacts
<1>6. Bus[s][Min(turns)] \in FAs \ D /\ Bus[s][Min(turns)] \in On(s)
  <2>1. Min(turns) \in enabled
    BY <1>3, <1>5
  <2> HIDE DEF turns
  <2> QED BY <1>1, <2>1, SubnetFacts
<1>7. NextEnabled(s, k, D) = Bus[s][Min(turns)]
  BY DEF NextEnabled
<1> HIDE DEF turns
<1> QED BY <1>6, <1>7

\* The kinds of the ILCs do not overlap.
LEMMA KindFacts ==
  /\ FAs \in SUBSET ILCNames
  /\ \A i \in ILCNames : /\ i \in Hardpoints => i \notin FAs /\ i \notin Monitors
                         /\ i \in Monitors => i \notin FAs
                         /\ i \notin FAs /\ i \notin Hardpoints => i \in Monitors
BY ILCsAssumption DEF FAs

\* What a list of the updates asks for is a number.
LEMMA CommandsFacts ==
  ASSUME NEW L, NEW i \in ILCNames
  PROVE  /\ Commands(L) = [j \in ILCNames |-> Commands(L)[j]]
         /\ Commands(L)[i] \in Nat
         /\ i \in FAs => Commands(L)[i] = (IF i \in L.asked THEN 1 ELSE 0)
                                          + (IF i \in Range(L.status) THEN 1 ELSE 0)
         /\ i \in Hardpoints => Commands(L)[i] = 2
         /\ i \in Monitors => Commands(L)[i] = IF L.lvdt THEN 4 ELSE 3
BY KindFacts DEF Commands

----------------------------------------------------------------------------
(* The lists of the updates. *)

\* What is said of one of the lists when D are disabled.
ListFits(L, D) ==
  /\ L \in ChangingLists
  /\ L.expected = Commands(L)
  /\ L.asked = FAs \ D
  /\ \A s \in WithFAs : L.status[s] \in (On(s) \cap FAs) \ D

\* A list that fits asks the enabled force actuators for something, the others for nothing.
LEMMA FittingLists ==
  ASSUME NEW L, NEW D \in SUBSET FAs, ListFits(L, D)
  PROVE  /\ \A f \in D : Commands(L)[f] = 0
         /\ \A f \in FAs \ D : Commands(L)[f] > 0
         /\ Range(L.status) \in SUBSET (FAs \ D)
<1>1. Range(L.status) \in SUBSET (FAs \ D)
  <2>1. L.status \in Turns
    BY DEF ListFits, ChangingLists
  <2>2. DOMAIN L.status = WithFAs
    BY <2>1 DEF Turns
  <2> QED BY <2>2 DEF ListFits, Range
<1>2. L.asked = FAs \ D
  BY DEF ListFits
<1>3. \A f \in FAs : Commands(L)[f] = (IF f \in L.asked THEN 1 ELSE 0)
                                      + (IF f \in Range(L.status) THEN 1 ELSE 0)
  BY KindFacts, CommandsFacts
<1> QED BY <1>1, <1>2, <1>3

LEMMA ListsFit ==
  ASSUME ILCInv, TurnsFit, NEW l \in UpdateLists
  PROVE  ListFits(lists[l], disabled)
BY DEF ILCInv, TypeOK, BuffersAgree, TurnsFit, ListFits

LEMMA FittingInv ==
  ASSUME disabled \in SUBSET FAs, lists = [l \in UpdateLists |-> lists[l]],
         \A l \in UpdateLists : ListFits(lists[l], disabled)
  PROVE  lists \in [UpdateLists -> ChangingLists] /\ BuffersAgree /\ TurnsFit
<1>1. \A l \in UpdateLists : lists[l] \in ChangingLists
  BY DEF ListFits
<1>2. BuffersAgree
  BY FittingLists DEF BuffersAgree, ListFits
<1>3. TurnsFit
  BY DEF TurnsFit, ListFits
<1> QED BY <1>1, <1>2, <1>3

\* A new list fits.
LEMMA BuildBufferFits ==
  ASSUME NEW D \in SUBSET FAs, Spaced(D)
  PROVE  ListFits(BuildBuffer(D), D)
<1> DEFINE status == [s \in WithFAs |-> NextEnabled(s, 1, D)]
           L == BuildBuffer(D)
<1>1. \A s \in WithFAs : status[s] \in (On(s) \cap FAs) \ D
  BY NextEnabledFacts
<1>2. status \in Turns
  BY <1>1 DEF Turns
<1>3. /\ L.asked = FAs \ D /\ L.status = status /\ L.lvdt = FALSE /\ L.clock = 0
      /\ L.expected = [i \in ILCNames |->
             IF i \in Range(status) THEN 2 ELSE IF i \in D THEN 0 ELSE IF i \in FAs THEN 1
             ELSE IF i \in Hardpoints THEN 2 ELSE 3]
      /\ L = [asked |-> L.asked, status |-> L.status, lvdt |-> L.lvdt, clock |-> L.clock,
              expected |-> L.expected]
  BY DEF BuildBuffer
<1> HIDE DEF status, L
<1>4. Range(status) \in SUBSET (FAs \ D)
  <2>1. DOMAIN status = WithFAs
    BY <1>2 DEF Turns
  <2> QED BY <1>1, <2>1 DEF Range
<1>5. ASSUME NEW i \in ILCNames
      PROVE  L.expected[i] = Commands(L)[i]
  <2>1. CASE i \in FAs
    BY <1>3, <1>4, <2>1, CommandsFacts
  <2>2. CASE i \in Hardpoints
    BY <1>3, <1>4, <2>2, CommandsFacts, KindFacts
  <2>3. CASE i \in Monitors
    BY <1>3, <1>4, <2>3, CommandsFacts, KindFacts
  <2> QED BY <2>1, <2>2, <2>3, KindFacts
<1>6. L.expected = Commands(L)
  <2>1. Commands(L) = [i \in ILCNames |-> Commands(L)[i]]
    BY DEF Commands
  <2> QED BY <1>3, <1>5, <2>1
<1>7. L.expected \in Responses
  BY <1>3 DEF Responses
<1>8. L.clock \in Clocks
  BY <1>3, ILCsAssumption DEF Clocks
<1>9. L \in ChangingLists
  BY <1>2, <1>3, <1>7, <1>8 DEF ChangingLists, Asked
<1> QED BY <1>1, <1>3, <1>6, <1>9 DEF ListFits, L

\* The next turn leaves a list that fits.
LEMMA UpdateListFits ==
  ASSUME NEW L, disabled \in SUBSET FAs, Spaced(disabled), ListFits(L, disabled)
  PROVE  ListFits(UpdateList(L), disabled)
<1> DEFINE next == [s \in WithFAs |-> NextEnabled(s, Position(L.status[s], s) + 1, disabled)]
           M == UpdateList(L)
           lvdt == L.clock = 0
<1>1. \A s \in WithFAs : next[s] \in (On(s) \cap FAs) \ disabled
  BY NextEnabledFacts
<1>2. next \in Turns
  BY <1>1 DEF Turns
<1>4. /\ M.asked = L.asked /\ M.status = next /\ M.lvdt = lvdt
      /\ M.clock = IF lvdt THEN LVDTPeriod ELSE L.clock - 1
      /\ M.expected = [i \in ILCNames |->
             IF i \in Range(next) THEN 2 ELSE IF i \in Range(L.status) THEN 1
             ELSE IF i \in Monitors THEN IF lvdt THEN 4 ELSE 3
             ELSE L.expected[i]]
      /\ M = [asked |-> M.asked, status |-> M.status, lvdt |-> M.lvdt, clock |-> M.clock,
              expected |-> M.expected]
  <2>1. L \in ChangingLists
    BY DEF ListFits
  <2>2. M = [L EXCEPT !.status = next, !.lvdt = lvdt,
                      !.clock = IF lvdt THEN LVDTPeriod ELSE L.clock - 1,
                      !.expected = [i \in ILCNames |->
                        IF i \in Range(next) THEN 2 ELSE IF i \in Range(L.status) THEN 1
                        ELSE IF i \in Monitors THEN IF lvdt THEN 4 ELSE 3
                        ELSE L.expected[i]]]
    BY DEF UpdateList
  <2> HIDE DEF M, next, lvdt
  <2> QED BY <2>1, <2>2 DEF ChangingLists
<1>5. L.asked = FAs \ disabled /\ L.expected = Commands(L) /\ L.clock \in Clocks
  BY DEF ListFits, ChangingLists
<1>6. Range(L.status) \in SUBSET (FAs \ disabled)
  BY FittingLists
<1> HIDE DEF next, M
<1>7. Range(next) \in SUBSET (FAs \ disabled)
  <2>1. DOMAIN next = WithFAs
    BY <1>2 DEF Turns
  <2> QED BY <1>1, <2>1 DEF Range
<1>8. ASSUME NEW i \in ILCNames
      PROVE  M.expected[i] = Commands(M)[i]
  <2>1. CASE i \in FAs
    BY <1>4, <1>5, <1>6, <1>7, <2>1, CommandsFacts, KindFacts
  <2>2. CASE i \in Hardpoints
    BY <1>4, <1>5, <1>6, <1>7, <2>2, CommandsFacts, KindFacts
  <2>3. CASE i \in Monitors
    BY <1>4, <1>6, <1>7, <2>3, CommandsFacts, KindFacts
  <2> QED BY <2>1, <2>2, <2>3, KindFacts
<1>9. M.expected = Commands(M)
  <2>1. Commands(M) = [i \in ILCNames |-> Commands(M)[i]]
    BY DEF Commands
  <2> QED BY <1>4, <1>8, <2>1
<1>10. M.expected \in Responses
  <2>1. \A i \in ILCNames : Commands(M)[i] \in Int
    BY CommandsFacts
  <2>2. Commands(M) = [i \in ILCNames |-> Commands(M)[i]]
    BY DEF Commands
  <2> QED BY <1>9, <2>1, <2>2 DEF Responses
<1>11. M.clock \in Clocks
  BY <1>4, <1>5, ILCsAssumption DEF Clocks
<1>12. M.asked \in Asked /\ M.lvdt \in BOOLEAN
  BY <1>4, <1>5 DEF Asked
<1>13. M \in ChangingLists
  BY <1>2, <1>4, <1>10, <1>11, <1>12 DEF ChangingLists
<1> QED BY <1>1, <1>4, <1>5, <1>9, <1>13 DEF ListFits, M

----------------------------------------------------------------------------
(* One exchange. *)

\* What a list asks for, and how often an ILC answers: as often, or not at all.
Asks(l) == IF l \in UpdateLists THEN Commands(UpdateList(lists[l])) ELSE ConfigResponses(l)

LEMMA AsksFacts ==
  ASSUME NEW l, NEW i \in ILCNames
  PROVE  /\ Asks(l)[i] \in Nat
         /\ l \in {"ModeEnabled", "ModeDisabled"} /\ i \notin disabled => Asks(l)[i] = 1
<1>1. CASE l \in UpdateLists
  <2>1. l \notin {"ModeEnabled", "ModeDisabled"}
    BY <1>1 DEF UpdateLists
  <2> QED BY <1>1, <2>1, CommandsFacts DEF Asks
<1>2. CASE l \notin UpdateLists
  BY <1>2 DEF Asks, ConfigResponses
<1> QED BY <1>1, <1>2

LEMMA AnswersFacts ==
  ASSUME NEW asked, NEW fault, NEW i \in ILCNames, asked[i] \in Nat
  PROVE  Answers(asked, fault)[i] \in Nat /\ Answers(asked, fault)[i] \in {0, asked[i]}
BY DEF Answers

\* A queue never holds less than nothing.
LEMMA PushedFacts ==
  ASSUME NEW n, NEW held \in Nat, NEW answers, NEW i \in ILCNames, answers[i] \in Nat
  PROVE  Pushed(n, held, answers, i) \in Nat
<1>1. i \in Spoilt(SubnetOf(i), answers) => answers[i] > 0
  BY DEF Spoilt
<1> QED BY <1>1 DEF Pushed

LEMMA MoreFacts ==
  /\ \A n \in 0 .. Depth : More(n) \in 0 .. Depth
  /\ More(0) > 0
BY ILCsAssumption DEF More

\* An exchange of a mirror that trusts its counts, and goes on doing so, is a complete one:
\* every subnet is read, and what was not answered is still expected.
LEMMA TrustedExchange ==
  ASSUME Inductive, NEW fault, Exchange(fault), Trusted'
  PROVE  LET l == Head(todo) IN
         /\ Trusted /\ todo' = Tail(todo) /\ UNCHANGED <<state, handler>>
         /\ \A s \in Subnets : queue'[s] = 0
         /\ \A i \in ILCNames :
              /\ frames'[i] = 0
              /\ \E n \in {0, Asks(l)[i]} :
                   /\ expected'[i] = expected[i] + Asks(l)[i] - n
                   /\ l \in ModeLists /\ n > 0 => mode'[i] = NewMode(l, i)
<1> DEFINE l == Head(todo)
           L == UpdateList(lists[l])
           asked == IF l \in UpdateLists THEN Commands(L) ELSE ConfigResponses(l)
           answers == Answers(asked, fault)
           quiet == {s \in Subnets : fault \in {<<"late", s>>, <<"dead", s>>}}
           here == [s \in Subnets |-> IF s \in quiet THEN queue[s] ELSE More(queue[s])]
           held == [i \in ILCNames |-> IF SubnetOf(i) \in quiet THEN frames[i]
                                   ELSE Pushed(queue[SubnetOf(i)], frames[i], answers, i)]
           read == {s \in Subnets : \A r \in 1..s : here[r] > 0}
           left == [s \in Subnets |-> IF s \in read THEN 0 ELSE here[s]]
           rest == [i \in ILCNames |-> IF SubnetOf(i) \in read THEN 0 ELSE held[i]]
<1>1. /\ expected' = [i \in ILCNames |->
             expected[i] + (IF l \in UpdateLists THEN L.expected[i] ELSE asked[i])
               - (IF SubnetOf(i) \in read THEN held[i] ELSE 0)]
      /\ queue' = [s \in Subnets |-> IF fault = <<"late", s>> THEN More(left[s]) ELSE left[s]]
      /\ frames' = [i \in ILCNames |->
             IF fault = <<"late", SubnetOf(i)>> THEN Pushed(left[SubnetOf(i)], rest[i], answers, i)
             ELSE rest[i]]
      /\ mode' = [i \in ILCNames |->
             IF l \in ModeLists /\ answers[i] > 0 /\ fault # <<"dead", SubnetOf(i)>>
             THEN NewMode(l, i) ELSE mode[i]]
      /\ latch' = Wait(latch, quiet)
      /\ IF read = Subnets THEN todo' = Tail(todo) /\ UNCHANGED <<state, handler>> ELSE Idle(state)
      /\ UNCHANGED <<disabled, warned>>
      /\ todo # <<>>
  BY DEF Exchange
<1>2. ~latch /\ quiet = {} /\ state' = state /\ (handler' = handler \/ handler' = "none")
  BY <1>1 DEF Trusted, Wait, Idle
<1>3. Trusted
  BY <1>2 DEF Trusted
<1>4. /\ \A s \in Subnets : queue[s] = 0
      /\ \A i \in ILCNames : frames[i] = 0 /\ expected[i] >= 0
  BY <1>3 DEF Inductive, QueuesFit
<1>5. \A s \in Subnets : fault # <<"late", s>> /\ fault # <<"dead", s>>
  BY <1>2
<1>6. \A s \in Subnets : here[s] > 0
  <2> HIDE DEF quiet
  <2> QED BY <1>2, <1>4, MoreFacts
<1>7. read = Subnets
  <2>1. \A s \in Subnets : \A r \in 1..s : r \in Subnets
    BY ILCsAssumption DEF Subnets
  <2> HIDE DEF here
  <2> QED BY <1>6, <2>1
<1>8. asked = Asks(l)
  BY DEF Asks
<1>9. \A s \in Subnets : queue'[s] = 0
  <2> HIDE DEF read, here
  <2> QED BY <1>1, <1>5, <1>7
<1>10. ASSUME NEW i \in ILCNames
       PROVE  /\ frames'[i] = 0
              /\ expected'[i] = expected[i] + Asks(l)[i] - answers[i]
              /\ answers[i] \in {0, Asks(l)[i]}
              /\ l \in ModeLists /\ answers[i] > 0 => mode'[i] = NewMode(l, i)
  <2>1. SubnetOf(i) \in Subnets
    BY SubnetFacts
  <2>2. held[i] = answers[i]
    <3> HIDE DEF answers, quiet
    <3> QED BY <1>2, <1>4, <2>1 DEF Pushed
  <2>3. rest[i] = 0
    <3> HIDE DEF read, held
    <3> QED BY <1>7, <2>1
  <2>4. frames'[i] = 0
    <3> HIDE DEF rest, left, answers
    <3> QED BY <1>1, <1>5, <2>1, <2>3
  <2>5. l \in UpdateLists => L.expected[i] = asked[i]
    <3>1. SUFFICES ASSUME l \in UpdateLists PROVE L.expected[i] = asked[i]
      OBVIOUS
    <3>2. ListFits(L, disabled)
      <4>1. ListFits(lists[l], disabled)
        BY <3>1, ListsFit DEF Inductive
      <4>2. disabled \in SUBSET FAs /\ Spaced(disabled)
        BY DEF Inductive, ILCInv, TypeOK, NeighborsFit
      <4> HIDE DEF l
      <4> QED BY <4>1, <4>2, UpdateListFits
    <3> QED BY <3>1, <3>2 DEF ListFits
  <2>6. expected'[i] = expected[i] + Asks(l)[i] - answers[i]
    <3> HIDE DEF read, held, asked, answers, L, l
    <3> QED BY <1>1, <1>7, <1>8, <2>1, <2>2, <2>5
  <2>7. answers[i] \in {0, Asks(l)[i]}
    <3> HIDE DEF l, L, asked
    <3> QED BY <1>8, AsksFacts, AnswersFacts
  <2>8. l \in ModeLists /\ answers[i] > 0 => mode'[i] = NewMode(l, i)
    <3> HIDE DEF l, L, answers
    <3> QED BY <1>1, <1>5, <2>1
  <2> HIDE DEF l, answers
  <2> QED BY <2>4, <2>6, <2>7, <2>8
<1> HIDE DEF answers, quiet, here, held, read, left, rest, asked
<1> QED BY <1>1, <1>3, <1>7, <1>9, <1>10

\* An exchange leaves every variable a value of its kind.
LEMMA ExchangeType ==
  ASSUME Inductive, NEW fault, Exchange(fault)
  PROVE  /\ state' = state /\ handler' \in {handler, "none"} /\ todo' \in {Tail(todo), <<>>}
         /\ handler' = "none" => todo' = <<>>
         /\ UNCHANGED <<disabled, warned>>
         /\ toggle' \in 0..2 /\ expected' \in [ILCNames -> Int] /\ queue' \in [Subnets -> 0..Depth]
         /\ frames' \in [ILCNames -> Nat] /\ latch' \in BOOLEAN
         /\ mode' \in [ILCNames -> {"Standby", "Disabled", "Enabled"}]
         /\ lists' \in [UpdateLists -> ChangingLists] /\ BuffersAgree' /\ TurnsFit'
<1> DEFINE l == Head(todo)
           L == UpdateList(lists[l])
           asked == IF l \in UpdateLists THEN Commands(L) ELSE ConfigResponses(l)
           answers == Answers(asked, fault)
           quiet == {s \in Subnets : fault \in {<<"late", s>>, <<"dead", s>>}}
           here == [s \in Subnets |-> IF s \in quiet THEN queue[s] ELSE More(queue[s])]
           held == [i \in ILCNames |-> IF SubnetOf(i) \in quiet THEN frames[i]
                                   ELSE Pushed(queue[SubnetOf(i)], frames[i], answers, i)]
           read == {s \in Subnets : \A r \in 1..s : here[r] > 0}
           left == [s \in Subnets |-> IF s \in read THEN 0 ELSE here[s]]
           rest == [i \in ILCNames |-> IF SubnetOf(i) \in read THEN 0 ELSE held[i]]
<1>1. /\ todo # <<>>
      /\ lists' = (IF l \in UpdateLists THEN [lists EXCEPT ![l] = L] ELSE lists)
      /\ toggle' = (IF l \in {"Raised", "Active"} THEN Inc(toggle, 3) ELSE toggle)
      /\ expected' = [i \in ILCNames |->
             expected[i] + (IF l \in UpdateLists THEN L.expected[i] ELSE asked[i])
               - (IF SubnetOf(i) \in read THEN held[i] ELSE 0)]
      /\ queue' = [s \in Subnets |-> IF fault = <<"late", s>> THEN More(left[s]) ELSE left[s]]
      /\ frames' = [i \in ILCNames |->
             IF fault = <<"late", SubnetOf(i)>> THEN Pushed(left[SubnetOf(i)], rest[i], answers, i)
             ELSE rest[i]]
      /\ mode' = [i \in ILCNames |->
             IF l \in ModeLists /\ answers[i] > 0 /\ fault # <<"dead", SubnetOf(i)>>
             THEN NewMode(l, i) ELSE mode[i]]
      /\ latch' = Wait(latch, quiet)
      /\ IF read = Subnets THEN todo' = Tail(todo) /\ UNCHANGED <<state, handler>> ELSE Idle(state)
      /\ UNCHANGED <<disabled, warned>>
  BY DEF Exchange
<1>2. TypeOK
  BY DEF Inductive, ILCInv
<1>3. /\ disabled \in SUBSET FAs /\ Spaced(disabled)
      /\ \A k \in UpdateLists : ListFits(lists[k], disabled)
  BY <1>2, ListsFit DEF Inductive, ILCInv, TypeOK, NeighborsFit
<1>4. \A i \in ILCNames : answers[i] \in Nat
  <2>1. \A i \in ILCNames : asked[i] \in Nat
    BY AsksFacts DEF Asks
  <2> HIDE DEF asked
  <2> QED BY <2>1, AnswersFacts
<1>5. here \in [Subnets -> 0 .. Depth]
  <2>1. queue \in [Subnets -> 0 .. Depth]
    BY <1>2 DEF TypeOK
  <2> HIDE DEF quiet
  <2> QED BY <2>1, MoreFacts
<1>6. left \in [Subnets -> 0 .. Depth]
  <2>1. 0 \in 0 .. Depth
    BY ILCsAssumption
  <2> HIDE DEF here, read
  <2> QED BY <1>5, <2>1
<1>7. queue' \in [Subnets -> 0 .. Depth]
  <2> HIDE DEF left
  <2> QED BY <1>1, <1>6, MoreFacts
<1>8. held \in [ILCNames -> Nat]
  <2>1. frames \in [ILCNames -> Nat]
    BY <1>2 DEF TypeOK
  <2>2. \A i \in ILCNames : \A n : Pushed(n, frames[i], answers, i) \in Nat
    <3> HIDE DEF answers
    <3> QED BY <1>4, <2>1, PushedFacts
  <2> HIDE DEF quiet, answers
  <2> QED BY <2>1, <2>2
<1>9. rest \in [ILCNames -> Nat]
  <2> HIDE DEF held, read
  <2> QED BY <1>8
<1>10. frames' \in [ILCNames -> Nat]
  <2>1. \A i \in ILCNames : \A n : Pushed(n, rest[i], answers, i) \in Nat
    <3> HIDE DEF answers, rest
    <3> QED BY <1>4, <1>9, PushedFacts
  <2> HIDE DEF rest, answers, left
  <2> QED BY <1>1, <1>9, <2>1
<1>11. l \in UpdateLists => ListFits(L, disabled)
  <2> HIDE DEF l
  <2> QED BY <1>3, UpdateListFits
<1>12. expected' \in [ILCNames -> Int]
  <2>1. \A i \in ILCNames : expected[i] \in Int /\ held[i] \in Nat
    <3> HIDE DEF held
    <3> QED BY <1>2, <1>8 DEF TypeOK
  <2>2. \A i \in ILCNames : (IF l \in UpdateLists THEN L.expected[i] ELSE asked[i]) \in Int
    <3>1. \A i \in ILCNames : asked[i] \in Nat
      BY AsksFacts DEF Asks
    <3>2. l \in UpdateLists => \A i \in ILCNames : L.expected[i] \in Int
      <4> HIDE DEF L, l
      <4> QED BY <1>11 DEF ListFits, ChangingLists, Responses
    <3> HIDE DEF asked, L, l
    <3> QED BY <3>1, <3>2
  <2> DEFINE given(i) == IF l \in UpdateLists THEN L.expected[i] ELSE asked[i]
             taken(i) == IF SubnetOf(i) \in read THEN held[i] ELSE 0
  <2>3. \A i \in ILCNames : given(i) \in Int /\ taken(i) \in Int
    <3> HIDE DEF asked, held, read, L, l
    <3> QED BY <2>1, <2>2
  <2>4. expected' = [i \in ILCNames |-> expected[i] + given(i) - taken(i)]
    BY <1>1
  <2> HIDE DEF given, taken
  <2> QED BY <2>1, <2>3, <2>4
<1>13. mode' \in [ILCNames -> {"Standby", "Disabled", "Enabled"}]
  <2>1. mode \in [ILCNames -> {"Standby", "Disabled", "Enabled"}]
    BY <1>2 DEF TypeOK
  <2>2. \A i : NewMode(l, i) \in {"Standby", "Disabled", "Enabled"}
    <3> HIDE DEF l
    <3> QED BY DEF NewMode
  <2> HIDE DEF l, answers
  <2> QED BY <1>1, <2>1, <2>2
<1>14. toggle' \in 0..2 /\ latch' \in BOOLEAN
  <2> HIDE DEF l, quiet
  <2> QED BY <1>1, <1>2 DEF TypeOK, Inc, Wait
<1>15. /\ lists' = [k \in UpdateLists |-> lists'[k]]
       /\ \A k \in UpdateLists : ListFits(lists'[k], disabled)
  <2>1. lists = [k \in UpdateLists |-> lists[k]]
    BY <1>2 DEF TypeOK
  <2> HIDE DEF L, l
  <2> QED BY <1>1, <1>3, <1>11, <2>1
<1>16. lists' \in [UpdateLists -> ChangingLists] /\ BuffersAgree' /\ TurnsFit'
  <2>1. disabled' = disabled
    BY <1>1
  <2>2. disabled' \in SUBSET FAs /\ \A k \in UpdateLists : ListFits(lists'[k], disabled')
    BY <1>3, <1>15, <2>1
  <2>3. lists' \in [UpdateLists -> ChangingLists]
    BY <1>15, <2>2 DEF ListFits
  <2>4. BuffersAgree'
    BY <2>2, FittingLists DEF BuffersAgree, ListFits
  <2>5. TurnsFit'
    BY <2>2 DEF TurnsFit, ListFits
  <2> QED BY <2>3, <2>4, <2>5
<1>17. /\ state' = state /\ handler' \in {handler, "none"} /\ todo' \in {Tail(todo), <<>>}
       /\ handler' = "none" => todo' = <<>>
  <2>1. handler # "none"
    BY <1>1 DEF Inductive, HandlersFit
  <2> HIDE DEF read
  <2> QED BY <1>1, <2>1 DEF Idle
<1>18. UNCHANGED <<disabled, warned>>
  BY <1>1
<1> HIDE DEF l, L, asked, answers, quiet, here, held, read, left, rest
<1> QED BY <1>7, <1>10, <1>12, <1>13, <1>14, <1>16, <1>17, <1>18

----------------------------------------------------------------------------
(* The steps. *)

\* What is left of a sequence of lists ends as it did.
LEMMA TailFacts ==
  ASSUME NEW S, NEW q \in Seq(S), q # <<>>
  PROVE  /\ Tail(q) \in Seq(S)
         /\ Tail(q) # <<>> => Tail(q)[Len(Tail(q))] = q[Len(q)]
         /\ Tail(q) = <<>> => Head(q) = q[Len(q)]
         /\ \A x : q = <<x>> => Tail(q) = <<>>
<1>1. Len(q) \in Nat \ {0} /\ Tail(q) \in Seq(S) /\ Len(Tail(q)) = Len(q) - 1
  OBVIOUS
<1>2. Tail(q) # <<>> => Tail(q)[Len(Tail(q))] = q[Len(q)]
  BY <1>1
<1>3. Tail(q) = <<>> => Head(q) = q[Len(q)]
  <2> DEFINE none == <<>>
  <2>1. Len(none) = 0
    BY EmptySeq
  <2>2. Head(q) = q[1]
    BY <1>1
  <2>3. Tail(q) = none => Head(q) = q[Len(q)]
    <3> HIDE DEF none
    <3>1. SUFFICES ASSUME Tail(q) = none PROVE Head(q) = q[Len(q)]
      OBVIOUS
    <3>2. Len(Tail(q)) = Len(none)
      BY <3>1
    <3>3. Len(q) = 1
      <4> DEFINE n == Len(q)
                 m == Len(Tail(q))
      <4>1. n \in Nat /\ m = n - 1 /\ m = 0
        BY <1>1, <2>1, <3>2
      <4> HIDE DEF n, m
      <4>2. n = 1
        BY <4>1
      <4> QED BY <4>2 DEF n
    <3> QED BY <2>2, <3>3
  <2> QED BY <2>3
<1>4. ASSUME NEW x, q = <<x>> PROVE Tail(q) = <<>>
  <2>1. Len(q) = 1
    BY <1>4
  <2>2. Len(Tail(q)) = 0
    BY <1>1, <2>1
  <2> QED BY <1>1, <2>2, EmptySeq
<1> QED BY <1>1, <1>2, <1>3, <1>4

\* The lists of a handler are a sequence of known lists.
LEMMA TodoFacts ==
  /\ \A l \in UpdateLists \cup ModeLists : <<l>> \in Seq(UpdateLists \cup ModeLists \cup Range(StartLists))
  /\ <<>> \in Seq(UpdateLists \cup ModeLists \cup Range(StartLists))
  /\ StartLists \in Seq(UpdateLists \cup ModeLists \cup Range(StartLists))
  /\ StartLists # <<>> /\ StartLists[Len(StartLists)] = "ModeDisabled"
<1>1. \A k \in DOMAIN StartLists : StartLists[k] \in Range(StartLists)
  BY DEF Range
<1>2. Len(StartLists) = 9 /\ StartLists[9] = "ModeDisabled"
  <2>1. Len(StartLists) = 9
    BY DEF StartLists
  <2>2. StartLists[9] = "ModeDisabled"
    BY DEF StartLists
  <2> QED BY <2>1, <2>2
<1>3. StartLists = [k \in 1 .. 9 |-> StartLists[k]] /\ DOMAIN StartLists = 1 .. 9
  BY DEF StartLists
<1>4. StartLists \in Seq(UpdateLists \cup ModeLists \cup Range(StartLists))
  BY <1>1, <1>3
<1> QED BY <1>2, <1>4

LEMMA ExchangeStep ==
  ASSUME Inductive, NEW fault, Exchange(fault), scenario' \in ScenarioKinds,
         scenario'.settings = scenario.settings
  PROVE  Inductive'
<1> DEFINE Known == UpdateLists \cup ModeLists \cup Range(StartLists)
<1>1. TypeOK /\ todo \in Seq(Known) /\ todo # <<>> /\ HandlersFit
  BY DEF Inductive, ILCInv, TypeOK, Exchange
<1>2. /\ Tail(todo) \in Seq(Known)
      /\ Tail(todo) # <<>> => Tail(todo)[Len(Tail(todo))] = todo[Len(todo)]
      /\ Tail(todo) = <<>> => Head(todo) = todo[Len(todo)]
      /\ \A x : todo = <<x>> => Tail(todo) = <<>>
  <2> HIDE DEF Known
  <2> QED BY <1>1, TailFacts
<1>3. /\ state' = state /\ handler' \in {handler, "none"} /\ todo' \in {Tail(todo), <<>>}
      /\ handler' = "none" => todo' = <<>>
      /\ UNCHANGED <<disabled, warned>>
  BY ExchangeType
<1>4. TypeOK'
  <2>1. todo' \in Seq(Known)
    BY <1>2, <1>3, TodoFacts
  <2>2. handler' \in Handlers /\ state' \in States /\ disabled' \subseteq FAs /\ warned' \subseteq ILCNames
    BY <1>1, <1>3 DEF TypeOK, Handlers
  <2> QED BY <2>1, <2>2, ExchangeType DEF TypeOK
<1>5. BuffersAgree' /\ TurnsFit'
  BY ExchangeType
<1>6. NeighborsFit'
  BY <1>3 DEF Inductive, NeighborsFit
<1>7. HandlersFit'
  <2> HIDE DEF Known
  <2> QED BY <1>1, <1>2, <1>3 DEF HandlersFit
<1>8. QueuesFit'
  <2>1. SUFFICES ASSUME Trusted'
                 PROVE  /\ \A s \in Subnets : queue'[s] = 0
                        /\ \A i \in ILCNames : frames'[i] = 0 /\ expected'[i] >= 0
    BY DEF QueuesFit
  <2>2. Trusted /\ \A i \in ILCNames : expected[i] \in Int /\ expected[i] >= 0
    BY <1>1, <2>1, TrustedExchange DEF Inductive, QueuesFit, TypeOK
  <2>3. ASSUME NEW i \in ILCNames PROVE expected'[i] >= 0
    <3>1. Asks(Head(todo))[i] \in Nat
      BY AsksFacts
    <3>2. PICK n \in {0, Asks(Head(todo))[i]} : expected'[i] = expected[i] + Asks(Head(todo))[i] - n
      BY <2>1, TrustedExchange
    <3> QED BY <2>2, <3>1, <3>2
  <2> QED BY <2>1, <2>3, TrustedExchange
<1>9. ModesFit'
  <2>1. SUFFICES ASSUME Trusted', todo' = <<>>, handler' \in {"start", "enable", "disable"},
                        NEW i \in ILCNames \ disabled'
                 PROVE  expected'[i] > 0 \/ mode'[i] = NewModeOf(handler', i)
    BY DEF ModesFit
  <2> DEFINE l == Head(todo)
  <2>2. Trusted /\ handler' = handler /\ todo' = Tail(todo) /\ disabled' = disabled
    BY <1>3, <2>1, TrustedExchange
  <2>3. l = IF handler = "enable" THEN "ModeEnabled" ELSE "ModeDisabled"
    <3>1. CASE handler = "enable"
      BY <1>1, <3>1 DEF HandlersFit
    <3>2. CASE handler # "enable"
      BY <1>1, <1>2, <2>1, <2>2, <3>2 DEF HandlersFit
    <3> QED BY <3>1, <3>2
  <2>4. Asks(l)[i] = 1
    <3> HIDE DEF l
    <3> QED BY <2>1, <2>2, <2>3, AsksFacts
  <2>5. PICK n \in {0, Asks(l)[i]} : /\ expected'[i] = expected[i] + Asks(l)[i] - n
                                     /\ l \in ModeLists /\ n > 0 => mode'[i] = NewMode(l, i)
    BY <2>1, TrustedExchange
  <2>6. expected[i] \in Int /\ expected[i] >= 0
    BY <1>1, <2>2 DEF Inductive, QueuesFit, TypeOK
  <2>7. CASE n = 0
    BY <2>4, <2>5, <2>6, <2>7
  <2>8. CASE n = 1
    <3> HIDE DEF l
    <3> QED BY <2>2, <2>3, <2>5, <2>8 DEF ModeLists, NewModeOf
  <2> QED BY <2>4, <2>7, <2>8
<1> QED BY <1>4, <1>5, <1>6, <1>7, <1>8, <1>9 DEF Inductive, ILCInv

\* The invariant says nothing of the scenario but what no step changes.
LEMMA ScenarioFacts ==
  ASSUME Inductive, NEW fault, Meets(fault)
  PROVE  scenario' \in ScenarioKinds /\ scenario'.settings = scenario.settings
<1>1. scenario \in ScenarioKinds
  BY DEF Inductive, ILCInv, TypeOK
<1> QED BY <1>1 DEF Meets, ScenarioKinds

\* Lists built anew fit.
LEMMA BuiltLists ==
  ASSUME NEW D \in SUBSET FAs, Spaced(D), lists' = BuildBusLists(D), disabled' = D
  PROVE  lists' \in [UpdateLists -> ChangingLists] /\ BuffersAgree' /\ TurnsFit'
<1>1. ListFits(BuildBuffer(D), D)
  BY BuildBufferFits
<1>2. lists' = [k \in UpdateLists |-> BuildBuffer(D)]
  BY DEF BuildBusLists
<1>3. \A k \in UpdateLists : ListFits(lists'[k], disabled')
  BY <1>1, <1>2
<1>4. lists' \in [UpdateLists -> ChangingLists]
  BY <1>1, <1>2 DEF ListFits
<1>5. BuffersAgree'
  BY <1>3, FittingLists DEF BuffersAgree, ListFits
<1>6. TurnsFit'
  BY <1>3 DEF TurnsFit, ListFits
<1> QED BY <1>4, <1>5, <1>6

LEMMA StartStep ==
  ASSUME Inductive, Start, UNCHANGED scenario
  PROVE  Inductive'
<1>1. /\ TypeOK /\ NeighborsFit /\ state = "Standby" /\ handler' = "start" /\ todo' = StartLists
      /\ disabled' \in scenario.settings /\ lists' = BuildBusLists(disabled')
      /\ toggle' = 0 /\ expected' = Nothing /\ queue' = [s \in Subnets |-> 0]
      /\ frames' = Nothing /\ latch' = FALSE /\ UNCHANGED <<state, warned, mode>>
  BY DEF Inductive, ILCInv, Start, Begin
<1>2. disabled' \in SUBSET FAs /\ Spaced(disabled')
  BY <1>1 DEF TypeOK, NeighborsFit, ScenarioKinds, Settings
<1>3. lists' \in [UpdateLists -> ChangingLists] /\ BuffersAgree' /\ TurnsFit'
  BY <1>1, <1>2, BuiltLists
<1>4. /\ expected' \in [ILCNames -> Int] /\ frames' \in [ILCNames -> Nat]
      /\ \A i \in ILCNames : expected'[i] = 0 /\ frames'[i] = 0
      /\ queue' \in [Subnets -> 0..Depth] /\ \A s \in Subnets : queue'[s] = 0
  BY <1>1, ILCsAssumption DEF Nothing
<1>5. TypeOK'
  <2>1. 0 \in 0..2 /\ FALSE \in BOOLEAN /\ "start" \in Handlers
    BY DEF Handlers
  <2>2. todo' \in Seq(UpdateLists \cup ModeLists \cup Range(StartLists))
    BY <1>1, TodoFacts
  <2> QED BY <1>1, <1>2, <1>3, <1>4, <2>1, <2>2 DEF TypeOK
<1>6. NeighborsFit'
  BY <1>1, <1>2 DEF NeighborsFit
<1>7. HandlersFit'
  BY <1>1, TodoFacts DEF HandlersFit
<1>8. QueuesFit'
  BY <1>4 DEF QueuesFit
<1>9. ModesFit'
  BY <1>1, TodoFacts DEF ModesFit
<1> QED BY <1>3, <1>5, <1>6, <1>7, <1>8, <1>9 DEF Inductive, ILCInv

\* A handler of the updates or of a change of mode begins.
LEMMA BeginStep ==
  ASSUME Inductive, UNCHANGED <<state, disabled, warned, latch, bus, scenario>>, handler = "none",
         \/ state # "Standby" /\ handler' = "update" /\ \E l \in UpdateLists : todo' = <<l>>
         \/ state = "Disabled" /\ handler' = "enable" /\ todo' = <<"ModeEnabled">>
         \/ state = "Enabled" /\ handler' = "disable" /\ todo' = <<"ModeDisabled">>
         \/ state \in {"Disabled", "Fault"} /\ handler' = "standby" /\ todo' = <<"ModeStandby">>
  PROVE  Inductive'
<1>1. UNCHANGED <<state, disabled, warned, latch, scenario, lists, toggle, expected, queue, frames, mode>>
  BY DEF bus
<1>2. handler' \in Handlers /\ todo' # <<>> /\ (handler' = "disable" => todo'[Len(todo')] = "ModeDisabled")
  BY DEF Handlers
<1>3. todo' \in Seq(UpdateLists \cup ModeLists \cup Range(StartLists))
  BY TodoFacts DEF ModeLists
<1>4. TypeOK' /\ BuffersAgree' /\ TurnsFit' /\ NeighborsFit'
  BY <1>1, <1>2, <1>3 DEF Inductive, ILCInv, TypeOK, BuffersAgree, TurnsFit, NeighborsFit, Commands
<1>5. HandlersFit'
  BY <1>1, <1>2 DEF HandlersFit
<1>6. QueuesFit'
  <2>1. Trusted' => Trusted
    BY <1>1 DEF Trusted
  <2> QED BY <1>1, <2>1 DEF Inductive, QueuesFit
<1>7. ModesFit'
  BY <1>2 DEF ModesFit
<1> QED BY <1>4, <1>5, <1>6, <1>7 DEF Inductive, ILCInv

LEMMA UpdateStep ==
  ASSUME Inductive, Update, UNCHANGED scenario
  PROVE  Inductive'
<1>1. (IF state = "Enabled" THEN ControlList ELSE "FreezeSensor") \in UpdateLists
  BY DEF ControlList, UpdateLists
<1> QED BY <1>1, BeginStep DEF Update, Begin

LEMMA ChangeModeStep ==
  ASSUME Inductive, ChangeMode, UNCHANGED scenario
  PROVE  Inductive'
BY BeginStep DEF ChangeMode, Begin

LEMMA VerifyStep ==
  ASSUME Inductive, Verify, UNCHANGED scenario
  PROVE  Inductive'
<1>1. /\ handler # "none" /\ todo = <<>> /\ warned' = {i \in ILCNames : expected[i] # 0}
      /\ expected' = Nothing /\ UNCHANGED <<disabled, lists, toggle, queue, frames, mode>>
      /\ handler' = "none" /\ todo' = <<>>
  BY DEF Verify, Idle
<1>2. /\ state' \in {"Fault", After(handler)} /\ latch' \in BOOLEAN
      /\ state = "Fault" => state' = After(handler)
      /\ state # "Fault" /\ state' # "Fault" => ~latch
  BY DEF Verify, Idle, Inductive, ILCInv, TypeOK
<1>3. TypeOK /\ HandlersFit
  BY DEF Inductive, ILCInv
<1>4. After(handler) \in States
  BY <1>1, <1>3 DEF TypeOK, Handlers, States, After
<1>5. expected' \in [ILCNames -> Int] /\ \A i \in ILCNames : expected'[i] = 0
  BY <1>1 DEF Nothing
<1>6. TypeOK'
  BY <1>1, <1>2, <1>3, <1>4, <1>5 DEF TypeOK, Handlers, States
<1>7. BuffersAgree' /\ TurnsFit' /\ NeighborsFit'
  BY <1>1 DEF Inductive, ILCInv, BuffersAgree, TurnsFit, NeighborsFit, Commands
<1>8. HandlersFit'
  BY <1>1 DEF HandlersFit
<1>9. QueuesFit'
  <2>1. SUFFICES ASSUME Trusted'
                 PROVE  /\ \A s \in Subnets : queue'[s] = 0
                        /\ \A i \in ILCNames : frames'[i] = 0
    BY <1>5 DEF QueuesFit
  <2>2. state' \notin {"Fault", "Standby"}
    BY <1>1, <2>1 DEF Trusted
  <2>3. state # "Fault"
    BY <1>1, <1>2, <1>3, <2>2 DEF HandlersFit, TypeOK, Handlers, After
  <2>4. Trusted
    BY <1>1, <1>2, <1>3, <2>2, <2>3 DEF Trusted, HandlersFit, TypeOK, Handlers
  <2> QED BY <1>1, <2>4 DEF Inductive, QueuesFit
<1>10. ModesFit'
  BY <1>1 DEF ModesFit
<1> QED BY <1>6, <1>7, <1>8, <1>9, <1>10 DEF Inductive, ILCInv

\* The disabled force actuators change.
LEMMA ReconfigureStep ==
  ASSUME Inductive, NEW D \in SUBSET FAs, Spaced(D), InEngineering, Reconfigure(D), UNCHANGED scenario
  PROVE  Inductive'
<1>1. /\ handler = "none" /\ disabled' = D /\ lists' = BuildBusLists(D)
      /\ UNCHANGED <<state, handler, todo, toggle, expected, queue, frames, warned, mode, latch>>
  BY DEF InEngineering, Reconfigure
<1>2. lists' \in [UpdateLists -> ChangingLists] /\ BuffersAgree' /\ TurnsFit'
  BY <1>1, BuiltLists
<1>3. TypeOK' /\ NeighborsFit' /\ HandlersFit'
  BY <1>1, <1>2 DEF Inductive, ILCInv, TypeOK, NeighborsFit, HandlersFit
<1>4. QueuesFit'
  BY <1>1 DEF Inductive, QueuesFit, Trusted
<1>5. ModesFit'
  BY <1>1 DEF ModesFit
<1> QED BY <1>2, <1>3, <1>4, <1>5 DEF Inductive, ILCInv

LEMMA DisableFAStep ==
  ASSUME Inductive, NEW f \in FAs, DisableFA(f), UNCHANGED scenario
  PROVE  Inductive'
<1>1. disabled \cup {f} \in SUBSET FAs
  BY DEF Inductive, ILCInv, TypeOK
<1>2. Spaced(disabled \cup {f})
  BY DEF Inductive, NeighborsFit, Spaced, DisableFA
<1> QED BY <1>1, <1>2, ReconfigureStep DEF DisableFA

LEMMA EnableFAStep ==
  ASSUME Inductive, NEW f \in FAs, EnableFA(f) \/ EnableAllFA, UNCHANGED scenario
  PROVE  Inductive'
<1>1. disabled \in SUBSET FAs /\ Spaced(disabled)
  BY DEF Inductive, ILCInv, TypeOK, NeighborsFit
<1>2. Spaced(disabled \ {f}) /\ Spaced({})
  BY <1>1 DEF Spaced
<1> QED BY <1>1, <1>2, ReconfigureStep DEF EnableFA, EnableAllFA

LEMMA PanicStep ==
  ASSUME Inductive, Panic, UNCHANGED scenario
  PROVE  Inductive'
<1>1. /\ state' = "Fault" /\ handler' = "none" /\ todo' = <<>>
      /\ UNCHANGED <<disabled, warned, latch, lists, toggle, expected, queue, frames, mode>>
  BY DEF Panic, Idle, bus
<1>2. TypeOK' /\ BuffersAgree' /\ TurnsFit' /\ NeighborsFit'
  BY <1>1, TodoFacts DEF Inductive, ILCInv, TypeOK, BuffersAgree, TurnsFit, NeighborsFit, Commands,
     States, Handlers
<1>3. HandlersFit' /\ QueuesFit' /\ ModesFit'
  BY <1>1 DEF HandlersFit, QueuesFit, ModesFit, Trusted
<1> QED BY <1>2, <1>3 DEF Inductive, ILCInv

----------------------------------------------------------------------------
(* Theorems. *)

LEMMA InitInductive ==
  ASSUME Init
  PROVE  Inductive
<1>1. /\ state = "Standby" /\ handler = "none" /\ todo = <<>> /\ scenario \in Scenarios
      /\ disabled \in scenario.settings /\ lists = BuildBusLists(disabled)
      /\ toggle = 0 /\ expected = Nothing /\ queue = [s \in Subnets |-> 0] /\ frames = Nothing
      /\ warned = {} /\ mode = [i \in ILCNames |-> "Standby"] /\ latch = FALSE
  BY DEF Init
<1>2. scenario \in ScenarioKinds /\ \A S \in scenario.settings : \A f, g \in S : g \notin Far[f]
  BY <1>1, ILCsAssumption
<1>3. NeighborsFit /\ disabled \in SUBSET FAs /\ Spaced(disabled)
  BY <1>1, <1>2 DEF NeighborsFit, Spaced, ScenarioKinds, Settings
<1>4. \A l \in UpdateLists : ListFits(lists[l], disabled)
  BY <1>1, <1>3, BuildBufferFits DEF BuildBusLists
<1>5. lists = [l \in UpdateLists |-> lists[l]]
  BY <1>1 DEF BuildBusLists
<1>6. lists \in [UpdateLists -> ChangingLists] /\ BuffersAgree /\ TurnsFit
  BY <1>3, <1>4, <1>5, FittingInv
<1>7. expected \in [ILCNames -> Int] /\ frames \in [ILCNames -> Nat] /\ queue \in [Subnets -> 0..Depth]
  BY <1>1, ILCsAssumption DEF Nothing
<1>8. /\ todo \in Seq(UpdateLists \cup ModeLists \cup Range(StartLists)) /\ toggle \in 0..2
      /\ state \in States /\ handler \in Handlers /\ latch \in BOOLEAN /\ warned \subseteq ILCNames
      /\ mode \in [ILCNames -> {"Standby", "Disabled", "Enabled"}]
  <2>1. todo \in Seq(UpdateLists \cup ModeLists \cup Range(StartLists))
    BY <1>1, TodoFacts
  <2>2. state \in States /\ handler \in Handlers
    BY <1>1 DEF States, Handlers
  <2>3. toggle \in 0..2
    BY <1>1
  <2>4. latch \in BOOLEAN
    BY <1>1
  <2>5. mode \in [ILCNames -> {"Standby", "Disabled", "Enabled"}] /\ warned \subseteq ILCNames
    BY <1>1
  <2> QED BY <2>1, <2>2, <2>3, <2>4, <2>5
<1>9. TypeOK
  BY <1>2, <1>3, <1>6, <1>7, <1>8 DEF TypeOK
<1>10. HandlersFit /\ QueuesFit /\ ModesFit
  BY <1>1 DEF HandlersFit, QueuesFit, ModesFit, Trusted
<1> QED BY <1>3, <1>6, <1>9, <1>10 DEF Inductive, ILCInv

LEMMA StutterInductive ==
  ASSUME Inductive, UNCHANGED vars
  PROVE  Inductive'
<1>1. UNCHANGED <<state, handler, todo, disabled, warned, latch, scenario, lists, toggle, expected,
                  queue, frames, mode>>
  BY DEF vars, bus
<1>2. ILCInv'
  BY <1>1 DEF Inductive, ILCInv, TypeOK, BuffersAgree, Commands
<1>3. TurnsFit' /\ NeighborsFit' /\ HandlersFit' /\ QueuesFit' /\ ModesFit'
  BY <1>1 DEF Inductive, TurnsFit, NeighborsFit, HandlersFit, QueuesFit, ModesFit, Trusted
<1> QED BY <1>2, <1>3 DEF Inductive

\* The inductive invariant: the lists agree with their buffers, every subnet has an enabled
\* force actuator to ask, and unless a fault is latched the counts are exact, so that an ILC
\* that missed a change of mode is owed a response (SSILCs, ILCResponseParser).
THEOREM InductiveInvariant == Spec => []Inductive
<1>1. Init => Inductive
  BY InitInductive
<1>2. Inductive /\ [Next]_vars => Inductive'
  <2>1. SUFFICES ASSUME Inductive, [Next]_vars PROVE Inductive'
    OBVIOUS
  <2>2. CASE UNCHANGED vars
    BY <2>1, <2>2, StutterInductive
  <2>3. CASE Cycle
    <3>1. CASE Update /\ UNCHANGED scenario
      BY <2>1, <3>1, UpdateStep
    <3>2. CASE Verify /\ UNCHANGED scenario
      BY <2>1, <3>2, VerifyStep
    <3>3. CASE \E fault \in Faults : Meets(fault) /\ Exchange(fault)
      BY <2>1, <3>3, ScenarioFacts, ExchangeStep
    <3> QED BY <2>3, <3>1, <3>2, <3>3 DEF Cycle
  <2>4. CASE Command /\ UNCHANGED scenario
    <3>1. CASE Start
      BY <2>1, <2>4, <3>1, StartStep
    <3>2. CASE ChangeMode
      BY <2>1, <2>4, <3>2, ChangeModeStep
    <3>3. CASE EnableAllFA
      <4>1. {} \in SUBSET FAs /\ Spaced({})
        BY DEF Spaced
      <4> QED BY <2>1, <2>4, <3>3, <4>1, ReconfigureStep DEF EnableAllFA
    <3>4. CASE Panic
      BY <2>1, <2>4, <3>4, PanicStep
    <3>5. CASE \E f \in FAs : DisableFA(f) \/ EnableFA(f)
      BY <2>1, <2>4, <3>5, DisableFAStep, EnableFAStep
    <3> QED BY <2>4, <3>1, <3>2, <3>3, <3>4, <3>5 DEF Command
  <2> QED BY <2>1, <2>2, <2>3, <2>4 DEF Next
<1> QED BY <1>1, <1>2, PTL DEF Spec

\* The lists of the updates ask each ILC for what they expect of it, and no disabled force
\* actuator for anything (buildBuffer and update of the bus lists).
THEOREM ListsAskWhatTheyExpect == Spec => []ILCInv
<1>1. Inductive => ILCInv
  BY DEF Inductive
<1> QED BY <1>1, InductiveInvariant, PTL

\* Only Verify ends in a new mode, and only with nothing latched.
LEMMA AnnouncedModes ==
  ASSUME Inductive, [Next]_vars, state' # state, state' \in {"Disabled", "Enabled"}
  PROVE  /\ Verify /\ Trusted /\ todo = <<>> /\ handler \in {"start", "enable", "disable"}
         /\ state' = After(handler)
<1>1. HandlersFit /\ TypeOK
  BY DEF Inductive, ILCInv
<1>2. ~UNCHANGED vars
  BY DEF vars
<1>3. ~Update /\ ~ChangeMode /\ ~Start /\ ~Panic
  BY DEF Update, ChangeMode, Start, Panic, Idle
<1>4. ~\E fault \in Faults : Exchange(fault)
  BY ExchangeType
<1>5. ~EnableAllFA /\ ~\E f \in FAs : DisableFA(f) \/ EnableFA(f)
  BY DEF EnableAllFA, DisableFA, EnableFA, Reconfigure
<1>6. Verify
  BY <1>2, <1>3, <1>4, <1>5 DEF Next, Cycle, Command
<1>7. /\ handler # "none" /\ todo = <<>> /\ state' \in {"Fault", After(handler)}
      /\ state # "Fault" => ~latch \/ state' = "Fault"
  BY <1>6 DEF Verify, Idle
<1>8. state' = After(handler) /\ handler \in {"start", "enable", "disable"}
  BY <1>1, <1>7 DEF TypeOK, Handlers, After
<1>9. Trusted
  BY <1>1, <1>7, <1>8 DEF HandlersFit, Trusted
<1> QED BY <1>6, <1>7, <1>8, <1>9

\* Enabling and disabling: an ILC that takes part is in the new mode or is reported
\* (verifyResponses and checkSafety of StandbyState::start, DisabledState::enable and
\* EnabledState::disable).
THEOREM ModesAreVerified == Spec => ModesFollow
<1>1. Inductive /\ [Next]_vars =>
        (state' # state /\ state' \in {"Disabled", "Enabled"} =>
           \A i \in ILCNames \ (disabled \cup warned') :
             mode'[i] = NewMode(IF state' = "Disabled" THEN "ModeDisabled" ELSE "ModeEnabled", i))
  <2>1. SUFFICES ASSUME Inductive, [Next]_vars, state' # state, state' \in {"Disabled", "Enabled"},
                        NEW i \in ILCNames \ (disabled \cup warned')
                 PROVE  mode'[i] = NewMode(IF state' = "Disabled" THEN "ModeDisabled" ELSE "ModeEnabled", i)
    OBVIOUS
  <2>2. /\ Verify /\ Trusted /\ todo = <<>> /\ handler \in {"start", "enable", "disable"}
        /\ state' = After(handler)
    BY <2>1, AnnouncedModes
  <2>3. expected[i] = 0 /\ mode' = mode
    BY <2>1, <2>2 DEF Verify
  <2>4. mode[i] = NewModeOf(handler, i)
    BY <2>1, <2>2, <2>3 DEF Inductive, ModesFit
  <2>5. (handler = "enable") = (state' = "Enabled")
    BY <2>2 DEF After
  <2> QED BY <2>1, <2>3, <2>4, <2>5 DEF NewModeOf
<1> QED BY <1>1, InductiveInvariant, PTL DEF Spec, ModesFollow

=============================================================================
