----------------------- MODULE VehiclePositionProofs -----------------------
(***************************************************************************)
(* For any sources, reports, places and thresholds: the current position   *)
(* of a vehicle is the newest of the events that counted, and its changes  *)
(* of source are chained and at least the hysteresis apart.                *)
(***************************************************************************)
EXTENDS VehiclePosition, SequenceTheorems, TLAPS

\* The invariant the four properties need together: each one's step uses the
\* types, the hysteresis uses that there is a switch only if there is a source.
IInv == TypeOK /\ CurrentIsNewestCounted /\ OnePositionPerTime /\ SwitchesExplainSource
               /\ NoOscillation

Arrival(s, r, at, received, began, place, precise) ==
    /\ s \in Sources /\ r \in Reports /\ place \in Places /\ precise \in BOOLEAN
    /\ at \in Nat /\ received \in Nat /\ began \in Nat
    /\ arbitrate(s, r, at, received, began, place, precise)

Recorded(s, r, at, place, outcome) ==
    [source |-> s, report |-> r, eventAt |-> at, location |-> place, outcome |-> outcome]

LEMMA InitIInv == Init => IInv
<1> SUFFICES ASSUME Init PROVE IInv
  OBVIOUS
<1>1. TypeOK
  BY PolicyAssumption, SourcesAssumption
     DEF Init, TypeOK, Places, HasCurrent, Event, Switch
<1>2. switches = <<>> /\ DOMAIN switches = {} /\ events = {} /\ current.source = NoSource
  BY DEF Init
<1>3. CurrentIsNewestCounted /\ OnePositionPerTime
  BY <1>2 DEF CurrentIsNewestCounted, OnePositionPerTime, Counted, HasCurrent
<1>4. SwitchesExplainSource /\ NoOscillation
  BY <1>2 DEF SwitchesExplainSource, NoOscillation
<1> QED BY <1>1, <1>3, <1>4 DEF IInv

\* What an arrival may be judged to be
LEMMA OutcomeType ==
    ASSUME NEW s, NEW at, NEW received, NEW began, NEW place, NEW precise
    PROVE  Outcome(s, at, received, began, place, precise)
               \in Integrity \cup Arbitration \cup {Applied}
BY DEF Outcome, Objection, Integrity, Arbitration, Applied

\* A report that counts is newer than the current position, has a location,
\* and passes the hysteresis if it changes the source.
LEMMA AppliedIsNewer ==
    ASSUME NEW s, NEW at, NEW received, NEW began, NEW place, NEW precise,
           Outcome(s, at, received, began, place, precise) = Applied
    PROVE  /\ place # Nowhere
           /\ HasCurrent => ~(at <= current.eventAt)
           /\ HasCurrent /\ current.source # s => MayTakeOver(s, received, began)
BY DEF Outcome, Objection, Applied

\* An arrival that counts: the position and the switches it leaves behind
LEMMA ProjectStep ==
    ASSUME TypeOK, SwitchesExplainSource, NoOscillation,
           NEW s \in Sources, NEW at \in Nat, NEW received \in Nat, NEW began \in Nat,
           NEW place \in Points,
           HasCurrent /\ current.source # s => MayTakeOver(s, received, began),
           Project(s, at, received, began, place)
    PROVE  /\ switches' \in Seq(Switch)
           /\ SwitchesExplainSource'
           /\ NoOscillation'
<1> DEFINE new == [at |-> began, from |-> current.source, to |-> s]
<1>1. current'.source = s
  BY DEF Project
<1>2. CASE current.source = s
  <2>1. switches' = switches /\ current'.source = current.source
    BY <1>1, <1>2 DEF Project
  <2> QED BY <2>1 DEF TypeOK, SwitchesExplainSource, NoOscillation
<1>3. CASE current.source # s
  <2>1. switches \in Seq(Switch) /\ new \in Switch /\ Len(switches) \in Nat
    BY DEF TypeOK, Switch
  <2>2. switches' = Append(switches, new)
    BY <1>3 DEF Project
  <2>3. /\ switches' \in Seq(Switch)
        /\ Len(switches') = Len(switches) + 1
        /\ \A i \in 1 .. Len(switches) : switches'[i] = switches[i]
        /\ switches'[Len(switches) + 1] = new
    BY <2>1, <2>2, AppendProperties
  <2>4. SwitchesExplainSource'
    <3>1. current.source = IF Len(switches) = 0 THEN NoSource ELSE switches[Len(switches)].to
      BY <2>1, EmptySeq DEF SwitchesExplainSource
    <3>2. ASSUME NEW i \in 1 .. Len(switches) + 1
          PROVE  switches'[i].from = IF i = 1 THEN NoSource ELSE switches'[i - 1].to
      <4>1. CASE i <= Len(switches)
        <5>1. i \in DOMAIN switches /\ switches'[i] = switches[i]
          BY <4>1, <2>1, <2>3
        <5>2. i # 1 => switches'[i - 1] = switches[i - 1]
          BY <4>1, <2>1, <2>3
        <5> QED BY <5>1, <5>2 DEF SwitchesExplainSource
      <4>2. CASE i = Len(switches) + 1
        BY <4>2, <2>1, <2>3, <3>1
      <4> QED BY <4>1, <4>2, <2>1
    <3>3. switches' # <<>> /\ switches'[Len(switches')].to = s
      BY <2>1, <2>3
    <3>4. DOMAIN switches' = 1 .. Len(switches) + 1
      BY <2>1, <2>3
    <3> QED BY <3>2, <3>3, <3>4, <1>1 DEF SwitchesExplainSource
  <2>5. \A i \in 1 .. Len(switches) : switches[i].at + Hysteresis <= began
    <3> SUFFICES ASSUME NEW i \in 1 .. Len(switches)
                 PROVE  switches[i].at + Hysteresis <= began
      OBVIOUS
    <3>1. switches # <<>> /\ switches[Len(switches)] \in Switch /\ switches[i] \in Switch
      BY <2>1
    <3>2. HasCurrent
      BY <3>1, SourcesAssumption DEF SwitchesExplainSource, HasCurrent, Switch
    <3>3. switches[i].at <= began - Hysteresis
      BY <3>2, <1>3, <2>1 DEF MayTakeOver
    <3> QED BY <3>1, <3>3, PolicyAssumption DEF Switch
  <2>6. NoOscillation'
    <3> SUFFICES ASSUME NEW i \in 1 .. Len(switches) + 1, NEW j \in 1 .. Len(switches) + 1, i < j
                 PROVE  switches'[i].at + Hysteresis <= switches'[j].at
      BY <2>1, <2>3 DEF NoOscillation
    <3>1. CASE j <= Len(switches)
      BY <3>1, <2>1, <2>3 DEF NoOscillation
    <3>2. CASE j = Len(switches) + 1
      BY <3>2, <2>1, <2>3, <2>5
    <3> QED BY <3>1, <3>2, <2>1
  <2> QED BY <2>3, <2>4, <2>6
<1> QED BY <1>2, <1>3

LEMMA ArrivalType ==
    ASSUME TypeOK, SwitchesExplainSource, NoOscillation,
           NEW s, NEW r, NEW at, NEW received, NEW began, NEW place, NEW precise,
           Arrival(s, r, at, received, began, place, precise)
    PROVE  TypeOK' /\ SwitchesExplainSource' /\ NoOscillation'
<1> DEFINE outcome == Outcome(s, at, received, began, place, precise)
<1> USE DEF Arrival
<1>1. events' \subseteq Event
  BY OutcomeType DEF arbitrate, TypeOK, Event
<1>2. now' \in Nat /\ rank' \in [Sources -> Nat]
  BY DEF arbitrate, TypeOK
<1>3. health' \in [Sources -> [seen : BOOLEAN, eventAt : Nat, location : Places]]
  BY DEF arbitrate, TypeOK, Observe, Later
<1>4. CASE outcome = Applied
  <2>1. Project(s, at, received, began, place)
    BY <1>4 DEF arbitrate
  <2>2. place \in Points
    BY <1>4, AppliedIsNewer DEF Places
  <2>3. switches' \in Seq(Switch) /\ SwitchesExplainSource' /\ NoOscillation'
    BY <2>1, <2>2, <1>4, AppliedIsNewer, ProjectStep
  <2>4. /\ current' \in [source : Sources \cup {NoSource}, eventAt : Nat, receivedAt : Nat,
                         location : Places]
        /\ HasCurrent' => current'.location # Nowhere
    BY <2>1, <1>4, AppliedIsNewer DEF Project, HasCurrent
  <2> QED BY <1>1, <1>2, <1>3, <2>3, <2>4 DEF TypeOK, Event, Switch
<1>5. CASE outcome # Applied
  <2>1. UNCHANGED <<current, switches>>
    BY <1>5 DEF arbitrate
  <2> QED BY <2>1, <1>1, <1>2, <1>3
          DEF TypeOK, SwitchesExplainSource, NoOscillation, HasCurrent, Event, Switch
<1> QED BY <1>4, <1>5

LEMMA ArrivalLog ==
    ASSUME TypeOK, CurrentIsNewestCounted, OnePositionPerTime,
           NEW s, NEW r, NEW at, NEW received, NEW began, NEW place, NEW precise,
           Arrival(s, r, at, received, began, place, precise)
    PROVE  CurrentIsNewestCounted' /\ OnePositionPerTime'
<1> DEFINE outcome == Outcome(s, at, received, began, place, precise)
           new == Recorded(s, r, at, place, outcome)
<1> USE DEF Arrival
<1>1. events' = events \cup {new}
  BY DEF arbitrate, Recorded
<1>2. \A e \in events : e.source # s \/ e.report # r
  BY DEF arbitrate, Known
<1>3. /\ new.source = s /\ new.report = r /\ new.eventAt = at
      /\ new.location = place /\ new.outcome = outcome
  BY DEF Recorded
<1>4. \A e \in events : e.eventAt \in Nat
  BY DEF TypeOK, Event
<1>5. current.eventAt \in Nat
  BY DEF TypeOK
<1> HIDE DEF new, outcome
<1>6. outcome = Applied => \A e \in events : e.outcome = Applied => e.eventAt < at
  <2> SUFFICES ASSUME outcome = Applied, NEW e \in events, e.outcome = Applied
               PROVE  e.eventAt < at
    OBVIOUS
  <2>1. e \in Counted
    BY DEF Counted
  <2>2. HasCurrent /\ e.eventAt <= current.eventAt
    BY <2>1 DEF CurrentIsNewestCounted
  <2>3. ~(at <= current.eventAt)
    BY <2>2, AppliedIsNewer DEF outcome
  <2> QED BY <2>2, <2>3, <1>4, <1>5
<1>7. OnePositionPerTime'
  <2> SUFFICES ASSUME NEW e \in events \cup {new}, NEW f \in events \cup {new}, e # f
               PROVE  /\ e.source # f.source \/ e.report # f.report
                      /\ (e.outcome = Applied /\ f.outcome = Applied) => e.eventAt # f.eventAt
    BY <1>1 DEF OnePositionPerTime
  <2>1. CASE e \in events /\ f \in events
    BY <2>1 DEF OnePositionPerTime
  <2>2. CASE e \in events /\ f = new
    BY <2>2, <1>2, <1>3, <1>4, <1>6
  <2>3. CASE e = new /\ f \in events
    BY <2>3, <1>2, <1>3, <1>4, <1>6
  <2> QED BY <2>1, <2>2, <2>3
<1>8. CASE outcome = Applied
  <2>1. current' = [source |-> s, eventAt |-> at, receivedAt |-> received, location |-> place]
    BY <1>8 DEF arbitrate, Project, outcome
  <2>2. new \in Counted'
    BY <1>1, <1>3, <1>8 DEF Counted
  <2>3. HasCurrent'
    BY <2>1, SourcesAssumption DEF HasCurrent
  <2>4. \A e \in Counted' : e.eventAt <= at
    BY <1>1, <1>3, <1>4, <1>6, <1>8 DEF Counted
  <2> QED BY <2>1, <2>2, <2>3, <2>4, <1>3, <1>7 DEF CurrentIsNewestCounted
<1>9. CASE outcome # Applied
  <2>1. UNCHANGED current
    BY <1>9 DEF arbitrate, outcome
  <2>2. Counted' = Counted
    BY <1>1, <1>3, <1>9 DEF Counted
  <2> QED BY <2>1, <2>2, <1>7 DEF CurrentIsNewestCounted, HasCurrent
<1> QED BY <1>8, <1>9

LEMMA NextIInv == IInv /\ [Next]_vars => IInv'
<1> SUFFICES ASSUME IInv, [Next]_vars PROVE IInv'
  OBVIOUS
<1> USE DEF IInv
<1>1. CASE report_arrives
  <2>1. PICK s \in Sources, r \in Reports, at \in 0 .. (now + FutureLimit + 1),
             wait \in 0 .. MaxWait, place \in Places, precise \in BOOLEAN :
               /\ wait <= now
               /\ \E received \in (now - wait) .. now :
                      arbitrate(s, r, at, received, now - wait, place, precise)
    BY <1>1 DEF report_arrives
  <2>2. PICK received \in (now - wait) .. now :
               arbitrate(s, r, at, received, now - wait, place, precise)
    BY <2>1
  <2>3. now \in Nat /\ FutureLimit \in Nat /\ MaxWait \in Nat
    BY PolicyAssumption DEF TypeOK
  <2>4. at \in Nat /\ now - wait \in Nat /\ received \in Nat
    BY <2>1, <2>3
  <2>5. Arrival(s, r, at, received, now - wait, place, precise)
    BY <2>2, <2>4 DEF Arrival
  <2> QED BY <2>5, ArrivalType, ArrivalLog
<1>2. ASSUME NEW s \in Sources, NEW k \in 0 .. MaxRank,
             set_vehicle_tracking_source_priority(s, k)
      PROVE  IInv'
  <2>1. TypeOK'
    BY <1>2, PolicyAssumption
       DEF set_vehicle_tracking_source_priority, TypeOK, HasCurrent, Event, Switch
  <2>2. UNCHANGED <<events, current, switches>>
    BY <1>2 DEF set_vehicle_tracking_source_priority
  <2> QED BY <2>1, <2>2 DEF CurrentIsNewestCounted, OnePositionPerTime, SwitchesExplainSource,
                            NoOscillation, HasCurrent, Counted
<1>3. CASE tick
  <2>1. TypeOK'
    BY <1>3 DEF tick, TypeOK, HasCurrent, Event, Switch
  <2>2. UNCHANGED <<events, current, switches>>
    BY <1>3 DEF tick
  <2> QED BY <2>1, <2>2 DEF CurrentIsNewestCounted, OnePositionPerTime, SwitchesExplainSource,
                            NoOscillation, HasCurrent, Counted
<1>4. CASE UNCHANGED vars
  BY <1>4 DEF vars, TypeOK, CurrentIsNewestCounted, OnePositionPerTime, SwitchesExplainSource,
              NoOscillation, HasCurrent, Counted, Event, Switch
<1> QED BY <1>1, <1>2, <1>3, <1>4 DEF Next

LEMMA SpecIInv == Spec => []IInv
BY InitIInv, NextIInv, PTL DEF Spec

\* The types, and that a heartbeat never becomes the position of the vehicle.
THEOREM VehicleTypeCorrect == Spec => []TypeOK
BY SpecIInv, PTL DEF IInv

\* Late, repeated and competing reports never move the vehicle back: its
\* current position is the newest of all that counted.
THEOREM VehicleCurrentIsNewest == Spec => []CurrentIsNewestCounted
BY SpecIInv, PTL DEF IInv

\* A report is judged once, and a time has at most one position.
THEOREM VehicleOnePositionPerTime == Spec => []OnePositionPerTime
BY SpecIInv, PTL DEF IInv

\* The recorded switches lead from no source to the present one.
THEOREM VehicleSwitchesExplainSource == Spec => []SwitchesExplainSource
BY SpecIInv, PTL DEF IInv

\* Two switches of source are at least the hysteresis apart, however long the
\* transactions that made them waited for the vehicle's lock.
THEOREM VehicleDoesNotOscillate == Spec => []NoOscillation
BY SpecIInv, PTL DEF IInv
===============================================================================
