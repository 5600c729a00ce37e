---------------------------- MODULE VehiclePosition ----------------------------
(***************************************************************************)
(* Where a vehicle is: the arbitration between the sources that report it. *)
(*                                                                         *)
(* The device in the vehicle, the driver's phone and a provider's platform *)
(* report the same vehicle, late, out of order and with clocks of their    *)
(* own.  Every report is kept as a canonical event, with the reason if it  *)
(* did not count; one that counts becomes the vehicle's current position.  *)
(* One vehicle is modelled: the transactions of a vehicle queue up at an   *)
(* advisory lock, so each arbitration is one step, but a transaction took  *)
(* its now() when it began, which may be long before it got the lock.  Of  *)
(* the times of arrival only the current position's is kept: arbitration   *)
(* reads no other.                                                         *)
(***************************************************************************)
EXTENDS Integers, Sequences, FiniteSets

CONSTANTS
    Sources,        \* source_type: who reports
    Reports,        \* source_report_id: the report rows of a source, numbered as they are judged
    MaxEvents,      \* bound: canonical events
    Points,         \* places, on a line
    MaxRank,        \* bound: ranks a tenant gives
    FutureLimit,    \* how far ahead of the clock an event time may be (24 hours)
    Freshness,      \* freshness_threshold_seconds
    Hysteresis,     \* switch_hysteresis_seconds
    TopSpeed,       \* the fastest plausible movement (200 km/h)
    MaxWait,        \* bound: how long a transaction waits for the lock
    Horizon         \* bound: the clock

Nowhere == -1       \* a report without a location
NoSource == "none"  \* there is no current position yet

ASSUME PointsAssumption == Points \subseteq Nat /\ Reports \subseteq Nat
ASSUME SourcesAssumption == NoSource \notin Sources
ASSUME PolicyAssumption == {MaxRank, FutureLimit, Freshness, Hysteresis, TopSpeed, MaxWait,
                            Horizon, MaxEvents} \subseteq Nat

VARIABLES
    now,            \* clock_timestamp()
    rank,           \* rank[s]: the priority of s, lower is better; Disabled if it has none
    events,         \* canonical_telemetry_events
    current,        \* vehicle_current_positions
    switches,       \* vehicle_source_switches, in the order they were made
    health          \* health[s]: vehicle_source_health

vars == <<now, rank, events, current, switches, health>>

Disabled == 0
Places == Points \cup {Nowhere}
Integrity == {"impossible_movement", "event_time_implausible_future", "accuracy_below_threshold"}
Arbitration == {"source_disabled", "heartbeat_no_location", "stale_event_time",
                "switch_suppressed"}
Applied == "applied"

Event == [source : Sources, report : Reports, eventAt : Nat, location : Places,
          outcome : Integrity \cup Arbitration \cup {Applied}]
Switch == [at : Nat, from : Sources \cup {NoSource}, to : Sources]

HasCurrent == current.source # NoSource

\* The types; a heartbeat is never a position.
TypeOK ==
    /\ now \in Nat
    /\ rank \in [Sources -> Nat]
    /\ events \subseteq Event
    /\ current \in [source : Sources \cup {NoSource}, eventAt : Nat, receivedAt : Nat,
                    location : Places]
    /\ HasCurrent => current.location # Nowhere
    /\ switches \in Seq(Switch)
    /\ health \in [Sources -> [seen : BOOLEAN, eventAt : Nat, location : Places]]

Init ==
    /\ now = 0
    /\ rank \in [Sources -> 1..MaxRank]
    /\ \A s, t \in Sources : rank[s] = rank[t] => s = t
    /\ events = {}
    /\ current = [source |-> NoSource, eventAt |-> 0, receivedAt |-> 0, location |-> Nowhere]
    /\ switches = <<>>
    /\ health = [s \in Sources |-> [seen |-> FALSE, eventAt |-> 0, location |-> Nowhere]]

-----------------------------------------------------------------------------
(* What a report is judged by.                                              *)

Later(a, b) == IF a > b THEN a ELSE b
Distance(p, q) == IF p > q THEN p - q ELSE q - p

\* The report is further from the source's own last point than the time
\* between them allows.
ImpossibleMovement(s, at, place) ==
    LET last == health[s] IN
    /\ last.seen /\ last.location # Nowhere
    /\ at > last.eventAt
    /\ Distance(last.location, place) > TopSpeed * (at - last.eventAt)

\* Why the report on its own does not count, the first reason that applies
Objection(s, at, place, precise) ==
    IF rank[s] = Disabled THEN "source_disabled"
    ELSE IF place = Nowhere THEN "heartbeat_no_location"
    ELSE IF at > now + FutureLimit THEN "event_time_implausible_future"
    ELSE IF ~precise THEN "accuracy_below_threshold"
    ELSE IF HasCurrent /\ at <= current.eventAt THEN "stale_event_time"
    ELSE IF ImpossibleMovement(s, at, place) THEN "impossible_movement"
    ELSE Applied

HigherPriority(s) == rank[current.source] = Disabled \/ rank[s] < rank[current.source]

MayTakeOver_without_hysteresis(s, received, began) ==
    HigherPriority(s) \/ received - current.receivedAt > Freshness

\* A source takes over from another one if it ranks higher or the other one
\* has fallen silent, and the last switch is long enough ago.
MayTakeOver(s, received, began) ==
    /\ HigherPriority(s) \/ received - current.receivedAt > Freshness
    /\ \A i \in DOMAIN switches : switches[i].at <= began - Hysteresis

Outcome_ignores_event_time(s, at, received, began, place, precise) ==
    LET objection == Objection(s, at, place, precise) IN
    IF objection = "stale_event_time" /\ received > current.receivedAt THEN Applied
    ELSE IF objection = Applied /\ HasCurrent /\ current.source # s
                                /\ ~MayTakeOver(s, received, began)
    THEN "switch_suppressed"
    ELSE objection

Outcome(s, at, received, began, place, precise) ==
    LET objection == Objection(s, at, place, precise) IN
    IF objection = Applied /\ HasCurrent /\ current.source # s
                           /\ ~MayTakeOver(s, received, began)
    THEN "switch_suppressed"
    ELSE objection

-----------------------------------------------------------------------------
(* What it changes.                                                         *)

Project_same_source_only(s, at, received, began, place) ==
    /\ current' = [source |-> s, eventAt |-> at, receivedAt |-> received, location |-> place]
    /\ switches' = IF HasCurrent THEN switches
                   ELSE Append(switches, [at |-> began, from |-> NoSource, to |-> s])

\* The event becomes the current position; a change of source is recorded.
Project(s, at, received, began, place) ==
    /\ current' = [source |-> s, eventAt |-> at, receivedAt |-> received, location |-> place]
    /\ switches' = IF current.source = s THEN switches
                   ELSE Append(switches, [at |-> began, from |-> current.source, to |-> s])

\* What the source is known by.  Its first report is entered whatever it was
\* judged to be; later ones move the baseline unless their integrity failed.
Observe(s, at, place, outcome) ==
    LET last == health[s] IN
    health' = [health EXCEPT ![s] =
        [seen     |-> TRUE,
         eventAt  |-> IF ~last.seen THEN at
                      ELSE IF outcome \in Integrity THEN last.eventAt
                      ELSE Later(last.eventAt, at),
         location |-> IF ~last.seen THEN place
                      ELSE IF outcome \in Integrity \/ place = Nowhere \/ at < last.eventAt
                      THEN last.location
                      ELSE place]]

Known(s, r) == \E e \in events : e.source = s /\ e.report = r

arbitrate_again(s, r, at, received, began, place, precise) ==
    LET outcome == Outcome(s, at, received, began, place, precise) IN
    /\ events' = events \cup {[source |-> s, report |-> r, eventAt |-> at,
                               location |-> place, outcome |-> outcome]}
    /\ IF outcome = Applied THEN Project(s, at, received, began, place)
                            ELSE UNCHANGED <<current, switches>>
    /\ Observe(s, at, place, outcome)
    /\ UNCHANGED <<now, rank>>

\* arbitrate_and_project_vehicle_position: one transaction that has the lock.
\* A report that already has its event is not judged again.
arbitrate(s, r, at, received, began, place, precise) ==
    LET outcome == Outcome(s, at, received, began, place, precise) IN
    /\ ~Known(s, r)
    /\ events' = events \cup {[source |-> s, report |-> r, eventAt |-> at,
                               location |-> place, outcome |-> outcome]}
    /\ IF outcome = Applied THEN Project(s, at, received, began, place)
                            ELSE UNCHANGED <<current, switches>>
    /\ Observe(s, at, place, outcome)
    /\ UNCHANGED <<now, rank>>

\* A report arrives: its row was written after the transaction began.
report_arrives ==
    \E s \in Sources, r \in Reports, at \in 0..(now + FutureLimit + 1), wait \in 0..MaxWait,
       place \in Places, precise \in BOOLEAN :
        /\ Cardinality(events) < MaxEvents
        /\ \A q \in Reports : q < r => Known(s, q)
        /\ wait <= now
        /\ \E received \in (now - wait)..now :
               arbitrate(s, r, at, received, now - wait, place, precise)

\* The tenant ranks or disables a source of the vehicle.
set_vehicle_tracking_source_priority(s, k) ==
    /\ rank' = [rank EXCEPT ![s] = k]
    /\ UNCHANGED <<now, events, current, switches, health>>

tick ==
    /\ now < Horizon
    /\ now' = now + 1
    /\ UNCHANGED <<rank, events, current, switches, health>>

Next ==
    \/ report_arrives
    \/ \E s \in Sources, k \in 0..MaxRank : set_vehicle_tracking_source_priority(s, k)
    \/ tick

Spec == Init /\ [][Next]_vars

-----------------------------------------------------------------------------
(* Properties.                                                              *)

Counted == {e \in events : e.outcome = Applied}

\* The current position is the newest, by its own time, of the events that
\* counted: no late arrival moves the vehicle back, whichever source sent it.
CurrentIsNewestCounted ==
    /\ HasCurrent <=> Counted # {}
    /\ HasCurrent => \E e \in Counted : /\ e.source = current.source
                                        /\ e.eventAt = current.eventAt
                                        /\ e.location = current.location
    /\ \A e \in Counted : e.eventAt <= current.eventAt

\* Two events that counted never share an event time, and a report has one
\* event: an event tells which position the vehicle had at its time.
OnePositionPerTime ==
    \A e, f \in events : \/ e = f
                         \/ /\ e.source # f.source \/ e.report # f.report
                            /\ (e.outcome = Applied /\ f.outcome = Applied)
                                   => e.eventAt # f.eventAt

\* The switches tell the whole story of the current source: they begin with
\* none, each leaves the source the one before it chose, the last chose the
\* present one.
SwitchesExplainSource ==
    /\ \A i \in DOMAIN switches :
           switches[i].from = IF i = 1 THEN NoSource ELSE switches[i - 1].to
    /\ current.source = IF switches = <<>> THEN NoSource ELSE switches[Len(switches)].to

\* The source does not oscillate: two switches are at least the hysteresis
\* apart, by the times they are recorded with, although transactions wait for
\* the lock and commit in another order than they began.
NoOscillation ==
    \A i, j \in DOMAIN switches : i < j => switches[i].at + Hysteresis <= switches[j].at
===============================================================================
