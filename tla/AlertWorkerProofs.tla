-------------------------- MODULE AlertWorkerProofs --------------------------
(***************************************************************************)
(* Proofs about AlertWorker: types, exact intervals, and that the tracker  *)
(* implements AlertIncidents.                                              *)
(***************************************************************************)
EXTENDS AlertWorker, TLAPS, WellFoundedInduction

States == [active : BOOLEAN, breach_count : Nat, healthy_count : Nat]

(* the streak of AlertIncidents, for the state of one alert *)
Streak(state) == IF state.active THEN state.healthy_count ELSE state.breach_count

(* what holds of the state of an alert that needs required breaches: only   *)
(* the counter of the other direction counts, and never reaches its limit   *)
Counting(state, required) ==
    /\ state \in States
    /\ state.breach_count < required /\ state.healthy_count < Recovery
    /\ state.active => state.breach_count = 0
    /\ ~state.active => state.healthy_count = 0

(* An alert that has not been observed counts nothing.                      *)
LEMMA UnseenCounts == \A required \in Nat \ {0} : Counting(Unseen, required)
BY WorkerAssumption DEF Counting, Unseen, States

(* how long a streak turns it *)
Enough(state, required) == IF state.active THEN Recovery ELSE required

(* An observation confirms the state of an alert, lengthens the streak      *)
(* against it, or turns it.                                                 *)
Moves(state, next, breached, required) ==
    \/ (breached <=> state.active) /\ (next.active <=> state.active) /\ Streak(next) = 0
    \/ /\ ~(breached <=> state.active) /\ (next.active <=> state.active)
       /\ Streak(next) = Streak(state) + 1 /\ Streak(next) < Enough(state, required)
    \/ /\ ~(breached <=> state.active) /\ (next.active <=> breached)
       /\ Streak(next) = 0 /\ Streak(state) + 1 = Enough(state, required)

(* AlertStateTracker.update moves the state of an alert so.                 *)
LEMMA UpdatedCounts ==
    ASSUME NEW required \in Nat \ {0}, NEW state, Counting(state, required),
           NEW breached \in BOOLEAN
    PROVE  /\ Counting(Updated(state, breached, required), required)
           /\ Moves(state, Updated(state, breached, required), breached, required)
<1> DEFINE u == Updated(state, breached, required)
<1> SUFFICES Counting(u, required) /\ Moves(state, u, breached, required)
  OBVIOUS
<1> USE WorkerAssumption DEF Counting, States, Streak, Unseen, Enough
<1>1. CASE breached /\ state.active
  <2>1. u = [state EXCEPT !.healthy_count = 0]
    BY <1>1 DEF Updated
  <2> HIDE DEF u
  <2>2. Counting(u, required) /\ u.active /\ Streak(u) = 0
    BY <1>1, <2>1
  <2> QED
    BY <1>1, <2>2 DEF Moves
<1>2. CASE breached /\ ~state.active /\ state.breach_count + 1 < required
  <2> DEFINE n == state.breach_count + 1
  <2>1. u = [state EXCEPT !.breach_count = n, !.healthy_count = 0]
    BY <1>2 DEF Updated
  <2>2. n \in Nat /\ n < required /\ n = Streak(state) + 1
    BY <1>2
  <2> HIDE DEF u, n
  <2>3. u \in States /\ ~u.active /\ u.breach_count = n /\ u.healthy_count = 0
    BY <1>2, <2>1, <2>2
  <2>4. Counting(u, required) /\ Streak(u) = n /\ Enough(state, required) = required
    BY <1>2, <2>2, <2>3
  <2> HIDE DEF Counting, Streak, Enough
  <2> QED
    BY <1>2, <2>2, <2>3, <2>4 DEF Moves
<1>3. CASE breached /\ ~state.active /\ ~(state.breach_count + 1 < required)
  <2>1. u = [Unseen EXCEPT !.active = TRUE]
    BY <1>3 DEF Updated
  <2> HIDE DEF u
  <2>2. u \in States /\ u.active /\ u.breach_count = 0 /\ u.healthy_count = 0
    BY <2>1
  <2>3. /\ Counting(u, required) /\ Streak(u) = 0
        /\ Streak(state) + 1 = Enough(state, required)
    BY <1>3, <2>2
  <2> HIDE DEF Counting, Streak, Enough
  <2> QED
    BY <1>3, <2>2, <2>3 DEF Moves
<1>4. CASE ~breached /\ (~state.active \/ state.healthy_count + 1 >= Recovery)
  <2>1. u = Unseen
    BY <1>4 DEF Updated
  <2> HIDE DEF u
  <2>2. Counting(u, required) /\ ~u.active /\ Streak(u) = 0
    BY <2>1
  <2>3. state.active => Streak(state) + 1 = Enough(state, required)
    BY <1>4
  <2> HIDE DEF Counting, Streak, Enough
  <2> QED
    BY <1>4, <2>2, <2>3 DEF Moves
<1>5. CASE ~breached /\ state.active /\ ~(state.healthy_count + 1 >= Recovery)
  <2> DEFINE n == state.healthy_count + 1
  <2>1. u = [state EXCEPT !.breach_count = 0, !.healthy_count = n]
    BY <1>5 DEF Updated
  <2>2. n \in Nat /\ n < Recovery /\ n = Streak(state) + 1
    BY <1>5
  <2> HIDE DEF u, n
  <2>3. u \in States /\ u.active /\ u.breach_count = 0 /\ u.healthy_count = n
    BY <1>5, <2>1, <2>2
  <2>4. Counting(u, required) /\ Streak(u) = n /\ Enough(state, required) = Recovery
    BY <1>5, <2>2, <2>3
  <2> HIDE DEF Counting, Streak, Enough
  <2> QED
    BY <1>5, <2>2, <2>3, <2>4 DEF Moves
<1> QED
  BY <1>1, <1>2, <1>3, <1>4, <1>5

(* The thresholds are in reach of a tracker.                                *)
LEMMA RequiredCounts == \A a \in Alerts : Required[a] \in Nat \ {0}
BY WorkerAssumption DEF Required

(* A page of metrics says of every signal whether it is breached.           *)
LEMMA BreachedTyped ==
    ASSUME NEW d, NEW s \in Signals PROVE Breached(d)[s] \in BOOLEAN
<1>1. CASE s = "http_5xx_rate"
  BY <1>1 DEF Breached
<1>2. CASE s = "high_latency"
  BY <1>2 DEF Breached
<1>3. CASE s = "unhandled_exceptions"
  BY <1>3 DEF Breached
<1>4. CASE s = "rate_limit_backend_unavailable"
  BY <1>4 DEF Breached
<1>5. CASE s = "rate_limit_spike"
  BY <1>5 DEF Breached
<1> QED
  BY <1>1, <1>2, <1>3, <1>4, <1>5 DEF Signals, EventAlerts

----------------------------------------------------------------------------
(* The inductive invariant: every tracker counts one direction below its    *)
(* limit, and what was counted since the snapshot is the difference to it,  *)
(* or everything when the backend has been restarted.                       *)
Tracked == tracker \in [Alerts -> States] /\ \A a \in Alerts : Counting(tracker[a], Required[a])

Exact ==
    IF previous = NoSnapshot THEN since = Zero
    ELSE /\ previous.life <= life
         /\ \A k \in Counters :
                IF previous.life = life THEN previous.count[k] + since[k] = count[k]
                ELSE since[k] = count[k]

Inv == TypeOK /\ Tracked /\ Exact

(* An observation of some alerts keeps the trackers and is a step of        *)
(* AlertIncidents.                                                          *)
LEMMA UpdateObserves ==
    ASSUME Tracked, latest \in [Alerts -> BOOLEAN],
           NEW Observed \in SUBSET Alerts, NEW isBad,
           \A a \in Observed : isBad[a] \in BOOLEAN,
           Update(Observed, isBad)
    PROVE  Tracked' /\ latest' \in [Alerts -> BOOLEAN] /\ Incidents!Observe
<1>1. ASSUME NEW a \in Observed
      PROVE  /\ Counting(tracker'[a], Required[a]) /\ latest'[a] = isBad[a]
             /\ Moves(tracker[a], tracker'[a], isBad[a], Required[a])
  BY UpdatedCounts, RequiredCounts DEF Update, Tracked
<1>2. ASSUME NEW a \in Alerts \ Observed
      PROVE  tracker'[a] = tracker[a] /\ latest'[a] = latest[a]
  BY DEF Update
<1>3. \A a \in Alerts : Counting(tracker'[a], Required[a])
  BY <1>1, <1>2 DEF Tracked
<1>4. tracker' \in [Alerts -> States]
  BY <1>3 DEF Update, Counting
<1>5. Required' = Required
  BY DEF Required
<1>6. Tracked'
  BY <1>3, <1>4, <1>5 DEF Tracked, Counting
<1>7. latest' \in [Alerts -> BOOLEAN]
  BY DEF Update
<1>8. ASSUME NEW a \in Alerts
      PROVE  \/ Incidents!Unobserved(a) \/ Incidents!Confirmed(a)
             \/ Incidents!Doubted(a) \/ Incidents!Turned(a)
  <2>1. CASE a \notin Observed
    BY <1>2, <2>1 DEF Incidents!Unobserved
  <2>2. CASE a \in Observed
    <3>1. /\ tracker[a].active \in BOOLEAN /\ tracker'[a].active \in BOOLEAN
          /\ latest'[a] \in BOOLEAN
      BY <1>4, <1>7 DEF Tracked, States
    <3> QED
      BY <1>1, <2>2, <3>1
         DEF Moves, Enough, Streak, Incidents!Confirmed, Incidents!Doubted,
             Incidents!Turned, Incidents!Enough
  <2> QED
    BY <2>1, <2>2
<1>9. /\ [a \in Alerts |-> tracker'[a].active] \in [Alerts -> BOOLEAN]
      /\ [a \in Alerts |-> IF tracker'[a].active THEN tracker'[a].healthy_count
                           ELSE tracker'[a].breach_count] \in [Alerts -> Nat]
  BY <1>4 DEF States
<1> QED
  BY <1>6, <1>7, <1>8, <1>9 DEF Incidents!Observe

(* What every step but an observation leaves alone.                         *)
LEMMA StutterIsUnobserved ==
    ASSUME UNCHANGED <<tracker, latest>> PROVE UNCHANGED Incidents!vars
BY DEF Incidents!vars

(* The state of the worker after a restart.                                 *)
LEMMA UnseenIsTracked ==
    ASSUME tracker' = [a \in Alerts |-> Unseen], latest' = [a \in Alerts |-> FALSE]
    PROVE  Tracked' /\ latest' \in [Alerts -> BOOLEAN] /\ Incidents!Restart
<1>1. \A a \in Alerts : Counting(Unseen, Required[a])
  BY UnseenCounts, RequiredCounts
<1>2. Unseen \in States /\ Required' = Required
  BY DEF Unseen, States, Required
<1>3. Tracked'
  BY <1>1, <1>2 DEF Tracked
<1>4. /\ [a \in Alerts |-> tracker'[a].active] = [a \in Alerts |-> FALSE]
      /\ [a \in Alerts |-> IF tracker'[a].active THEN tracker'[a].healthy_count
                           ELSE tracker'[a].breach_count] = [a \in Alerts |-> 0]
  BY DEF Unseen
<1> QED
  BY <1>3, <1>4 DEF Incidents!Restart, Incidents!Init

(* Serving requests and counting events adds the same to what the backend   *)
(* counts and to what happened since the snapshot.                          *)
LEMMA CountIsExact ==
    ASSUME Inv, NEW more \in [Counters -> Nat], Count(more) PROVE Inv'
<1> USE CountersAssumption DEF Inv, TypeOK
<1>1. count' \in [Counters -> 0 .. MaxCount] /\ \A k \in Counters : count'[k] = count[k] + more[k]
  BY DEF Count, Add
<1>2. Exact' /\ since' \in [Counters -> 0 .. MaxCount]
  <2>1. CASE previous = NoSnapshot
    BY <2>1 DEF Count, Exact, Zero
  <2>2. CASE previous # NoSnapshot
    <3>1. /\ since' = [k \in Counters |-> since[k] + more[k]]
          /\ previous' = previous /\ life' = life
      BY <2>2 DEF Count, Add
    <3>2. previous \in Snapshots
      BY <2>2
    <3>3. \A k \in Counters : previous.count[k] \in Nat
      BY <3>2 DEF Snapshots
    <3>4. \A k \in Counters : IF previous.life = life THEN previous.count[k] + since'[k] = count'[k]
                              ELSE since'[k] = count'[k]
      BY <1>1, <2>2, <3>1, <3>3 DEF Exact
    <3>5. since' \in [Counters -> 0 .. MaxCount]
      BY <1>1, <3>1, <3>3, <3>4
    <3> QED
      BY <2>2, <3>1, <3>4, <3>5 DEF Exact
  <2> QED
    BY <2>1, <2>2
<1>3. Tracked'
  BY DEF Count, Tracked, Required
<1> QED
  BY <1>1, <1>2, <1>3 DEF Count, Required

(* What any request adds, and what any event adds, are natural numbers.     *)
LEMMA TrafficCounts ==
    ASSUME Inv PROVE /\ \A t \in Traffic : Serve(t) => Inv'
                     /\ \A e \in Happening : CountEvent(e) => Inv'
<1>1. ASSUME NEW t \in Traffic, Serve(t) PROVE Inv'
  <2> DEFINE more == [k \in Counters |->
                        CASE k = Requests -> t.n
                          [] k = Errors -> IF t.failed THEN t.n ELSE 0
                          [] k[1] = "within" -> IF t.took <= k[2] THEN t.n ELSE 0
                          [] OTHER -> 0]
  <2>1. t.n \in Nat
    BY CountersAssumption
  <2>2. more \in [Counters -> Nat]
    BY <2>1
  <2>3. Count(more)
    BY <1>1 DEF Serve
  <2> QED
    BY <2>2, <2>3, CountIsExact
<1>2. ASSUME NEW e \in Happening, CountEvent(e) PROVE Inv'
  <2> DEFINE more == [k \in Counters |-> IF k = Event(e) THEN 1 ELSE 0]
  <2>1. more \in [Counters -> Nat] /\ Count(more)
    BY <1>2 DEF CountEvent
  <2> QED
    BY <2>1, CountIsExact
<1> QED
  BY <1>1, <1>2

(* The worker starts with alerts nobody has observed.                       *)
LEMMA InitHolds == Init => Inv /\ Incidents!Init
<1> SUFFICES ASSUME Init PROVE Inv /\ Incidents!Init
  OBVIOUS
<1>1. \A a \in Alerts : Counting(Unseen, Required[a])
  BY UnseenCounts, RequiredCounts
<1>2. Unseen \in States
  BY DEF Unseen, States
<1>3. Tracked
  BY <1>1, <1>2 DEF Init, Tracked
<1>4. TypeOK
  BY <1>1, <1>2, CountersAssumption, WorkerAssumption
     DEF Init, TypeOK, Counting, States, Answers, Polled, Zero
<1>5. Incidents!Init
  BY DEF Init, Incidents!Init, Unseen
<1> QED
  BY <1>3, <1>4, <1>5 DEF Inv, Exact, Init

(* Every poll observes some alerts, or none.                                *)
LEMMA PollKeeps ==
    ASSUME Inv, Poll PROVE Inv' /\ [Incidents!Next]_(Incidents!vars)
<1> USE DEF Inv
<1>1. latest \in [Alerts -> BOOLEAN] /\ pc \in Polled /\ Required' = Required
  BY DEF TypeOK, Required
<1>2. Polled \subseteq Alerts /\ Signals \subseteq Alerts
  BY DEF Alerts
(* a poll keeps what was counted, unless a new page of metrics is kept      *)
<1>3. ASSUME Tracked', latest' \in [Alerts -> BOOLEAN], pc' \in Polled,
             UNCHANGED <<backend, previous, crashes, since>>
      PROVE  Inv'
  BY <1>1, <1>3 DEF TypeOK, Tracked, Counting, States, Exact, backend
<1>4. CASE CheckReadiness
  <2>1. Tracked' /\ latest' \in [Alerts -> BOOLEAN] /\ Incidents!Observe
    BY <1>1, <1>2, <1>4, UpdateObserves DEF CheckReadiness, Only
  <2> QED
    BY <1>3, <1>4, <2>1 DEF CheckReadiness, Polled, Incidents!Next
<1>5. CASE MetricsFail
  <2>1. Tracked' /\ latest' \in [Alerts -> BOOLEAN] /\ Incidents!Observe
    BY <1>1, <1>2, <1>5, UpdateObserves DEF MetricsFail, Only
  <2> QED
    BY <1>3, <1>5, <2>1 DEF MetricsFail, Polled, Incidents!Next
<1>6. CASE EvaluateMetrics
  <2>1. Tracked' /\ latest' \in [Alerts -> BOOLEAN] /\ Incidents!Observe
    <3>1. CASE previous = NoSnapshot
      BY <1>1, <1>2, <1>6, <3>1, UpdateObserves DEF EvaluateMetrics, Only
    <3>2. CASE previous # NoSnapshot
      <4> DEFINE signals == Breached(Interval(previous, Snapshot))
                 Observed == {pc} \cup Signals
                 isBad == [a \in Observed |-> IF a = pc THEN FALSE ELSE signals[a]]
      <4>1. \A a \in Signals : signals[a] \in BOOLEAN
        BY BreachedTyped
      <4> HIDE DEF signals
      <4>2. \A a \in Observed : isBad[a] \in BOOLEAN
        BY <4>1
      <4>3. Observed \in SUBSET Alerts
        BY <1>1, <1>2
      <4>4. Update(Observed, isBad)
        BY <1>6, <3>2 DEF EvaluateMetrics, signals
      <4> HIDE DEF Observed, isBad
      <4> QED
        BY <1>1, <4>2, <4>3, <4>4, UpdateObserves
    <3> QED
      BY <3>1, <3>2
  <2>2. TypeOK'
    BY <1>1, <1>6, <2>1, CountersAssumption
       DEF EvaluateMetrics, TypeOK, Tracked, Counting, States, backend, Snapshot,
           Snapshots, Polled, Zero
  <2>3. Exact'
    <3>1. previous' = [life |-> life, count |-> count] /\ since' = [k \in Counters |-> 0]
          /\ life' = life /\ count' = count
      BY <1>6 DEF EvaluateMetrics, Snapshot, Zero, backend
    <3>2. \A k \in Counters : count[k] \in Nat
      BY CountersAssumption DEF TypeOK
    <3>3. life \in Nat
      BY DEF TypeOK
    <3>4. previous' # NoSnapshot
      BY <3>1, <3>2, <3>3, CountersAssumption DEF TypeOK
    <3> QED
      BY <3>1, <3>2, <3>3, <3>4 DEF Exact
  <2> QED
    BY <2>1, <2>2, <2>3 DEF Incidents!Next
<1>7. CASE \E url \in Polled : CycleFails(url)
  <2>1. UNCHANGED <<backend, tracker, previous, crashes, since, latest>> /\ pc' \in Polled
    BY <1>7 DEF CycleFails, Polled
  <2>2. Tracked'
    BY <1>1, <2>1 DEF Tracked
  <2> QED
    BY <1>1, <1>3, <2>1, <2>2, StutterIsUnobserved
<1> QED
  BY <1>4, <1>5, <1>6, <1>7 DEF Poll

(* What the backend does changes nothing the worker keeps.                  *)
LEMMA BackendKeeps ==
    ASSUME Inv,
           \/ \E t \in Traffic : Serve(t)
           \/ \E e \in Happening : CountEvent(e)
           \/ RestartBackend
           \/ \E url \in Polled, how \in Answers : ChangeAnswer(url, how)
    PROVE  Inv' /\ UNCHANGED Incidents!vars
<1>1. CASE (\E t \in Traffic : Serve(t)) \/ (\E e \in Happening : CountEvent(e))
  <2>1. UNCHANGED <<tracker, latest>>
    BY <1>1 DEF Serve, CountEvent, Count
  <2> QED
    BY <1>1, <2>1, TrafficCounts, StutterIsUnobserved
<1>2. CASE RestartBackend
  <2>1. UNCHANGED <<tracker, latest, previous>> /\ life' = life + 1
        /\ count' = Zero /\ since' = Zero
    BY <1>2 DEF RestartBackend
  <2>2. TypeOK'
    BY <1>2, CountersAssumption, WorkerAssumption
       DEF RestartBackend, Inv, TypeOK, Zero, Required
  <2>3. Exact'
    <3>1. CASE previous = NoSnapshot
      BY <2>1, <3>1 DEF Exact
    <3>2. CASE previous # NoSnapshot
      <4>1. previous.life \in Nat /\ life \in Nat /\ previous.life <= life
        BY <3>2 DEF Inv, TypeOK, Exact, Snapshots
      <4>2. previous'.life <= life' /\ previous'.life # life'
        BY <2>1, <4>1
      <4> QED
        BY <2>1, <3>2, <4>2 DEF Exact, Zero
    <3> QED
      BY <3>1, <3>2
  <2>4. Tracked'
    BY <2>1 DEF Inv, Tracked, Required
  <2> QED
    BY <2>1, <2>2, <2>3, <2>4, StutterIsUnobserved DEF Inv
<1>3. CASE \E url \in Polled, how \in Answers : ChangeAnswer(url, how)
  <2>1. /\ answer' \in [Polled -> Answers]
        /\ UNCHANGED <<life, count, pc, tracker, previous, crashes, since, latest>>
    BY <1>3 DEF ChangeAnswer, Inv, TypeOK
  <2>2. Inv'
    BY <2>1 DEF Inv, TypeOK, Tracked, Exact, Required
  <2> QED
    BY <2>1, <2>2, StutterIsUnobserved
<1> QED
  BY <1>1, <1>2, <1>3

(* Every step keeps the invariant and is a step of AlertIncidents or none.  *)
LEMMA StepHolds ==
    ASSUME Inv, [Next]_vars PROVE Inv' /\ [Incidents!Next]_(Incidents!vars)
<1>1. CASE Poll
  BY <1>1, PollKeeps
<1>2. CASE CrashWorker
  <2>1. Tracked' /\ latest' \in [Alerts -> BOOLEAN] /\ Incidents!Restart
    BY <1>2, UnseenIsTracked DEF CrashWorker
  <2>2. Exact'
    BY <1>2 DEF CrashWorker, Exact, Zero
  <2>3. TypeOK'
    BY <1>2, <2>1, CountersAssumption, WorkerAssumption
       DEF CrashWorker, backend, Inv, TypeOK, Tracked, Counting, States, Zero, Polled
  <2> QED
    BY <2>1, <2>2, <2>3 DEF Inv, Incidents!Next
<1>3. CASE UNCHANGED vars
  BY <1>3, StutterIsUnobserved DEF vars, Inv, TypeOK, Tracked, Exact, Required
<1> QED
  BY <1>1, <1>2, <1>3, BackendKeeps DEF Next

----------------------------------------------------------------------------
(* The variables keep their types, and no counter of a tracker reaches its  *)
(* limit: run_worker and the backend.                                       *)
THEOREM TypeCorrect == Spec => []TypeOK
<1>1. Init => Inv
  BY InitHolds
<1>2. Inv /\ [Next]_vars => Inv'
  BY StepHolds
<1>3. Inv => TypeOK
  BY DEF Inv
<1> QED
  BY <1>1, <1>2, <1>3, PTL DEF Spec

(* What interval_metrics computes from the next page of metrics is what     *)
(* happened since the last one, for any traffic, any polls that fail and    *)
(* any restarts.                                                            *)
THEOREM IntervalsAreExact == Spec => []IntervalIsExact
<1>1. Init => Inv
  BY InitHolds
<1>2. Inv /\ [Next]_vars => Inv'
  BY StepHolds
<1>3. Inv => IntervalIsExact
  <2> SUFFICES ASSUME Inv, previous # NoSnapshot PROVE Interval(previous, Snapshot) = since
    BY DEF IntervalIsExact
  <2>1. previous \in Snapshots /\ since \in [Counters -> 0 .. MaxCount]
        /\ count \in [Counters -> 0 .. MaxCount] /\ MaxCount \in Nat
    BY CountersAssumption DEF Inv, TypeOK
  <2>2. ASSUME NEW k \in Counters
        PROVE  CounterDelta(previous.count[k], count[k], previous.life # life) = since[k]
    <3>1. previous.count[k] \in Nat /\ count[k] \in Nat /\ since[k] \in Nat
      BY <2>1 DEF Snapshots
    <3>2. IF previous.life = life THEN previous.count[k] + since[k] = count[k]
          ELSE since[k] = count[k]
      BY DEF Inv, Exact
    <3> QED
      BY <3>1, <3>2 DEF CounterDelta
  <2> QED
    BY <2>1, <2>2 DEF Interval, Snapshot
<1> QED
  BY <1>1, <1>2, <1>3, PTL DEF Spec

(* The worker implements AlertIncidents: an incident is reported once, when *)
(* it begins and when it ends, whatever polls fail and processes restart.   *)
THEOREM IncidentsAreReported == Spec => ReportsIncidents
<1>1. Init => Inv /\ Incidents!Init
  BY InitHolds
<1>2. Inv /\ [Next]_vars => Inv' /\ [Incidents!Next]_(Incidents!vars)
  BY StepHolds
<1> QED
  BY <1>1, <1>2, PTL DEF Spec, ReportsIncidents, Incidents!Spec

(* A set of natural numbers that is not empty has a least member.           *)
LEMMA LeastMember ==
    ASSUME NEW T \in SUBSET Nat, T # {} PROVE \E i \in T : \A j \in T : i <= j
<1>1. PICK i \in T : \A j \in T : ~(<<j, i>> \in OpToRel(<, Nat))
  BY NatLessThanWellFounded, WFMin
<1>2. \A j \in T : ~(j < i)
  BY <1>1 DEF OpToRel
<1> QED
  BY <1>2

(* The bucket of interval_metrics is at least Slow when every bucket below  *)
(* it holds less than 95 percent of the requests.                           *)
LEMMA P95IsSlow ==
    ASSUME NEW d \in [Counters -> Nat]
    PROVE  P95(d) >= Slow <=> \A i \in 1 .. Slow - 1 :
                                20 * (d[Requests] - d[Within(i)]) > d[Requests]
<1> DEFINE target  == (19 * d[Requests] + 19) \div 20
           reached == {i \in 1 .. NBuckets : d[Within(i)] >= target} \cup {NBuckets + 1}
<1> USE CountersAssumption
<1>1. d[Requests] \in Nat /\ \A i \in 1 .. NBuckets : d[Within(i)] \in Nat
  BY DEF Counters
<1>2. target \in Nat /\ \A w \in Nat : w >= target <=> ~(20 * (d[Requests] - w) > d[Requests])
  BY <1>1
<1> HIDE DEF target
<1>3. PICK least \in reached : \A j \in reached : least <= j
  <2>1. reached \in SUBSET Nat /\ reached # {}
    OBVIOUS
  <2> QED
    BY <2>1, LeastMember
<1>4. P95(d) \in reached /\ \A j \in reached : P95(d) <= j
  BY <1>3 DEF P95, target
<1>5. P95(d) >= Slow <=> \A i \in 1 .. Slow - 1 : ~(d[Within(i)] >= target)
  BY <1>1, <1>2, <1>4
<1> QED
  BY <1>1, <1>2, <1>5

(* So the signals of an interval hold of what happened in it.               *)
LEMMA SignalsHappened ==
    ASSUME since \in [Counters -> Nat]
    PROVE  \A s \in Signals : Breached(since)[s] <=> Happened[s]
<1>1. Breached(since)["high_latency"] <=> Happened["high_latency"]
  BY P95IsSlow DEF Breached, Happened
<1>2. Breached(since)["http_5xx_rate"] <=> Happened["http_5xx_rate"]
  <2>1. /\ since[Errors] \in Nat /\ since[Requests] \in Nat
        /\ since[Errors] * 100 = 100 * since[Errors]
    BY DEF Counters
  <2> QED
    BY <2>1 DEF Breached, Happened
<1>3. \A s \in EventAlerts : Breached(since)[s] <=> Happened[s]
  BY DEF Breached, Happened, EventAlerts
<1> QED
  BY <1>1, <1>2, <1>3 DEF Signals

(* When a page of metrics is read, exactly the signals that happened since  *)
(* the page before fire or stay open, and no other one fires: the loop over *)
(* the signals in run_worker.                                               *)
THEOREM SignalsFollowWhatHappened == Spec => SignalsAreTrue
<1> DEFINE A == pc = "metrics_unavailable" /\ answer[pc] = "ok" /\ previous # NoSnapshot
                  /\ crashes' = crashes /\ pc' # pc
                => \A s \in Signals : /\ Happened[s] => tracker'[s].active
                                      /\ tracker'[s].active => tracker[s].active \/ Happened[s]
<1>1. IntervalIsExact /\ Inv /\ [Next]_vars => [A]_vars
  <2> SUFFICES ASSUME IntervalIsExact, Inv, [Next]_vars,
                      pc = "metrics_unavailable", answer[pc] = "ok", previous # NoSnapshot,
                      crashes' = crashes, pc' # pc,
                      NEW s \in Signals
               PROVE  /\ Happened[s] => tracker'[s].active
                      /\ tracker'[s].active => tracker[s].active \/ Happened[s]
    OBVIOUS
  <2>1. EvaluateMetrics
    <3>1. ~CrashWorker
      <4>1. crashes \in Nat
        BY DEF Inv, TypeOK
      <4> QED
        BY <4>1 DEF CrashWorker
    <3>2. /\ ~\E t \in Traffic : Serve(t)
          /\ ~\E e \in Happening : CountEvent(e)
          /\ ~RestartBackend /\ ~UNCHANGED vars
          /\ ~\E url \in Polled, how \in Answers : ChangeAnswer(url, how)
      BY DEF Serve, CountEvent, Count, RestartBackend, ChangeAnswer, vars
    <3>3. ~CheckReadiness /\ ~MetricsFail /\ ~\E url \in Polled : CycleFails(url)
      BY DEF CheckReadiness, MetricsFail, CycleFails
    <3> QED
      BY <3>1, <3>2, <3>3 DEF Next, Poll
  <2>2. Breached(since)[s] <=> Happened[s]
    <3>1. since \in [Counters -> Nat]
      BY CountersAssumption DEF Inv, TypeOK
    <3> QED
      BY <3>1, SignalsHappened
  <2>3. tracker'[s] = Updated(tracker[s], Breached(since)[s], 1)
    <3>1. Interval(previous, Snapshot) = since
      BY DEF IntervalIsExact
    <3>2. s \in Alerts /\ s # pc /\ Required[s] = 1
      BY DEF Alerts, Signals, EventAlerts, Polled, Required
    <3> QED
      BY <2>1, <3>1, <3>2 DEF EvaluateMetrics, Update
  <2>4. Counting(tracker[s], 1)
    BY DEF Inv, Tracked, Alerts, Required, Signals, EventAlerts, Polled
  <2>5. Moves(tracker[s], tracker'[s], Breached(since)[s], 1)
    BY <2>3, <2>4, UpdatedCounts, BreachedTyped
  <2>6. CASE Breached(since)[s]
    BY <2>2, <2>4, <2>5, <2>6 DEF Moves, Counting, States, Streak, Enough
  <2>7. CASE ~Breached(since)[s]
    BY <2>2, <2>5, <2>7 DEF Moves
  <2> QED
    BY <2>6, <2>7
<1>2. Init => Inv
  BY InitHolds
<1>3. Inv /\ [Next]_vars => Inv'
  BY StepHolds
<1> QED
  BY <1>1, <1>2, <1>3, IntervalsAreExact, PTL DEF Spec, SignalsAreTrue
=============================================================================
