----------------------------- MODULE AlertWorker -----------------------------
(***************************************************************************)
(* The alert worker (alerting/worker.py, alerting/engine.py) and the       *)
(* counters of the backend it polls (core/monitoring.py).                  *)
(*                                                                         *)
(* A cycle polls /readiness, then /metrics, and evaluates what was counted *)
(* since the last page of metrics it read.  The backend serves, fails and  *)
(* restarts meanwhile.  All counters of a page are read under one lock.    *)
(* Webhooks are sent once; a delivery that fails is logged and forgotten,  *)
(* so it changes no state here.                                            *)
(***************************************************************************)
EXTENDS Naturals

CONSTANTS
    NBuckets,      \* finite latency buckets, 1 .. NBuckets
    Slow,          \* the first bucket at or above ALERT_P95_LATENCY_SECONDS
    MinErrors,     \* ALERT_HTTP_5XX_MIN_REQUESTS
    MinLatency,    \* ALERT_LATENCY_MIN_REQUESTS
    RatioPercent,  \* ALERT_HTTP_5XX_RATIO_THRESHOLD, in percent
    Threshold,     \* thresholds of the events
    Failures,      \* ALERT_READINESS_FAILURES
    Recovery,      \* ALERT_RECOVERY_SUCCESSES
    Traffic,       \* the requests the backend serves: number, failure, bucket
    Happening,     \* the events it counts
    NoSnapshot,
    MaxCount, MaxEvents, MaxFaults  \* bounds, the last one on deaths of either process

Events == {"unhandled", "exceeded", "unavailable"}
Polled == {"service_unavailable", "metrics_unavailable"}
EventAlerts == {"unhandled_exceptions", "rate_limit_spike", "rate_limit_backend_unavailable"}
Signals == {"http_5xx_rate", "high_latency"} \cup EventAlerts
Alerts == Polled \cup Signals

(* what a page of metrics counts; a bucket counts the requests within it *)
Requests == <<"requests", 0>>
Errors == <<"errors", 0>>
Event(e) == <<e, 0>>
Within(i) == <<"within", i>>
Counters == {Requests, Errors} \cup {Event(e) : e \in Events}
              \cup {Within(i) : i \in 1 .. NBuckets}

ASSUME CountersAssumption ==
    /\ NBuckets \in Nat /\ MaxCount \in Nat
    /\ Slow \in 1 .. NBuckets + 1
    /\ Threshold \in [Events -> Nat \ {0}]
    /\ Traffic \subseteq [n : Nat, failed : BOOLEAN, took : 1 .. NBuckets + 1]
    /\ Happening \subseteq Events
    /\ NoSnapshot \notin [life : Nat, count : [Counters -> Nat]]
ASSUME WorkerAssumption ==
    /\ MinErrors \in Nat \ {0} /\ MinLatency \in Nat \ {0}
    /\ RatioPercent \in 1 .. 100
    /\ Failures \in Nat \ {0} /\ Recovery \in Nat \ {0}
    /\ MaxFaults \in Nat

VARIABLES
    answer,    \* how /readiness and /metrics answer
    life,      \* aqlyra_process_start_time_seconds
    count,     \* the backend's counters
    pc,        \* what the worker polls next
    tracker,   \* AlertStateTracker._states
    previous,  \* the last snapshot read
    crashes,   \* how often the worker has died
    since,     \* ghost: what happened since that snapshot, or since the restart
    latest     \* ghost: whether the latest observation of each alert was bad

backend == <<answer, life, count>>
vars == <<answer, life, count, pc, tracker, previous, crashes, since, latest>>

Answers == {"ok", "refused", "garbled"}
Zero == [k \in Counters |-> 0]
Unseen == [active |-> FALSE, breach_count |-> 0, healthy_count |-> 0]
Snapshot == [life |-> life, count |-> count]
Snapshots == [life : 0 .. MaxFaults, count : [Counters -> 0 .. MaxCount]]

(* metrics fire at once, the polled addresses after Failures in a row *)
Required == [a \in Alerts |-> IF a \in Polled THEN Failures ELSE 1]

TypeOK ==
    /\ answer \in [Polled -> Answers]
    /\ life \in 0 .. MaxFaults
    /\ count \in [Counters -> 0 .. MaxCount]
    /\ pc \in Polled
    /\ tracker \in [Alerts -> [active : BOOLEAN, breach_count : Nat, healthy_count : Nat]]
    /\ \A a \in Alerts : /\ tracker[a].breach_count < Required[a]
                         /\ tracker[a].healthy_count < Recovery
    /\ previous \in Snapshots \cup {NoSnapshot}
    /\ crashes \in 0 .. MaxFaults
    /\ since \in [Counters -> 0 .. MaxCount]
    /\ latest \in [Alerts -> BOOLEAN]

Init ==
    /\ answer = [url \in Polled |-> "ok"]
    /\ life = 0
    /\ count = Zero
    /\ pc = "service_unavailable"
    /\ tracker = [a \in Alerts |-> Unseen]
    /\ previous = NoSnapshot
    /\ crashes = 0
    /\ since = Zero
    /\ latest = [a \in Alerts |-> FALSE]

----------------------------------------------------------------------------
(* The backend *)

Add(counts, more) == [k \in Counters |-> counts[k] + more[k]]

Count(more) ==
    /\ \A k \in Counters : count[k] + more[k] <= MaxCount
    /\ count' = Add(count, more)
    /\ since' = IF previous = NoSnapshot THEN since ELSE Add(since, more)
    /\ UNCHANGED <<answer, life, pc, tracker, previous, crashes, latest>>

(* record_http_request, for n requests alike *)
Serve(t) ==
    /\ t.failed => count[Errors] + t.n <= MaxEvents
    /\ Count([k \in Counters |->
                CASE k = Requests -> t.n
                  [] k = Errors -> IF t.failed THEN t.n ELSE 0
                  [] k[1] = "within" -> IF t.took <= k[2] THEN t.n ELSE 0
                  [] OTHER -> 0])

(* record_unhandled_exception, record_rate_limit_exceeded and *)
(* record_rate_limit_backend_unavailable                      *)
CountEvent(e) ==
    /\ count[Event(e)] < MaxEvents
    /\ Count([k \in Counters |-> IF k = Event(e) THEN 1 ELSE 0])

RestartBackend ==
    /\ life + crashes < MaxFaults
    /\ life' = life + 1
    /\ count' = Zero
    /\ since' = Zero
    /\ UNCHANGED <<answer, pc, tracker, previous, crashes, latest>>

(* an answer that is cut off raises what _fetch_text does not catch *)
ChangeAnswer(url, how) ==
    /\ answer[url] # how
    /\ answer' = [answer EXCEPT ![url] = how]
    /\ UNCHANGED <<life, count, pc, tracker, previous, crashes, since, latest>>

----------------------------------------------------------------------------
(* engine.py: what a page of metrics says about the interval *)

(* fault: a restart is seen only by a counter that goes down *)
DeltaWithoutStartTime(earlier, now, reset) == IF now < earlier THEN now ELSE now - earlier

CounterDelta(earlier, now, reset) ==
    IF reset \/ now < earlier THEN now ELSE now - earlier

(* interval_metrics *)
Interval(earlier, now) ==
    [k \in Counters |-> CounterDelta(earlier.count[k], now.count[k], earlier.life # now.life)]

(* fault: the target is rounded down *)
P95RoundedDown(d) ==
    LET target  == (19 * d[Requests]) \div 20
        reached == {i \in 1 .. NBuckets : d[Within(i)] >= target} \cup {NBuckets + 1} IN
    CHOOSE i \in reached : \A j \in reached : i <= j

(* the first bucket that holds 95 percent of the requests, rounded up *)
P95(d) ==
    LET target  == (19 * d[Requests] + 19) \div 20
        reached == {i \in 1 .. NBuckets : d[Within(i)] >= target} \cup {NBuckets + 1} IN
    CHOOSE i \in reached : \A j \in reached : i <= j

(* evaluate_metric_signals *)
Breached(d) == [
    http_5xx_rate  |-> d[Requests] >= MinErrors
                       /\ d[Errors] * 100 >= RatioPercent * d[Requests],
    high_latency   |-> d[Requests] >= MinLatency /\ P95(d) >= Slow,
    unhandled_exceptions |-> d[Event("unhandled")] >= Threshold["unhandled"],
    rate_limit_backend_unavailable |-> d[Event("unavailable")] >= Threshold["unavailable"],
    rate_limit_spike |-> d[Event("exceeded")] >= Threshold["exceeded"]]

----------------------------------------------------------------------------
(* The worker *)

(* fault: a breach leaves the successes counted so far *)
HealthyIsKept(state, breached, required) ==
    IF breached
    THEN IF state.active THEN state
         ELSE IF state.breach_count + 1 < required
         THEN [state EXCEPT !.breach_count = @ + 1]
         ELSE [Unseen EXCEPT !.active = TRUE]
    ELSE IF ~state.active \/ state.healthy_count + 1 >= Recovery THEN Unseen
    ELSE [state EXCEPT !.healthy_count = @ + 1]

(* fault: the breaches that opened an alert stay counted *)
BreachIsKept(state, breached, required) ==
    IF breached
    THEN IF state.active THEN [state EXCEPT !.healthy_count = 0]
         ELSE [state EXCEPT !.breach_count = @ + 1, !.active = @ \/ state.breach_count + 1 >= required]
    ELSE IF ~state.active \/ state.healthy_count + 1 >= Recovery THEN Unseen
    ELSE [state EXCEPT !.healthy_count = @ + 1]

(* AlertStateTracker.update *)
Updated(state, breached, required) ==
    IF breached
    THEN IF state.active THEN [state EXCEPT !.healthy_count = 0]
         ELSE IF state.breach_count + 1 < required
         THEN [state EXCEPT !.breach_count = @ + 1, !.healthy_count = 0]
         ELSE [Unseen EXCEPT !.active = TRUE]
    ELSE IF ~state.active \/ state.healthy_count + 1 >= Recovery THEN Unseen
    ELSE [state EXCEPT !.breach_count = 0, !.healthy_count = @ + 1]

Update(Observed, isBad) ==
    /\ tracker' = [a \in Alerts |-> IF a \in Observed
                                    THEN Updated(tracker[a], isBad[a], Required[a])
                                    ELSE tracker[a]]
    /\ latest' = [a \in Alerts |-> IF a \in Observed THEN isBad[a] ELSE latest[a]]

Only(alert, isBad) == [a \in {alert} |-> isBad]

(* the cycle fails: nothing is observed, the next one begins *)
CycleFails(url) ==
    /\ pc = url /\ answer[url] = "garbled"
    /\ pc' = "service_unavailable"
    /\ UNCHANGED <<backend, tracker, previous, crashes, since, latest>>

(* fault: a refused connection fails the cycle as well *)
CheckReadinessOrFail ==
    /\ pc = "service_unavailable"
    /\ IF answer[pc] = "ok"
       THEN /\ Update({pc}, Only(pc, FALSE)) /\ pc' = "metrics_unavailable"
       ELSE UNCHANGED <<pc, tracker, latest>>
    /\ UNCHANGED <<backend, previous, crashes, since>>

(* fault: the alert is only updated when the address fails *)
CheckReadinessFailures ==
    /\ pc = "service_unavailable" /\ answer[pc] # "garbled"
    /\ IF answer[pc] = "ok" THEN UNCHANGED <<tracker, latest>>
       ELSE Update({pc}, Only(pc, TRUE))
    /\ pc' = "metrics_unavailable"
    /\ UNCHANGED <<backend, previous, crashes, since>>

CheckReadiness ==
    /\ pc = "service_unavailable" /\ answer[pc] # "garbled"
    /\ Update({pc}, Only(pc, answer[pc] # "ok"))
    /\ pc' = "metrics_unavailable"
    /\ UNCHANGED <<backend, previous, crashes, since>>

MetricsFail ==
    /\ pc = "metrics_unavailable" /\ answer[pc] = "refused"
    /\ Update({pc}, Only(pc, TRUE))
    /\ pc' = "service_unavailable"
    /\ UNCHANGED <<backend, previous, crashes, since>>

(* the loop over the signals is one step: until it ends only the worker    *)
(* reads its tracker and snapshots                                         *)
EvaluateMetrics ==
    /\ pc = "metrics_unavailable" /\ answer[pc] = "ok"
    /\ IF previous = NoSnapshot
       THEN Update({pc}, Only(pc, FALSE))
       ELSE LET signals == Breached(Interval(previous, Snapshot)) IN
            Update({pc} \cup Signals,
                   [a \in {pc} \cup Signals |-> IF a = pc THEN FALSE ELSE signals[a]])
    /\ previous' = Snapshot
    /\ since' = Zero
    /\ pc' = "service_unavailable"
    /\ UNCHANGED <<backend, crashes>>

(* the worker dies and is started again *)
CrashWorker ==
    /\ life + crashes < MaxFaults
    /\ crashes' = crashes + 1
    /\ pc' = "service_unavailable"
    /\ tracker' = [a \in Alerts |-> Unseen]
    /\ latest' = [a \in Alerts |-> FALSE]
    /\ previous' = NoSnapshot
    /\ since' = Zero
    /\ UNCHANGED backend

Poll == CheckReadiness \/ MetricsFail \/ EvaluateMetrics \/ \E url \in Polled : CycleFails(url)

Next ==
    \/ \E t \in Traffic : Serve(t)
    \/ \E e \in Happening : CountEvent(e)
    \/ RestartBackend
    \/ \E url \in Polled, how \in Answers : ChangeAnswer(url, how)
    \/ Poll \/ CrashWorker

Spec == Init /\ [][Next]_vars
FairSpec == Spec /\ WF_vars(Poll)

----------------------------------------------------------------------------
(* Properties *)

(* The tracker's two counters implement AlertIncidents: an incident is     *)
(* reported once, after enough bad observations in a row, and resolved     *)
(* after enough good ones in a row, whatever polls fail in between.        *)
Incidents == INSTANCE AlertIncidents WITH
    open   <- [a \in Alerts |-> tracker[a].active],
    streak <- [a \in Alerts |-> IF tracker[a].active THEN tracker[a].healthy_count
                                ELSE tracker[a].breach_count]

ReportsIncidents == Incidents!Spec

(* Whatever page of metrics is read next, the interval counts exactly what *)
(* happened since the last one, or since a restart of the backend, also    *)
(* when polls failed or the counters have overtaken the old ones since.    *)
IntervalIsExact ==
    previous # NoSnapshot => Interval(previous, Snapshot) = since

(* what the thresholds mean: an event happened often enough, at least the  *)
(* given share of requests failed, more than 5 percent took longer than    *)
(* every bucket below Slow                                                 *)
Happened == [
    http_5xx_rate |-> since[Requests] >= MinErrors
                      /\ 100 * since[Errors] >= RatioPercent * since[Requests],
    high_latency  |-> /\ since[Requests] >= MinLatency
                      /\ \A i \in 1 .. Slow - 1 :
                            20 * (since[Requests] - since[Within(i)]) > since[Requests],
    unhandled_exceptions |-> since[Event("unhandled")] >= Threshold["unhandled"],
    rate_limit_backend_unavailable |-> since[Event("unavailable")] >= Threshold["unavailable"],
    rate_limit_spike |-> since[Event("exceeded")] >= Threshold["exceeded"]]

(* When a page of metrics is read, exactly the signals that really         *)
(* happened since the page before are open or stay open, and none opens    *)
(* for what was counted before: nothing is lost to polls that failed or to *)
(* a restart of the backend after which the event was counted.             *)
SignalsAreTrue ==
    [][pc = "metrics_unavailable" /\ answer[pc] = "ok" /\ previous # NoSnapshot
           /\ crashes' = crashes /\ pc' # pc
       => \A s \in Signals : /\ Happened[s] => tracker'[s].active
                             /\ tracker'[s].active => tracker[s].active \/ Happened[s]]_vars

(* An address that refuses for good is reported, whatever the other one    *)
(* does meanwhile: /readiness also when every cycle breaks off at /metrics *)
(* after it; /metrics, which a cycle polls second, once the answers of     *)
(* /readiness no longer break off before it.                               *)
Reached(url) == url = "metrics_unavailable" => answer["service_unavailable"] # "garbled"

OutageIsReported ==
    \A url \in Polled :
        <>[](answer[url] = "refused" /\ Reached(url)) => <>[]tracker[url].active

(* Once both addresses answer for good, their alerts are resolved.         *)
RecoveryIsReported ==
    \A url \in Polled :
        <>[](\A u \in Polled : answer[u] = "ok") => <>[]~tracker[url].active
=============================================================================
