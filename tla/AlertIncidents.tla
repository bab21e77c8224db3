--------------------------- MODULE AlertIncidents ---------------------------
(***************************************************************************)
(* What the alert worker promises (docs/ARCHITECTURE.md, "Alert worker"):  *)
(* an incident opens after enough observations in a row were bad, stays    *)
(* open without being reported again, and is resolved after enough         *)
(* observations in a row were good.  The log of an alert therefore         *)
(* alternates between firing and resolved.                                 *)
(***************************************************************************)
EXTENDS Naturals

CONSTANTS
    Alerts,
    Required,  \* how many bad observations in a row open each alert
    Recovery   \* how many good ones resolve it

VARIABLES
    open,   \* whether the last event of each alert is "firing"
    latest, \* whether its latest observation was bad
    streak  \* how many of its latest observations say otherwise

vars == <<open, latest, streak>>

Init ==
    /\ open = [a \in Alerts |-> FALSE]
    /\ latest = [a \in Alerts |-> FALSE]
    /\ streak = [a \in Alerts |-> 0]

(* how long a streak changes the state of an alert *)
Enough(a) == IF open[a] THEN Recovery ELSE Required[a]

Unobserved(a) == open'[a] = open[a] /\ latest'[a] = latest[a] /\ streak'[a] = streak[a]

Confirmed(a) == latest'[a] = open[a] /\ open'[a] = open[a] /\ streak'[a] = 0

Doubted(a) ==
    /\ latest'[a] # open[a] /\ open'[a] = open[a]
    /\ streak'[a] = streak[a] + 1 /\ streak'[a] < Enough(a)

Turned(a) ==
    /\ latest'[a] # open[a] /\ open'[a] = latest'[a]
    /\ streak'[a] = 0 /\ streak[a] + 1 = Enough(a)

(* some alerts are observed, together *)
Observe ==
    /\ open' \in [Alerts -> BOOLEAN] /\ latest' \in [Alerts -> BOOLEAN]
    /\ streak' \in [Alerts -> Nat]
    /\ \A a \in Alerts : Unobserved(a) \/ Confirmed(a) \/ Doubted(a) \/ Turned(a)

(* a restart of the worker forgets incidents and observations *)
Restart == Init'

Next == Observe \/ Restart

Spec == Init /\ [][Next]_vars
=============================================================================
