---------------------------- MODULE MCAlertWorker ----------------------------
(* An instance of AlertWorker for TLC: nineteen quick requests, or a slow  *)
(* one that fails, so that 5 percent can be met, missed and exceeded.      *)
EXTENDS AlertWorker

RareEvents == [e \in Events |-> 1]
QuickAndSlow == {[n |-> 19, failed |-> FALSE, took |-> 1],
                 [n |-> 1, failed |-> TRUE, took |-> 2]}
OneEvent == {"unhandled"}
=============================================================================
