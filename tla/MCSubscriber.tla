---------------------------- MODULE MCSubscriber ----------------------------
(* Instances of Subscriber for TLC: two test cases of one to four steps, of  *)
(* one subscriber, over one or two topics.                                  *)
EXTENDS Subscriber

CONSTANTS t1, t2, a, b

\* t1 waits twice, for topics that overlap; t2 subscribes and unsubscribes by hand
WaitsAndCalls == [t \in Tests |->
  IF t = t1 THEN <<waitMessage(a), waitMessageFrom({a, b})>>
  ELSE <<onMessage(b), subscribe({a}), unsubscribe({}), subscribe({})>>]

\* one wait each: the shortest program that creates, waits and closes
OneWaitEach == [t \in Tests |-> <<waitMessage(a)>>]

\* a wait against a call and its undoing, for the runs under fairness
WaitOrCalls == [t \in Tests |-> IF t = t1 THEN <<waitMessage(a)>> ELSE <<subscribe({a}), unsubscribe({})>>]
=============================================================================
