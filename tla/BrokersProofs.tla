---------------------------- MODULE BrokersProofs ----------------------------
(***************************************************************************)
(* Proofs of the invariants of Brokers, one component after the other.  An *)
(* invariant of a component is stated of its own variables; at the end     *)
(* they are put together under the component of the behaviour.             *)
(***************************************************************************)
EXTENDS Brokers, SequenceTheorems, WellFoundedInduction, TLAPS

-----------------------------------------------------------------------------
(* Sets of numbers and sequences                                           *)

\* The definition of SequencesExt!RemoveAt.
Without(s, i) == SubSeq(s, 1, i - 1) \o SubSeq(s, i + 1, Len(s))

\* There is a least one among the indices that are looked for.
LEMMA LeastExists ==
  ASSUME NEW S \in SUBSET Nat, S # {}
  PROVE  \E m \in S : \A k \in S : m <= k
<1> DEFINE less == OpToRel(<, Nat)
<1>1. IsWellFoundedOn(less, Nat)
  BY NatLessThanWellFounded, Zenon
<1>2. \A a, b \in Nat : a < b => <<a, b>> \in less
  BY DEF OpToRel
<1> HIDE DEF less
<1>3. PICK m \in S : \A k \in S : <<k, m>> \notin less
  BY <1>1, WFMin
<1>4. ASSUME NEW k \in S PROVE m <= k
  <2>1. ~(k < m)
    BY <1>2, <1>3
  <2> QED  BY <2>1
<1> QED  BY <1>4

\* What is left of a sequence keeps its order.
LEMMA Removed ==
  ASSUME NEW S, NEW s \in Seq(S), NEW i \in DOMAIN s
  PROVE  /\ Without(s, i) \in Seq(S)
         /\ Len(Without(s, i)) = Len(s) - 1
         /\ \A j \in 1..(Len(s) - 1) : Without(s, i)[j] = IF j < i THEN s[j] ELSE s[j + 1]
<1> DEFINE front == SubSeq(s, 1, i - 1)
           back  == SubSeq(s, i + 1, Len(s))
<1>1. i \in 1..Len(s) /\ Len(s) \in Nat
  OBVIOUS
<1>2. front \in Seq(S) /\ Len(front) = i - 1 /\ \A j \in 1..(i - 1) : front[j] = s[j]
  BY <1>1
<1>3. back \in Seq(S) /\ Len(back) = Len(s) - i /\ \A j \in 1..(Len(s) - i) : back[j] = s[i + j]
  BY <1>1
<1> HIDE DEF front, back
<1>4. Without(s, i) = front \o back
  BY DEF Without, front, back
<1> DEFINE r == front \o back
<1>5. r \in Seq(S) /\ Len(r) = Len(s) - 1
  BY <1>1, <1>2, <1>3
<1>6. ASSUME NEW j \in 1..(Len(s) - 1) PROVE r[j] = IF j < i THEN s[j] ELSE s[j + 1]
  <2>1. r[j] = IF j <= Len(front) THEN front[j] ELSE back[j - Len(front)]
    BY <1>1, <1>2, <1>3, <1>6
  <2>2. CASE j < i
    BY <1>1, <1>2, <2>1, <2>2
  <2>3. CASE ~(j < i)
    <3>1. r[j] = back[j - (i - 1)] /\ j - (i - 1) \in 1..(Len(s) - i)
      BY <1>1, <1>2, <2>1, <2>3
    <3> DEFINE n == j - (i - 1)
    <3>2. i + n = j + 1
      BY <1>1
    <3> HIDE DEF n
    <3>3. back[n] = s[i + n]
      BY <3>1, <1>3 DEF n
    <3> QED  BY <2>3, <3>1, <3>2, <3>3 DEF n
  <2> QED  BY <2>2, <2>3
<1> QED  BY <1>4, <1>5, <1>6

-----------------------------------------------------------------------------
(* Kafka: the members of the group                                         *)

\* Consumers are used one after the other, and only the last one may be up.
KMember ==
  /\ conn \in [K!Consumers -> {"new", "up", "down"}]
  /\ consumer \in K!Consumers
  /\ call = "disconnect" => consumer < MaxConsumers
  /\ \A n \in K!Consumers : n > consumer => conn[n] = "new"
  /\ \A n \in K!Consumers : conn[n] = "up" => n = consumer

\* What every step of the adapter does to its consumers.
Replaced ==
  /\ call = "disconnect" /\ call' = "connect"
  /\ conn' = [conn EXCEPT ![consumer] = "down"] /\ consumer' = consumer + 1
MemberStep ==
  \/ Replaced
  \/ UNCHANGED consumer /\ conn' = [conn EXCEPT ![consumer] = "up"] /\ call' # "disconnect"
  \/ \E n \in 1..consumer :
       UNCHANGED consumer /\ conn' = [conn EXCEPT ![n] = "down"] /\ UNCHANGED call
  \/ UNCHANGED <<consumer, conn>> /\ (call' = "disconnect" => call = "disconnect" \/ consumer < MaxConsumers)

LEMMA MemberKept == KMember /\ MemberStep => KMember'
<1> SUFFICES ASSUME KMember, MemberStep PROVE KMember'
  OBVIOUS
<1> USE BrokersAssumption DEF KMember, K!Consumers
<1>1. CASE Replaced
  BY <1>1 DEF Replaced
<1>2. CASE UNCHANGED consumer /\ conn' = [conn EXCEPT ![consumer] = "up"] /\ call' # "disconnect"
  BY <1>2
<1>3. ASSUME NEW n \in 1..consumer,
             UNCHANGED consumer /\ conn' = [conn EXCEPT ![n] = "down"] /\ UNCHANGED call
      PROVE  KMember'
  BY <1>3
<1>4. CASE UNCHANGED <<consumer, conn>> /\ (call' = "disconnect" => call = "disconnect" \/ consumer < MaxConsumers)
  BY <1>4
<1> QED  BY <1>1, <1>2, <1>3, <1>4 DEF MemberStep

LEMMA KafkaMembers ==
  ASSUME KMember, K!Next \/ E!Next
  PROVE  KMember'
<1> USE DEF MemberStep
<1>1. ASSUME NEW T, K!Unsubscribe(T) \/ E!Unsubscribe(T) PROVE MemberStep
  BY <1>1 DEF K!Unsubscribe, E!Unsubscribe, K!callVars, E!callVars, K!brokerVars, E!brokerVars
<1>2. ASSUME NEW T, NEW p, K!Subscribe(T, p) \/ E!Subscribe(T, p) PROVE MemberStep
  BY <1>2 DEF K!Subscribe, E!Subscribe, K!brokerVars, E!brokerVars
<1>3. ASSUME K!ConsumerDisconnected \/ E!ConsumerDisconnected PROVE MemberStep
  BY <1>3 DEF K!ConsumerDisconnected, E!ConsumerDisconnected, Replaced
<1>4. ASSUME K!ConsumerConnected \/ E!ConsumerConnected PROVE MemberStep
  BY <1>4 DEF K!ConsumerConnected, E!ConsumerConnected
<1>5. ASSUME K!ActiveReplayed \/ K!NewSubscribed \/ K!Joined \/ K!CallFails PROVE MemberStep
  BY <1>5 DEF K!ActiveReplayed, K!NewSubscribed, K!Joined, K!CallFails, K!brokerVars
<1>6. ASSUME E!ActiveReplayed \/ E!NewSubscribed \/ E!Joined \/ E!CallFails PROVE MemberStep
  BY <1>6 DEF E!ActiveReplayed, E!NewSubscribed, E!Joined, E!CallFails, E!brokerVars
<1>7. ASSUME NEW t, \/ K!ReceiveMessage(t) \/ K!HandleMessage(t)
                    \/ E!ReceiveMessage(t) \/ E!HandleMessage(t)
      PROVE  MemberStep
  BY <1>7 DEF K!ReceiveMessage, K!HandleMessage, E!ReceiveMessage, E!HandleMessage,
      K!callVars, E!callVars, K!brokerVars, E!brokerVars
<1>8. ASSUME K!Crash \/ E!Crash PROVE MemberStep
  <2>1. consumer \in 1..consumer
    BY BrokersAssumption DEF KMember, K!Consumers
  <2> QED  BY <1>8, <2>1 DEF K!Crash, E!Crash, K!callVars, E!callVars
<1>9. ASSUME K!Close \/ E!Close PROVE MemberStep
  BY <1>9 DEF K!Close, E!Close, K!callVars, E!callVars, K!brokerVars, E!brokerVars
<1>10. ASSUME K!Disconnected \/ E!Disconnected PROVE MemberStep
  <2>1. 1 \in 1..consumer
    BY BrokersAssumption DEF KMember, K!Consumers
  <2> QED  BY <1>10, <2>1 DEF K!Disconnected, E!Disconnected, K!callVars, E!callVars
<1>11. MemberStep
  BY <1>1, <1>2, <1>3, <1>4, <1>5, <1>6, <1>7, <1>8, <1>9, <1>10
     DEF K!Next, E!Next, K!SubscribeStep, E!SubscribeStep
<1> QED  BY <1>11, MemberKept

-----------------------------------------------------------------------------
(* Kafka with explicit topics: what is held is fetched, from its offset    *)

Offset == E!Offsets \cup {"none"}

ETypes ==
  /\ known \subseteq Topics /\ active = known /\ asked \subseteq Topics
  /\ sub \in [E!Consumers -> [Topics -> Offset]] /\ params \in [Topics -> Offset]
  /\ offset \in E!Offsets

Fetched(T) == \A t \in T : sub[consumer][t] # "none"

\* While topics are replayed the adapter does not run; it runs again when the
\* consumer has them and those asked for.
EHeld ==
  /\ running => Fetched(active)
  /\ call \in {"connect", "replay", "subscribe", "join"} => ~running
  /\ call \in {"subscribe", "join"} => Fetched(active)
  /\ call = "join" => Fetched(asked)
  /\ call = "idle" /\ ~failed /\ ~closed /\ ~running => active = {}

\* Until close() forgets them, the parameters tell what every consumer was given.
EGiven ==
  /\ \A t \in known : params[t] # "none"
  /\ \A n \in E!Consumers, t \in Topics :
       sub[n][t] # "none" => sub[n][t] = params[t] /\ t \in known \cup asked
  /\ call # "idle" => \A t \in asked : params[t] = offset

EOffsets ==
  /\ closing # "no" => closed
  /\ call = "idle" /\ ~failed /\ ~closed => asked \subseteq known
  /\ closing # "done" => EGiven
  /\ closing = "done" /\ call # "idle" => active = {}
  /\ call # "idle" => \A n \in E!Consumers, t \in asked : sub[n][t] \in {"none", offset}
  /\ E!OffsetsPreserved

ExplicitInv == KMember /\ ETypes /\ EHeld /\ EOffsets

LEMMA ExplicitTypes ==
  ASSUME ExplicitInv, E!Next
  PROVE  ETypes'
<1> USE DEF ExplicitInv, ETypes, Offset, E!Offsets
<1>1. ASSUME NEW T, E!Unsubscribe(T) PROVE ETypes'
  BY <1>1 DEF E!Unsubscribe
<1>2. ASSUME NEW T \in SUBSET Topics, NEW p \in {"begin", "latest"}, E!Subscribe(T, p) PROVE ETypes'
  <2>1. params' \in [Topics -> Offset]
    BY <1>2 DEF E!Subscribe, E!Recorded
  <2>2. offset' \in E!Offsets
    BY <1>2 DEF E!Subscribe, E!OffsetOf
  <2> QED  BY <1>2, <2>1, <2>2 DEF E!Subscribe, E!brokerVars
<1>3. ASSUME E!ConsumerDisconnected PROVE ETypes'
  BY <1>3 DEF E!ConsumerDisconnected, E!topicVars
<1>4. ASSUME E!ConsumerConnected PROVE ETypes'
  BY <1>4 DEF E!ConsumerConnected, E!topicVars
<1>a. ASSUME NEW T, NEW o, \A t \in Topics : t \in T => o[t] \in Offset
      PROVE  E!Subscribed(T, o) \in [E!Consumers -> [Topics -> Offset]]
  BY <1>a DEF E!Subscribed
<1>5. ASSUME E!ActiveReplayed PROVE ETypes'
  <2>1. sub' \in [E!Consumers -> [Topics -> Offset]]
    BY <1>5, <1>a DEF E!ActiveReplayed
  <2> QED  BY <1>5, <2>1 DEF E!ActiveReplayed, E!topicVars
<1>6. ASSUME E!NewSubscribed PROVE ETypes'
  <2>1. sub' \in [E!Consumers -> [Topics -> Offset]]
    BY <1>6, <1>a DEF E!NewSubscribed
  <2> QED  BY <1>6, <2>1 DEF E!NewSubscribed, E!topicVars
<1>7. ASSUME E!Joined PROVE ETypes'
  BY <1>7 DEF E!Joined, E!brokerVars
<1>8. ASSUME E!CallFails PROVE ETypes'
  BY <1>8 DEF E!CallFails, E!brokerVars, E!topicVars
<1>9. ASSUME NEW t, E!ReceiveMessage(t) \/ E!HandleMessage(t) PROVE ETypes'
  BY <1>9 DEF E!ReceiveMessage, E!HandleMessage, E!callVars, E!brokerVars, E!topicVars
<1>10. ASSUME E!Crash PROVE ETypes'
  BY <1>10 DEF E!Crash, E!callVars, E!topicVars
<1>11. ASSUME E!Close \/ E!Disconnected PROVE ETypes'
  <2>1. UNCHANGED <<sub, asked, offset>> /\ (UNCHANGED <<known, active, params>> \/ E!Forget)
    BY <1>11 DEF E!Close, E!Disconnected, E!callVars, E!brokerVars, E!topicVars
  <2> QED  BY <2>1 DEF E!Forget
<1> QED  BY <1>1, <1>2, <1>3, <1>4, <1>5, <1>6, <1>7, <1>8, <1>9, <1>10, <1>11
            DEF E!Next, E!SubscribeStep

\* A step that leaves the fetching alone.
LEMMA HeldStays ==
  ASSUME EHeld, UNCHANGED <<active, sub, consumer, call, asked>>,
         running' => running,
         failed => failed', closed => closed',
         ~running' => ~running \/ closed'
  PROVE  EHeld'
  BY DEF EHeld, Fetched

LEMMA ExplicitHeld ==
  ASSUME ExplicitInv, E!Next
  PROVE  EHeld'
<1> USE DEF ExplicitInv
<1>1. ASSUME NEW T, E!Unsubscribe(T) PROVE EHeld'
  BY <1>1 DEF E!Unsubscribe
<1>2. ASSUME NEW T \in SUBSET Topics, NEW p \in {"begin", "latest"}, E!Subscribe(T, p) PROVE EHeld'
  <2>1. UNCHANGED <<active, running, sub, consumer, failed, closed>> /\ call = "idle" /\ ~closed /\ ~failed
    BY <1>2 DEF E!Subscribe, E!Idle, E!adapterVars, E!brokerVars, ETypes
  <2>2. CASE call' = "idle"
    BY <2>1, <2>2 DEF EHeld, Fetched
  <2>3. CASE running /\ call' = "disconnect"
    BY <2>1, <2>3 DEF EHeld, Fetched
  <2>4. CASE ~running /\ call' = "subscribe"
    BY <2>1, <2>4 DEF EHeld, Fetched
  <2> QED  BY <1>2, <2>2, <2>3, <2>4 DEF E!Subscribe
<1>3. ASSUME E!ConsumerDisconnected \/ E!ConsumerConnected PROVE EHeld'
  <2>1. ~running' /\ call' \in {"connect", "replay"}
    BY <1>3 DEF E!ConsumerDisconnected, E!ConsumerConnected, EHeld, E!adapterVars
  <2> QED  BY <2>1 DEF EHeld
<1>a. ASSUME NEW T \in SUBSET Topics, NEW o \in [Topics -> E!Offsets], sub' = E!Subscribed(T, o)
      PROVE  \A t \in Topics : sub'[consumer][t] # "none" <=> (t \in T \/ sub[consumer][t] # "none")
  <2>1. consumer \in E!Consumers /\ sub \in [E!Consumers -> [Topics -> Offset]]
    BY DEF KMember, ETypes, K!Consumers, E!Consumers
  <2>2. \A t \in Topics : sub'[consumer][t] = IF t \in T THEN o[t] ELSE sub[consumer][t]
    BY <1>a, <2>1 DEF E!Subscribed
  <2> QED  BY <2>2 DEF E!Offsets
<1>5. ASSUME E!ActiveReplayed PROVE EHeld'
  <2> DEFINE o == [t \in Topics |-> IF params[t] = "none" THEN "latest" ELSE params[t]]
  <2>1. o \in [Topics -> E!Offsets] /\ active \subseteq Topics
    BY DEF ETypes, Offset, E!Offsets
  <2>2. sub' = E!Subscribed(active, o)
    BY <1>5 DEF E!ActiveReplayed
  <2> HIDE DEF o
  <2>3. Fetched(active)' /\ ~running' /\ call' = "subscribe"
    BY <1>5, <1>a, <2>1, <2>2 DEF E!ActiveReplayed, EHeld, Fetched, E!adapterVars, E!topicVars
  <2> QED  BY <2>3 DEF EHeld
<1>6. ASSUME E!NewSubscribed PROVE EHeld'
  <2> DEFINE o == [t \in Topics |-> offset]
  <2>1. o \in [Topics -> E!Offsets] /\ active \subseteq Topics /\ asked \subseteq Topics
    BY DEF ETypes
  <2>2. sub' = E!Subscribed(asked, o)
    BY <1>6 DEF E!NewSubscribed
  <2> HIDE DEF o
  <2>3. Fetched(active)' /\ Fetched(asked)' /\ ~running' /\ call' = "join"
    BY <1>6, <1>a, <2>1, <2>2 DEF E!NewSubscribed, EHeld, Fetched, E!adapterVars, E!topicVars
  <2> QED  BY <2>3 DEF EHeld
<1>7. ASSUME E!Joined PROVE EHeld'
  <2>1. Fetched(active)' /\ running' /\ call' = "idle"
    BY <1>7 DEF E!Joined, EHeld, Fetched, E!brokerVars
  <2> QED  BY <2>1 DEF EHeld
<1>8. ASSUME E!CallFails PROVE EHeld'
  <2>1. Fetched(active)' <=> Fetched(active)
    BY <1>8 DEF E!CallFails, E!brokerVars, E!topicVars, Fetched
  <2> QED  BY <1>8, <2>1 DEF E!CallFails, EHeld, E!adapterVars
<1>9. ASSUME NEW t, E!ReceiveMessage(t) \/ E!HandleMessage(t) PROVE EHeld'
  BY <1>9, HeldStays DEF E!ReceiveMessage, E!HandleMessage, E!adapterVars, E!callVars, E!brokerVars, E!topicVars
<1>10. ASSUME E!Crash PROVE EHeld'
  BY <1>10, HeldStays DEF E!Crash, E!callVars, E!topicVars
<1>11. ASSUME E!Close \/ E!Disconnected PROVE EHeld'
  <2>1. closed' /\ (running' => running) /\ UNCHANGED <<sub, consumer, call, asked>>
    BY <1>11 DEF E!Close, E!Disconnected, E!callVars, E!brokerVars, EOffsets
  <2>2. active' \in {active, {}}
    BY <1>11 DEF E!Close, E!Disconnected, E!topicVars, E!Forget
  <2> QED  BY <2>1, <2>2 DEF EHeld, Fetched
<1> QED  BY <1>1, <1>2, <1>3, <1>5, <1>6, <1>7, <1>8, <1>9, <1>10, <1>11
            DEF E!Next, E!SubscribeStep

LEMMA OffsetsStay ==
  ASSUME EOffsets, UNCHANGED <<known, active, params, sub, asked, offset, closing>>,
         call' = call \/ (call' = "idle" /\ failed'),
         closed => closed', failed => failed'
  PROVE  EOffsets'
  BY DEF EOffsets, EGiven, E!OffsetsPreserved, E!Consumers

LEMMA ExplicitOffsets ==
  ASSUME ExplicitInv, E!Next
  PROVE  EOffsets'
<1> USE DEF ExplicitInv
<1>1. ASSUME NEW T, E!Unsubscribe(T) PROVE EOffsets'
  BY <1>1 DEF E!Unsubscribe
<1>2. ASSUME NEW T \in SUBSET Topics, NEW p \in {"begin", "latest"}, E!Subscribe(T, p) PROVE EOffsets'
  <2>1. /\ UNCHANGED <<known, active, sub, failed, closed, closing>>
        /\ call = "idle" /\ ~closed /\ ~failed /\ closing = "no"
        /\ asked' = T \ known /\ offset' = p /\ params' = E!Recorded(T, p)
        /\ call' = "idle" => T \subseteq known
    BY <1>2 DEF E!Subscribe, E!Idle, E!OffsetOf, E!adapterVars, E!brokerVars, ETypes, EOffsets
  <2>2. EGiven /\ asked \subseteq known
    BY <2>1 DEF EOffsets
  <2>3. \A t \in known : params'[t] = params[t]
    BY <2>1, <2>2 DEF E!Recorded, EGiven, ETypes
  <2>4. \A t \in T \ known : params'[t] = p
    BY <2>1 DEF E!Recorded
  <2>5. \A n \in E!Consumers, t \in Topics : sub[n][t] # "none" => t \in known
    BY <2>2 DEF EGiven
  <2>6. EGiven'
    BY <2>1, <2>2, <2>3, <2>4, <2>5 DEF EGiven, E!Consumers
  <2> QED  BY <2>1, <2>5, <2>6 DEF EOffsets, E!OffsetsPreserved, E!Consumers
<1>3. ASSUME E!ConsumerDisconnected \/ E!ConsumerConnected PROVE EOffsets'
  <2>1. /\ UNCHANGED <<known, active, params, sub, asked, offset, closing, closed, failed>>
        /\ call \notin {"idle"} /\ call' # "idle"
    BY <1>3 DEF E!ConsumerDisconnected, E!ConsumerConnected, E!adapterVars, E!topicVars
  <2> QED  BY <2>1 DEF EOffsets, EGiven, E!OffsetsPreserved, E!Consumers
<1>a. ASSUME NEW T \in SUBSET Topics, NEW o \in [Topics -> E!Offsets], sub' = E!Subscribed(T, o)
      PROVE  \A n \in E!Consumers, t \in Topics :
               sub'[n][t] = IF n = consumer /\ t \in T THEN o[t] ELSE sub[n][t]
  <2>1. consumer \in E!Consumers /\ sub \in [E!Consumers -> [Topics -> Offset]]
    BY DEF KMember, ETypes, K!Consumers, E!Consumers
  <2> QED  BY <1>a, <2>1 DEF E!Subscribed
<1>5. ASSUME E!ActiveReplayed PROVE EOffsets'
  <2> DEFINE o == [t \in Topics |-> IF params[t] = "none" THEN "latest" ELSE params[t]]
  <2>1. o \in [Topics -> E!Offsets] /\ active \subseteq Topics
    BY DEF ETypes, Offset, E!Offsets
  <2>2. \A n \in E!Consumers, t \in Topics :
          sub'[n][t] = IF n = consumer /\ t \in active THEN o[t] ELSE sub[n][t]
    BY <1>5, <1>a, <2>1 DEF E!ActiveReplayed
  <2>3. /\ UNCHANGED <<known, active, params, asked, offset, closing, closed, failed>>
        /\ call # "idle" /\ call' # "idle"
    BY <1>5 DEF E!ActiveReplayed, E!adapterVars, E!topicVars
  <2>4. CASE closing = "done"
    <3>1. \A n \in E!Consumers, t \in Topics : sub'[n][t] = sub[n][t]
      BY <2>2, <2>3, <2>4 DEF EOffsets
    <3>2. asked \subseteq Topics
      BY DEF ETypes
    <3> QED  BY <2>3, <2>4, <3>1, <3>2 DEF EOffsets, E!OffsetsPreserved, E!Consumers
  <2>5. CASE closing # "done"
    <3>1. EGiven /\ active = known /\ asked \subseteq Topics
      BY <2>5 DEF EOffsets, ETypes
    <3>2. \A t \in active : o[t] = params[t]
      BY <2>1, <3>1 DEF EGiven
    <3> HIDE DEF o
    <3>3. \A n \in E!Consumers, t \in Topics :
            sub'[n][t] # "none" => sub'[n][t] = params[t] /\ t \in known \cup asked
      BY <2>2, <3>1, <3>2 DEF EGiven
    <3>4. EGiven'
      BY <2>3, <3>1, <3>3 DEF EGiven, E!Consumers
    <3>5. E!OffsetsPreserved'
      BY <3>3 DEF E!OffsetsPreserved, E!Consumers
    <3>6. \A n \in E!Consumers, t \in asked : sub'[n][t] \in {"none", offset}
      BY <2>3, <3>1, <3>3 DEF EGiven
    <3> QED  BY <2>3, <2>5, <3>4, <3>5, <3>6 DEF EOffsets, E!Consumers
  <2> QED  BY <2>4, <2>5
<1>6. ASSUME E!NewSubscribed PROVE EOffsets'
  <2> DEFINE o == [t \in Topics |-> offset]
  <2>1. o \in [Topics -> E!Offsets] /\ asked \subseteq Topics
    BY DEF ETypes
  <2>2. \A n \in E!Consumers, t \in Topics :
          sub'[n][t] = IF n = consumer /\ t \in asked THEN offset ELSE sub[n][t]
    BY <1>6, <1>a, <2>1 DEF E!NewSubscribed
  <2>3. /\ UNCHANGED <<known, active, params, asked, offset, closing, closed, failed>>
        /\ call # "idle" /\ call' # "idle"
    BY <1>6 DEF E!NewSubscribed, E!adapterVars, E!topicVars
  <2> HIDE DEF o
  <2>4. \A n \in E!Consumers, t \in asked : sub'[n][t] \in {"none", offset}
    BY <2>1, <2>2, <2>3 DEF EOffsets
  <2>5. E!OffsetsPreserved'
    BY <2>2, <2>4, <2>1 DEF EOffsets, E!OffsetsPreserved, E!Consumers
  <2>6. closing # "done" => EGiven'
    BY <2>1, <2>2, <2>3 DEF EOffsets, EGiven, E!Consumers
  <2> QED  BY <2>3, <2>4, <2>5, <2>6 DEF EOffsets, E!Consumers
<1>7. ASSUME E!Joined PROVE EOffsets'
  <2>1. /\ UNCHANGED <<params, sub, asked, offset, closing, closed, failed>>
        /\ known' = known \cup asked /\ call = "join" /\ call' = "idle"
    BY <1>7 DEF E!Joined, E!brokerVars
  <2>2. closing # "done" => EGiven'
    BY <2>1 DEF EOffsets, EGiven, E!Consumers, ETypes, E!Offsets
  <2> QED  BY <2>1, <2>2 DEF EOffsets, E!OffsetsPreserved, E!Consumers
<1>8. ASSUME E!CallFails PROVE EOffsets'
  BY <1>8, OffsetsStay DEF E!CallFails, E!brokerVars, E!topicVars, E!adapterVars
<1>9. ASSUME NEW t, E!ReceiveMessage(t) \/ E!HandleMessage(t) PROVE EOffsets'
  BY <1>9, OffsetsStay DEF E!ReceiveMessage, E!HandleMessage, E!adapterVars, E!callVars, E!brokerVars, E!topicVars
<1>10. ASSUME E!Crash PROVE EOffsets'
  BY <1>10, OffsetsStay DEF E!Crash, E!callVars, E!topicVars
<1>11. ASSUME E!Close \/ E!Disconnected PROVE EOffsets'
  <2>1. /\ UNCHANGED <<sub, call, asked, offset, failed>>
        /\ closed'
    BY <1>11 DEF E!Close, E!Disconnected, E!callVars, E!brokerVars, EOffsets
  <2>2. E!Forget \/ (closing' # "done" /\ UNCHANGED <<known, active, params>> /\ closing # "done" /\ closed')
    BY <1>11 DEF E!Close, E!Disconnected, E!topicVars, EOffsets
  <2>3. CASE E!Forget
    BY <2>1, <2>3 DEF E!Forget, EOffsets, E!OffsetsPreserved, E!Consumers
  <2>4. CASE closing' # "done" /\ UNCHANGED <<known, active, params>> /\ closing # "done" /\ closed'
    BY <2>1, <2>4 DEF EOffsets, EGiven, E!OffsetsPreserved, E!Consumers
  <2> QED  BY <2>2, <2>3, <2>4
<1> QED  BY <1>1, <1>2, <1>3, <1>5, <1>6, <1>7, <1>8, <1>9, <1>10, <1>11
            DEF E!Next, E!SubscribeStep

-----------------------------------------------------------------------------
(* RabbitMQ: what is held is bound                                         *)

RCalls == [op : {"subscribe", "unsubscribe"}, todo : Seq(Patterns) \ {<<>>}, applied : BOOLEAN]

RTypes ==
  /\ call \in RCalls \cup {R!idle}
  /\ topics \in Seq(Patterns)

\* The bindings, while the answer to a call is on the way.
RBound ==
  /\ \A i, j \in DOMAIN topics : topics[i] = topics[j] => i = j
  /\ call.op = "subscribe" => Head(call.todo) \notin R!Held
  /\ ~failed /\ channel = "open" =>
       broker = IF ~call.applied THEN R!Held
                ELSE IF call.op = "subscribe" THEN R!Held \cup {Head(call.todo)}
                ELSE R!Held \ {Head(call.todo)}
  /\ closing \in {"done", "rejected"} => channel # "open"

RabbitInv == RTypes /\ RBound

LEMMA GoesOnWell ==
  ASSUME NEW op \in {"subscribe", "unsubscribe"}, NEW todo \in Seq(Patterns), NEW held,
         R!GoesOn(op, todo, held)
  PROVE  /\ call' \in RCalls \cup {R!idle}
         /\ ~call'.applied
         /\ call'.op = "subscribe" => Head(call'.todo) \notin held
<1> DEFINE busy == {i \in DOMAIN todo : (op = "subscribe") # (todo[i] \in held)}
           rest == R!Undone(todo, op, held)
<1>1. CASE busy = {}
  <2>1. call' = R!idle
    BY <1>1 DEF R!GoesOn, R!Undone
  <2> QED  BY <2>1 DEF R!idle
<1>2. CASE busy # {}
  <2>0. busy \in SUBSET Nat
    OBVIOUS
  <2>1. PICK m \in busy : \A k \in busy : m <= k
    BY <1>2, <2>0, LeastExists, Zenon
  <2> DEFINE least == R!Min(busy)
  <2>2. least \in busy
    BY <2>1, Zenon DEF R!Min
  <2>3. rest = SubSeq(todo, least, Len(todo))
    BY <1>2 DEF R!Undone
  <2> HIDE DEF least, rest
  <2>4. least \in 1..Len(todo) /\ (op = "subscribe") # (todo[least] \in held)
    BY <2>2
  <2> HIDE DEF busy
  <2>5. rest \in Seq(Patterns) /\ rest # <<>> /\ Head(rest) = todo[least]
    <3>1. Len(todo) \in Nat /\ least \in Nat
      BY <2>4
    <3>2. /\ rest \in Seq(Patterns) /\ Len(rest) = Len(todo) - least + 1
          /\ \A k \in 1..Len(rest) : rest[k] = todo[least + k - 1]
      <4>1. \A k \in least..Len(todo) : todo[k] \in Patterns
        BY <2>4, <3>1
      <4>2. least <= Len(todo) /\ Len(todo) - least + 1 \in Nat
        BY <2>4, <3>1
      <4> QED  BY <2>3, <3>1, <4>1, <4>2, SubSeqProperties
    <3>3. Len(rest) >= 1 /\ rest[1] = todo[least]
      BY <2>4, <3>1, <3>2
    <3> QED  BY <3>2, <3>3
  <2>6. call' = [op |-> op, todo |-> rest, applied |-> FALSE]
    BY <2>5 DEF R!GoesOn, rest
  <2> QED  BY <2>4, <2>5, <2>6 DEF RCalls
<1> QED  BY <1>1, <1>2

LEMMA RabbitStarts ==
  ASSUME RabbitInv, NEW op \in {"subscribe", "unsubscribe"}, NEW batch \in RabbitCalls, R!Starts(op, batch)
  PROVE  RabbitInv'
<1> USE DEF RabbitInv
<1>1. batch \in Seq(Patterns) /\ R!GoesOn(op, batch, R!Held)
  BY BrokersAssumption DEF R!Starts
<1>2. /\ call' \in RCalls \cup {R!idle} /\ ~call'.applied
      /\ call'.op = "subscribe" => Head(call'.todo) \notin R!Held
  BY <1>1, GoesOnWell
<1>3. /\ UNCHANGED <<topics, broker, failed, channel, closing>> /\ call = R!idle
  BY DEF R!Starts, R!endVars
<1>4. R!Held' = R!Held
  BY <1>3 DEF R!Held
<1>5. ~call.applied
  BY <1>3 DEF R!idle
<1> QED  BY <1>2, <1>3, <1>4, <1>5 DEF RTypes, RBound

LEMMA RabbitAnswered ==
  ASSUME RabbitInv, R!Answered
  PROVE  RabbitInv'
<1> USE DEF RabbitInv
<1>1. call \in RCalls /\ call.applied
  BY DEF RTypes, R!Answered, R!idle
<1> DEFINE q == Head(call.todo)
<1>2. q \in Patterns /\ Tail(call.todo) \in Seq(Patterns) /\ call.op \in {"subscribe", "unsubscribe"}
  BY <1>1 DEF RCalls
<1> HIDE DEF q
<1>3. /\ topics' \in Seq(Patterns)
      /\ \A i, j \in DOMAIN topics' : topics'[i] = topics'[j] => i = j
      /\ {topics'[i] : i \in DOMAIN topics'} = IF call.op = "subscribe" THEN R!Held \cup {q} ELSE R!Held \ {q}
  <2>0. topics \in Seq(Patterns) /\ Len(topics) \in Nat /\ DOMAIN topics = 1..Len(topics)
        /\ \A i, j \in DOMAIN topics : topics[i] = topics[j] => i = j
    BY DEF RTypes, RBound
  <2>1. CASE call.op = "subscribe"
    <3>1. topics' = Append(topics, q) /\ q \notin R!Held
      BY <2>1 DEF R!Answered, RBound, q
    <3>2. /\ topics' \in Seq(Patterns) /\ DOMAIN topics' = 1..(Len(topics) + 1)
          /\ \A i \in 1..Len(topics) : topics'[i] = topics[i]
          /\ topics'[Len(topics) + 1] = q
      BY <1>2, <2>0, <3>1
    <3>3. \A i \in 1..Len(topics) : topics[i] # q
      BY <2>0, <3>1 DEF R!Held
    <3>4. \A i \in DOMAIN topics' : i \in 1..Len(topics) \/ i = Len(topics) + 1
      BY <2>0, <3>2
    <3>5. \A i, j \in DOMAIN topics' : topics'[i] = topics'[j] => i = j
      BY <2>0, <3>2, <3>3, <3>4
    <3>6. {topics'[i] : i \in DOMAIN topics'} = R!Held \cup {q}
      BY <2>0, <3>2, <3>4 DEF R!Held
    <3> QED  BY <2>1, <3>2, <3>5, <3>6
  <2>2. CASE call.op = "unsubscribe"
    <3>1. PICK i \in DOMAIN topics : topics[i] = q /\ topics' = R!RemoveAt(topics, i)
      BY <2>2 DEF R!Answered, q
    <3>2. topics' = Without(topics, i)
      BY <3>1 DEF R!RemoveAt, Without
    <3>3. /\ topics' \in Seq(Patterns) /\ Len(topics') = Len(topics) - 1
          /\ \A j \in 1..(Len(topics) - 1) : topics'[j] = IF j < i THEN topics[j] ELSE topics[j + 1]
      BY <2>0, <3>2, Removed
    <3>4. DOMAIN topics' = 1..(Len(topics) - 1)
      BY <3>3
    <3>5. \A k, j \in DOMAIN topics' : topics'[k] = topics'[j] => k = j
      BY <2>0, <3>3, <3>4
    <3>6. \A j \in DOMAIN topics' : topics'[j] # q /\ topics'[j] \in R!Held
      <4>1. ASSUME NEW j \in DOMAIN topics' PROVE topics'[j] # q /\ topics'[j] \in R!Held
        <5>1. PICK k \in DOMAIN topics : k # i /\ topics'[j] = topics[k]
          BY <2>0, <3>1, <3>3, <3>4
        <5> QED  BY <2>0, <3>1, <5>1 DEF R!Held
      <4> QED  BY <4>1
    <3>7. ASSUME NEW x \in R!Held, x # q PROVE \E j \in DOMAIN topics' : topics'[j] = x
      <4>1. PICK k \in DOMAIN topics : topics[k] = x
        BY DEF R!Held
      <4>2. k < i \/ k > i
        BY <2>0, <3>1, <3>7, <4>1
      <4>3. CASE k < i
        BY <2>0, <3>3, <3>4, <4>1, <4>3
      <4>4. CASE k > i
        <5>1. k - 1 \in DOMAIN topics' /\ ~(k - 1 < i) /\ (k - 1) + 1 = k
          BY <2>0, <3>4, <4>1, <4>4
        <5> QED  BY <3>3, <3>4, <4>1, <5>1
      <4> QED  BY <4>2, <4>3, <4>4
    <3>8. {topics'[j] : j \in DOMAIN topics'} = R!Held \ {q}
      BY <3>6, <3>7
    <3> QED  BY <2>2, <3>3, <3>5, <3>8
  <2> QED  BY <1>2, <2>1, <2>2
<1>4. R!Held' = IF call.op = "subscribe" THEN R!Held \cup {q} ELSE R!Held \ {q}
  BY <1>3 DEF R!Held
<1>5. /\ call' \in RCalls \cup {R!idle} /\ ~call'.applied
      /\ call'.op = "subscribe" => Head(call'.todo) \notin R!Held'
  <2>1. R!GoesOn(call.op, Tail(call.todo), R!Held')
    BY DEF R!Answered, R!Held
  <2> QED  BY <1>2, <2>1, GoesOnWell
<1>6. UNCHANGED <<broker, failed, channel, closing>>
  BY DEF R!Answered, R!endVars
<1> QED  BY <1>1, <1>3, <1>4, <1>5, <1>6 DEF RTypes, RBound, q

LEMMA RabbitHolds ==
  ASSUME RabbitInv, R!Next
  PROVE  RabbitInv'
<1>1. ASSUME NEW batch \in RabbitCalls, R!subscribe(batch) \/ R!unsubscribe(batch) PROVE RabbitInv'
  BY <1>1, RabbitStarts DEF R!subscribe, R!unsubscribe
<1>2. CASE R!bindQueue \/ R!unbindQueue
  <2>1. call \in RCalls /\ ~call.applied
    BY <1>2 DEF R!bindQueue, R!unbindQueue, R!Asked, RabbitInv, RTypes, R!idle
  <2>2. call' \in RCalls /\ call' = [call EXCEPT !.applied = TRUE]
    BY <1>2, <2>1 DEF R!bindQueue, R!unbindQueue, RCalls
  <2>3. /\ UNCHANGED <<topics, failed, channel, closing>>
        /\ broker' = IF call.op = "subscribe" THEN broker \cup {Head(call.todo)} ELSE broker \ {Head(call.todo)}
    BY <1>2 DEF R!bindQueue, R!unbindQueue, R!Asked, R!endVars
  <2>4. call'.op = call.op /\ call'.todo = call.todo /\ call'.applied
    BY <2>1, <2>2 DEF RCalls
  <2>5. R!Held' = R!Held
    BY <2>3 DEF R!Held
  <2>6. RTypes'
    BY <2>2, <2>3 DEF RabbitInv, RTypes
  <2>7. RBound
    BY DEF RabbitInv
  <2>8. RBound'
    BY <2>1, <2>3, <2>4, <2>5, <2>7 DEF RBound
  <2> QED  BY <2>6, <2>8 DEF RabbitInv
<1>3. CASE R!Answered
  BY <1>3, RabbitAnswered
<1>4. CASE R!NotConnected \/ R!BrokerCloses \/ R!close \/ R!cancel \/ R!channelClose
  <2>1. /\ call' \in {call, R!idle}
        /\ ~failed' /\ channel' = "open" => UNCHANGED <<call, topics, broker>> /\ ~failed /\ channel = "open"
        /\ closing' \in {"done", "rejected"} => channel' # "open"
    BY <1>4 DEF R!NotConnected, R!BrokerCloses, R!close, R!cancel, R!channelClose, R!Rejected,
                R!holdVars, R!flowVars, R!endVars, RabbitInv, RBound
  <2>2. topics' = topics \/ topics' = <<>>
    BY <1>4 DEF R!NotConnected, R!BrokerCloses, R!close, R!cancel, R!channelClose, R!holdVars
  <2>3. R!idle.op # "subscribe"
    BY DEF R!idle
  <2>4. topics' = topics => R!Held' = R!Held
    BY DEF R!Held
  <2>5. CASE topics' = topics
    BY <2>1, <2>3, <2>4, <2>5 DEF RabbitInv, RTypes, RBound
  <2>6. CASE topics' = <<>>
    <3>1. R!Held' = {}
      BY <2>6 DEF R!Held
    <3>2. topics' \in Seq(Patterns)
      BY <2>6
    <3>3. \A i, j \in DOMAIN topics' : topics'[i] = topics'[j] => i = j
      BY <2>6
    <3>4. ~failed' /\ channel' = "open" => topics' = topics
      BY <2>1
    <3> QED  BY <2>1, <2>3, <2>4, <3>1, <3>2, <3>3, <3>4 DEF RabbitInv, RTypes, RBound
  <2> QED  BY <2>2, <2>5, <2>6
<1>5. ASSUME NEW k, R!Publish(k) PROVE RabbitInv'
  BY <1>5 DEF R!Publish, RabbitInv, RTypes, RBound, R!holdVars, R!endVars, R!Held
<1>6. CASE R!Message
  BY <1>6 DEF R!Message, R!Consume, R!handleMessage, R!DecodeFails, RabbitInv, RTypes, RBound,
      R!holdVars, R!endVars, R!Held
<1> QED  BY <1>1, <1>2, <1>3, <1>4, <1>5, <1>6 DEF R!Next, R!CallStep, R!CloseStep

-----------------------------------------------------------------------------
(* RabbitMQ: a message is handed once, under a pattern that it matches     *)

RMessages == [n : Nat, key : RoutingKeys]

\* Messages are numbered as they are published, and overtake none before they
\* are decoded.
ROrder ==
  /\ sent \in Nat /\ wire \in Seq(RMessages) /\ decoding \in Seq(RMessages)
  /\ \A i, j \in DOMAIN wire : i < j => wire[i].n < wire[j].n
  /\ \A i, j \in DOMAIN decoding : i < j => decoding[i].n < decoding[j].n
  /\ \A i \in DOMAIN decoding, j \in DOMAIN wire : decoding[i].n < wire[j].n
  /\ \A i \in DOMAIN wire : wire[i].n <= sent
  /\ \A i \in DOMAIN decoding : decoding[i].n <= sent
RMsgs ==
  /\ ROrder
  /\ \A x \in handed : /\ x.n \in Nat /\ x.n <= sent
                       /\ \A i \in DOMAIN wire : x.n < wire[i].n
                       /\ \A i \in DOMAIN decoding : x.n # decoding[i].n

LEMMA Numbered ==
  ASSUME NEW s \in Seq(RMessages), NEW i \in DOMAIN s
  PROVE  s[i] \in RMessages /\ s[i].n \in Nat
<1>1. s[i] \in RMessages
  OBVIOUS
<1> QED  BY <1>1 DEF RMessages

LEMMA PatternFound ==
  ASSUME RTypes, NEW k
  PROVE  R!matchesPattern(R!findMatchingPattern(k), k)
<1> DEFINE matching == {i \in DOMAIN topics : R!matchesPattern(topics[i], k)}
<1>1. CASE matching = {}
  <2>1. R!findMatchingPattern(k) = k
    BY <1>1, Zenon DEF R!findMatchingPattern
  <2> QED  BY <2>1, Zenon DEF R!matchesPattern
<1>2. CASE matching # {}
  <2>1. matching \in SUBSET Nat
    BY DEF RTypes
  <2>2. PICK m \in matching : \A i \in matching : m <= i
    BY <1>2, <2>1, LeastExists, Zenon
  <2>3. R!Min(matching) \in matching
    BY <2>2, Zenon DEF R!Min
  <2>4. R!findMatchingPattern(k) = topics[R!Min(matching)]
    BY <1>2, Zenon DEF R!findMatchingPattern
  <2> QED  BY <2>3, <2>4, Zenon
<1> QED  BY <1>1, <1>2

\* Steps that neither publish nor deliver.
LEMMA HandStays ==
  ASSUME RMsgs, R!HandedRight, UNCHANGED <<wire, sent, decoding, handed>>
  PROVE  RMsgs' /\ R!HandedRight'
<1>1. RMsgs'
  BY DEF RMsgs, ROrder
<1>2. R!HandedRight'
  BY Zenon DEF R!HandedRight, R!matchesPattern
<1> QED  BY <1>1, <1>2

LEMMA DecodingEnds ==
  ASSUME RMsgs, NEW i \in DOMAIN decoding, decoding' = R!RemoveAt(decoding, i), UNCHANGED <<wire, sent>>
  PROVE  /\ ROrder'
         /\ \A x \in handed : \A j \in DOMAIN decoding' : x.n # decoding'[j].n
         /\ \A j \in DOMAIN decoding' : decoding'[j].n # decoding[i].n
<1>1. decoding \in Seq(RMessages) /\ decoding' = Without(decoding, i)
  BY DEF RMsgs, ROrder, R!RemoveAt, Without
<1>2. /\ decoding' \in Seq(RMessages) /\ Len(decoding') = Len(decoding) - 1
      /\ \A j \in 1..(Len(decoding) - 1) : decoding'[j] = IF j < i THEN decoding[j] ELSE decoding[j + 1]
  BY <1>1, Removed
<1>3. Len(decoding) \in Nat /\ DOMAIN decoding = 1..Len(decoding) /\ DOMAIN decoding' = 1..(Len(decoding) - 1)
  BY <1>1, <1>2
<1> DEFINE at0(j) == IF j < i THEN j ELSE j + 1
<1>4. \A j \in DOMAIN decoding' : at0(j) \in DOMAIN decoding /\ at0(j) # i /\ decoding'[j] = decoding[at0(j)]
  BY <1>2, <1>3
<1>5. \A j, k \in DOMAIN decoding' : j < k => at0(j) < at0(k)
  BY <1>3
<1>6. \A j \in DOMAIN decoding : decoding[j] \in RMessages /\ decoding[j].n \in Nat
  BY <1>1, Numbered
<1> HIDE DEF at0
<1>7. \A j, k \in DOMAIN decoding : j < k => decoding[j].n < decoding[k].n
  BY DEF RMsgs, ROrder
<1>8. \A j \in DOMAIN decoding : j # i => decoding[j].n # decoding[i].n
  <2>1. ASSUME NEW j \in DOMAIN decoding, j # i PROVE decoding[j].n # decoding[i].n
    <3>1. j < i \/ i < j
      BY <1>3, <2>1
    <3>2. decoding[j].n < decoding[i].n \/ decoding[i].n < decoding[j].n
      BY <1>7, <3>1
    <3> QED  BY <1>6, <3>2
  <2> QED  BY <2>1
<1>9. \A j, k \in DOMAIN decoding' : j < k => decoding'[j].n < decoding'[k].n
  BY <1>4, <1>5, <1>7
<1>10. \A x \in handed : \A j \in DOMAIN decoding' : x.n # decoding'[j].n
  BY <1>4 DEF RMsgs, ROrder
<1>11. \A j \in DOMAIN decoding', k \in DOMAIN wire : decoding'[j].n < wire[k].n
  BY <1>4 DEF RMsgs, ROrder
<1>12. \A j \in DOMAIN decoding' : decoding'[j].n <= sent
  BY <1>4 DEF RMsgs, ROrder
<1>13. ROrder'
  BY <1>2, <1>9, <1>11, <1>12 DEF RMsgs, ROrder
<1> QED  BY <1>4, <1>8, <1>10, <1>13

LEMMA Published ==
  ASSUME RMsgs, NEW k \in RoutingKeys, R!Publish(k)
  PROVE  RMsgs'
<1>1. /\ sent' = sent + 1 /\ UNCHANGED <<decoding, handed>>
      /\ wire' = wire \/ wire' = Append(wire, [n |-> sent + 1, key |-> k])
  BY Zenon DEF R!Publish
<1>2. sent \in Nat /\ wire \in Seq(RMessages) /\ Len(wire) \in Nat /\ DOMAIN wire = 1..Len(wire)
  BY DEF RMsgs, ROrder
<1>3. CASE wire' = wire
  <2>1. \A i \in DOMAIN wire : wire[i].n \in Nat
    BY <1>2, Numbered
  <2>2. \A i \in DOMAIN decoding : decoding[i].n \in Nat
    BY Numbered DEF RMsgs, ROrder
  <2>3. \A i \in DOMAIN wire' : wire'[i].n <= sent'
    BY <1>1, <1>2, <1>3, <2>1 DEF RMsgs, ROrder
  <2>4. \A i \in DOMAIN decoding' : decoding'[i].n <= sent'
    BY <1>1, <1>2, <1>3, <2>2 DEF RMsgs, ROrder
  <2>5. \A x \in handed' : x.n \in Nat /\ x.n <= sent'
    BY <1>1, <1>2 DEF RMsgs, ROrder
  <2> QED  BY <1>1, <1>2, <1>3, <2>3, <2>4, <2>5 DEF RMsgs, ROrder
<1>4. CASE wire' = Append(wire, [n |-> sent + 1, key |-> k])
  <2> DEFINE m == [n |-> sent + 1, key |-> k]
  <2>1. m \in RMessages /\ m.n = sent + 1
    BY <1>2 DEF RMessages
  <2> HIDE DEF m
  <2>2. /\ wire' \in Seq(RMessages) /\ DOMAIN wire' = 1..(Len(wire) + 1)
        /\ \A i \in 1..Len(wire) : wire'[i] = wire[i]
        /\ wire'[Len(wire) + 1] = m
    BY <1>2, <1>4, <2>1 DEF m
  <2>3. \A i \in DOMAIN wire' : i \in DOMAIN wire \/ i = Len(wire) + 1
    BY <1>2, <2>2
  <2>4. \A i \in DOMAIN wire' : i \in DOMAIN wire => wire'[i].n = wire[i].n /\ wire[i].n \in Nat /\ wire[i].n <= sent
    BY <1>2, <2>2, Numbered DEF RMsgs, ROrder
  <2>5. \A i \in DOMAIN wire' : wire'[i].n <= sent'
    BY <1>1, <1>2, <2>1, <2>2, <2>3, <2>4
  <2>6. \A i, j \in DOMAIN wire' : i < j => wire'[i].n < wire'[j].n
    <3>1. ASSUME NEW i \in DOMAIN wire', NEW j \in DOMAIN wire', i < j PROVE wire'[i].n < wire'[j].n
      <4>1. i \in DOMAIN wire
        BY <1>2, <2>2, <3>1
      <4>2. CASE j \in DOMAIN wire
        BY <2>4, <3>1, <4>1, <4>2 DEF RMsgs, ROrder
      <4>3. CASE j = Len(wire) + 1
        BY <1>2, <2>1, <2>2, <2>4, <4>1, <4>3
      <4> QED  BY <2>3, <4>2, <4>3
    <3> QED  BY <3>1
  <2>7. \A i \in DOMAIN decoding : decoding[i].n \in Nat /\ decoding[i].n <= sent
    BY Numbered DEF RMsgs, ROrder
  <2>8. \A i \in DOMAIN decoding', j \in DOMAIN wire' : decoding'[i].n < wire'[j].n
    <3>1. ASSUME NEW i \in DOMAIN decoding, NEW j \in DOMAIN wire' PROVE decoding[i].n < wire'[j].n
      <4>1. CASE j \in DOMAIN wire
        BY <2>4, <4>1 DEF RMsgs, ROrder
      <4>2. CASE j = Len(wire) + 1
        BY <1>2, <2>1, <2>2, <2>7, <4>2
      <4> QED  BY <2>3, <4>1, <4>2
    <3> QED  BY <1>1, <3>1
  <2>9. \A i \in DOMAIN decoding' : decoding'[i].n <= sent'
    BY <1>1, <1>2, <2>7
  <2>10. \A x \in handed' : x.n \in Nat /\ x.n <= sent' /\ \A i \in DOMAIN wire' : x.n < wire'[i].n
    <3>1. ASSUME NEW x \in handed PROVE x.n \in Nat /\ x.n <= sent /\ \A i \in DOMAIN wire : x.n < wire[i].n
      BY DEF RMsgs, ROrder
    <3> QED  BY <1>1, <1>2, <2>1, <2>2, <2>3, <2>4, <3>1
  <2> QED  BY <1>1, <1>2, <2>2, <2>5, <2>6, <2>8, <2>9, <2>10 DEF RMsgs, ROrder
<1> QED  BY <1>1, <1>3, <1>4

LEMMA Consumed ==
  ASSUME RMsgs, R!Consume
  PROVE  RMsgs'
<1>1. /\ wire # <<>> /\ wire' = Tail(wire) /\ decoding' = Append(decoding, Head(wire))
      /\ UNCHANGED <<sent, handed>>
  BY DEF R!Consume
<1>2. wire \in Seq(RMessages) /\ decoding \in Seq(RMessages) /\ sent \in Nat
  BY DEF RMsgs, ROrder
<1> DEFINE w == Len(wire)
           d == Len(decoding)
<1>3. /\ w \in Nat /\ w >= 1 /\ DOMAIN wire = 1..w /\ Head(wire) = wire[1] /\ wire[1] \in RMessages
      /\ d \in Nat /\ DOMAIN decoding = 1..d
  BY <1>1, <1>2
<1>4. /\ wire' \in Seq(RMessages) /\ DOMAIN wire' = 1..(w - 1)
      /\ \A i \in DOMAIN wire' : i + 1 \in DOMAIN wire /\ wire'[i] = wire[i + 1]
  BY <1>1, <1>2, <1>3
<1>5. /\ decoding' \in Seq(RMessages) /\ DOMAIN decoding' = 1..(d + 1)
      /\ \A i \in 1..d : decoding'[i] = decoding[i]
      /\ decoding'[d + 1] = wire[1]
  BY <1>1, <1>2, <1>3
<1> HIDE DEF w, d
<1>6. \A i \in DOMAIN decoding' : i \in DOMAIN decoding \/ i = d + 1
  BY <1>3, <1>5
<1>a. \A i, j \in DOMAIN wire : i < j => wire[i].n < wire[j].n
  BY DEF RMsgs, ROrder
<1>7. /\ 1 \in DOMAIN wire
      /\ \A i \in DOMAIN wire' : wire[1].n < wire'[i].n
  <2>1. 1 \in DOMAIN wire
    BY <1>3
  <2>2. ASSUME NEW i \in DOMAIN wire' PROVE wire[1].n < wire'[i].n
    <3>1. i + 1 \in DOMAIN wire /\ wire'[i] = wire[i + 1] /\ 1 < i + 1
      BY <1>4
    <3> QED  BY <1>a, <2>1, <3>1
  <2> QED  BY <2>1, <2>2
<1>8. \A i, j \in DOMAIN wire' : i < j => wire'[i].n < wire'[j].n
  <2>1. ASSUME NEW i \in DOMAIN wire', NEW j \in DOMAIN wire', i < j PROVE wire'[i].n < wire'[j].n
    <3>1. /\ i + 1 \in DOMAIN wire /\ wire'[i] = wire[i + 1]
          /\ j + 1 \in DOMAIN wire /\ wire'[j] = wire[j + 1]
      BY <1>4
    <3>2. i + 1 < j + 1
      BY <1>3, <1>4, <2>1
    <3> QED  BY <1>a, <3>1, <3>2
  <2> QED  BY <2>1
<1>9. \A i, j \in DOMAIN decoding' : i < j => decoding'[i].n < decoding'[j].n
  <2>1. ASSUME NEW i \in DOMAIN decoding', NEW j \in DOMAIN decoding', i < j PROVE decoding'[i].n < decoding'[j].n
    <3>1. i \in DOMAIN decoding
      BY <1>3, <1>5, <2>1
    <3>2. CASE j \in DOMAIN decoding
      BY <1>3, <1>5, <2>1, <3>1, <3>2 DEF RMsgs, ROrder
    <3>3. CASE j = d + 1
      BY <1>3, <1>5, <1>7, <3>1, <3>3 DEF RMsgs, ROrder
    <3> QED  BY <1>6, <3>2, <3>3
  <2> QED  BY <2>1
<1>10. \A i \in DOMAIN decoding', j \in DOMAIN wire' : decoding'[i].n < wire'[j].n
  <2>1. \A i \in DOMAIN decoding, j \in DOMAIN wire' : decoding[i].n < wire'[j].n
    BY <1>4 DEF RMsgs, ROrder
  <2> QED  BY <1>3, <1>5, <1>6, <1>7, <2>1
<1>11. \A i \in DOMAIN wire' : wire'[i].n <= sent
  BY <1>4 DEF RMsgs, ROrder
<1>12. \A i \in DOMAIN decoding' : decoding'[i].n <= sent
  BY <1>3, <1>5, <1>6, <1>7 DEF RMsgs, ROrder
<1>13. \A x \in handed : /\ x.n \in Nat /\ x.n <= sent
                         /\ \A i \in DOMAIN wire' : x.n < wire'[i].n
                         /\ \A i \in DOMAIN decoding' : x.n # decoding'[i].n
  <2>1. ASSUME NEW x \in handed
        PROVE  /\ x.n \in Nat /\ x.n <= sent
               /\ \A i \in DOMAIN wire : x.n < wire[i].n
               /\ \A i \in DOMAIN decoding : x.n # decoding[i].n
    BY DEF RMsgs, ROrder
  <2>2. wire[1].n \in Nat
    BY <1>3 DEF RMessages
  <2>3. ASSUME NEW x \in handed, NEW i \in DOMAIN decoding' PROVE x.n # decoding'[i].n
    <3>1. CASE i \in DOMAIN decoding
      BY <1>3, <1>5, <2>1, <3>1
    <3>2. CASE i = d + 1
      BY <1>5, <1>7, <2>1, <2>2, <3>2
    <3> QED  BY <1>6, <3>1, <3>2
  <2> QED  BY <1>4, <2>1, <2>3
<1> QED  BY <1>1, <1>2, <1>4, <1>5, <1>8, <1>9, <1>10, <1>11, <1>12, <1>13 DEF RMsgs, ROrder

LEMMA RabbitHands ==
  ASSUME RabbitInv, RMsgs, R!HandedRight, R!Next
  PROVE  RMsgs' /\ R!HandedRight'
<1> DEFINE Goal == RMsgs' /\ R!HandedRight'
<1>a. ASSUME UNCHANGED handed PROVE R!HandedRight'
  BY <1>a, Zenon DEF R!HandedRight, R!matchesPattern
<1>1. ASSUME NEW batch, R!subscribe(batch) \/ R!unsubscribe(batch) PROVE Goal
  BY <1>1, HandStays DEF R!subscribe, R!unsubscribe, R!Starts, R!flowVars
<1>2. CASE R!bindQueue \/ R!unbindQueue \/ R!Answered \/ R!NotConnected
  BY <1>2, HandStays DEF R!bindQueue, R!unbindQueue, R!Answered, R!NotConnected, R!flowVars
<1>3. CASE R!BrokerCloses \/ R!close \/ R!cancel \/ R!channelClose
  BY <1>3, HandStays DEF R!BrokerCloses, R!close, R!cancel, R!channelClose, R!flowVars
<1>4. ASSUME NEW k \in RoutingKeys, R!Publish(k) PROVE Goal
  <2>1. UNCHANGED handed
    BY <1>4, Zenon DEF R!Publish
  <2> QED  BY <1>4, <1>a, <2>1, Published
<1>5. CASE R!Consume
  <2>1. UNCHANGED handed
    BY <1>5 DEF R!Consume
  <2> QED  BY <1>5, <1>a, <2>1, Consumed
<1>6. ASSUME NEW i, R!DecodeFails(i) PROVE Goal
  <2>1. i \in DOMAIN decoding /\ decoding' = R!RemoveAt(decoding, i) /\ UNCHANGED <<wire, sent, handed>>
    BY <1>6 DEF R!DecodeFails, R!Ends
  <2>2. ROrder' /\ \A x \in handed : \A j \in DOMAIN decoding' : x.n # decoding'[j].n
    BY <2>1, DecodingEnds
  <2>3. RMsgs'
    BY <2>1, <2>2 DEF RMsgs
  <2> QED  BY <1>a, <2>1, <2>3
<1>7. ASSUME NEW i, R!handleMessage(i) PROVE Goal
  <2> DEFINE m == decoding[i]
             x == [n |-> m.n, key |-> m.key, topic |-> R!findMatchingPattern(m.key)]
  <2>1. i \in DOMAIN decoding /\ decoding' = R!RemoveAt(decoding, i) /\ UNCHANGED <<wire, sent>>
    BY <1>7, Zenon DEF R!handleMessage, R!Ends
  <2>2. handed' = handed \cup {x}
    BY <1>7, Zenon DEF R!handleMessage
  <2>3. /\ ROrder' /\ \A y \in handed : \A j \in DOMAIN decoding' : y.n # decoding'[j].n
        /\ \A j \in DOMAIN decoding' : decoding'[j].n # m.n
    BY <2>1, DecodingEnds
  <2>4. m.n \in Nat /\ m.n <= sent /\ \A j \in DOMAIN wire : m.n < wire[j].n
    BY <2>1, Numbered DEF RMsgs, ROrder
  <2>5. \A y \in handed : y.n # m.n
    BY <2>1 DEF RMsgs
  <2>6. R!matchesPattern(x.topic, x.key)
    <3>1. x.topic = R!findMatchingPattern(m.key) /\ x.key = m.key
      BY Zenon
    <3>2. R!matchesPattern(R!findMatchingPattern(m.key), m.key)
      BY PatternFound, Zenon DEF RabbitInv
    <3> QED  BY <3>1, <3>2, Zenon
  <2>7. x.n = m.n
    BY Zenon
  <2> HIDE DEF x, m
  <2>8. RMsgs'
    BY <2>1, <2>2, <2>3, <2>4, <2>7 DEF RMsgs
  <2>9. R!HandedRight'
    <3>1. \A y \in handed : R!matchesPattern(y.topic, y.key) /\ \A z \in handed : y.n = z.n => y = z
      BY Zenon DEF R!HandedRight
    <3>2. \A y, z \in handed' : y.n = z.n => y = z
      BY <2>2, <2>5, <2>7, <3>1, Zenon
    <3>3. \A y \in handed' : R!matchesPattern(y.topic, y.key)
      BY <2>2, <2>6, <3>1, Zenon
    <3> QED  BY <3>2, <3>3, Zenon DEF R!HandedRight, R!matchesPattern
  <2> QED  BY <2>8, <2>9
<1> QED  BY <1>1, <1>2, <1>3, <1>4, <1>5, <1>6, <1>7 DEF R!Next, R!CallStep, R!CloseStep, R!Message

-----------------------------------------------------------------------------
(* Redis: what is held is subscribed                                       *)

DCalls == [op : {"subscribe", "unsubscribe"}, todo : Seq(RedisTopics) \ {<<>>}, applied : BOOLEAN]

\* A call that waits for its answer has been applied; a lost connection makes
\* the client send it again.
Served == IF ~call.applied THEN topics
          ELSE IF call.op = "subscribe" THEN topics \cup {Head(call.todo)} ELSE topics \ {Head(call.todo)}
RedisInv ==
  /\ call \in DCalls \cup {D!idle}
  /\ ~failed /\ channel = "open" /\ closing = "no" => broker = Served
  /\ channel = "closed" => ~call.applied
  /\ closing = "done" => channel = "null"

LEMMA GoesOnIdle ==
  ASSUME NEW op \in {"subscribe", "unsubscribe"}, NEW todo \in Seq(RedisTopics), NEW held,
         D!GoesOn(op, todo, held)
  PROVE  call' \in DCalls \cup {D!idle} /\ ~call'.applied
<1> DEFINE busy == {i \in DOMAIN todo : (op = "subscribe") # (todo[i] \in held)}
<1>1. CASE busy = {}
  BY <1>1 DEF D!GoesOn, D!idle
<1>2. CASE busy # {}
  <2>1. busy \in SUBSET Nat
    OBVIOUS
  <2>2. PICK m \in busy : \A k \in busy : m <= k
    BY <1>2, <2>1, LeastExists, Zenon
  <2> DEFINE least == D!Min(busy)
  <2>3. least \in busy
    BY <2>2, Zenon DEF D!Min
  <2>4. call' = [op |-> op, todo |-> SubSeq(todo, least, Len(todo)), applied |-> FALSE]
    BY <1>2 DEF D!GoesOn
  <2> HIDE DEF least
  <2>5. least \in 1..Len(todo)
    BY <2>3
  <2> HIDE DEF busy
  <2> DEFINE rest == SubSeq(todo, least, Len(todo))
  <2>6. rest \in Seq(RedisTopics) /\ Len(rest) >= 1
    BY <2>5
  <2> HIDE DEF rest
  <2>7. rest # <<>>
    BY <2>6
  <2> QED  BY <2>4, <2>6, <2>7 DEF DCalls, rest
<1> QED  BY <1>1, <1>2

LEMMA RedisHolds ==
  ASSUME RedisInv, D!Next
  PROVE  RedisInv'
<1> USE DEF RedisInv
<1>a. ~D!idle.applied /\ D!idle \notin DCalls
  BY DEF D!idle, DCalls
<1>1. ASSUME NEW op \in {"subscribe", "unsubscribe"}, NEW batch \in RedisCalls, D!Starts(op, batch)
      PROVE  RedisInv'
  <2>1. batch \in Seq(RedisTopics) /\ D!GoesOn(op, batch, topics)
    BY <1>1, BrokersAssumption DEF D!Starts
  <2>2. call' \in DCalls \cup {D!idle} /\ ~call'.applied
    BY <2>1, GoesOnIdle
  <2>3. UNCHANGED <<topics, broker, failed, channel, closing>> /\ ~call.applied
    BY <1>1, <1>a DEF D!Starts, D!endVars
  <2> QED  BY <2>2, <2>3 DEF Served
<1>2. CASE D!Applied
  <2>1. call \in DCalls /\ ~call.applied
    BY <1>2, <1>a DEF D!Applied
  <2>2. call' \in DCalls /\ call'.applied /\ call'.op = call.op /\ call'.todo = call.todo
    BY <1>2, <2>1 DEF D!Applied, DCalls
  <2> QED  BY <1>2, <2>1, <2>2 DEF D!Applied, Served, D!endVars
<1>3. CASE D!Answered
  <2>1. call \in DCalls /\ call.applied
    BY <1>3, <1>a DEF D!Answered
  <2>2. Tail(call.todo) \in Seq(RedisTopics) /\ call.op \in {"subscribe", "unsubscribe"}
    BY <2>1 DEF DCalls
  <2>3. D!GoesOn(call.op, Tail(call.todo), topics')
    BY <1>3 DEF D!Answered
  <2>4. call' \in DCalls \cup {D!idle} /\ ~call'.applied
    BY <2>2, <2>3, GoesOnIdle
  <2>5. /\ UNCHANGED <<broker, failed, channel, closing>>
        /\ topics' = Served
    BY <1>3, <2>1 DEF D!Answered, D!endVars, Served
  <2> QED  BY <2>4, <2>5 DEF Served
<1>4. CASE D!CallRejects
  BY <1>4, <1>a DEF D!CallRejects, D!endVars
<1>5. CASE D!Lost
  <2>1. call' = [call EXCEPT !.applied = FALSE]
    BY <1>5 DEF D!Lost
  <2>2. ASSUME call \in DCalls PROVE call' \in DCalls /\ ~call'.applied
    BY <2>1, <2>2 DEF DCalls
  <2>3. ASSUME call = D!idle PROVE call' = D!idle
    BY <2>1, <2>3 DEF D!idle
  <2>4. call' \in DCalls \cup {D!idle} /\ ~call'.applied
    BY <1>a, <2>2, <2>3
  <2> QED  BY <1>5, <2>4 DEF D!Lost
<1>6. CASE D!Reconnected
  BY <1>6 DEF D!Reconnected, D!flowVars, Served
<1>7. ASSUME NEW c, D!Publish(c) PROVE RedisInv'
  <2>1. UNCHANGED <<topics, broker, call, failed, channel, closing>>
    BY <1>7, Zenon DEF D!Publish, D!holdVars, D!endVars
  <2> QED  BY <2>1 DEF Served
<1>8. CASE D!Message
  <2>1. UNCHANGED <<topics, broker, call, failed, channel, closing>>
    BY <1>8 DEF D!Message, D!Receive, D!handleMessage, D!DecodeFails, D!holdVars, D!endVars
  <2> QED  BY <2>1 DEF Served
<1>9. CASE D!close \/ D!CloseStep
  BY <1>9 DEF D!close, D!CloseStep, D!Unsubscribed, D!UnsubscribeRejects, D!quit, D!holdVars, Served
<1> QED  BY <1>1, <1>2, <1>3, <1>4, <1>5, <1>6, <1>7, <1>8, <1>9
            DEF D!Next, D!subscribe, D!unsubscribe, D!CallStep

-----------------------------------------------------------------------------
(* Codecs: a message is decoded by the entry that it was encoded by        *)

\* The first entry for a key, which is not a global RegExp.
First(i, key) == C!For(i, key) /\ C!Kind(i) # "global" /\ \A j \in 1..(i - 1) : ~C!For(j, key)

CodecInv ==
  /\ \E n \in Nat : DOMAIN bindings = 1..n
  /\ C!Json => \A m \in wire : m[2] = "json"
  /\ ~C!Json => \A m \in wire : C!Stable(m[1]) =>
                   \E i \in DOMAIN bindings : First(i, m[1]) /\ m[2] = bindings[i][2]
  /\ C!DecodedAsEncoded

\* A key that no global RegExp comes first for has the same entry at any time.
LEMMA FirstAnswers ==
  ASSUME NEW n \in Nat, DOMAIN bindings = 1..n, NEW key, C!Stable(key), ~C!Json
  PROVE  C!matchEntry(key) \in DOMAIN bindings /\ First(C!matchEntry(key), key)
<1> DEFINE H == {i \in DOMAIN bindings : C!Says(i, key)}
<1>1. PICK s \in DOMAIN bindings : /\ C!Kind(s) # "global" /\ C!For(s, key)
                                   /\ \A j \in 1..s : C!For(j, key) => C!Kind(j) # "global"
  BY DEF C!Stable
<1>2. s \in H
  BY <1>1 DEF C!Says
<1>3. PICK m \in H : \A i \in H : m <= i
  <2>1. H \in SUBSET Nat /\ H # {}
    BY <1>2
  <2> QED  BY <2>1, LeastExists, Zenon
<1> DEFINE hit == C!matchEntry(key)
<1>4. hit \in H /\ \A j \in H : hit <= j
  <2>1. hit = CHOOSE i \in H : \A j \in H : i <= j
    BY <1>2, Zenon DEF C!matchEntry
  <2> QED  BY <1>3, <2>1, Zenon
<1> HIDE DEF hit
<1>5. hit \in 1..n /\ hit <= s /\ C!For(hit, key)
  BY <1>2, <1>4 DEF C!Says
<1>6. C!Kind(hit) # "global"
  BY <1>1, <1>5
<1>7. ASSUME NEW j \in 1..(hit - 1) PROVE ~C!For(j, key)
  <2>1. j \in DOMAIN bindings /\ j \in 1..s /\ ~(hit <= j)
    BY <1>1, <1>5, <1>7
  <2>2. C!For(j, key) => j \in H
    BY <1>1, <2>1 DEF C!Says
  <2> QED  BY <1>4, <2>1, <2>2
<1> QED  BY <1>5, <1>6, <1>7 DEF First, hit

LEMMA OneFirst ==
  ASSUME NEW i \in Nat \ {0}, NEW k \in Nat \ {0}, NEW key, First(i, key), First(k, key)
  PROVE  i = k
<1>1. ~(i < k) /\ ~(k < i)
  BY DEF First
<1> QED  BY <1>1

LEMMA CodecHolds ==
  ASSUME CodecInv, C!Next
  PROVE  CodecInv'
<1>1. PICK n \in Nat : DOMAIN bindings = 1..n
  BY DEF CodecInv
<1>2. UNCHANGED bindings
  BY DEF C!Next, C!New, C!encode, C!encodeJson, C!decode, C!decodeJson, C!Takes
<1>3. /\ C!Json' = C!Json
      /\ \A i, key : First(i, key)' <=> First(i, key)
      /\ \A key : C!Stable(key)' <=> C!Stable(key)
  BY <1>2 DEF C!Json, First, C!For, C!Kind, C!Stable
<1> DEFINE Good(m) == /\ C!Json => m[2] = "json"
                      /\ ~C!Json /\ C!Stable(m[1]) =>
                           \E i \in DOMAIN bindings : First(i, m[1]) /\ m[2] = bindings[i][2]
<1>a. \A m \in wire : Good(m)
  BY DEF CodecInv
<1>b. ASSUME \A m \in wire' : Good(m), C!DecodedAsEncoded' PROVE CodecInv'
  BY <1>1, <1>2, <1>3, <1>b DEF CodecInv
<1>c. ASSUME UNCHANGED got PROVE C!DecodedAsEncoded'
  BY <1>3, <1>c DEF CodecInv, C!DecodedAsEncoded, C!DecodedAlways
<1>4. CASE C!New
  BY <1>4, <1>a, <1>b, <1>c DEF C!New
<1>5. ASSUME NEW key, C!encode(key) PROVE CodecInv'
  <2> DEFINE hit == C!matchEntry(key)
  <2>1. ~C!Json /\ UNCHANGED got
    BY <1>5 DEF C!encode
  <2>2. wire' = wire \/ wire' = wire \cup {<<key, bindings[hit][2]>>}
    BY <1>5 DEF C!encode
  <2> HIDE DEF hit
  <2>3. C!Stable(key) => hit \in DOMAIN bindings /\ First(hit, key)
    BY <1>1, <2>1, FirstAnswers DEF hit
  <2>4. Good(<<key, bindings[hit][2]>>)
    BY <2>1, <2>3
  <2>5. \A m \in wire' : Good(m)
    BY <1>a, <2>2, <2>4
  <2> QED  BY <1>b, <1>c, <2>1, <2>5
<1>6. ASSUME NEW key, C!encodeJson(key) PROVE CodecInv'
  <2>1. C!Json /\ UNCHANGED got /\ wire' \in {wire, wire \cup {<<key, "json">>}}
    BY <1>6 DEF C!encodeJson
  <2>2. Good(<<key, "json">>)
    BY <2>1
  <2>3. \A m \in wire' : Good(m)
    BY <1>a, <2>1, <2>2
  <2> QED  BY <1>b, <1>c, <2>1, <2>3
<1>7. ASSUME NEW m \in wire, C!decode(m) PROVE CodecInv'
  <2> DEFINE hit == C!matchEntry(m[1])
  <2>1. wire' = wire \ {m} /\ ~C!Json
    BY <1>7 DEF C!decode, C!Takes
  <2>2. PICK x \in C!Outcomes(m, hit) : got' = <<m, x>>
    BY <1>7 DEF C!decode, C!decodeBy
  <2> HIDE DEF hit
  <2>3. ASSUME C!Stable(m[1]) PROVE x = m[2]
    <3>1. hit \in DOMAIN bindings /\ First(hit, m[1])
      BY <1>1, <2>1, <2>3, FirstAnswers DEF hit
    <3>2. PICK i \in DOMAIN bindings : First(i, m[1]) /\ m[2] = bindings[i][2]
      BY <1>a, <2>1, <2>3
    <3>3. i = hit
      BY <1>1, <3>1, <3>2, OneFirst
    <3> QED  BY <1>1, <2>2, <3>1, <3>2, <3>3 DEF C!Outcomes
  <2>4. C!DecodedAsEncoded'
    BY <1>3, <2>2, <2>3 DEF C!DecodedAsEncoded, C!DecodedAlways
  <2> QED  BY <1>a, <1>b, <2>1, <2>4
<1>8. ASSUME NEW m \in wire, C!decodeJson(m) PROVE CodecInv'
  <2>1. wire' = wire \ {m} /\ C!Json /\ got' = <<m, "json">>
    BY <1>8 DEF C!decodeJson, C!Takes
  <2>2. C!DecodedAsEncoded'
    BY <1>a, <2>1 DEF C!DecodedAsEncoded, C!DecodedAlways
  <2> QED  BY <1>a, <1>b, <2>1, <2>2
<1> QED  BY <1>4, <1>5, <1>6, <1>7, <1>8 DEF C!Next

-----------------------------------------------------------------------------
(* The factories: what is open is in the list that dispose() goes through  *)

Stages == {"none", "dialing", "connecting", "made", "closed", "failed"}

FTypes ==
  /\ role \in [Creators -> {"publisher", "subscriber"}]
  /\ stage \in [Creators -> Stages] /\ via \in [Creators -> Creators \cup {NoCreator}]
  /\ current \in Creators \cup {NoCreator}
  /\ publishers \in Seq(Creators) /\ subscribers \in Seq(Creators) /\ clients \in Seq(Creators)
  /\ restarted \subseteq Creators /\ refused \subseteq Creators
  /\ next \in Nat

\* Where creates do not overlap one adapter is made at a time, and none is made while the
\* factory is disposed of.
FOne ==
  /\ kind \notin Overlapping => \A c, d \in Creators : M!Ready(c) /\ M!Ready(d) => c = d
  /\ disposing # "no" => \A c \in Creators : ~M!Ready(c)
  /\ \A c \in Creators : stage[c] = "dialing" => kind = "rabbitmq"

ListOf(c) == IF role[c] = "publisher" THEN publishers ELSE subscribers

\* The subscribers of Kafka whose close() does not disconnect their consumer.
Left == restarted \cup refused

FKafka ==
  /\ \A x \in open : \E c \in Creators : x = M!own(c) /\ (c \in Left \/ M!Listed(ListOf(c), c))
  /\ \A c \in Left : role[c] = "subscriber"
  /\ \A c \in Creators : M!own(c) \in open /\ role[c] = "subscriber" /\ stage[c] = "closed" => c \in Left
  /\ disposing \in {"sweep", "publishers", "done"} =>
       \A c \in Creators : M!own(c) \in open => role[c] = "publisher" \/ c \in Left
  /\ disposing = "publishers" => \A i \in DOMAIN publishers : i <= next => M!own(publishers[i]) \notin open
  /\ disposing = "done" => \A x \in open : \E c \in Left : x = M!own(c)
  /\ disposing \notin {"shared", "clients"}

FRedis ==
  /\ \A x \in open : x = M!shared \/ \E c \in Creators : x = M!own(c) /\ M!Listed(clients, c)
  /\ disposing \in {"clients", "done"} => M!shared \notin open
  /\ disposing = "clients" => \A i \in DOMAIN clients : i <= next => M!own(clients[i]) \notin open
  /\ disposing = "done" => open = {}

\* There is one connection, and what is open was made on it.
FRabbit ==
  /\ \A x \in open : /\ current \in Creators
                     /\ \/ x = M!conn(current)
                        \/ \E c \in Creators : x = M!own(c) /\ stage[c] # "none" /\ via[c] = current
  /\ \A c \in Creators : stage[c] = "dialing" => current = NoCreator
  /\ disposing = "done" => open = {}
  /\ disposing # "clients"

FactoryInv ==
  /\ FTypes /\ FOne /\ kind \in Kinds
  /\ kind = "kafka" => FKafka
  /\ kind = "redis" => FRedis
  /\ kind = "rabbitmq" /\ kind \notin Overlapping => FRabbit

LEMMA ListGrows ==
  ASSUME NEW list \in Seq(Creators), NEW c \in Creators
  PROVE  /\ Append(list, c) \in Seq(Creators)
         /\ M!Listed(Append(list, c), c)
         /\ \A d \in Creators : M!Listed(list, d) => M!Listed(Append(list, c), d)
<1>1. /\ Append(list, c) \in Seq(Creators) /\ Len(list) \in Nat
      /\ DOMAIN Append(list, c) = 1..(Len(list) + 1) /\ DOMAIN list = 1..Len(list)
      /\ \A i \in 1..Len(list) : Append(list, c)[i] = list[i]
      /\ Append(list, c)[Len(list) + 1] = c
  OBVIOUS
<1>2. Len(list) + 1 \in DOMAIN Append(list, c) /\ \A i \in DOMAIN list : i \in DOMAIN Append(list, c)
  BY <1>1
<1> HIDE <1>1
<1>3. M!Listed(Append(list, c), c)
  BY <1>1, <1>2 DEF M!Listed
<1>4. ASSUME NEW d \in Creators, M!Listed(list, d) PROVE M!Listed(Append(list, c), d)
  BY <1>1, <1>2, <1>4 DEF M!Listed
<1> QED  BY <1>1, <1>3, <1>4

LEMMA ListShrinks ==
  ASSUME NEW list \in Seq(Creators), NEW i \in DOMAIN list
  PROVE  /\ M!RemoveAt(list, i) \in Seq(Creators)
         /\ \A d \in Creators : M!Listed(list, d) /\ d # list[i] => M!Listed(M!RemoveAt(list, i), d)
<1> DEFINE left == Without(list, i)
<1>1. M!RemoveAt(list, i) = left
  BY DEF M!RemoveAt, Without
<1>2. /\ left \in Seq(Creators) /\ Len(left) = Len(list) - 1
      /\ \A j \in 1..(Len(list) - 1) : left[j] = IF j < i THEN list[j] ELSE list[j + 1]
  BY Removed
<1> HIDE DEF left
<1>3. i \in 1..Len(list) /\ Len(list) \in Nat /\ DOMAIN list = 1..Len(list) /\ DOMAIN left = 1..(Len(list) - 1)
  BY <1>2
<1>4. ASSUME NEW d \in Creators, M!Listed(list, d), d # list[i] PROVE M!Listed(left, d)
  <2>1. PICK k \in DOMAIN list : list[k] = d
    BY <1>4 DEF M!Listed
  <2>2. k < i \/ i < k
    BY <1>3, <1>4, <2>1
  <2>3. CASE k < i
    BY <1>2, <1>3, <2>1, <2>3 DEF M!Listed
  <2>4. CASE i < k
    <3>1. k - 1 \in DOMAIN left /\ ~(k - 1 < i) /\ (k - 1) + 1 = k
      BY <1>3, <2>1, <2>4
    <3> QED  BY <1>2, <1>3, <2>1, <3>1 DEF M!Listed
  <2> QED  BY <2>2, <2>3, <2>4
<1> QED  BY <1>1, <1>2, <1>4

LEMMA FactoryTypes ==
  ASSUME FactoryInv, M!Next
  PROVE  FTypes'
<1> USE DEF FactoryInv, FTypes, Stages, M!leftVars
<1>a. <<>> \in Seq(Creators)
  OBVIOUS
<1>1. ASSUME NEW c \in Creators, M!createKafka(c) \/ M!createRedis(c) \/ M!createRabbit(c) PROVE FTypes'
  <2>1. stage' \in [Creators -> Stages]
    BY <1>1 DEF M!createKafka, M!createRedis, M!createRabbit, M!Goes
  <2>2. clients' \in Seq(Creators)
    BY <1>1, ListGrows DEF M!createKafka, M!createRedis, M!createRabbit
  <2>3. via' = via \/ (current # NoCreator /\ via' = [via EXCEPT ![c] = current])
    BY <1>1 DEF M!createKafka, M!createRedis, M!createRabbit
  <2>4. UNCHANGED <<role, current, publishers, subscribers, restarted, refused, next>>
    BY <1>1 DEF M!createKafka, M!createRedis, M!createRabbit, M!Begins
  <2> QED  BY <2>1, <2>2, <2>3, <2>4
<1>2. ASSUME NEW c \in Creators, M!Dialed(c) PROVE FTypes'
  BY <1>2 DEF M!Dialed, M!Goes, M!listVars
<1>3. ASSUME NEW c \in Creators, M!Connected(c) PROVE FTypes'
  <2>1. publishers' \in Seq(Creators) /\ subscribers' \in Seq(Creators)
    BY <1>3, ListGrows DEF M!Connected
  <2> QED  BY <1>3, <2>1 DEF M!Connected, M!Goes
<1>4. ASSUME NEW c \in Creators, M!CreateFails(c) PROVE FTypes'
  BY <1>4 DEF M!CreateFails, M!Goes, M!listVars
<1>5. ASSUME NEW c \in Creators, M!Closed(c) \/ M!KafkaSubscriberClosed(c) PROVE FTypes'
  <2>1. subscribers' \in Seq(Creators)
    BY <1>5, ListShrinks DEF M!Closed, M!KafkaSubscriberClosed, M!KafkaClose
  <2>2. refused' \subseteq Creators
    BY <1>5 DEF M!Closed, M!KafkaSubscriberClosed, M!KafkaClose
  <2> QED  BY <1>5, <2>1, <2>2 DEF M!Closed, M!KafkaSubscriberClosed, M!Goes
<1>b. ASSUME NEW c \in Creators, M!Restarted(c) PROVE FTypes'
  BY <1>b DEF M!Restarted, M!creatorVars, M!listVars
<1>6. ASSUME NEW c \in Creators, M!ConnectionLost(c) PROVE FTypes'
  BY <1>6 DEF M!ConnectionLost, M!listVars
<1>7. CASE M!dispose
  BY <1>7 DEF M!dispose, M!To, M!creatorVars, M!listVars
<1>8. ASSUME NEW list \in Seq(Creators), M!CloseNext(list) PROVE FTypes'
  <2>1. UNCHANGED <<role, via, current, publishers, subscribers, clients, restarted, refused>>
    BY <1>8 DEF M!CloseNext, M!listVars
  <2>2. next' = next + 1 \/ next' = next
    BY <1>8 DEF M!CloseNext
  <2>3. stage' = stage \/ stage' = [stage EXCEPT ![list[next + 1]] = "closed"]
    BY <1>8 DEF M!CloseNext, M!Goes
  <2>4. stage' \in [Creators -> Stages]
    BY <2>3
  <2> QED  BY <2>1, <2>2, <2>4
<1>9. CASE M!PublishersClosed \/ M!SubscribersClosed \/ M!KafkaSubscribersSettled
  <2>1. UNCHANGED <<role, via, current, clients, restarted, refused>> /\ next' = 0
    BY <1>9 DEF M!PublishersClosed, M!SubscribersClosed, M!KafkaSubscribersSettled, M!To, M!creatorVars, M!listVars
  <2>2. publishers' \in {publishers, <<>>} /\ subscribers' \in {subscribers, <<>>}
    BY <1>9 DEF M!PublishersClosed, M!SubscribersClosed, M!KafkaSubscribersSettled, M!listVars
  <2>3. UNCHANGED stage
    BY <1>9 DEF M!PublishersClosed, M!SubscribersClosed, M!KafkaSubscribersSettled, M!creatorVars
  <2>4. publishers' \in Seq(Creators) /\ subscribers' \in Seq(Creators)
    BY <1>a, <2>2
  <2> QED  BY <2>1, <2>3, <2>4
<1>10. CASE M!Swept \/ M!SharedClosed \/ M!ClientQuits
  <2>1. UNCHANGED <<role, stage, via, publishers, subscribers, restarted, refused>> /\ current' \in {current, NoCreator}
    BY <1>10 DEF M!Swept, M!SharedClosed, M!ClientQuits, M!creatorVars, M!listVars
  <2>2. next' \in {0, next + 1, next}
    BY <1>10 DEF M!Swept, M!SharedClosed, M!ClientQuits, M!To
  <2>3. clients' \in {clients, <<>>}
    BY <1>10 DEF M!Swept, M!SharedClosed, M!ClientQuits, M!listVars
  <2>4. clients' \in Seq(Creators)
    BY <1>a, <2>3
  <2>5. next' \in Nat
    BY <2>2
  <2> QED  BY <2>1, <2>4, <2>5
<1> QED  BY <1>1, <1>2, <1>3, <1>4, <1>5, <1>b, <1>6, <1>7, <1>8, <1>9, <1>10 DEF M!Next, M!DisposeStep

LEMMA FactoryOne ==
  ASSUME FactoryInv, M!Next
  PROVE  FOne'
<1> USE DEF FactoryInv, FTypes, FOne
<1>1. ASSUME NEW c \in Creators, M!createKafka(c) \/ M!createRedis(c) \/ M!createRabbit(c) PROVE FOne'
  <2>1. \E to \in {"dialing", "connecting"} : stage' = [stage EXCEPT ![c] = to]
    BY <1>1 DEF M!createKafka, M!createRedis, M!createRabbit, M!Goes
  <2>2. UNCHANGED <<kind, disposing>> /\ disposing = "no" /\ (kind \notin Overlapping => \A d \in Creators : ~M!Ready(d))
    BY <1>1 DEF M!createKafka, M!createRedis, M!createRabbit, M!Begins
  <2>3. \A d \in Creators : stage'[d] = "dialing" => kind' = "rabbitmq"
    BY <1>1 DEF M!createKafka, M!createRedis, M!createRabbit, M!Begins, M!Goes
  <2> QED  BY <2>1, <2>2, <2>3 DEF M!Ready
\* no other step makes one more ready
<1>a. ASSUME \A c \in Creators : M!Ready(c)' => M!Ready(c) /\ stage'[c] \in {stage[c], "connecting"}, UNCHANGED kind,
             disposing' # "no" => disposing # "no" \/ \A c \in Creators : ~M!Ready(c)
      PROVE  FOne'
  <2>1. \A c \in Creators : stage'[c] = "dialing" => M!Ready(c)' /\ stage[c] = "dialing"
    BY <1>a DEF M!Ready
  <2> QED  BY <1>a, <2>1
<1>2. ASSUME NEW c \in Creators, M!Dialed(c) \/ M!Connected(c) \/ M!CreateFails(c) \/ M!Closed(c) PROVE FOne'
  BY <1>2, <1>a DEF M!Dialed, M!Connected, M!CreateFails, M!Closed, M!Goes, M!Ready
<1>8. ASSUME NEW c \in Creators, M!KafkaSubscriberClosed(c) \/ M!Restarted(c) PROVE FOne'
  BY <1>8, <1>a DEF M!KafkaSubscriberClosed, M!Restarted, M!creatorVars, M!Goes, M!Ready
<1>3. ASSUME NEW c \in Creators, M!ConnectionLost(c) PROVE FOne'
  BY <1>3, <1>a DEF M!ConnectionLost, M!Ready
<1>4. CASE M!dispose
  BY <1>4, <1>a DEF M!dispose, M!creatorVars, M!Ready
<1>5. ASSUME NEW list \in Seq(Creators), M!CloseNext(list), disposing # "no" PROVE FOne'
  BY <1>5, <1>a DEF M!CloseNext, M!Goes, M!Ready
<1>6. CASE M!PublishersClosed \/ M!SubscribersClosed \/ M!KafkaSubscribersSettled
  BY <1>6, <1>a DEF M!PublishersClosed, M!SubscribersClosed, M!KafkaSubscribersSettled, M!creatorVars, M!Ready
<1>7. CASE M!Swept \/ M!SharedClosed \/ M!ClientQuits
  BY <1>7, <1>a DEF M!Swept, M!SharedClosed, M!ClientQuits, M!creatorVars, M!Ready
<1> QED  BY <1>1, <1>2, <1>3, <1>4, <1>5, <1>6, <1>7, <1>8 DEF M!Next, M!DisposeStep

LEMMA KafkaFactory ==
  ASSUME FactoryInv, M!Next, kind = "kafka"
  PROVE  FKafka'
<1> USE DEF FactoryInv, FTypes, FKafka, Left, M!leftVars
<1>a. \A c, d \in Creators : /\ M!own(c) = M!own(d) => c = d
                             /\ M!own(c) # M!conn(d) /\ M!own(c) # M!shared
  BY DEF M!own, M!conn, M!shared
\* what is closed stays in no list; what is open stays in its own
<1>b. ASSUME open' \subseteq open, UNCHANGED <<role, publishers, subscribers, refused, disposing, next>>,
             restarted \subseteq restarted', \A c \in restarted' : role[c] = "subscriber",
             \A c \in Creators : stage'[c] = "closed" => stage[c] = "closed"
      PROVE  FKafka'
  BY <1>b DEF ListOf, M!own, M!Listed
<1>1. ASSUME NEW c \in Creators, M!createKafka(c) \/ M!createRedis(c) \/ M!createRabbit(c) PROVE FKafka'
  BY <1>1, <1>b DEF M!createKafka, M!createRedis, M!createRabbit, M!Begins, M!Goes
<1>2. ASSUME NEW c \in Creators, M!Connected(c) PROVE FKafka'
  <2>1. /\ open' = open \cup {M!own(c)} /\ UNCHANGED <<role, disposing, next, restarted, refused>>
        /\ stage' = [stage EXCEPT ![c] = "made"]
    BY <1>2 DEF M!Connected, M!Goes
  <2>2. disposing = "no"
    BY <1>2 DEF M!Connected, FOne, M!Ready
  <2>3. \A list \in Seq(Creators) :
          /\ M!Listed(Append(list, c), c)
          /\ \A d \in Creators : M!Listed(list, d) => M!Listed(Append(list, c), d)
    BY ListGrows
  <2>4. \/ role[c] = "publisher" /\ publishers' = Append(publishers, c) /\ UNCHANGED subscribers
        \/ role[c] # "publisher" /\ subscribers' = Append(subscribers, c) /\ UNCHANGED publishers
    BY <1>2 DEF M!Connected
  <2>5. M!Listed(ListOf(c)', c)
    BY <2>1, <2>3, <2>4 DEF ListOf
  <2>6. ASSUME NEW d \in Creators, M!Listed(ListOf(d), d) PROVE M!Listed(ListOf(d)', d)
    BY <2>1, <2>3, <2>4, <2>6 DEF ListOf
  <2>7. \A x \in open' : \E d \in Creators : x = M!own(d) /\ (d \in Left \/ M!Listed(ListOf(d), d)')
    <3>1. \A d \in Creators : M!Listed(ListOf(d), d)' <=> M!Listed(ListOf(d)', d)
      BY DEF M!Listed
    <3>2. M!own(c) = M!own(c)' /\ \A d \in Creators : M!own(d)' = M!own(d)
      BY DEF M!own
    <3> QED  BY <2>1, <2>5, <2>6, <3>1, <3>2
  <2>8. \A d \in Creators : M!own(d) \in open' /\ stage'[d] = "closed" => M!own(d) \in open /\ stage[d] = "closed"
    BY <1>a, <2>1
  <2> QED  BY <2>1, <2>2, <2>7, <2>8 DEF M!own
\* a subscriber leaves its list, or is among those that are left
<1>c. ASSUME NEW c \in Creators, role[c] = "subscriber", M!KafkaClose(c), M!Goes(c, "closed"),
             disposing \in {"no", "subscribers"}, UNCHANGED <<role, publishers, restarted, disposing, next>>
      PROVE  FKafka'
  <2>1. CASE /\ UNCHANGED refused /\ open' = IF c \in restarted THEN open ELSE open \ {M!own(c)}
             /\ \E i \in DOMAIN subscribers : subscribers[i] = c /\ subscribers' = M!RemoveAt(subscribers, i)
    <3>1. \A d \in Creators : d # c /\ M!Listed(subscribers, d) => M!Listed(subscribers', d)
      BY <2>1, ListShrinks
    <3>2. \A d \in Creators : d # c /\ M!Listed(ListOf(d), d) => M!Listed(ListOf(d)', d)
      BY <1>c, <3>1 DEF ListOf
    <3>3. open' \subseteq open /\ (M!own(c) \in open' => c \in restarted)
      BY <2>1
    <3>4. ASSUME NEW x \in open' PROVE \E d \in Creators : x = M!own(d) /\ (d \in Left \/ M!Listed(ListOf(d)', d))
      BY <1>a, <3>2, <3>3
    <3>5. \A d \in Creators : M!Listed(ListOf(d), d)' <=> M!Listed(ListOf(d)', d)
      BY DEF M!Listed
    <3>6. \A d \in Creators : d # c => stage'[d] = stage[d]
      BY <1>c DEF M!Goes
    <3> QED  BY <1>c, <2>1, <3>3, <3>4, <3>5, <3>6 DEF M!own
  <2>2. CASE refused' = refused \cup {c} /\ UNCHANGED <<open, subscribers>>
    <3>1. \A d \in Creators : d # c => stage'[d] = stage[d]
      BY <1>c DEF M!Goes
    <3> QED  BY <1>a, <1>c, <2>2, <3>1 DEF M!own, M!Listed, ListOf
  <2> QED  BY <1>c, <2>1, <2>2 DEF M!KafkaClose
<1>3. ASSUME NEW c \in Creators, M!Closed(c) PROVE FKafka'
  <2>1. CASE role[c] = "subscriber"
    BY <1>3, <1>c, <2>1 DEF M!Closed, M!KafkaSubscriber
  <2>2. CASE role[c] # "subscriber"
    <3>1. /\ disposing = "no" /\ open' = open \ {M!own(c)} /\ stage' = [stage EXCEPT ![c] = "closed"]
          /\ UNCHANGED <<role, disposing, next, publishers, subscribers, restarted, refused>>
      BY <1>3, <2>2 DEF M!Closed, M!WithoutOwn, M!KafkaSubscriber, M!Goes
    <3>2. \A d \in Creators : role[d] = "subscriber" => stage'[d] = stage[d]
      BY <2>2, <3>1
    <3>3. UNCHANGED Left /\ \A d \in Creators : UNCHANGED <<M!own(d), M!Listed(ListOf(d), d)>>
      BY <3>1 DEF M!own, M!Listed, ListOf
    <3>4. open' \subseteq open
      BY <3>1
    <3> QED  BY <3>1, <3>2, <3>3, <3>4
  <2> QED  BY <2>1, <2>2
<1>d. ASSUME NEW c \in Creators, M!KafkaSubscriberClosed(c) PROVE FKafka'
  BY <1>d, <1>c DEF M!KafkaSubscriberClosed, M!KafkaSubscriber
<1>e. ASSUME NEW c \in Creators, M!Restarted(c) PROVE FKafka'
  BY <1>e, <1>b DEF M!Restarted, M!KafkaSubscriber, M!creatorVars, M!listVars
<1>4. ASSUME NEW c \in Creators, M!Dialed(c) \/ M!CreateFails(c) \/ M!ConnectionLost(c) PROVE FKafka'
  BY <1>4, <1>b DEF M!Dialed, M!CreateFails, M!ConnectionLost, M!listVars, M!Goes, FOne
<1>5. CASE M!dispose
  BY <1>5 DEF M!dispose, M!To, M!creatorVars, M!listVars, ListOf, M!own, M!Listed
<1>6. CASE disposing = "publishers" /\ M!CloseNext(publishers)
  BY <1>6 DEF M!CloseNext, M!listVars, ListOf, M!own, M!Listed, M!WithoutOwn
<1>7. CASE M!PublishersClosed
  BY <1>7 DEF M!PublishersClosed, M!To, M!creatorVars, ListOf, M!own, M!Listed
<1>8. CASE M!KafkaSubscribersSettled
  BY <1>8 DEF M!KafkaSubscribersSettled, M!To, M!creatorVars, M!listVars, ListOf, M!own, M!Listed
<1>9. CASE M!Swept
  BY <1>9 DEF M!Swept, M!To, M!creatorVars, M!listVars, ListOf, M!own, M!Listed
<1> QED  BY <1>1, <1>2, <1>3, <1>d, <1>e, <1>4, <1>5, <1>6, <1>7, <1>8, <1>9
            DEF M!Next, M!DisposeStep, M!SubscribersClosed, M!SharedClosed, M!ClientQuits

LEMMA RedisFactory ==
  ASSUME FactoryInv, M!Next, kind = "redis"
  PROVE  FRedis'
<1> USE DEF FactoryInv, FTypes, FRedis
<1>a. \A c, d \in Creators : /\ M!own(c) = M!own(d) => c = d
                             /\ M!own(c) # M!conn(d) /\ M!own(c) # M!shared /\ M!conn(c) # M!shared
  BY DEF M!own, M!conn, M!shared
<1>b. ASSUME open' \subseteq open, UNCHANGED clients, disposing' = disposing \/ disposing' \notin {"clients", "done"},
             disposing = "clients" => UNCHANGED next
      PROVE  FRedis'
  BY <1>b DEF M!own, M!shared, M!Listed
<1>1. ASSUME NEW c \in Creators, M!createRedis(c) PROVE FRedis'
  <2>1. disposing = "no" /\ disposing' = "no"
    BY <1>1 DEF M!createRedis, M!Begins
  <2>2. CASE open' = open \cup {M!shared} /\ UNCHANGED clients
    BY <2>1, <2>2 DEF M!own, M!shared, M!Listed
  <2>3. CASE open' = open \cup {M!own(c)} /\ clients' = Append(clients, c)
    <3>1. M!Listed(clients', c) /\ \A d \in Creators : M!Listed(clients, d) => M!Listed(clients', d)
      BY <2>3, ListGrows
    <3>2. \A d \in Creators : M!Listed(clients, d)' <=> M!Listed(clients', d)
      BY DEF M!Listed
    <3> QED  BY <2>1, <2>3, <3>1, <3>2 DEF M!own, M!shared
  <2> QED  BY <1>1, <2>2, <2>3 DEF M!createRedis
<1>2. ASSUME NEW c \in Creators, M!createKafka(c) \/ M!createRabbit(c) PROVE FRedis'
  BY <1>2 DEF M!createKafka, M!createRabbit
<1>3. ASSUME NEW c \in Creators, M!Dialed(c) PROVE FRedis'
  BY <1>3 DEF M!Dialed, FOne
<1>4. ASSUME NEW c \in Creators, M!Connected(c) \/ M!CreateFails(c) \/ M!Closed(c) \/ M!ConnectionLost(c) PROVE FRedis'
  <2>1. open' \subseteq open /\ UNCHANGED <<clients, disposing, next>>
    BY <1>4 DEF M!Connected, M!CreateFails, M!Closed, M!ConnectionLost, M!WithoutOwn, M!listVars, M!KafkaSubscriber
  <2> QED  BY <1>b, <2>1
<1>5. CASE M!dispose
  BY <1>5, <1>b DEF M!dispose, M!To, M!creatorVars, M!listVars
<1>6. ASSUME NEW list \in Seq(Creators), disposing # "clients", M!CloseNext(list) PROVE FRedis'
  BY <1>6, <1>b DEF M!CloseNext, M!listVars, M!WithoutOwn
<1>7. CASE M!PublishersClosed \/ M!SubscribersClosed \/ M!Swept
  BY <1>7, <1>b DEF M!PublishersClosed, M!SubscribersClosed, M!Swept, M!To, M!creatorVars, M!listVars
<1>8. CASE M!SharedClosed
  <2>1. UNCHANGED clients /\ next' = 0
    BY <1>8 DEF M!SharedClosed, M!To, M!listVars
  <2>2. CASE disposing' = "clients" /\ open' = open \ {M!shared}
    <3>1. \A i \in DOMAIN clients : ~(i <= 0)
      OBVIOUS
    <3> QED  BY <2>1, <2>2, <3>1 DEF M!own, M!shared, M!Listed
  <2>3. CASE disposing' = "rejected" /\ UNCHANGED open
    BY <2>1, <2>3, <1>b, <1>8 DEF M!SharedClosed
  <2> QED  BY <1>8, <2>2, <2>3 DEF M!SharedClosed, M!To
<1>9. CASE M!ClientQuits
  <2>1. disposing = "clients" /\ M!shared \notin open /\ M!shared' = M!shared
    BY <1>9 DEF M!ClientQuits, M!shared
  <2>2. CASE next = Len(clients)
    <3>1. \A c \in Creators : M!Listed(clients, c) => M!own(c) \notin open
      BY <2>1, <2>2 DEF M!Listed
    <3>2. open = {}
      BY <2>1, <3>1
    <3> QED  BY <1>9, <2>1, <2>2, <3>2 DEF M!ClientQuits, M!To
  <2>3. CASE next # Len(clients)
    <3>1. /\ UNCHANGED clients /\ open' = open \ {M!own(clients[next + 1])}
          /\ \/ next' = next + 1 /\ UNCHANGED disposing
             \/ disposing' = "rejected"
      BY <1>9, <2>3 DEF M!ClientQuits, M!To
    <3>2. CASE disposing' = "rejected"
      BY <1>b, <2>1, <3>1, <3>2 DEF M!own, M!shared, M!Listed
    <3>3. CASE next' = next + 1 /\ UNCHANGED disposing
      <4>1. \A i \in DOMAIN clients : i <= next' => i <= next \/ i = next + 1
        BY <3>3
      <4>2. \A i \in DOMAIN clients : i <= next' => M!own(clients[i]) \notin open'
        BY <2>1, <3>1, <4>1
      <4> QED  BY <2>1, <3>1, <3>3, <4>2 DEF M!own, M!shared, M!Listed
    <3> QED  BY <3>1, <3>2, <3>3
  <2> QED  BY <2>2, <2>3
<1> QED  BY <1>1, <1>2, <1>3, <1>4, <1>5, <1>6, <1>7, <1>8, <1>9
            DEF M!Next, M!DisposeStep, M!KafkaSubscribersSettled, M!KafkaSubscriberClosed, M!Restarted, M!KafkaSubscriber

LEMMA RabbitFactory ==
  ASSUME FactoryInv, M!Next, kind = "rabbitmq", "rabbitmq" \notin Overlapping
  PROVE  FRabbit'
<1> USE DEF FactoryInv, FTypes, FRabbit
<1>a. \A c, d : /\ M!own(c) = M!own(d) => c = d
                /\ M!conn(c) = M!conn(d) => c = d
                /\ M!own(c) # M!conn(d)
  BY DEF M!own, M!conn
<1>b. ASSUME open' \subseteq open, UNCHANGED <<via, current>>, disposing' = disposing \/ disposing' \notin {"clients", "done"},
             \A c \in Creators : (stage[c] # "none" => stage'[c] # "none") /\ (stage'[c] = "dialing" => stage[c] = "dialing")
      PROVE  FRabbit'
  BY <1>b DEF M!own, M!conn
<1>1. ASSUME NEW c \in Creators, M!createRabbit(c) PROVE FRabbit'
  <2>1. /\ UNCHANGED <<current, open, disposing>> /\ stage[c] = "none"
        /\ via' = [via EXCEPT ![c] = current] \/ via' = via
        /\ \E to \in {"dialing", "connecting"} : stage' = [stage EXCEPT ![c] = to] /\ (to = "dialing" => current = NoCreator)
    BY <1>1 DEF M!createRabbit, M!Begins, M!Goes
  <2>2. \A d \in Creators : /\ stage[d] # "none" => via'[d] = via[d] /\ stage'[d] # "none"
                            /\ stage'[d] = "dialing" => current = NoCreator
    BY <2>1
  <2> QED  BY <2>1, <2>2 DEF M!own, M!conn
<1>2. ASSUME NEW c \in Creators, M!createKafka(c) \/ M!createRedis(c) PROVE FRabbit'
  BY <1>2 DEF M!createKafka, M!createRedis
<1>3. ASSUME NEW c \in Creators, M!Dialed(c) PROVE FRabbit'
  <2>1. /\ stage[c] = "dialing" /\ current' = c /\ open' = open \cup {M!conn(c)} /\ UNCHANGED disposing
        /\ stage' = [stage EXCEPT ![c] = "connecting"]
    BY <1>3 DEF M!Dialed, M!Goes
  <2>2. open = {}
    BY <2>1, BrokersAssumption
  <2>3. \A d \in Creators : stage'[d] # "dialing"
    BY <2>1 DEF FOne, M!Ready
  <2>4. disposing # "done"
    BY <2>1 DEF FOne, M!Ready
  <2> QED  BY <2>1, <2>2, <2>3, <2>4 DEF M!own, M!conn
<1>4. ASSUME NEW c \in Creators, M!Connected(c) PROVE FRabbit'
  <2>1. /\ M!conn(via[c]) \in open /\ open' = open \cup {M!own(c)} /\ UNCHANGED <<via, current, disposing>>
        /\ stage' = [stage EXCEPT ![c] = "made"] /\ stage[c] = "connecting"
    BY <1>4 DEF M!Connected, M!Goes
  <2>2. current \in Creators /\ via[c] = current
    BY <1>a, <2>1
  <2>3. disposing # "done"
    BY <2>1
  <2>4. \A d \in Creators : (stage[d] # "none" => stage'[d] # "none") /\ (stage'[d] = "dialing" => stage[d] = "dialing")
    BY <2>1
  <2>5. stage'[c] # "none"
    BY <2>1
  <2> QED  BY <2>1, <2>2, <2>3, <2>4, <2>5 DEF M!own, M!conn
<1>5. ASSUME NEW c \in Creators, M!CreateFails(c) \/ M!Closed(c) PROVE FRabbit'
  <2>1. open' \subseteq open /\ UNCHANGED <<via, current, disposing>>
    BY <1>5 DEF M!CreateFails, M!Closed, M!WithoutOwn, M!KafkaSubscriber
  <2>2. \E to \in {"failed", "closed"} : stage' = [stage EXCEPT ![c] = to]
    BY <1>5 DEF M!CreateFails, M!Closed, M!Goes
  <2> QED  BY <1>b, <2>1, <2>2
<1>6. ASSUME NEW c \in Creators, M!ConnectionLost(c) PROVE FRabbit'
  <2>1. /\ M!conn(c) \in open /\ current' = NoCreator /\ UNCHANGED <<stage, via, disposing>>
        /\ open' = open \ ({M!conn(c)} \cup {M!own(d) : d \in {e \in Creators : via[e] = c}})
    BY <1>6 DEF M!ConnectionLost
  <2>2. c = current
    BY <1>a, <2>1
  <2>3. open' = {}
    BY <2>1, <2>2
  <2> QED  BY <2>1, <2>3
<1>7. CASE M!dispose
  BY <1>7, <1>b DEF M!dispose, M!To, M!creatorVars
<1>8. ASSUME NEW list \in Seq(Creators), M!CloseNext(list) PROVE FRabbit'
  <2>1. open' \subseteq open /\ UNCHANGED <<via, current>> /\ disposing' \in {disposing, "rejected"}
    BY <1>8 DEF M!CloseNext, M!WithoutOwn
  <2>2. stage' = stage \/ stage' = [stage EXCEPT ![list[next + 1]] = "closed"]
    BY <1>8 DEF M!CloseNext, M!Goes
  <2> QED  BY <1>b, <2>1, <2>2
<1>9. CASE M!PublishersClosed \/ M!SubscribersClosed \/ M!Swept
  BY <1>9, <1>b DEF M!PublishersClosed, M!SubscribersClosed, M!Swept, M!To, M!creatorVars
<1>10. CASE M!SharedClosed
  <2>1. UNCHANGED <<stage, via>>
    BY <1>10 DEF M!SharedClosed
  <2>2. \/ disposing' = "rejected" /\ UNCHANGED <<open, current>>
        \/ /\ disposing' = "done" /\ current' = NoCreator
           /\ open' = open \ ({M!conn(current)} \cup {M!own(d) : d \in {e \in Creators : via[e] = current}})
    BY <1>10 DEF M!SharedClosed, M!To
  <2>3. disposing' = "done" => open' = {}
    BY <2>2
  <2> QED  BY <1>b, <2>1, <2>2, <2>3
<1> QED  BY <1>1, <1>2, <1>3, <1>4, <1>5, <1>6, <1>7, <1>8, <1>9, <1>10
            DEF M!Next, M!DisposeStep, M!KafkaSubscribersSettled, M!KafkaSubscriberClosed, M!Restarted, M!KafkaSubscriber, M!ClientQuits

-----------------------------------------------------------------------------
(* Publisher: the log of the broker has what passed, in order              *)

AllItems == UNION {P!Part(s) : s \in P!AllSteps}
Logged   == {log[n] : n \in DOMAIN log}

PTests ==
  /\ at \in [Tests -> Nat \ {0}]
  /\ pc \in [Tests -> {"idle", "ready", "busy", "cleanup", "done"}]
  /\ \A t \in Tests : pc[t] = "busy" => adapter = "connected" /\ at[t] \in DOMAIN program[t]

PTypes ==
  /\ program \in PublisherPrograms /\ kind \in Kinds
  /\ PTests
  /\ encoding \subseteq AllItems /\ confirming \subseteq AllItems /\ log \in Seq(AllItems)

\* The step was executed, whatever came of it.
Begun(s) == at[s[1]] > s[2] \/ (at[s[1]] = s[2] /\ pc[s[1]] \in {"busy", "cleanup", "done"})

\* RabbitMQ takes message by message and the step waits for all of them; the
\* others are asked once, when the batch is encoded.
\* With an asynchronous codec RabbitMQ gets the messages of a batch in the
\* order their encoding ends.
InOrderEncoded == ~AsyncCodec \/ "rabbitmq" \notin Kinds
InOrder == InOrderEncoded => P!BatchInOrder

PSets ==
  /\ \A j \in encoding \cup confirming \cup Logged : Begun(j[1])
  /\ InOrderEncoded => \A j \in encoding, l \in Logged : l[1] = j[1] => l[2] < j[2]
  /\ encoding \cap Logged = {}
  /\ kind # "rabbitmq" => /\ confirming = {}
                          /\ \A l \in Logged : P!Passed(l[1])
                          /\ \A j \in encoding : P!Busy(j[1])
  /\ kind = "rabbitmq" =>
       /\ confirming \subseteq Logged
       /\ \A s \in P!AllSteps : P!Passed(s) => P!Part(s) \cap (encoding \cup confirming) = {}
       /\ \A s \in P!AllSteps : P!Busy(s) => P!Part(s) \subseteq encoding \cup Logged
  /\ kind # "redis" => \A s \in P!AllSteps : P!Passed(s) => P!Part(s) \subseteq Logged

PublisherInv == PTypes /\ InOrder /\ PSets

LEMMA StepForm ==
  ASSUME program \in PublisherPrograms
  PROVE  /\ \A s \in P!AllSteps : /\ s = <<s[1], s[2]>> /\ s[1] \in Tests
                                  /\ s[2] \in DOMAIN program[s[1]] /\ s[2] \in Nat
         /\ \A t \in Tests : \A k \in DOMAIN program[t] : <<t, k>> \in P!AllSteps
         /\ \A t \in Tests : \A k \in DOMAIN program[t] : program[t][k] \in PublishSteps
<1>1. program \in [Tests -> Seq(PublishSteps)]
  BY BrokersAssumption
<1>2. \A t \in Tests : program[t] \in Seq(PublishSteps)
  BY <1>1
<1>3. ASSUME NEW t \in Tests, NEW k \in DOMAIN program[t] PROVE k \in Nat /\ program[t][k] \in PublishSteps
  <2>1. program[t] \in Seq(PublishSteps)
    BY <1>2
  <2> QED  BY <2>1
<1>4. ASSUME NEW s \in P!AllSteps
      PROVE  s = <<s[1], s[2]>> /\ s[1] \in Tests /\ s[2] \in DOMAIN program[s[1]]
  <2>1. PICK t \in Tests : s \in {t} \X DOMAIN program[t]
    BY <1>4, Zenon DEF P!AllSteps
  <2> QED  BY <2>1
<1>5. ASSUME NEW t \in Tests, NEW k \in DOMAIN program[t] PROVE <<t, k>> \in P!AllSteps
  <2>1. <<t, k>> \in {t} \X DOMAIN program[t]
    OBVIOUS
  <2> QED  BY <2>1, Zenon DEF P!AllSteps
<1> QED  BY <1>3, <1>4, <1>5

LEMMA ItemForm ==
  ASSUME program \in PublisherPrograms
  PROVE  /\ \A j \in AllItems : /\ j[1] \in P!AllSteps /\ j \in P!Part(j[1])
                                /\ j = <<j[1], j[2]>> /\ j[2] \in Nat
         /\ \A s \in P!AllSteps : \A j \in P!Part(s) : j[1] = s /\ j \in AllItems
         /\ \A s \in P!AllSteps : P!StepOf(s) \in PublishSteps
<1>1. \A s \in P!AllSteps : P!StepOf(s) \in PublishSteps
  BY StepForm DEF P!StepOf
<1>2. ASSUME NEW s \in P!AllSteps PROVE P!Messages(s) \subseteq Nat
  <2>1. P!StepOf(s).messages \in Seq([valid : BOOLEAN])
    BY <1>1 DEF PublishSteps
  <2> QED  BY <2>1 DEF P!Messages
<1>3. ASSUME NEW s \in P!AllSteps, NEW j \in P!Part(s)
      PROVE  j[1] = s /\ j = <<j[1], j[2]>> /\ j[2] \in Nat /\ j \in AllItems
  <2>1. j[1] = s /\ j = <<j[1], j[2]>> /\ j[2] \in Nat
    BY <1>2 DEF P!Part
  <2>2. j \in AllItems
    BY <1>3, Zenon DEF AllItems
  <2> QED  BY <2>1, <2>2
<1>4. ASSUME NEW j \in AllItems PROVE \E s \in P!AllSteps : j \in P!Part(s)
  BY <1>4, Zenon DEF AllItems
<1> QED  BY <1>1, <1>3, <1>4

\* The steps stay as they are.
LEMMA StepsStay ==
  ASSUME UNCHANGED program
  PROVE  /\ UNCHANGED <<P!AllSteps, AllItems>>
         /\ \A s : UNCHANGED <<P!Part(s), P!Messages(s), P!StepOf(s)>>
<1>1. \A s : UNCHANGED <<P!Part(s), P!Messages(s), P!StepOf(s)>>
  BY DEF P!Part, P!Messages, P!StepOf
<1>2. UNCHANGED P!AllSteps
  BY Zenon DEF P!AllSteps
<1>3. UNCHANGED AllItems
  BY <1>1, <1>2 DEF AllItems
<1> QED  BY <1>1, <1>2, <1>3

\* What a test case does to its steps.
LEMMA TestMoves ==
  ASSUME program \in PublisherPrograms, UNCHANGED <<program, adapter>>, PTests,
         NEW t \in Tests, pc[t] \in {"ready", "busy"}
  PROVE  /\ P!StepPasses(t) /\ pc[t] = "busy" =>
              /\ PTests'
              /\ \A s \in P!AllSteps : /\ Begun(s) => Begun(s)'
                                       /\ P!Passed(s)' <=> P!Passed(s) \/ s = P!Hook(t)
                                       /\ P!Busy(s)' <=> P!Busy(s) /\ s # P!Hook(t)
         /\ P!StepFails(t) =>
              /\ PTests'
              /\ \A s \in P!AllSteps : /\ Begun(s) => Begun(s)'
                                       /\ P!Passed(s)' <=> P!Passed(s)
                                       /\ P!Busy(s)' <=> P!Busy(s) /\ s # P!Hook(t)
         /\ P!StepGoesTo(t, "busy") /\ pc[t] = "ready" /\ at[t] \in DOMAIN program[t] /\ adapter = "connected" =>
              /\ PTests'
              /\ \A s \in P!AllSteps : /\ Begun(s) => Begun(s)' /\ s # P!Hook(t)
                                       /\ P!Passed(s)' <=> P!Passed(s)
                                       /\ P!Busy(s)' <=> P!Busy(s) \/ s = P!Hook(t)
<1> USE DEF PTests, Begun, P!Passed, P!Busy, P!Hook
<1>1. \A s \in P!AllSteps : s = <<s[1], s[2]>> /\ s[1] \in Tests /\ s[2] \in Nat
  BY StepForm
<1>2. ASSUME P!StepPasses(t), pc[t] = "busy"
      PROVE  /\ PTests'
             /\ \A s \in P!AllSteps : /\ Begun(s) => Begun(s)'
                                      /\ P!Passed(s)' <=> P!Passed(s) \/ s = P!Hook(t)
                                      /\ P!Busy(s)' <=> P!Busy(s) /\ s # P!Hook(t)
  <2>1. pc' = [pc EXCEPT ![t] = "ready"] /\ at' = [at EXCEPT ![t] = @ + 1]
    BY <1>2 DEF P!StepPasses
  <2>2. PTests'
    BY <2>1
  <2>3. ASSUME NEW k \in Tests, NEW i \in Nat
        PROVE  /\ Begun(<<k, i>>) => Begun(<<k, i>>)'
               /\ P!Passed(<<k, i>>)' <=> P!Passed(<<k, i>>) \/ <<k, i>> = P!Hook(t)
               /\ P!Busy(<<k, i>>)' <=> P!Busy(<<k, i>>) /\ <<k, i>> # P!Hook(t)
    BY <1>2, <2>1
  <2> QED  BY <1>1, <2>2, <2>3
<1>3. ASSUME P!StepFails(t)
      PROVE  /\ PTests'
             /\ \A s \in P!AllSteps : /\ Begun(s) => Begun(s)'
                                      /\ P!Passed(s)' <=> P!Passed(s)
                                      /\ P!Busy(s)' <=> P!Busy(s) /\ s # P!Hook(t)
  <2>1. pc' = [pc EXCEPT ![t] = "cleanup"] /\ at' = at
    BY <1>3 DEF P!StepFails
  <2>2. PTests'
    BY <2>1
  <2>3. ASSUME NEW k \in Tests, NEW i \in Nat
        PROVE  /\ Begun(<<k, i>>) => Begun(<<k, i>>)'
               /\ P!Passed(<<k, i>>)' <=> P!Passed(<<k, i>>)
               /\ P!Busy(<<k, i>>)' <=> P!Busy(<<k, i>>) /\ <<k, i>> # P!Hook(t)
    BY <2>1
  <2> QED  BY <1>1, <2>2, <2>3
<1>4. ASSUME P!StepGoesTo(t, "busy"), pc[t] = "ready", at[t] \in DOMAIN program[t], adapter = "connected"
      PROVE  /\ PTests'
             /\ \A s \in P!AllSteps : /\ Begun(s) => Begun(s)' /\ s # P!Hook(t)
                                      /\ P!Passed(s)' <=> P!Passed(s)
                                      /\ P!Busy(s)' <=> P!Busy(s) \/ s = P!Hook(t)
  <2>1. pc' = [pc EXCEPT ![t] = "busy"] /\ at' = at
    BY <1>4 DEF P!StepGoesTo
  <2>2. PTests'
    BY <1>4, <2>1
  <2>3. ASSUME NEW k \in Tests, NEW i \in Nat
        PROVE  /\ Begun(<<k, i>>) => Begun(<<k, i>>)' /\ <<k, i>> # P!Hook(t)
               /\ P!Passed(<<k, i>>)' <=> P!Passed(<<k, i>>)
               /\ P!Busy(<<k, i>>)' <=> P!Busy(<<k, i>>) \/ <<k, i>> = P!Hook(t)
    BY <1>4, <2>1
  <2> QED  BY <1>1, <2>2, <2>3
<1> QED  BY <1>2, <1>3, <1>4

\* Steps of test cases that begin or end no step that publishes.
LEMMA TestIdles ==
  ASSUME PublisherInv, UNCHANGED <<program, kind, encoding, confirming, log, at>>,
         pc' \in [Tests -> {"idle", "ready", "busy", "cleanup", "done"}],
         \A t \in Tests : /\ pc'[t] = "busy" <=> pc[t] = "busy"
                          /\ pc[t] \in {"cleanup", "done"} => pc'[t] \in {"cleanup", "done"}
                          /\ pc[t] = "busy" => adapter' = "connected"
  PROVE  PublisherInv'
<1>1. /\ UNCHANGED <<P!AllSteps, AllItems, Logged>>
      /\ \A s : UNCHANGED <<P!Part(s), P!Messages(s), P!StepOf(s)>>
  BY StepsStay DEF Logged
<1>2. PTypes'
  BY <1>1 DEF PublisherInv, PTypes, PTests
<1>3. InOrder'
  BY DEF PublisherInv, InOrder, InOrderEncoded, P!BatchInOrder
<1>4. \A s \in P!AllSteps : s = <<s[1], s[2]>> /\ s[1] \in Tests /\ s[2] \in Nat
  BY StepForm DEF PublisherInv, PTypes
<1>5. \A s \in P!AllSteps : /\ Begun(s) => Begun(s)'
                            /\ P!Passed(s)' <=> P!Passed(s)
                            /\ P!Busy(s)' <=> P!Busy(s)
  BY <1>4 DEF Begun, P!Passed, P!Busy, P!Hook
<1>6. \A j \in encoding \cup confirming \cup Logged : j[1] \in P!AllSteps
  BY ItemForm DEF PublisherInv, PTypes, Logged
<1>7. PSets'
  BY <1>1, <1>5, <1>6 DEF PublisherInv, PSets
<1> QED  BY <1>2, <1>3, <1>7 DEF PublisherInv

\* The log grows by a part of a batch, in its order and after what it has of it.
LEMMA LogGrows ==
  ASSUME log \in Seq(AllItems),
         NEW s, NEW batch \in Seq(AllItems), log' = log \o batch,
         \A i \in DOMAIN batch : batch[i][1] = s,
         \A i, k \in DOMAIN batch : i < k => batch[i][2] < batch[k][2],
         InOrderEncoded => \A l \in Logged : l[1] = s => \A i \in DOMAIN batch : l[2] < batch[i][2]
  PROVE  /\ log' \in Seq(AllItems)
         /\ InOrder => InOrder'
         /\ Logged' = Logged \cup {batch[i] : i \in DOMAIN batch}
<1> DEFINE n == Len(log)
           m == Len(batch)
<1>1. /\ n \in Nat /\ m \in Nat /\ DOMAIN log = 1..n /\ DOMAIN batch = 1..m
      /\ log' \in Seq(AllItems) /\ DOMAIN log' = 1..(n + m)
      /\ \A i \in 1..n : log'[i] = log[i]
      /\ \A i \in (n + 1)..(n + m) : log'[i] = batch[i - n]
  OBVIOUS
<1> HIDE DEF n, m
<1>2. \A i \in DOMAIN log' : i \in 1..n \/ (i \in (n + 1)..(n + m) /\ i - n \in DOMAIN batch)
  BY <1>1
<1>3. \A i \in DOMAIN batch : n + i \in DOMAIN log' /\ log'[n + i] = batch[i]
  <2>1. ASSUME NEW i \in DOMAIN batch PROVE n + i \in DOMAIN log' /\ log'[n + i] = batch[i]
    <3>1. n \in Nat /\ m \in Nat /\ i \in 1..m
      BY <1>1
    <3>2. n + i \in (n + 1)..(n + m) /\ (n + i) - n = i
      BY <3>1
    <3> QED  BY <1>1, <3>2
  <2> QED  BY <2>1
<1>4. \A i \in 1..n : i \in DOMAIN log' /\ log'[i] = log[i]
  BY <1>1
<1>5. Logged' = Logged \cup {batch[i] : i \in DOMAIN batch}
  <2>1. \A i \in DOMAIN log' : log'[i] \in Logged \/ \E k \in DOMAIN batch : log'[i] = batch[k]
    <3>1. \A i \in 1..n : log'[i] \in Logged
      BY <1>1, <1>4 DEF Logged
    <3>2. \A i \in (n + 1)..(n + m) : i - n \in DOMAIN batch => log'[i] = batch[i - n]
      BY <1>1
    <3> QED  BY <1>2, <3>1, <3>2
  <2>2. \A l \in Logged : \E i \in DOMAIN log' : log'[i] = l
    BY <1>1, <1>4 DEF Logged
  <2>3. \A k \in DOMAIN batch : \E i \in DOMAIN log' : log'[i] = batch[k]
    BY <1>3
  <2> DEFINE new == {batch[i] : i \in DOMAIN batch}
  <2>4. \A x : x \in new <=> \E k \in DOMAIN batch : x = batch[k]
    OBVIOUS
  <2>5. \A x : x \in Logged' <=> \E i \in DOMAIN log' : x = log'[i]
    BY DEF Logged
  <2> HIDE DEF new
  <2>6. ASSUME NEW x \in Logged' PROVE x \in Logged \cup new
    BY <2>1, <2>4, <2>5
  <2>7. ASSUME NEW x \in Logged PROVE x \in Logged'
    BY <2>2, <2>5
  <2>8. ASSUME NEW x \in new PROVE x \in Logged'
    <3>1. PICK k \in DOMAIN batch : x = batch[k]
      BY <2>4, <2>8
    <3>2. PICK i \in DOMAIN log' : log'[i] = batch[k]
      BY <2>3
    <3> QED  BY <2>5, <3>1, <3>2
  <2>9. Logged' = Logged \cup new
    BY <2>6, <2>7, <2>8
  <2> QED  BY <2>9 DEF new
<1>6. ASSUME InOrderEncoded, P!BatchInOrder, NEW i \in DOMAIN log', NEW k \in DOMAIN log', log'[i][1] = log'[k][1], i < k
      PROVE  log'[i][2] < log'[k][2]
  <2>1. CASE k \in 1..n
    <3>1. i \in 1..n
      BY <1>1, <1>6, <2>1
    <3> QED  BY <1>1, <1>4, <1>6, <2>1, <3>1 DEF P!BatchInOrder
  <2>2. CASE i \in 1..n /\ k \in (n + 1)..(n + m)
    <3>1. log'[i] \in Logged /\ k - n \in DOMAIN batch /\ log'[k] = batch[k - n]
      BY <1>1, <1>2, <2>2 DEF Logged
    <3> QED  BY <1>6, <3>1
  <2>3. CASE i \in (n + 1)..(n + m) /\ k \in (n + 1)..(n + m)
    <3>1. /\ i - n \in DOMAIN batch /\ log'[i] = batch[i - n]
          /\ k - n \in DOMAIN batch /\ log'[k] = batch[k - n]
          /\ i - n < k - n
      BY <1>1, <1>2, <1>6, <2>3
    <3> QED  BY <3>1
  <2>4. CASE i \in (n + 1)..(n + m) /\ k \in 1..n
    BY <1>1, <1>6, <2>4
  <2> QED  BY <1>2, <2>1, <2>2, <2>3, <2>4
<1>7. InOrder => InOrder'
  BY <1>6 DEF InOrder, InOrderEncoded, P!BatchInOrder
<1> QED  BY <1>1, <1>5, <1>7

LEMMA LogShrinks ==
  ASSUME log \in Seq(AllItems), NEW n \in DOMAIN log, log' = P!RemoveAt(log, n)
  PROVE  /\ log' \in Seq(AllItems)
         /\ InOrder => InOrder'
         /\ Logged' \subseteq Logged
         /\ \A l \in Logged : l # log[n] => l \in Logged'
<1>1. log' = Without(log, n)
  BY DEF P!RemoveAt, Without
<1>2. /\ log' \in Seq(AllItems) /\ Len(log') = Len(log) - 1
      /\ \A j \in 1..(Len(log) - 1) : log'[j] = IF j < n THEN log[j] ELSE log[j + 1]
  BY <1>1, Removed
<1>3. n \in 1..Len(log) /\ Len(log) \in Nat /\ DOMAIN log = 1..Len(log) /\ DOMAIN log' = 1..(Len(log) - 1)
  BY <1>2
<1> DEFINE from(j) == IF j < n THEN j ELSE j + 1
<1>4. \A j \in DOMAIN log' : from(j) \in DOMAIN log /\ log'[j] = log[from(j)]
  BY <1>2, <1>3
<1>5. \A j, k \in DOMAIN log' : j < k => from(j) < from(k)
  BY <1>3
<1> HIDE DEF from
<1>6. Logged' \subseteq Logged
  BY <1>4 DEF Logged
<1>7. InOrder => InOrder'
  BY <1>4, <1>5 DEF InOrder, InOrderEncoded, P!BatchInOrder
<1>8. ASSUME NEW l \in Logged, l # log[n] PROVE l \in Logged'
  <2>1. PICK k \in DOMAIN log : log[k] = l
    BY DEF Logged
  <2>2. k < n \/ n < k
    BY <1>3, <1>8, <2>1
  <2>3. CASE k < n
    <3>1. k \in DOMAIN log' /\ log'[k] = l
      BY <1>2, <1>3, <2>1, <2>3
    <3> QED  BY <3>1 DEF Logged
  <2>4. CASE n < k
    <3>1. k - 1 \in DOMAIN log' /\ ~(k - 1 < n) /\ (k - 1) + 1 = k
      BY <1>3, <2>1, <2>4
    <3>2. log'[k - 1] = l
      BY <1>2, <1>3, <2>1, <3>1
    <3> QED  BY <3>1, <3>2 DEF Logged
  <2> QED  BY <2>2, <2>3, <2>4
<1> QED  BY <1>2, <1>6, <1>7, <1>8

LEMMA PublishBegins ==
  ASSUME PublisherInv, NEW t \in Tests, P!executePublish(t)
  PROVE  PublisherInv'
<1> USE DEF PublisherInv
<1>0. PICK s : s = P!Hook(t)
  OBVIOUS
<1>1. /\ UNCHANGED <<program, kind, adapter, confirming, log>> /\ pc[t] = "ready" /\ P!HasStep(t)
      /\ \/ encoding' = encoding \cup P!Part(s) /\ P!StepGoesTo(t, "busy") /\ adapter = "connected"
         \/ P!StepFails(t) /\ UNCHANGED encoding
  BY <1>0 DEF P!executePublish, P!Executes, P!adapterVars
<1>2. /\ UNCHANGED <<P!AllSteps, AllItems, Logged>>
      /\ \A r : UNCHANGED <<P!Part(r), P!Messages(r), P!StepOf(r)>>
  BY <1>1, StepsStay DEF Logged
<1>3. InOrder'
  BY <1>1 DEF InOrder, InOrderEncoded, P!BatchInOrder
<1>4. program \in PublisherPrograms /\ PTests
  BY DEF PTypes
<1>5. at[t] \in DOMAIN program[t] /\ s \in P!AllSteps
  <2>1. program[t] \in Seq(PublishSteps)
    BY <1>4, BrokersAssumption
  <2>2. at[t] \in DOMAIN program[t]
    BY <1>1, <1>4, <2>1 DEF P!HasStep, PTests
  <2> QED  BY <1>4, <2>2, <1>0, StepForm DEF P!Hook
<1>6. \A j \in encoding \cup confirming \cup Logged : j[1] \in P!AllSteps /\ Begun(j[1])
  BY <1>4, ItemForm DEF PTypes, PSets, Logged
<1>7. CASE P!StepFails(t) /\ UNCHANGED encoding
  <2>1. PTests' /\ \A r \in P!AllSteps : /\ Begun(r) => Begun(r)'
                                         /\ P!Passed(r)' <=> P!Passed(r)
                                         /\ P!Busy(r)' <=> P!Busy(r) /\ r # s
    BY <1>1, <1>4, <1>7, <1>0, TestMoves
  <2>2. PTypes'
    BY <1>1, <1>2, <1>7, <2>1 DEF PTypes
  <2>3. \A r \in P!AllSteps : P!Busy(r)' <=> P!Busy(r)
    BY <1>1, <1>4, <2>1, <1>0, StepForm DEF P!Busy, P!Hook
  <2>4. PSets'
    BY <1>1, <1>2, <1>6, <1>7, <2>1, <2>3 DEF PSets
  <2> QED  BY <1>3, <2>2, <2>4
<1>8. CASE encoding' = encoding \cup P!Part(s) /\ P!StepGoesTo(t, "busy") /\ adapter = "connected"
  <2>1. PTests' /\ \A r \in P!AllSteps : /\ Begun(r) => Begun(r)' /\ r # s
                                         /\ P!Passed(r)' <=> P!Passed(r)
                                         /\ P!Busy(r)' <=> P!Busy(r) \/ r = s
    BY <1>1, <1>4, <1>5, <1>8, <1>0, TestMoves
  <2>2. \A j \in P!Part(s) : j[1] = s /\ j \in AllItems
    BY <1>4, <1>5, ItemForm
  <2>3. PTypes'
    BY <1>1, <1>2, <1>8, <2>1, <2>2 DEF PTypes
  <2>4. Begun(s)' /\ P!Busy(s)' /\ ~P!Passed(s)
    <3>1. pc' = [pc EXCEPT ![t] = "busy"] /\ at' = at
      BY <1>8 DEF P!StepGoesTo
    <3> QED  BY <1>0, <1>4, <3>1 DEF Begun, P!Busy, P!Passed, P!Hook, PTests
  <2>5. \A r \in P!AllSteps : r # s => P!Part(r) \cap P!Part(s) = {}
    BY <1>4, <2>2, ItemForm
  <2>6. \A j \in encoding' : j[1] \in P!AllSteps /\ Begun(j[1])' /\ (j \in encoding \/ j[1] = s)
    BY <1>5, <1>6, <1>8, <2>1, <2>2, <2>4
  <2>7. \A l \in Logged : l[1] # s
    BY <1>6, <2>1
  <2>8. PSets'
    BY <1>1, <1>2, <1>5, <1>6, <1>8, <2>1, <2>2, <2>4, <2>5, <2>6, <2>7 DEF PSets
  <2> QED  BY <1>3, <2>3, <2>8
<1> QED  BY <1>1, <1>7, <1>8

\* What the two ends of an encoding, and of a confirmation, have in common.
LEMMA ItemFacts ==
  ASSUME PublisherInv, NEW j \in encoding \cup confirming, UNCHANGED program
  PROVE  /\ j[1] \in P!AllSteps /\ j \in P!Part(j[1]) /\ j[1][1] \in Tests /\ j = <<j[1], j[2]>> /\ Begun(j[1])
         /\ P!Busy(j[1]) => pc[j[1][1]] = "busy" /\ P!Hook(j[1][1]) = j[1]
         /\ UNCHANGED <<P!AllSteps, AllItems>>
         /\ \A r : UNCHANGED <<P!Part(r), P!Messages(r), P!StepOf(r)>>
         /\ \A i \in encoding \cup confirming \cup Logged :
              i[1] \in P!AllSteps /\ i \in P!Part(i[1]) /\ Begun(i[1]) /\ i = <<i[1], i[2]>> /\ i[2] \in Nat
         /\ \A r \in P!AllSteps : \A i \in P!Part(r) : i[1] = r
<1>1. program \in PublisherPrograms /\ encoding \subseteq AllItems /\ confirming \subseteq AllItems /\ Logged \subseteq AllItems
  BY DEF PublisherInv, PTypes, Logged
<1>2. \A i \in encoding \cup confirming \cup Logged :
        i[1] \in P!AllSteps /\ i \in P!Part(i[1]) /\ i = <<i[1], i[2]>> /\ i[2] \in Nat
  BY <1>1, ItemForm
<1>3. \A i \in encoding \cup confirming \cup Logged : Begun(i[1])
  BY DEF PublisherInv, PSets
<1>4. \A r \in P!AllSteps : \A i \in P!Part(r) : i[1] = r
  BY <1>1, ItemForm
<1>5. j[1][1] \in Tests
  BY <1>1, <1>2, StepForm
<1>6. P!Busy(j[1]) => pc[j[1][1]] = "busy" /\ P!Hook(j[1][1]) = j[1]
  BY DEF P!Busy
<1> QED  BY <1>2, <1>3, <1>4, <1>5, <1>6, StepsStay

LEMMA PublishEncoded ==
  ASSUME PublisherInv, NEW j \in encoding, P!Encoded(j)
  PROVE  PublisherInv'
<1>1. /\ UNCHANGED <<program, kind, adapter, pc, at>> /\ encoding' = encoding \ {j} /\ P!EncodeEnds(j)
      /\ \/ kind = "rabbitmq" /\ adapter = "connected" /\ confirming' = confirming \cup {j} /\ log' = Append(log, j)
         \/ (kind # "rabbitmq" \/ adapter # "connected") /\ UNCHANGED <<confirming, log>>
  BY DEF P!Encoded, P!testVars, P!adapterVars
<1>2. /\ j[1] \in P!AllSteps /\ j \in P!Part(j[1]) /\ j[1][1] \in Tests /\ Begun(j[1])
      /\ UNCHANGED <<P!AllSteps, AllItems>>
      /\ \A r : UNCHANGED <<P!Part(r), P!Messages(r), P!StepOf(r)>>
      /\ \A i \in encoding \cup confirming \cup Logged :
           i[1] \in P!AllSteps /\ i \in P!Part(i[1]) /\ Begun(i[1]) /\ i = <<i[1], i[2]>> /\ i[2] \in Nat
      /\ \A r \in P!AllSteps : \A i \in P!Part(r) : i[1] = r
  BY <1>1, ItemFacts
<1>3. \A r : /\ Begun(r)' <=> Begun(r)
             /\ P!Passed(r)' <=> P!Passed(r)
             /\ P!Busy(r)' <=> P!Busy(r)
  BY <1>1 DEF Begun, P!Passed, P!Busy, P!Hook
<1>4. PTests' /\ j \in AllItems
  BY <1>1 DEF PTests, PublisherInv, PTypes
<1>5. CASE (kind # "rabbitmq" \/ adapter # "connected") /\ UNCHANGED <<confirming, log>>
  <2>1. UNCHANGED Logged /\ InOrder'
    BY <1>5 DEF Logged, InOrder, InOrderEncoded, P!BatchInOrder, PublisherInv
  <2>2. PTypes'
    BY <1>1, <1>2, <1>4, <1>5 DEF PTypes, PublisherInv
  <2>3. kind = "rabbitmq" => ~P!Busy(j[1])
    BY <1>2, <1>5 DEF P!Busy, PublisherInv, PTypes, PTests
  <2>4. \A r \in P!AllSteps : P!Busy(r) /\ kind = "rabbitmq" => j \notin P!Part(r)
    BY <1>2, <2>3
  <2>5. PSets'
    BY <1>1, <1>2, <1>3, <1>5, <2>1, <2>4 DEF PSets, PublisherInv
  <2> QED  BY <2>1, <2>2, <2>5 DEF PublisherInv
<1>6. CASE kind = "rabbitmq" /\ adapter = "connected" /\ confirming' = confirming \cup {j} /\ log' = Append(log, j)
  <2>1. InOrderEncoded => \A i \in encoding : i[1] = j[1] => j[2] <= i[2]
    BY <1>1, <1>6 DEF P!EncodeEnds, PublisherInv, PTypes, InOrderEncoded
  <2>2. InOrder /\ log \in Seq(AllItems)
    BY DEF PublisherInv, PTypes
  <2> DEFINE batch == <<j>>
  <2>3. batch \in Seq(AllItems) /\ DOMAIN batch = {1} /\ batch[1] = j
    BY <1>4
  <2>4. log' = log \o batch
    BY <1>4, <1>6, <2>2
  <2>5. InOrderEncoded => \A l \in Logged : l[1] = j[1] => l[2] < j[2]
    BY DEF PublisherInv, PSets
  <2> HIDE DEF batch
  <2>a. \A i \in DOMAIN batch : batch[i][1] = j[1]
    BY <2>3
  <2>b. \A i, k \in DOMAIN batch : i < k => batch[i][2] < batch[k][2]
    BY <2>3
  <2>c. InOrderEncoded => \A l \in Logged : l[1] = j[1] => \A i \in DOMAIN batch : l[2] < batch[i][2]
    BY <2>3, <2>5
  <2>6. /\ log' \in Seq(AllItems)
        /\ InOrder'
        /\ Logged' = Logged \cup {batch[i] : i \in DOMAIN batch}
    BY <2>2, <2>3, <2>4, <2>a, <2>b, <2>c, LogGrows, Zenon
  <2>7. Logged' = Logged \cup {j}
    BY <2>3, <2>6
  <2>8. PTypes'
    BY <1>1, <1>2, <1>4, <1>6, <2>6 DEF PTypes, PublisherInv
  <2>9. InOrderEncoded => \A i \in encoding' : i[1] = j[1] => j[2] < i[2]
    BY <1>1, <1>2, <2>1
  <2>10. PSets'
    BY <1>1, <1>2, <1>3, <1>6, <2>7, <2>9 DEF PSets, PublisherInv
  <2> QED  BY <2>6, <2>8, <2>10 DEF PublisherInv
<1> QED  BY <1>1, <1>5, <1>6

LEMMA PublishNotEncoded ==
  ASSUME PublisherInv, NEW j \in encoding, P!EncodeFails(j)
  PROVE  PublisherInv'
<1>1. /\ UNCHANGED <<program, kind, adapter, confirming, log>>
      /\ encoding' = (encoding \ {j}) \ P!GivenUp(j[1])
      /\ \/ P!Busy(j[1]) /\ P!StepFails(j[1][1])
         \/ ~P!Busy(j[1]) /\ UNCHANGED <<pc, at>>
  BY DEF P!EncodeFails, P!testVars, P!adapterVars
<1>2. /\ j[1] \in P!AllSteps /\ j \in P!Part(j[1]) /\ j[1][1] \in Tests
      /\ P!Busy(j[1]) => pc[j[1][1]] = "busy" /\ P!Hook(j[1][1]) = j[1]
      /\ UNCHANGED <<P!AllSteps, AllItems>>
      /\ \A r : UNCHANGED <<P!Part(r), P!Messages(r), P!StepOf(r)>>
      /\ \A i \in encoding \cup confirming \cup Logged :
           i[1] \in P!AllSteps /\ i \in P!Part(i[1]) /\ Begun(i[1])
      /\ \A r \in P!AllSteps : \A i \in P!Part(r) : i[1] = r
  BY <1>1, ItemFacts
<1>3. UNCHANGED Logged /\ InOrder' /\ program \in PublisherPrograms /\ PTests
  BY <1>1 DEF Logged, InOrder, InOrderEncoded, P!BatchInOrder, PublisherInv, PTypes
<1>4. /\ PTests'
      /\ \A r \in P!AllSteps : /\ Begun(r) => Begun(r)'
                               /\ P!Passed(r)' <=> P!Passed(r)
                               /\ P!Busy(r)' <=> P!Busy(r) /\ r # j[1]
  <2>1. CASE P!Busy(j[1]) /\ P!StepFails(j[1][1])
    BY <1>1, <1>2, <1>3, <2>1, TestMoves
  <2>2. CASE ~P!Busy(j[1]) /\ UNCHANGED <<pc, at>>
    <3>1. PTests'
      BY <1>1, <1>3, <2>2 DEF PTests
    <3>2. \A r : /\ Begun(r)' <=> Begun(r)
                 /\ P!Passed(r)' <=> P!Passed(r)
                 /\ P!Busy(r)' <=> P!Busy(r)
      BY <1>1, <2>2 DEF Begun, P!Passed, P!Busy, P!Hook
    <3> QED  BY <2>2, <3>1, <3>2
  <2> QED  BY <1>1, <2>1, <2>2
<1>5. PTypes'
  BY <1>1, <1>2, <1>4 DEF PTypes, PublisherInv
<1>6. /\ kind # "rabbitmq" => \A i \in encoding' : i[1] # j[1]
      /\ kind = "rabbitmq" => encoding' = encoding \ {j}
  BY <1>1, <1>2 DEF P!GivenUp
<1>7. PSets'
  BY <1>1, <1>2, <1>3, <1>4, <1>6 DEF PSets, PublisherInv
<1> QED  BY <1>3, <1>5, <1>7 DEF PublisherInv

LEMMA PublishConfirmed ==
  ASSUME PublisherInv, NEW j \in confirming, P!Confirmed(j)
  PROVE  PublisherInv'
<1>1. /\ UNCHANGED <<program, kind, adapter, encoding, log>> /\ confirming' = confirming \ {j}
      /\ \/ P!Busy(j[1]) /\ P!Part(j[1]) \cap (encoding \cup confirming) = {j} /\ P!StepPasses(j[1][1])
         \/ UNCHANGED <<pc, at>>
  BY DEF P!Confirmed, P!testVars, P!adapterVars
<1>2. /\ j[1] \in P!AllSteps /\ j \in P!Part(j[1]) /\ j[1][1] \in Tests
      /\ P!Busy(j[1]) => pc[j[1][1]] = "busy" /\ P!Hook(j[1][1]) = j[1]
      /\ UNCHANGED <<P!AllSteps, AllItems>>
      /\ \A r : UNCHANGED <<P!Part(r), P!Messages(r), P!StepOf(r)>>
      /\ \A i \in encoding \cup confirming \cup Logged :
           i[1] \in P!AllSteps /\ i \in P!Part(i[1]) /\ Begun(i[1]) /\ i[2] \in Nat
      /\ \A r \in P!AllSteps : \A i \in P!Part(r) : i[1] = r
  BY <1>1, ItemFacts
<1>3. UNCHANGED Logged /\ InOrder' /\ program \in PublisherPrograms /\ PTests
  BY <1>1 DEF Logged, InOrder, InOrderEncoded, P!BatchInOrder, PublisherInv, PTypes
<1>4. kind = "rabbitmq" /\ j \in Logged /\ j \notin encoding
  <2>1. kind = "rabbitmq" /\ j \in Logged
    BY DEF PublisherInv, PSets
  <2>2. j \notin encoding
    BY <2>1 DEF PublisherInv, PSets
  <2> QED  BY <2>1, <2>2
<1>5. CASE UNCHANGED <<pc, at>>
  <2>1. PTests'
    BY <1>1, <1>3, <1>5 DEF PTests
  <2>2. \A r : /\ Begun(r)' <=> Begun(r)
               /\ P!Passed(r)' <=> P!Passed(r)
               /\ P!Busy(r)' <=> P!Busy(r)
    BY <1>1, <1>5 DEF Begun, P!Passed, P!Busy, P!Hook
  <2>3. PTypes'
    BY <1>1, <1>2, <2>1 DEF PTypes, PublisherInv
  <2>4. PSets'
    BY <1>1, <1>2, <1>3, <2>2 DEF PSets, PublisherInv
  <2> QED  BY <1>3, <2>3, <2>4 DEF PublisherInv
<1>6. CASE P!Busy(j[1]) /\ P!Part(j[1]) \cap (encoding \cup confirming) = {j} /\ P!StepPasses(j[1][1])
  <2>1. /\ PTests'
        /\ \A r \in P!AllSteps : /\ Begun(r) => Begun(r)'
                                 /\ P!Passed(r)' <=> P!Passed(r) \/ r = j[1]
                                 /\ P!Busy(r)' <=> P!Busy(r) /\ r # j[1]
    BY <1>1, <1>2, <1>3, <1>6, TestMoves
  <2>2. PTypes'
    BY <1>1, <1>2, <2>1 DEF PTypes, PublisherInv
  <2>3. P!Part(j[1]) \cap (encoding' \cup confirming') = {} /\ P!Part(j[1]) \subseteq Logged
    BY <1>1, <1>2, <1>4, <1>6 DEF PSets, PublisherInv
  <2>4. PSets'
    BY <1>1, <1>2, <1>3, <1>4, <2>1, <2>3 DEF PSets, PublisherInv
  <2> QED  BY <1>3, <2>2, <2>4 DEF PublisherInv
<1> QED  BY <1>1, <1>5, <1>6

LEMMA PublishRefused ==
  ASSUME PublisherInv, NEW j \in confirming, P!Refused(j)
  PROVE  PublisherInv'
<1>1. /\ UNCHANGED <<program, kind, adapter, encoding>> /\ confirming' = confirming \ {j}
      /\ \E n \in DOMAIN log : log[n] = j /\ log' = P!RemoveAt(log, n)
      /\ \/ P!Busy(j[1]) /\ P!StepFails(j[1][1])
         \/ ~P!Busy(j[1]) /\ UNCHANGED <<pc, at>>
  BY DEF P!Refused, P!testVars, P!adapterVars
<1>2. /\ j[1] \in P!AllSteps /\ j \in P!Part(j[1]) /\ j[1][1] \in Tests
      /\ P!Busy(j[1]) => pc[j[1][1]] = "busy" /\ P!Hook(j[1][1]) = j[1]
      /\ UNCHANGED <<P!AllSteps, AllItems>>
      /\ \A r : UNCHANGED <<P!Part(r), P!Messages(r), P!StepOf(r)>>
      /\ \A i \in encoding \cup confirming \cup Logged :
           i[1] \in P!AllSteps /\ i \in P!Part(i[1]) /\ Begun(i[1])
      /\ \A r \in P!AllSteps : \A i \in P!Part(r) : i[1] = r
  BY <1>1, ItemFacts
<1>3. program \in PublisherPrograms /\ PTests /\ InOrder /\ log \in Seq(AllItems)
  BY DEF PublisherInv, PTypes
<1>4. /\ log' \in Seq(AllItems) /\ InOrder' /\ Logged' \subseteq Logged
      /\ \A l \in Logged : l # j => l \in Logged'
  <2>1. PICK n \in DOMAIN log : log[n] = j /\ log' = P!RemoveAt(log, n)
    BY <1>1
  <2> QED  BY <1>3, <2>1, LogShrinks
<1>5. kind = "rabbitmq" /\ ~P!Passed(j[1])
  <2>1. kind = "rabbitmq"
    BY DEF PublisherInv, PSets
  <2>2. P!Passed(j[1]) => j \notin confirming
    BY <1>2, <2>1 DEF PublisherInv, PSets
  <2> QED  BY <2>1, <2>2
<1>6. /\ PTests'
      /\ \A r \in P!AllSteps : /\ Begun(r) => Begun(r)'
                               /\ P!Passed(r)' <=> P!Passed(r)
                               /\ P!Busy(r)' <=> P!Busy(r) /\ r # j[1]
  <2>1. CASE P!Busy(j[1]) /\ P!StepFails(j[1][1])
    BY <1>1, <1>2, <1>3, <2>1, TestMoves
  <2>2. CASE ~P!Busy(j[1]) /\ UNCHANGED <<pc, at>>
    <3>1. PTests'
      BY <1>1, <1>3, <2>2 DEF PTests
    <3>2. \A r : /\ Begun(r)' <=> Begun(r)
                 /\ P!Passed(r)' <=> P!Passed(r)
                 /\ P!Busy(r)' <=> P!Busy(r)
      BY <1>1, <2>2 DEF Begun, P!Passed, P!Busy, P!Hook
    <3> QED  BY <2>2, <3>1, <3>2
  <2> QED  BY <1>1, <2>1, <2>2
<1>7. PTypes'
  BY <1>1, <1>2, <1>4, <1>6 DEF PTypes, PublisherInv
<1>8. \A r \in P!AllSteps : r # j[1] => j \notin P!Part(r)
  BY <1>2
<1>9. PSets'
  BY <1>1, <1>2, <1>4, <1>5, <1>6, <1>8 DEF PSets, PublisherInv
<1> QED  BY <1>4, <1>7, <1>9 DEF PublisherInv

\* The whole batch is asked for, and some of it or nothing accepted.
LEMMA PublishSent ==
  ASSUME PublisherInv, NEW t \in Tests, P!Sent(P!Hook(t)) \/ P!SendFails(P!Hook(t)) \/ P!CommandsRefused(P!Hook(t))
  PROVE  PublisherInv'
<1>0. PICK s : s = P!Hook(t)
  OBVIOUS
<1>1. /\ UNCHANGED <<program, kind, adapter, encoding, confirming>> /\ P!AllEncoded(s)
      /\ kind = "rabbitmq" => P!Messages(s) = {}
      /\ \/ P!StepPasses(t) /\ (P!Sent(s) \/ P!CommandsRefused(s))
         \/ (P!StepFails(t) /\ kind # "rabbitmq" /\ UNCHANGED log)
  <2>1. s[1] = t
    BY <1>0 DEF P!Hook
  <2> QED  BY <1>0, <2>1 DEF P!Sent, P!SendFails, P!CommandsRefused, P!adapterVars, P!sendVars
<1>2. program \in PublisherPrograms /\ PTests /\ InOrder /\ log \in Seq(AllItems)
  BY DEF PublisherInv, PTypes
<1>3. /\ s[1] = t /\ P!Busy(s) /\ pc[t] = "busy" /\ P!Part(s) \cap encoding = {} /\ s \in P!AllSteps
  <2>1. s[1] = t /\ P!Busy(s) /\ P!Part(s) \cap encoding = {}
    BY <1>0, <1>1 DEF P!AllEncoded, P!Hook
  <2>2. pc[t] = "busy" /\ at[t] \in DOMAIN program[t]
    BY <1>2, <2>1 DEF P!Busy, PTests
  <2> QED  BY <1>0, <1>2, <2>1, <2>2, StepForm DEF P!Hook
<1>4. /\ UNCHANGED <<P!AllSteps, AllItems>>
      /\ \A r : UNCHANGED <<P!Part(r), P!Messages(r), P!StepOf(r)>>
  BY <1>1, StepsStay
<1>5. /\ \A i \in encoding \cup confirming \cup Logged : i[1] \in P!AllSteps /\ i \in P!Part(i[1]) /\ Begun(i[1])
      /\ \A r \in P!AllSteps : \A i \in P!Part(r) : i[1] = r /\ i \in AllItems
  BY <1>2, ItemForm DEF PublisherInv, PTypes, PSets, Logged
<1>6. kind # "rabbitmq" => \A l \in Logged : l[1] # s
  BY <1>0, <1>2, <1>3 DEF PublisherInv, PSets, P!Passed, P!Hook, PTests
<1>7. CASE P!StepFails(t) /\ kind # "rabbitmq" /\ UNCHANGED log
  <2>1. UNCHANGED Logged /\ InOrder'
    BY <1>2, <1>7 DEF Logged, InOrder, InOrderEncoded, P!BatchInOrder
  <2>2. PTests' /\ \A r \in P!AllSteps : /\ Begun(r) => Begun(r)'
                                         /\ P!Passed(r)' <=> P!Passed(r)
                                         /\ P!Busy(r)' <=> P!Busy(r) /\ r # s
    BY <1>0, <1>1, <1>2, <1>3, <1>7, TestMoves
  <2>3. PTypes'
    BY <1>1, <1>4, <1>7, <2>2 DEF PTypes, PublisherInv
  <2>4. \A i \in encoding : i[1] # s
    BY <1>3, <1>5
  <2>5. PSets'
    BY <1>1, <1>4, <1>5, <1>7, <2>1, <2>2, <2>4 DEF PSets, PublisherInv
  <2> QED  BY <2>1, <2>3, <2>5 DEF PublisherInv
<1>8. CASE P!StepPasses(t) /\ (P!Sent(s) \/ P!CommandsRefused(s))
  <2>1. PTests' /\ \A r \in P!AllSteps : /\ Begun(r) => Begun(r)'
                                         /\ P!Passed(r)' <=> P!Passed(r) \/ r = s
                                         /\ P!Busy(r)' <=> P!Busy(r) /\ r # s
    BY <1>0, <1>1, <1>2, <1>3, <1>8, TestMoves
  <2>2. PICK m \in Nat : P!Messages(s) = 1..m /\ m = Len(P!StepOf(s).messages)
    <3>1. P!StepOf(s) \in PublishSteps
      BY <1>2, <1>3, ItemForm
    <3>2. P!StepOf(s).messages \in Seq([valid : BOOLEAN])
      BY <3>1 DEF PublishSteps
    <3> QED  BY <3>2 DEF P!Messages
  <2>3. \E f : /\ log' = log \o [i \in DOMAIN f |-> <<s, f[i]>>]
               /\ \E n \in Nat : f \in [1..n -> P!Messages(s)]
               /\ \A i, k \in DOMAIN f : i < k => f[i] < f[k]
               /\ kind # "redis" => \A i \in P!Messages(s) : \E k \in DOMAIN f : f[k] = i
    <3>1. CASE P!Sent(s)
      <4> DEFINE f == [i \in P!Messages(s) |-> i]
      <4>1. DOMAIN f = P!Messages(s) /\ \A i \in P!Messages(s) : f[i] = i
        OBVIOUS
      <4>2. log' = log \o [i \in DOMAIN f |-> <<s, f[i]>>]
        BY <3>1, <4>1 DEF P!Sent, P!Whole
      <4>3. f \in [1..m -> P!Messages(s)]
        BY <2>2
      <4>4. \A i, k \in DOMAIN f : i < k => f[i] < f[k]
        BY <4>1
      <4> HIDE DEF f
      <4> QED  BY <2>2, <4>1, <4>2, <4>3, <4>4
    <3>2. CASE P!CommandsRefused(s)
      <4>1. PICK f \in P!Subsequences(s) : log' = log \o [i \in DOMAIN f |-> <<s, f[i]>>]
        BY <3>2 DEF P!CommandsRefused
      <4>2. \A i, k \in DOMAIN f : i < k => f[i] < f[k]
        BY DEF P!Subsequences
      <4>3. \E n \in Nat : f \in [1..n -> P!Messages(s)]
        <5>1. \E n \in 0..(m - 1) : f \in [1..n -> P!Messages(s)]
          BY <2>2 DEF P!Subsequences
        <5> QED  BY <2>2, <5>1
      <4>4. kind = "redis"
        BY <3>2 DEF P!CommandsRefused
      <4> QED  BY <4>1, <4>2, <4>3, <4>4
    <3> QED  BY <1>8, <3>1, <3>2
  <2>4. PICK f : /\ log' = log \o [i \in DOMAIN f |-> <<s, f[i]>>]
                 /\ \E n \in Nat : f \in [1..n -> P!Messages(s)]
                 /\ \A i, k \in DOMAIN f : i < k => f[i] < f[k]
                 /\ kind # "redis" => \A i \in P!Messages(s) : \E k \in DOMAIN f : f[k] = i
    BY <2>3
  <2> DEFINE batch == [i \in DOMAIN f |-> <<s, f[i]>>]
  <2>5. PICK n \in Nat : f \in [1..n -> P!Messages(s)]
    BY <2>4
  <2>6. DOMAIN batch = 1..n /\ \A i \in 1..n : batch[i] = <<s, f[i]>> /\ f[i] \in P!Messages(s)
    BY <2>5
  <2>7. \A i \in 1..n : batch[i] \in AllItems /\ batch[i] \in P!Part(s)
    <3>1. \A i \in 1..n : batch[i] \in P!Part(s)
      BY <2>6 DEF P!Part
    <3> QED  BY <1>3, <1>5, <3>1
  <2>8. batch \in Seq(AllItems)
    BY <2>6, <2>7
  <2>9. /\ \A i \in DOMAIN batch : batch[i][1] = s
        /\ \A i, k \in DOMAIN batch : i < k => batch[i][2] < batch[k][2]
    BY <2>4, <2>5, <2>6
  <2>10. log' = log \o batch
    BY <2>4
  <2> HIDE DEF batch
  <2>11. kind = "rabbitmq" => DOMAIN batch = {}
    <3>1. ASSUME kind = "rabbitmq" PROVE \A i \in 1..n : FALSE
      BY <1>1, <2>6, <3>1
    <3> QED  BY <2>6, <3>1
  <2>12. \A l \in Logged : l[1] = s => \A i \in DOMAIN batch : l[2] < batch[i][2]
    BY <1>6, <2>11
  <2>13. /\ log' \in Seq(AllItems)
         /\ InOrder'
         /\ Logged' = Logged \cup {batch[i] : i \in DOMAIN batch}
    BY <1>2, <2>8, <2>9, <2>10, <2>12, LogGrows, Zenon
  <2>14. /\ \A l \in Logged' : l \in Logged \/ l[1] = s
         /\ Logged \subseteq Logged'
         /\ kind = "rabbitmq" => Logged' = Logged /\ P!Part(s) = {}
    <3>1. kind = "rabbitmq" => P!Part(s) = {}
      BY <1>1 DEF P!Part
    <3> QED  BY <2>9, <2>11, <2>13, <3>1
  <2>15. kind # "redis" => P!Part(s) \subseteq Logged'
    <3>1. ASSUME kind # "redis", NEW i \in P!Messages(s) PROVE <<s, i>> \in Logged'
      <4>1. PICK k \in DOMAIN f : f[k] = i
        BY <2>4, <3>1
      <4>2. k \in DOMAIN batch /\ batch[k] = <<s, i>>
        BY <2>5, <2>6, <4>1
      <4> QED  BY <2>13, <4>2
    <3> QED  BY <3>1 DEF P!Part
  <2>16. PTypes'
    BY <1>1, <1>4, <2>1, <2>13 DEF PTypes, PublisherInv
  <2>17. /\ \A i \in encoding : i[1] # s
         /\ Begun(s)' /\ P!Passed(s)'
    BY <1>3, <1>5, <2>1 DEF Begun, P!Passed
  <2>18. \A l \in Logged' : Begun(l[1])'
    BY <1>5, <2>1, <2>14, <2>17
  <2>19. kind # "rabbitmq" => \A l \in Logged' : P!Passed(l[1])'
    BY <1>5, <2>1, <2>14, <2>17 DEF PublisherInv, PSets
  <2>20. PSets'
    BY <1>1, <1>4, <1>5, <2>1, <2>14, <2>15, <2>17, <2>18, <2>19 DEF PSets, PublisherInv
  <2> QED  BY <2>13, <2>16, <2>20 DEF PublisherInv
<1> QED  BY <1>1, <1>7, <1>8

LEMMA PublisherHolds ==
  ASSUME PublisherInv, P!Next
  PROVE  PublisherInv'
<1>1. program \in PublisherPrograms /\ PTests
  BY DEF PublisherInv, PTypes
<1>2. CASE P!doStart \/ P!doStop
  BY <1>1, <1>2, TestIdles DEF P!doStart, P!doStop, P!Quiet, P!Active, P!testVars, P!sendVars, P!hookVars, PTests
<1>3. ASSUME NEW t \in Tests, P!Base(P!TestStep(t)) PROVE PublisherInv'
  <2>1. UNCHANGED <<kind, adapter, encoding, confirming, log>>
    BY <1>3 DEF P!Base, P!adapterVars, P!sendVars
  <2>2. pc[t] # "waiting" /\ ~P!HookStep(t)
    <3>1. program[t] \in Seq(PublishSteps) /\ at[t] \in Nat \ {0}
      BY <1>1, BrokersAssumption DEF PTests
    <3>2. P!HasStep(t) => P!Step(t) \in PublishSteps
      BY <3>1 DEF P!HasStep, P!Step
    <3>3. P!HasStep(t) => P!Step(t).mode # "hook"
      BY <3>2 DEF PublishSteps
    <3> QED  BY <1>1, <3>3 DEF PTests, P!HookStep
  <2>3. UNCHANGED <<program, at>> /\ \/ pc[t] = "idle" /\ pc' = [pc EXCEPT ![t] = "ready"]
                                     \/ pc[t] = "ready" /\ pc' = [pc EXCEPT ![t] = "cleanup"]
                                     \/ pc[t] = "cleanup" /\ pc' = [pc EXCEPT ![t] = "done"]
    BY <1>3, <2>2 DEF P!Base, P!TestStep, P!BeginTest, P!StepsDone, P!ClearHooks,
                      P!WaitResolved, P!WaitRejected, P!WaitTimeout
  <2> QED  BY <1>1, <2>1, <2>3, TestIdles DEF PTests
<1>4. ASSUME NEW t \in Tests, P!executePublish(t) PROVE PublisherInv'
  BY <1>4, PublishBegins
<1>5. ASSUME NEW j \in encoding, P!Encoded(j) \/ P!EncodeFails(j) PROVE PublisherInv'
  BY <1>5, PublishEncoded, PublishNotEncoded
<1>6. ASSUME NEW j \in confirming, P!Confirmed(j) \/ P!Refused(j) PROVE PublisherInv'
  BY <1>6, PublishConfirmed, PublishRefused
<1>7. ASSUME NEW t \in Tests, P!Sent(P!Hook(t)) \/ P!SendFails(P!Hook(t)) \/ P!CommandsRefused(P!Hook(t))
      PROVE  PublisherInv'
  BY <1>7, PublishSent
<1> QED  BY <1>2, <1>3, <1>4, <1>5, <1>6, <1>7 DEF P!Next

-----------------------------------------------------------------------------
(* All of them                                                             *)

BrokersInv ==
  /\ component \in {"kafka", "explicit"} => KMember
  /\ component = "explicit" => ExplicitInv
  /\ component = "rabbitmq" => RabbitInv /\ RMsgs /\ R!HandedRight
  /\ component = "redis" => RedisInv
  /\ component = "publisher" => PublisherInv
  /\ component = "factory" => FactoryInv
  /\ component = "codec" => CodecInv

LEMMA BrokersBegin ==
  ASSUME Init
  PROVE  BrokersInv
<1>1. ASSUME K!Init PROVE KMember /\ (component = "explicit" => ExplicitInv)
  <2>1. KMember
    BY <1>1, BrokersAssumption DEF K!Init, KMember, K!Consumers
  <2>2. ETypes
    BY <1>1 DEF K!Init, ETypes, Offset, E!Offsets, E!Consumers, K!Consumers
  <2>3. EHeld
    BY <1>1 DEF K!Init, EHeld, Fetched
  <2>4. EOffsets
    BY <1>1 DEF K!Init, EOffsets, EGiven, E!OffsetsPreserved, E!Consumers, K!Consumers
  <2> QED  BY <2>1, <2>2, <2>3, <2>4 DEF ExplicitInv
<1>2. ASSUME R!Init PROVE RabbitInv /\ RMsgs /\ R!HandedRight
  <2>0. <<>> \in Seq(Patterns) /\ <<>> \in Seq(RMessages) /\ DOMAIN <<>> = {}
    OBVIOUS
  <2>1. RabbitInv
    BY <1>2, <2>0 DEF R!Init, RabbitInv, RTypes, RBound, R!Held, R!idle
  <2>2. RMsgs /\ R!HandedRight
    BY <1>2, <2>0 DEF R!Init, RMsgs, ROrder, R!HandedRight
  <2> QED  BY <2>1, <2>2
<1>3. ASSUME D!Init PROVE RedisInv
  BY <1>3 DEF D!Init, RedisInv, D!idle, Served
<1>4. ASSUME P!Init PROVE PublisherInv
  <2>0. <<>> \in Seq(AllItems) /\ DOMAIN <<>> = {}
    OBVIOUS
  <2>1. program \in PublisherPrograms /\ kind \in Kinds
    BY <1>4 DEF P!Init, P!BaseInit
  <2>2. PTypes /\ InOrder
    BY <1>4, <2>0, <2>1 DEF P!Init, P!BaseInit, PTypes, PTests, InOrder, P!BatchInOrder
  <2>3. \A s \in P!AllSteps : ~P!Passed(s) /\ ~P!Busy(s)
    <3>1. ASSUME NEW s \in P!AllSteps PROVE ~P!Passed(s) /\ ~P!Busy(s)
      <4>1. s[1] \in Tests /\ s[2] \in DOMAIN program[s[1]]
        BY <2>1, StepForm
      <4>2. program[s[1]] \in Seq(PublishSteps)
        BY <2>1, <4>1, BrokersAssumption
      <4>3. s[2] \in 1..Len(program[s[1]])
        BY <4>1, <4>2
      <4> QED  BY <1>4, <4>1, <4>3 DEF P!Init, P!BaseInit, P!Passed, P!Busy
    <3> QED  BY <3>1
  <2>4. PSets
    BY <1>4, <2>0, <2>3 DEF P!Init, PSets, Logged
  <2> QED  BY <2>2, <2>4 DEF PublisherInv
<1>5. ASSUME M!Init PROVE FactoryInv
  <2>0. <<>> \in Seq(Creators) /\ DOMAIN <<>> = {}
    OBVIOUS
  <2>1. FTypes /\ FOne
    BY <1>5, <2>0 DEF M!Init, FTypes, FOne, M!Ready, Stages
  <2> QED  BY <1>5, <2>0, <2>1 DEF M!Init, FactoryInv, FKafka, Left, FRedis, FRabbit
<1>6. ASSUME C!Init PROVE CodecInv
  <2>1. \E n \in Nat : DOMAIN bindings = 1..n
    <3>1. CASE bindings = <<"json">>
      <4>1. DOMAIN bindings = 1..1
        BY <3>1
      <4> QED  BY <4>1
    <3>2. CASE bindings \in UNION {[1..n -> Matchers \X (Types \cup {"typo"})] : n \in 0..MaxBindings}
      <4>1. PICK n \in 0..MaxBindings : bindings \in [1..n -> Matchers \X (Types \cup {"typo"})]
        BY <3>2
      <4> QED  BY <4>1
    <3> QED  BY <1>6, <3>1, <3>2 DEF C!Init
  <2> QED  BY <1>6, <2>1 DEF C!Init, CodecInv, C!DecodedAsEncoded
<1> QED  BY <1>1, <1>2, <1>3, <1>4, <1>5, <1>6 DEF Init, BrokersInv

LEMMA BrokersStutter ==
  ASSUME BrokersInv, UNCHANGED vars
  PROVE  BrokersInv'
<1> USE DEF BrokersInv, vars
<1>1. component \in {"kafka", "explicit"} => KMember'
  BY DEF KMember, kafkaVars, subscriberVars
<1>2. component = "explicit" => ExplicitInv'
  <2>1. ASSUME ExplicitInv PROVE ETypes' /\ EHeld' /\ EOffsets'
    BY <2>1 DEF ExplicitInv, ETypes, EHeld, Fetched, EOffsets, EGiven, E!OffsetsPreserved, E!Consumers,
        kafkaVars, subscriberVars
  <2> QED  BY <1>1, <2>1 DEF ExplicitInv
<1>3. component = "rabbitmq" => RabbitInv' /\ RMsgs' /\ R!HandedRight'
  <2>1. component = "rabbitmq" => RabbitInv'
    BY DEF RabbitInv, RTypes, RBound, R!Held, subscriberVars, queueVars
  <2>2. component = "rabbitmq" => RMsgs' /\ R!HandedRight'
    BY HandStays DEF subscriberVars, queueVars
  <2> QED  BY <2>1, <2>2
<1>4. component = "redis" => RedisInv'
  BY DEF RedisInv, Served, subscriberVars, queueVars
<1>5. component = "publisher" => PublisherInv'
  BY TestIdles DEF PublisherInv, PTypes, PTests, publisherVars
<1>6. component = "factory" => FactoryInv'
  BY DEF FactoryInv, FTypes, FOne, M!Ready, FKafka, Left, FRedis, FRabbit, M!own, M!conn, M!shared, M!Listed, ListOf,
      factoryVars
<1>7. component = "codec" => CodecInv'
  BY DEF CodecInv, C!Json, C!Stable, First, C!For, C!Kind, C!DecodedAsEncoded, C!DecodedAlways,
      codecVars, queueVars
<1> QED  BY <1>1, <1>2, <1>3, <1>4, <1>5, <1>6, <1>7

LEMMA BrokersStep ==
  ASSUME BrokersInv, [Next]_vars
  PROVE  BrokersInv'
<1> USE DEF BrokersInv
<1>1. CASE KStep(K!Next)
  BY <1>1, KafkaMembers DEF KStep, NotSubscribing
<1>2. CASE EStep(E!Next)
  <2>1. component = "explicit" /\ component' = "explicit" /\ E!Next
    BY <1>2 DEF EStep, NotSubscribing
  <2>2. KMember' /\ ETypes' /\ EHeld' /\ EOffsets'
    BY <2>1, KafkaMembers, ExplicitTypes, ExplicitHeld, ExplicitOffsets DEF ExplicitInv
  <2> QED  BY <2>1, <2>2 DEF ExplicitInv
<1>3. CASE RStep(R!Next)
  BY <1>3, RabbitHolds, RabbitHands DEF RStep, NotSubscribing
<1>4. CASE DStep(D!Next)
  BY <1>4, RedisHolds DEF DStep, NotSubscribing
<1>5. CASE PStep(P!Next)
  BY <1>5, PublisherHolds DEF PStep, Others
<1>6. CASE MStep(M!Next)
  <2>1. component = "factory" /\ component' = "factory" /\ M!Next
    BY <1>6 DEF MStep, Others
  <2>2. FactoryInv'
    <3>1. FactoryInv /\ UNCHANGED kind
      <4>1. M!Next => UNCHANGED kind
        BY DEF M!Next, M!createKafka, M!createRedis, M!createRabbit, M!Begins, M!Dialed, M!Connected, M!CreateFails,
               M!Closed, M!ConnectionLost, M!dispose, M!DisposeStep, M!CloseNext, M!PublishersClosed,
               M!SubscribersClosed, M!KafkaSubscriberClosed, M!KafkaSubscribersSettled, M!Restarted,
               M!Swept, M!SharedClosed, M!ClientQuits
      <4> QED  BY <2>1, <4>1
    <3>2. FTypes' /\ FOne'
      BY <2>1, <3>1, FactoryTypes, FactoryOne
    <3> QED  BY <2>1, <3>1, <3>2, KafkaFactory, RedisFactory, RabbitFactory DEF FactoryInv
  <2> QED  BY <2>1, <2>2
<1>7. CASE CStep(C!Next)
  BY <1>7, CodecHolds DEF CStep
<1>8. CASE UNCHANGED vars
  BY <1>8, BrokersStutter
<1> QED  BY <1>1, <1>2, <1>3, <1>4, <1>5, <1>6, <1>7, <1>8 DEF Next

LEMMA BrokersInvHolds == Spec => []BrokersInv
<1>1. Init => BrokersInv
  BY BrokersBegin
<1>2. BrokersInv /\ [Next]_vars => BrokersInv'
  BY BrokersStep
<1> QED  BY <1>1, <1>2, PTL DEF Spec

\* Between calls the broker delivers what the subscriber holds, for the Kafka,
\* RabbitMQ and Redis adapters, whatever is refused or cut off on the way and however
\* many messages, topics and consumers there are; for Kafka, topics that are never
\* unsubscribed.
THEOREM HeldDelivered == Spec => []HeldIsDelivered
<1>1. BrokersInv => HeldIsDelivered
  <2>1. ASSUME ExplicitInv PROVE E!ActiveDelivered
    BY <2>1 DEF ExplicitInv, EHeld, Fetched, E!ActiveDelivered
  <2>2. ASSUME RabbitInv PROVE R!HeldIsBound
    BY <2>2 DEF RabbitInv, RBound, R!HeldIsBound, R!idle
  <2>3. ASSUME RedisInv PROVE D!HeldIsSubscribed
    BY <2>3 DEF RedisInv, Served, D!HeldIsSubscribed, D!idle
  <2> QED  BY <2>1, <2>2, <2>3 DEF BrokersInv, HeldIsDelivered
<1> QED  BY <1>1, BrokersInvHolds, PTL

\* Kafka topics keep their offsets over the restarts of the consumer, and the
\* group never has two members; a message of RabbitMQ is handed once, under a
\* pattern that it matches; and a message is decoded as the type it was encoded
\* with, whatever else its codec served in between.
THEOREM MessagesRight == Spec => []RightMessages
<1>1. BrokersInv => RightMessages
  <2>1. ASSUME KMember PROVE K!OneMember
    BY <2>1 DEF KMember, K!OneMember
  <2>2. ASSUME ExplicitInv PROVE E!OffsetsPreserved
    BY <2>2 DEF ExplicitInv, EOffsets
  <2>3. ASSUME CodecInv PROVE C!DecodedAsEncoded
    BY <2>3 DEF CodecInv
  <2> QED  BY <2>1, <2>2, <2>3 DEF BrokersInv, RightMessages
<1> QED  BY <1>1, BrokersInvHolds, PTL

\* A publish step that passed was accepted whole by Kafka and RabbitMQ, whichever
\* steps, encodings, confirmations and refusals are interleaved.
THEOREM BatchesWhole == Spec => [](component = "publisher" /\ kind # "redis" => P!PassedIsAccepted)
<1>1. BrokersInv => (component = "publisher" /\ kind # "redis" => P!PassedIsAccepted)
  <2>1. ASSUME PublisherInv, kind # "redis", NEW s \in P!AllSteps, P!Passed(s), NEW i \in P!Messages(s)
        PROVE  \E n \in DOMAIN log : log[n] = <<s, i>>
    <3>1. <<s, i>> \in P!Part(s)
      BY DEF P!Part
    <3>2. <<s, i>> \in Logged
      BY <2>1, <3>1 DEF PublisherInv, PSets
    <3> QED  BY <3>2 DEF Logged
  <2> QED  BY <2>1 DEF BrokersInv, P!PassedIsAccepted, P!Accepted
<1> QED  BY <1>1, BrokersInvHolds, PTL

\* And what a broker accepted of a batch is in the order of the batch, also of
\* one that failed on the way; provided RabbitMQ, which gets each message when
\* its encoding ends, is not used with an asynchronous codec.
THEOREM BatchesInOrder == ASSUME InOrderEncoded PROVE Spec => []PublishedWhole
<1>1. BrokersInv => (component = "publisher" => P!BatchInOrder)
  BY DEF BrokersInv, PublisherInv, InOrder
<1> QED  BY <1>1, BrokersInvHolds, BatchesWhole, PTL DEF PublishedWhole

\* The adapters of RabbitMQ are made one after the other: those that are made
\* at once may each open a connection, and dispose() closes the last one only.
OneConnection == "rabbitmq" \notin Overlapping

\* A dispose() that resolves leaves nothing open of what the factory opened, but
\* for the consumers of Kafka that were replaced or did not disconnect; and the
\* close() of a Redis or RabbitMQ subscriber nothing of its own.
THEOREM DisposeReleasesAll ==
  ASSUME OneConnection
  PROVE  Spec => []Releases
<1>1. BrokersInv => Releases
  <2>1. ASSUME FactoryInv PROVE M!DisposeReleases
    <3>1. CASE kind = "kafka"
      BY <2>1, <3>1 DEF FactoryInv, FKafka, Left, M!DisposeReleases
    <3>2. CASE kind # "kafka"
      BY <2>1, <3>2, BrokersAssumption DEF OneConnection, FactoryInv, FRedis, FRabbit, M!DisposeReleases
    <3> QED  BY <3>1, <3>2
  <2>2. ASSUME RedisInv PROVE D!CloseReleases
    BY <2>2 DEF RedisInv, D!CloseReleases
  <2>3. ASSUME RabbitInv PROVE R!CloseReleases
    BY <2>3 DEF RabbitInv, RBound, R!CloseReleases
  <2> QED  BY <2>1, <2>2, <2>3 DEF BrokersInv, Releases
<1> QED  BY <1>1, BrokersInvHolds, PTL
==============================================================================
