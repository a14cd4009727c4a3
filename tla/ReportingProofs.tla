--------------------------- MODULE ReportingProofs ---------------------------
(***************************************************************************)
(* Proofs about Reporting, for any test cases, plans, steps, payload keys  *)
(* and runs, and any callbacks from which another reporter throws.         *)
(***************************************************************************)
EXTENDS Reporting, SequenceTheorems, FiniteSetTheorems, WellFoundedInduction, TLAPS

Places    == {"idle", "building", "steps", "ended", "ending", "over", "thrown"}
Done(t)   == pc[t] \in {"over", "thrown"}

\* of nothing but how long it is
IsSeq(s) == \E S : s \in Seq(S)

Payloads(rs) == IsSeq(rs) /\ \A i \in 1..Len(rs) : rs[i].payload \in SUBSET Keys

Types ==
  /\ phase \in {"idle", "running", "stopping"} /\ runs \in Nat /\ ahead \in BOOLEAN
  /\ pc \in [Tests -> Places]
  /\ metadata \in [Tests -> [Steps -> SUBSET Keys]]
  /\ DOMAIN results = Tests /\ \A t \in Tests : Payloads(results[t])
  /\ DOMAIN verdict = Tests
  /\ allure = [uuids |-> allure.uuids, currentSteps |-> allure.currentSteps]
  /\ IsSeq(allure.uuids) /\ IsSeq(allure.currentSteps)
  /\ IsSeq(files)

\* No file is of a later run, and a result is of a test case that is over.
FilesInv ==
  \A n \in 1..Len(files) :
    /\ files[n].file # "attachment" => files[n].run \in Nat /\ files[n].run <= runs
    /\ IsResult(n) => files[n].test \in Tests /\ Done(files[n].test) /\ ResultTrue(n)
    /\ IsContainer(n) => phase = "idle" /\ ContainerTrue(n)

\* The uuids are those of the results of this run, once each.
UuidsInv ==
  phase # "idle" =>
    /\ \A i \in 1..Len(allure.uuids) : allure.uuids[i] \in 1..Len(files) /\ IsResult(allure.uuids[i])
    /\ \A i, j \in 1..Len(allure.uuids) : allure.uuids[i] = allure.uuids[j] => i = j

\* Those are the test cases that are over, and run() returns when all are,
\* unless a reporter rejected one; then run() has no results.
Told == {files[allure.uuids[i]].test : i \in 1..Len(allure.uuids)}
CompleteInv ==
  /\ phase = "running" => returned = {} /\ \A t \in Tests : pc[t] = "idle" \/ InGroup(t)
  /\ Rejected => returned = {}
  /\ ~Rejected =>
       /\ phase # "idle" => Told = {t \in Tests : pc[t] = "over"}
       /\ phase # "running" => \A t \in Tests : Over(t)
       /\ returned # {} => returned = {t \in Tests : pc[t] = "over"}

ReportInv == Types /\ FilesInv /\ UuidsInv /\ CompleteInv

-----------------------------------------------------------------------------
(* Sequences and sets                                                      *)

LEMMA Induction ==
  ASSUME NEW P, 0 \in P, \A n \in Nat : n \in P => n + 1 \in P
  PROVE  Nat \subseteq P
<1> DEFINE Others == Nat \ P
<1> SUFFICES ASSUME Others # {} PROVE FALSE
  OBVIOUS
<1>1. IsWellFoundedOn(OpToRel(<, Nat), Nat)
  BY NatLessThanWellFounded
<1>2. PICK n \in Others : \A m \in Others : ~(<<m, n>> \in OpToRel(<, Nat))
  BY <1>1, WFMin, Zenon
<1>3. n \in Nat /\ n # 0 /\ n - 1 \in Nat
  OBVIOUS
<1>4. n - 1 \notin P
  BY <1>3
<1>5. n - 1 \in Others /\ n - 1 < n
  BY <1>3, <1>4
<1> HIDE DEF Others
<1>6. <<n - 1, n>> \in OpToRel(<, Nat)
  BY <1>3, <1>5 DEF OpToRel
<1> QED  BY <1>2, <1>5, <1>6

LEMMA SeqParts ==
  ASSUME NEW s, IsSeq(s)
  PROVE  Len(s) \in Nat /\ DOMAIN s = 1..Len(s)
<1>1. PICK S : s \in Seq(S)
  BY DEF IsSeq
<1> QED  BY <1>1

LEMMA Emptied == IsSeq(<<>>) /\ Len(<<>>) = 0
<1>1. <<>> \in Seq({}) /\ Len(<<>>) = 0
  BY EmptySeq
<1> QED  BY <1>1 DEF IsSeq

LEMMA Joined ==
  ASSUME NEW s, IsSeq(s), NEW u, IsSeq(u)
  PROVE  /\ IsSeq(s \o u) /\ Len(s \o u) = Len(s) + Len(u)
         /\ \A i \in 1..Len(s) : (s \o u)[i] = s[i]
         /\ \A i \in 1..Len(u) : (s \o u)[Len(s) + i] = u[i]
<1>1. PICK S : s \in Seq(S)
  BY DEF IsSeq
<1>2. PICK U : u \in Seq(U)
  BY DEF IsSeq
<1>3. s \in Seq(S \cup U) /\ u \in Seq(S \cup U)
  BY <1>1, <1>2, SeqMonotonic
<1>4. /\ s \o u \in Seq(S \cup U) /\ Len(s \o u) = Len(s) + Len(u)
      /\ \A i \in 1..(Len(s) + Len(u)) : (s \o u)[i] = IF i <= Len(s) THEN s[i] ELSE u[i - Len(s)]
  BY <1>3, ConcatProperties, Zenon
<1>5. Len(s) \in Nat /\ Len(u) \in Nat
  BY SeqParts
<1>6. \A i \in 1..Len(s) : (s \o u)[i] = s[i]
  BY <1>4, <1>5
<1>7. ASSUME NEW i \in 1..Len(u) PROVE (s \o u)[Len(s) + i] = u[i]
  <2>1. /\ Len(s) + i \in 1..(Len(s) + Len(u)) /\ ~(Len(s) + i <= Len(s))
        /\ (Len(s) + i) - Len(s) = i
    BY <1>5
  <2>2. (s \o u)[Len(s) + i] = u[(Len(s) + i) - Len(s)]
    BY <1>4, <2>1
  <2> QED  BY <2>1, <2>2
<1>8. IsSeq(s \o u)
  BY <1>4 DEF IsSeq
<1> QED  BY <1>4, <1>6, <1>7, <1>8

LEMMA Appended ==
  ASSUME NEW s, IsSeq(s), NEW e
  PROVE  /\ IsSeq(Append(s, e)) /\ Len(Append(s, e)) = Len(s) + 1
         /\ \A i \in 1..Len(s) : Append(s, e)[i] = s[i]
         /\ Append(s, e)[Len(s) + 1] = e
<1>1. PICK S : s \in Seq(S)
  BY DEF IsSeq
<1>2. s \in Seq(S \cup {e})
  BY <1>1, SeqMonotonic
<1>3. Append(s, e) \in Seq(S \cup {e})
  BY <1>2
<1>4. /\ Len(Append(s, e)) = Len(s) + 1
      /\ \A i \in 1..Len(s) : Append(s, e)[i] = s[i]
      /\ Append(s, e)[Len(s) + 1] = e
  BY <1>2
<1> QED  BY <1>3, <1>4 DEF IsSeq

\* SetToSeq has each element of a finite set at some place.
LEMMA Listed ==
  ASSUME NEW S, IsFiniteSet(S)
  PROVE  IsSeq(SetToSeq(S)) /\ {SetToSeq(S)[i] : i \in 1..Len(SetToSeq(S))} = S
<1> DEFINE n == Cardinality(S)
           q == SetToSeq(S)
<1>1. n \in Nat /\ ExistsBijection(1..n, S)
  BY FS_CardinalityType
<1>2. \E f \in [1..n -> S] : IsInjective(f)
  BY <1>1 DEF ExistsBijection, Bijection, Injection
<1>3. q \in [1..n -> S] /\ IsInjective(q)
  BY <1>2, Zenon DEF SetToSeq
<1>4. q \in Injection(1..n, S)
  BY <1>3 DEF Injection
<1>5. Cardinality(1..n) = n
  BY <1>1, FS_Interval
<1>6. q \in Surjection(1..n, S)
  BY <1>4, <1>5, FS_Injection
<1>7. q \in Seq(S) /\ Len(q) = n
  <2> HIDE DEF q, n
  <2> QED  BY <1>1, <1>3
<1>8. IsSeq(q)
  BY <1>7, Zenon DEF IsSeq
<1> HIDE DEF q, n
<1>9. {q[i] : i \in 1..Len(q)} = S
  BY <1>3, <1>6, <1>7 DEF Surjection
<1> QED  BY <1>8, <1>9 DEF q

-----------------------------------------------------------------------------
(* What the converter writes                                               *)

Grows(f, g) == IsSeq(g) /\ Len(f) <= Len(g) /\ \A n \in 1..Len(f) : g[n] = f[n]

OnlyAttachments(t, f, g) ==
  \A n \in 1..Len(g) : n > Len(f) => g[n].file = "attachment" /\ g[n].test = t

\* Step s tells what r says, with attachments among the files g.
Shown(t, r, s, g) ==
  /\ s.status = convertStatus(r.error)
  /\ \A m \in s.sources : m \in 1..Len(g) /\ g[m].file = "attachment" /\ g[m].test = t
  /\ {g[m].key : m \in s.sources} = r.payload

LEMMA StepConverted ==
  ASSUME NEW t, NEW r, r.payload \in SUBSET Keys, NEW w, IsSeq(w)
  PROVE  LET one == convertStep(t, r, w)
         IN  /\ Grows(w, one.written) /\ OnlyAttachments(t, w, one.written)
             /\ Shown(t, r, one.step, one.written)
<1> DEFINE q   == SetToSeq(r.payload)
           new == [i \in DOMAIN q |-> writeAttachment(t, q[i])]
           g   == w \o new
           src == (Len(w) + 1)..(Len(w) + Len(q))
<1>1. IsFiniteSet(r.payload)
  BY ReportingAssumption, FS_Subset
<1>2. IsSeq(q) /\ {q[i] : i \in 1..Len(q)} = r.payload
  BY <1>1, Listed
<1>3. Len(q) \in Nat /\ DOMAIN q = 1..Len(q) /\ Len(w) \in Nat
  BY <1>2, SeqParts
<1>4. IsSeq(new) /\ Len(new) = Len(q)
  <2> DEFINE S == {writeAttachment(t, q[i]) : i \in 1..Len(q)}
  <2>1. new \in [1..Len(q) -> S]
    BY <1>3
  <2> HIDE DEF new, S, q
  <2>2. new \in Seq(S) /\ Len(new) = Len(q)
    BY <1>3, <2>1
  <2> QED  BY <2>2 DEF IsSeq
<1>5. /\ IsSeq(g) /\ Len(g) = Len(w) + Len(q)
      /\ \A i \in 1..Len(w) : g[i] = w[i]
      /\ \A i \in 1..Len(q) : g[Len(w) + i] = new[i]
  <2> HIDE DEF new, q
  <2>1. IsSeq(w) /\ IsSeq(new)
    BY <1>4
  <2>2. IsSeq(g)
    BY <2>1, Joined
  <2>3. Len(g) = Len(w) + Len(new)
    BY <2>1, Joined
  <2>4. \A i \in 1..Len(w) : g[i] = w[i]
    BY <2>1, Joined
  <2>5. \A i \in 1..Len(new) : g[Len(w) + i] = new[i]
    BY <2>1, Joined
  <2> QED  BY <1>4, <2>2, <2>3, <2>4, <2>5
<1>6. \A i \in 1..Len(q) : new[i].file = "attachment" /\ new[i].test = t /\ new[i].key = q[i]
  BY <1>3 DEF writeAttachment
<1>7. convertStep(t, r, w) = [step |-> [status |-> convertStatus(r.error), sources |-> src], written |-> g]
  BY DEF convertStep, extractPayload
<1> HIDE DEF q, new, g
<1>8. ASSUME NEW n \in 1..Len(g), n > Len(w)
      PROVE  /\ n - Len(w) \in 1..Len(q) /\ g[n].file = "attachment" /\ g[n].test = t
             /\ g[n].key = q[n - Len(w)]
  <2>1. n - Len(w) \in 1..Len(q) /\ Len(w) + (n - Len(w)) = n
    BY <1>3, <1>5, <1>8
  <2>2. g[n] = new[n - Len(w)]
    BY <1>5, <2>1
  <2> QED  BY <1>6, <2>1, <2>2
<1>9. Grows(w, g)
  BY <1>3, <1>5 DEF Grows
<1>10. OnlyAttachments(t, w, g)
  BY <1>8 DEF OnlyAttachments
<1>11. \A m \in src : m \in 1..Len(g) /\ m > Len(w)
  BY <1>3, <1>5
<1>12. {g[m].key : m \in src} = r.payload
  <2>1. ASSUME NEW m \in src PROVE g[m].key \in r.payload
    BY <1>2, <1>8, <1>11
  <2>2. ASSUME NEW k \in r.payload PROVE \E m \in src : g[m].key = k
    <3>1. PICK i \in 1..Len(q) : q[i] = k
      BY <1>2
    <3>2. Len(w) + i \in src /\ (Len(w) + i) - Len(w) = i
      BY <1>3
    <3>3. g[Len(w) + i].key = q[(Len(w) + i) - Len(w)]
      BY <1>8, <1>11, <3>2
    <3> QED  BY <3>1, <3>2, <3>3
  <2> HIDE DEF src
  <2> QED  BY <2>1, <2>2
<1> HIDE DEF src
<1>13. Shown(t, r, [status |-> convertStatus(r.error), sources |-> src], g)
  BY <1>8, <1>11, <1>12 DEF Shown
<1> QED  BY <1>7, <1>9, <1>10, <1>13

LEMMA GrowsOn ==
  ASSUME NEW t, NEW f, NEW g, NEW h, IsSeq(f), Grows(f, g), Grows(g, h)
  PROVE  /\ Grows(f, h)
         /\ OnlyAttachments(t, f, g) /\ OnlyAttachments(t, g, h) => OnlyAttachments(t, f, h)
<1>1. Len(f) \in Nat /\ Len(g) \in Nat /\ Len(h) \in Nat
  BY SeqParts DEF Grows
<1>2. Grows(f, h)
  BY <1>1 DEF Grows
<1>3. ASSUME OnlyAttachments(t, f, g), OnlyAttachments(t, g, h), NEW n \in 1..Len(h), n > Len(f)
      PROVE  h[n].file = "attachment" /\ h[n].test = t
  <2>1. CASE n \in 1..Len(g)
    BY <1>3, <2>1 DEF Grows, OnlyAttachments
  <2>2. CASE n > Len(g)
    BY <1>3, <2>2 DEF OnlyAttachments
  <2> QED  BY <1>1, <1>3, <2>1, <2>2
<1> QED  BY <1>2, <1>3 DEF OnlyAttachments

LEMMA ShownOn ==
  ASSUME NEW t, NEW r, NEW s, NEW g, NEW h, IsSeq(g), Grows(g, h), Shown(t, r, s, g)
  PROVE  Shown(t, r, s, h)
<1>1. Len(g) \in Nat /\ Len(h) \in Nat
  BY SeqParts DEF Grows
<1>2. \A m \in s.sources : m \in 1..Len(g) /\ m \in 1..Len(h) /\ h[m] = g[m]
  BY <1>1 DEF Grows, Shown
<1>3. {h[m].key : m \in s.sources} = {g[m].key : m \in s.sources}
  BY <1>2
<1> QED  BY <1>2, <1>3 DEF Shown

\* One round of convertSteps.
Round(t, r, last) ==
  [steps   |-> Append(last.steps, convertStep(t, r, last.written).step),
   written |-> convertStep(t, r, last.written).written]

Made(t, rs, acc, n, f) ==
  f = [i \in 0..n |-> IF i = 0 THEN acc ELSE Round(t, rs[i], f[i - 1])]

LEMMA MadeExists ==
  ASSUME NEW t, NEW rs, NEW acc, NEW n \in Nat
  PROVE  \E f : Made(t, rs, acc, n, f)
<1> DEFINE P == {k \in Nat : \E f : Made(t, rs, acc, k, f)}
<1>1. 0 \in P
  <2> DEFINE f == [i \in 0..0 |-> acc]
  <2>1. f = [i \in 0..0 |-> IF i = 0 THEN acc ELSE Round(t, rs[i], f[i - 1])]
    OBVIOUS
  <2> QED  BY <2>1 DEF Made
<1>2. ASSUME NEW k \in Nat, k \in P PROVE k + 1 \in P
  <2>1. PICK f : Made(t, rs, acc, k, f)
    BY <1>2
  <2> DEFINE h == [i \in 0..(k + 1) |-> IF i = k + 1 THEN Round(t, rs[k + 1], f[k]) ELSE f[i]]
  <2>2. ASSUME NEW i \in 0..(k + 1)
        PROVE  h[i] = IF i = 0 THEN acc ELSE Round(t, rs[i], h[i - 1])
    <3>1. CASE i = k + 1
      <4>1. i - 1 = k /\ k \in 0..(k + 1) /\ k # k + 1 /\ i # 0
        BY <3>1
      <4>2. h[i - 1] = f[k]
        BY <4>1
      <4> QED  BY <3>1, <4>1, <4>2
    <3>2. CASE i = 0
      BY <2>1, <3>2 DEF Made
    <3>3. CASE i \in 1..k
      <4>1. i - 1 \in 0..(k + 1) /\ i - 1 # k + 1 /\ i # k + 1 /\ i # 0 /\ i \in 0..k
        BY <3>3
      <4>2. f[i] = Round(t, rs[i], f[i - 1])
        BY <2>1, <4>1 DEF Made
      <4>3. h[i - 1] = f[i - 1] /\ h[i] = f[i]
        BY <4>1
      <4> QED  BY <4>1, <4>2, <4>3
    <3> QED  BY <3>1, <3>2, <3>3
  <2>3. h = [i \in 0..(k + 1) |-> h[i]]
    OBVIOUS
  <2> HIDE DEF h
  <2>4. Made(t, rs, acc, k + 1, h)
    BY <2>2, <2>3 DEF Made
  <2> QED  BY <2>4
<1>3. Nat \subseteq P
  <2> HIDE DEF P
  <2> QED  BY <1>1, <1>2, Induction
<1> QED  BY <1>3

\* Of files there were are the same, what comes is the attachments of the
\* steps, and each step is shown by its own.
LEMMA StepsConverted ==
  ASSUME NEW t, NEW rs, Payloads(rs), NEW acc, IsSeq(acc.steps), IsSeq(acc.written)
  PROVE  LET all == convertSteps(t, rs, acc)
         IN  /\ Grows(acc.written, all.written) /\ OnlyAttachments(t, acc.written, all.written)
             /\ IsSeq(all.steps) /\ Len(all.steps) = Len(acc.steps) + Len(rs)
             /\ \A i \in 1..Len(rs) : Shown(t, rs[i], all.steps[Len(acc.steps) + i], all.written)
<1> DEFINE f == CHOOSE f : Made(t, rs, acc, Len(rs), f)
           N == Len(rs)
           a == Len(acc.steps)
<1>1. N \in Nat /\ \A i \in 1..N : rs[i].payload \in SUBSET Keys
  BY SeqParts DEF Payloads
<1>2. Made(t, rs, acc, N, f)
  BY <1>1, MadeExists, Zenon
<1>3. convertSteps(t, rs, acc) = f[N]
  BY Zenon DEF convertSteps, Made, Round
<1> HIDE DEF f
<1> DEFINE Kept(n) ==
             /\ Grows(acc.written, f[n].written) /\ OnlyAttachments(t, acc.written, f[n].written)
             /\ IsSeq(f[n].steps) /\ Len(f[n].steps) = a + n
             /\ \A i \in 1..n : Shown(t, rs[i], f[n].steps[a + i], f[n].written)
           P == {n \in Nat : n <= N => Kept(n)}
<1>a. a \in Nat /\ Len(acc.written) \in Nat
  BY SeqParts
<1>4. 0 \in P
  <2>1. f[0] = acc
    BY <1>1, <1>2 DEF Made
  <2>2. Grows(acc.written, acc.written) /\ OnlyAttachments(t, acc.written, acc.written)
    BY <1>a DEF Grows, OnlyAttachments
  <2> QED  BY <1>a, <2>1, <2>2
<1>5. ASSUME NEW n \in Nat, n \in P PROVE n + 1 \in P
  <2> SUFFICES ASSUME n + 1 <= N PROVE Kept(n + 1)
    <3> HIDE DEF Kept
    <3> QED  OBVIOUS
  <2> DEFINE w   == f[n].written
             one == convertStep(t, rs[n + 1], w)
             v   == f[n + 1].written
             s   == f[n + 1].steps
  <2>1. /\ Grows(acc.written, w) /\ OnlyAttachments(t, acc.written, w)
        /\ IsSeq(f[n].steps) /\ Len(f[n].steps) = a + n
        /\ \A i \in 1..n : Shown(t, rs[i], f[n].steps[a + i], w)
    BY <1>1, <1>5
  <2>2. n + 1 \in 1..N /\ n + 1 \in 0..N /\ (n + 1) - 1 = n /\ n + 1 # 0
    BY <1>1
  <2>3. f[n + 1] = Round(t, rs[n + 1], f[n])
    BY <1>2, <2>2 DEF Made
  <2>4. v = one.written /\ s = Append(f[n].steps, one.step)
    BY <2>3 DEF Round
  <2>5. IsSeq(w) /\ rs[n + 1].payload \in SUBSET Keys
    BY <1>1, <2>1, <2>2 DEF Grows
  <2>6. Grows(w, v) /\ OnlyAttachments(t, w, v) /\ Shown(t, rs[n + 1], one.step, v)
    BY <2>4, <2>5, StepConverted
  <2>7. /\ IsSeq(s) /\ Len(s) = Len(f[n].steps) + 1
        /\ \A i \in 1..Len(f[n].steps) : s[i] = f[n].steps[i]
        /\ s[Len(f[n].steps) + 1] = one.step
    <3> DEFINE u == f[n].steps
               e == one.step
    <3>1. IsSeq(u) /\ s = Append(u, e)
      BY <2>1, <2>4
    <3> HIDE DEF u, e, s
    <3>2. /\ IsSeq(Append(u, e)) /\ Len(Append(u, e)) = Len(u) + 1
          /\ \A i \in 1..Len(u) : Append(u, e)[i] = u[i]
          /\ Append(u, e)[Len(u) + 1] = e
      BY <3>1, Appended
    <3>3. IsSeq(s) /\ Len(s) = Len(u) + 1 /\ (\A i \in 1..Len(u) : s[i] = u[i]) /\ s[Len(u) + 1] = e
      BY <3>1, <3>2
    <3> QED  BY <3>3 DEF u, e
  <2> HIDE DEF w, one, v, s
  <2>8. Grows(acc.written, v) /\ OnlyAttachments(t, acc.written, v)
    BY <2>1, <2>6, GrowsOn
  <2>9. Len(s) = a + (n + 1)
    <3>1. Len(f[n].steps) = a + n
      BY <2>1
    <3>2. Len(s) = (a + n) + 1
      BY <2>7, <3>1, Zenon
    <3>3. (a + n) + 1 = a + (n + 1)
      <4> HIDE DEF a
      <4> QED  BY <1>a
    <3> QED  BY <3>2, <3>3, Zenon
  <2>10. ASSUME NEW i \in 1..(n + 1) PROVE Shown(t, rs[i], s[a + i], v)
    <3>1. CASE i = n + 1
      <4>1. a + i = Len(f[n].steps) + 1
        <5>1. Len(f[n].steps) = a + n
          BY <2>1
        <5>2. a + (n + 1) = (a + n) + 1
          <6> HIDE DEF a
          <6> QED  BY <1>a
        <5> QED  BY <3>1, <5>1, <5>2, Zenon
      <4>2. s[a + i] = one.step
        BY <2>7, <4>1
      <4> QED  BY <2>6, <3>1, <4>2
    <3>2. CASE i \in 1..n
      <4>1. a + i \in 1..Len(f[n].steps)
        BY <1>a, <2>1, <3>2
      <4>2. s[a + i] = f[n].steps[a + i]
        BY <2>7, <4>1
      <4>3. Shown(t, rs[i], f[n].steps[a + i], w)
        BY <2>1, <3>2
      <4> QED  BY <2>5, <2>6, <4>2, <4>3, ShownOn
    <3> QED  BY <3>1, <3>2
  <2> QED  BY <2>7, <2>8, <2>9, <2>10 DEF v, s
<1>6. Nat \subseteq P
  <2> HIDE DEF P
  <2> QED  BY <1>4, <1>5, Induction
<1>7. N \in P
  BY <1>1, <1>6
<1> QED  BY <1>1, <1>3, <1>7

LEMMA FewPayloads ==
  ASSUME NEW r, r.payload \in SUBSET Keys, NEW u, u.payload \in SUBSET Keys
  PROVE  Payloads(<<>>) /\ Payloads(<<r>>) /\ Payloads(<<r, u>>)
<1>1. <<r>> \in Seq({r}) /\ Len(<<r>>) = 1 /\ <<r>>[1] = r
  OBVIOUS
<1>2. <<r, u>> \in Seq({r, u}) /\ Len(<<r, u>>) = 2 /\ <<r, u>>[1] = r /\ <<r, u>>[2] = u
  OBVIOUS
<1>3. Payloads(<<>>)
  BY Emptied DEF Payloads
<1>4. IsSeq(<<r>>) /\ IsSeq(<<r, u>>)
  BY <1>1, <1>2, Zenon DEF IsSeq
<1>5. \A i \in 1..1 : i = 1
  OBVIOUS
<1>6. \A i \in 1..2 : i = 1 \/ i = 2
  OBVIOUS
<1>7. Payloads(<<r>>)
  BY <1>1, <1>4, <1>5 DEF Payloads
<1>8. Payloads(<<r, u>>)
  BY <1>2, <1>4, <1>6 DEF Payloads
<1> QED  BY <1>3, <1>7, <1>8

LEMMA MorePayloads ==
  ASSUME NEW rs, Payloads(rs), NEW us, Payloads(us), NEW r, r.payload \in SUBSET Keys
  PROVE  Payloads(rs \o us) /\ Payloads(Append(rs, r))
<1>1. Len(rs) \in Nat /\ Len(us) \in Nat
  BY SeqParts DEF Payloads
<1>2. Payloads(rs \o us)
  <2> DEFINE q == rs \o us
  <2>1. /\ IsSeq(q) /\ Len(q) = Len(rs) + Len(us)
        /\ \A i \in 1..Len(rs) : q[i] = rs[i]
        /\ \A i \in 1..Len(us) : q[Len(rs) + i] = us[i]
    BY Joined DEF Payloads
  <2> HIDE DEF q
  <2>2. ASSUME NEW i \in 1..Len(q) PROVE q[i].payload \in SUBSET Keys
    <3>1. CASE i \in 1..Len(rs)
      BY <2>1, <3>1 DEF Payloads
    <3>2. CASE i > Len(rs)
      <4>1. i - Len(rs) \in 1..Len(us) /\ Len(rs) + (i - Len(rs)) = i
        BY <1>1, <2>1, <3>2
      <4>2. q[i] = us[i - Len(rs)]
        BY <2>1, <4>1
      <4> QED  BY <4>1, <4>2 DEF Payloads
    <3> QED  BY <1>1, <2>1, <3>1, <3>2
  <2>3. Payloads(q)
    BY <2>1, <2>2 DEF Payloads
  <2> QED  BY <2>3 DEF q
<1>3. Payloads(Append(rs, r))
  <2> DEFINE q == Append(rs, r)
  <2>1. /\ IsSeq(q) /\ Len(q) = Len(rs) + 1
        /\ \A i \in 1..Len(rs) : q[i] = rs[i]
        /\ q[Len(rs) + 1] = r
    BY Appended DEF Payloads
  <2> HIDE DEF q
  <2>2. ASSUME NEW i \in 1..Len(q) PROVE q[i].payload \in SUBSET Keys
    <3>1. i \in 1..Len(rs) \/ i = Len(rs) + 1
      BY <1>1, <2>1
    <3> QED  BY <2>1, <3>1 DEF Payloads
  <2>3. Payloads(q)
    BY <2>1, <2>2 DEF Payloads
  <2> QED  BY <2>3 DEF q
<1> QED  BY <1>2, <1>3

-----------------------------------------------------------------------------
(* What a step of the model leaves true of the files that there are        *)

\* Test cases that are over keep their results, and what run() returned is not
\* changed once it is over.
Settled ==
  /\ runs' = runs
  /\ \A t \in Tests : Done(t) => Done(t)' /\ results'[t] = results[t] /\ verdict'[t] = verdict[t]
  /\ phase = "idle" => phase' = "idle" /\ returned' = returned

LEMMA ResultsKept ==
  ASSUME Types, FilesInv, Grows(files, files'), Settled, NEW n \in 1..Len(files), IsResult(n)'
  PROVE  IsResult(n) /\ (files[n].test \in Tests /\ Done(files[n].test) /\ ResultTrue(n))'
<1>1. Len(files) \in Nat /\ Len(files') \in Nat /\ DOMAIN files = 1..Len(files)
      /\ DOMAIN files' = 1..Len(files') /\ Len(files) <= Len(files')
  BY SeqParts DEF Types, Grows
<1>2. \A m \in 1..Len(files) : files'[m] = files[m] /\ m \in 1..Len(files')
  BY <1>1 DEF Grows
<1>3. files'[n] = files[n] /\ IsResult(n)
  BY <1>2 DEF IsResult, Settled
<1>4. /\ files[n].test \in Tests /\ Done(files[n].test) /\ ResultTrue(n)
  BY <1>3 DEF FilesInv
<1> PICK t \in Tests : t = files[n].test
  BY <1>4
<1>5. Done(t)' /\ results'[t] = results[t] /\ verdict'[t] = verdict[t]
  BY <1>4 DEF Settled
<1>7. (files[n].test \in Tests /\ Done(files[n].test))'
  BY <1>3, <1>5 DEF Done
<1>6. ResultTrue(n)'
  <2> DEFINE s(i) == files[n].steps[i]
  <2>1. /\ files[n].status = convertStatus(verdict[t]) /\ Len(files[n].steps) = Len(results[t])
        /\ \A i \in DOMAIN results[t] :
             /\ s(i).status = convertStatus(results[t][i].error)
             /\ \A m \in s(i).sources : m \in 1..Len(files) /\ files[m].file = "attachment" /\ files[m].test = t
             /\ {files[m].key : m \in s(i).sources} = results[t][i].payload
    BY <1>1, <1>4 DEF ResultTrue
  <2>2. ASSUME NEW i \in DOMAIN results[t]
        PROVE  /\ \A m \in s(i).sources : m \in DOMAIN files' /\ files'[m].file = "attachment" /\ files'[m].test = t
               /\ {files'[m].key : m \in s(i).sources} = results[t][i].payload
    <3>1. \A m \in s(i).sources : m \in 1..Len(files') /\ files'[m] = files[m]
      BY <1>2, <2>1
    <3>2. {files'[m].key : m \in s(i).sources} = {files[m].key : m \in s(i).sources}
      BY <3>1
    <3> QED  BY <1>1, <2>1, <3>1, <3>2
  <2> QED  BY <1>3, <1>5, <2>1, <2>2 DEF ResultTrue
<1> QED  BY <1>3, <1>6, <1>7

LEMMA FilesKept ==
  ASSUME Types, FilesInv, Grows(files, files'), Settled, NEW n \in 1..Len(files)
  PROVE  /\ files'[n].file # "attachment" => files'[n].run \in Nat /\ files'[n].run <= runs'
         /\ (IsResult(n) => files[n].test \in Tests /\ Done(files[n].test) /\ ResultTrue(n))'
         /\ (IsContainer(n) => phase = "idle" /\ ContainerTrue(n))'
<1>1. Len(files) \in Nat /\ Len(files') \in Nat /\ DOMAIN files = 1..Len(files)
      /\ DOMAIN files' = 1..Len(files') /\ Len(files) <= Len(files')
  BY SeqParts DEF Types, Grows
<1>2. \A m \in 1..Len(files) : files'[m] = files[m] /\ m \in 1..Len(files')
  BY <1>1 DEF Grows
<1>3. files'[n].file # "attachment" => files'[n].run \in Nat /\ files'[n].run <= runs'
  BY <1>2 DEF FilesInv, Settled
<1>4. ASSUME IsContainer(n)' PROVE phase' = "idle" /\ ContainerTrue(n)'
  <2>1. IsContainer(n) /\ files'[n] = files[n]
    BY <1>2, <1>4 DEF IsContainer, Settled
  <2>2. phase = "idle" /\ ContainerTrue(n)
    BY <2>1 DEF FilesInv
  <2>3. phase' = "idle" /\ returned' = returned /\ runs' = runs
    BY <2>2 DEF Settled
  <2> PICK children : children = files[n].children
    OBVIOUS
  <2>4. /\ IsInjective(children)
        /\ \A i \in DOMAIN children : children[i] \in 1..Len(files) /\ IsResult(children[i])
        /\ returned # {} => {files[children[i]].test : i \in DOMAIN children} = returned
    BY <1>1, <2>2 DEF ContainerTrue
  <2>5. \A i \in DOMAIN children : children[i] \in 1..Len(files') /\ files'[children[i]] = files[children[i]]
    BY <1>2, <2>4
  <2>6. {files'[children[i]].test : i \in DOMAIN children} = {files[children[i]].test : i \in DOMAIN children}
    BY <2>5
  <2>7. \A i \in DOMAIN children : children[i] \in DOMAIN files' /\ IsResult(children[i])'
    BY <1>1, <2>3, <2>4, <2>5 DEF IsResult
  <2> QED  BY <2>1, <2>3, <2>4, <2>6, <2>7 DEF ContainerTrue
<1> QED  BY <1>3, <1>4, ResultsKept

LEMMA UuidsKept ==
  ASSUME Types, UuidsInv, phase # "idle", Grows(files, files'), runs' = runs,
         NEW i \in 1..Len(allure.uuids), NEW u, u = allure.uuids[i]
  PROVE  u \in 1..Len(files') /\ IsResult(u)' /\ files'[u] = files[u]
<1>1. Len(files) \in Nat /\ Len(files') \in Nat /\ Len(files) <= Len(files')
  BY SeqParts DEF Types, Grows
<1>2. u \in 1..Len(files) /\ IsResult(u)
  BY DEF UuidsInv
<1>3. files'[u] = files[u]
  BY <1>2 DEF Grows
<1>4. IsResult(u)'
  BY <1>2, <1>3 DEF IsResult
<1> QED  BY <1>1, <1>2, <1>3, <1>4

-----------------------------------------------------------------------------
(* The steps of a test case but for its end                                *)

InTest(t) ==
  /\ UNCHANGED runVars
  /\ ~Done(t)
  /\ pc[t] = "idle" => InGroup(t) /\ (phase = "running" \/ Rejected)
  /\ pc' = [pc EXCEPT ![t] = pc'[t]] /\ pc'[t] \in Places \ {"idle", "over"}
  /\ \A u \in Tests : u # t => results'[u] = results[u] /\ verdict'[u] = verdict[u]
  /\ Grows(files, files') /\ OnlyAttachments(t, files, files')
  /\ allure'.uuids = allure.uuids

LEMMA InTestKeeps ==
  ASSUME ReportInv, NEW t \in Tests, InTest(t)
  PROVE  (FilesInv /\ UuidsInv /\ CompleteInv)'
<1>1. /\ Types /\ FilesInv /\ UuidsInv /\ CompleteInv
      /\ UNCHANGED <<phase, runs, groups, ahead, returned>> /\ pc \in [Tests -> Places]
  BY DEF ReportInv, InTest, runVars, Types
<1>2. \A u \in Tests : u # t => pc'[u] = pc[u]
  BY <1>1 DEF InTest
<1>3. Settled
  BY <1>1, <1>2 DEF Settled, InTest, Done
<1>4. Len(files) \in Nat /\ Len(files') \in Nat
  BY <1>1, SeqParts DEF Types, InTest, Grows
<1>5. FilesInv'
  <2> SUFFICES ASSUME NEW n \in 1..Len(files')
               PROVE  /\ files'[n].file # "attachment" => files'[n].run \in Nat /\ files'[n].run <= runs'
                      /\ (IsResult(n) => files[n].test \in Tests /\ Done(files[n].test) /\ ResultTrue(n))'
                      /\ (IsContainer(n) => phase = "idle" /\ ContainerTrue(n))'
    BY DEF FilesInv
  <2>1. CASE n \in 1..Len(files)
    BY <1>1, <1>3, <2>1, FilesKept DEF InTest
  <2>2. CASE n > Len(files)
    <3>1. files'[n].file = "attachment"
      BY <2>2 DEF InTest, OnlyAttachments
    <3> QED  BY <3>1 DEF IsResult, IsContainer
  <2> QED  BY <1>4, <2>1, <2>2
<1>6. ASSUME phase # "idle", NEW i \in 1..Len(allure.uuids)
      PROVE  /\ allure'.uuids[i] \in 1..Len(files') /\ (IsResult(allure.uuids[i]))'
             /\ files'[allure'.uuids[i]] = files[allure.uuids[i]]
  <2>1. PICK u : u = allure.uuids[i]
    OBVIOUS
  <2>2. u \in 1..Len(files') /\ IsResult(u)' /\ files'[u] = files[u]
    BY <1>1, <1>6, <2>1, UuidsKept DEF InTest
  <2>3. allure'.uuids[i] = u
    BY <2>1 DEF InTest
  <2> QED  BY <2>1, <2>2, <2>3 DEF IsResult
<1>7. UuidsInv'
  <2> SUFFICES ASSUME phase' # "idle"
               PROVE  /\ \A i \in 1..Len(allure'.uuids) :
                           allure'.uuids[i] \in 1..Len(files') /\ (IsResult(allure.uuids[i]))'
                      /\ \A i, j \in 1..Len(allure'.uuids) : allure'.uuids[i] = allure'.uuids[j] => i = j
    BY DEF UuidsInv
  <2>1. phase # "idle" /\ allure'.uuids = allure.uuids
    BY <1>1 DEF InTest
  <2> QED  BY <1>1, <1>6, <2>1 DEF UuidsInv
<1>8. \A u \in Tests : InGroup(u)' <=> InGroup(u)
  BY <1>1 DEF InGroup
<1>9. phase = "running" => returned' = {} /\ \A u \in Tests : pc'[u] = "idle" \/ InGroup(u)'
  <2> SUFFICES ASSUME phase = "running" PROVE returned' = {} /\ \A u \in Tests : pc'[u] = "idle" \/ InGroup(u)'
    OBVIOUS
  <2>1. returned = {} /\ \A u \in Tests : pc[u] = "idle" \/ InGroup(u)
    BY <1>1 DEF CompleteInv
  <2>2. InGroup(t)
    BY <2>1 DEF InTest
  <2> QED  BY <1>1, <1>2, <1>8, <2>1, <2>2
<1>10. Rejected \/ phase = "running"
  BY <1>1 DEF InTest, CompleteInv, Over, Done, Places
<1>11. Rejected => Rejected'
  BY <1>2 DEF InTest, Done, Rejected
<1>12. returned' = {}
  BY <1>1, <1>10 DEF CompleteInv
<1>13. ASSUME ~Rejected'
       PROVE  phase = "running" /\ Told' = {u \in Tests : pc'[u] = "over"}
  <2>1. ~Rejected /\ phase = "running"
    BY <1>10, <1>11, <1>13
  <2>2. Told = {u \in Tests : pc[u] = "over"}
    BY <1>1, <2>1 DEF CompleteInv
  <2>3. pc'[t] # "over" /\ pc[t] # "over"
    BY DEF InTest, Done
  <2>4. {u \in Tests : pc'[u] = "over"} = {u \in Tests : pc[u] = "over"}
    BY <1>2, <2>3
  <2>5. Told' = Told
    <3>1. allure'.uuids = allure.uuids
      BY DEF InTest
    <3>2. \A i \in 1..Len(allure.uuids) : files'[allure'.uuids[i]] = files[allure.uuids[i]]
      BY <1>6, <2>1
    <3> QED  BY <3>1, <3>2 DEF Told
  <2> QED  BY <2>1, <2>2, <2>4, <2>5
<1>14. CompleteInv'
  BY <1>1, <1>9, <1>12, <1>13 DEF CompleteInv
<1> QED  BY <1>5, <1>7, <1>14

LEMMA SameFiles ==
  ASSUME Types, NEW t, UNCHANGED files
  PROVE  Grows(files, files') /\ OnlyAttachments(t, files, files')
<1>1. Len(files) \in Nat
  BY SeqParts DEF Types
<1> QED  BY <1>1 DEF Types, Grows, OnlyAttachments

LEMMA StepCompletes ==
  ASSUME Types, NEW t \in Tests, NEW rs, Payloads(rs), AllureOnStepComplete(t, rs)
  PROVE  /\ Grows(files, files') /\ OnlyAttachments(t, files, files')
         /\ allure'.uuids = allure.uuids /\ IsSeq(allure'.currentSteps)
         /\ allure' = [uuids |-> allure'.uuids, currentSteps |-> allure'.currentSteps]
<1> PICK acc : acc = [steps |-> allure.currentSteps, written |-> files]
  OBVIOUS
<1> PICK all : all = convertSteps(t, rs, acc)
  OBVIOUS
<1>1. IsSeq(acc.steps) /\ IsSeq(acc.written) /\ acc.written = files
  BY DEF Types
<1>2. Grows(acc.written, all.written) /\ OnlyAttachments(t, acc.written, all.written) /\ IsSeq(all.steps)
  BY <1>1, StepsConverted, Zenon
<1>3. allure' = [allure EXCEPT !.currentSteps = all.steps] /\ files' = all.written
  BY Zenon DEF AllureOnStepComplete
<1>4. /\ allure' = [uuids |-> allure.uuids, currentSteps |-> all.steps]
  BY <1>3 DEF Types
<1> QED  BY <1>1, <1>2, <1>3, <1>4

LEMMA InTestSteps ==
  ASSUME ReportInv, NEW t \in Tests,
         \/ ExecuteTestCase(t) \/ Build(t) \/ StepPasses(t) \/ StepFails(t)
         \/ Verdict(t) \/ UnhandledError(t)
         \/ \E i \in Steps, k \in Keys : stampMetadata(t, i, k)
  PROVE  Types' /\ InTest(t)
<1>1. Types /\ pc \in [Tests -> Places] /\ metadata \in [Tests -> [Steps -> SUBSET Keys]]
      /\ DOMAIN verdict = Tests /\ DOMAIN results = Tests /\ (\A u \in Tests : Payloads(results[u]))
  BY DEF ReportInv, Types
<1>2. CASE ExecuteTestCase(t)
  <2>1. /\ pc[t] = "idle" /\ IsNext(t) /\ (phase = "running" \/ Rejected)
        /\ UNCHANGED <<runVars, metadata, results, verdict, files>>
    BY <1>2 DEF ExecuteTestCase
  <2>2. PICK ok \in May("onTestCaseStart") :
          AllureOnTestCaseStart(ok) /\ Goes(t, IF ok THEN "building" ELSE "thrown")
    BY <1>2 DEF ExecuteTestCase
  <2>4. allure' = [uuids |-> allure.uuids, currentSteps |-> allure'.currentSteps]
        /\ (allure'.currentSteps = <<>> \/ allure'.currentSteps = allure.currentSteps)
    BY <1>1, <2>2 DEF Types, AllureOnTestCaseStart
  <2>5. pc' = [pc EXCEPT ![t] = pc'[t]] /\ pc'[t] \in {"building", "thrown"}
    BY <1>1, <2>2 DEF Goes
  <2>6. InGroup(t)
    <3>1. PICK g \in groups : \E i \in DOMAIN g : g[i] = t
      BY <2>1 DEF IsNext
    <3> QED  BY <3>1 DEF InGroup, ToSet
  <2>7. Types'
    BY <1>1, <2>1, <2>4, <2>5, Emptied DEF Types, Places, runVars
  <2>8. allure'.uuids = allure.uuids
    BY <2>4
  <2> QED  BY <1>1, <2>1, <2>5, <2>6, <2>7, <2>8, SameFiles DEF InTest, Places, Done
<1>3. CASE Build(t)
  <2>1. /\ pc[t] = "building" /\ UNCHANGED <<runVars, metadata, results, allure, files>>
        /\ \/ Goes(t, "steps") /\ UNCHANGED verdict
           \/ Goes(t, "ending") /\ verdict' = [verdict EXCEPT ![t] = "other"]
    BY <1>3 DEF Build
  <2>2. /\ pc' = [pc EXCEPT ![t] = pc'[t]] /\ pc'[t] \in {"steps", "ending"}
        /\ DOMAIN verdict' = Tests /\ \A u \in Tests : u # t => verdict'[u] = verdict[u]
    BY <1>1, <2>1 DEF Goes
  <2>3. Types'
    BY <1>1, <2>1, <2>2 DEF Types, Places, runVars
  <2> QED  BY <1>1, <2>1, <2>2, <2>3, SameFiles DEF InTest, Places, Done
<1>a. ASSUME pc[t] = "steps", At(t) <= NSteps, NEW e PROVE toStepInfo(t, e).payload \in SUBSET Keys
  <2>1. Len(results[t]) \in Nat
    BY <1>1, SeqParts DEF Payloads
  <2>2. At(t) \in Steps
    BY <1>a, <2>1 DEF At, Steps
  <2> QED  BY <1>1, <2>2 DEF toStepInfo
<1>4. CASE StepPasses(t)
  <2> PICK passed : passed = toStepInfo(t, "none")
    OBVIOUS
  <2> PICK failed : failed = toStepInfo(t, "other")
    OBVIOUS
  <2>1. pc[t] = "steps" /\ At(t) <= NSteps /\ UNCHANGED <<runVars, metadata>>
    BY <1>4 DEF StepPasses
  <2>2. passed.payload \in SUBSET Keys /\ failed.payload \in SUBSET Keys
    BY <1>a, <2>1
  <2>3. Payloads(<<>>) /\ Payloads(<<passed>>) /\ Payloads(<<failed>>) /\ Payloads(<<passed, failed>>)
    BY <2>2, FewPayloads
  <2>4. Payloads(Append(results[t], passed)) /\ Payloads(results[t] \o <<passed, failed>>)
    BY <1>1, <2>2, <2>3, MorePayloads
  <2>5. /\ \E rs \in {<<>>, <<passed>>, <<failed>>, <<passed, failed>>} : AllureOnStepComplete(t, rs)
        /\ \E rs \in {Append(results[t], passed), results[t] \o <<passed, failed>>, <<>>} :
             results' = [results EXCEPT ![t] = rs]
        /\ \E p \in {"ended", "steps", "ending"} : Goes(t, p)
        /\ UNCHANGED verdict \/ verdict' = [verdict EXCEPT ![t] = "other"]
    <3> HIDE DEF AllureOnStepComplete, Goes
    <3> QED  BY <1>4 DEF StepPasses
  <2>6. /\ Grows(files, files') /\ OnlyAttachments(t, files, files')
        /\ allure'.uuids = allure.uuids /\ IsSeq(allure'.currentSteps)
        /\ allure' = [uuids |-> allure'.uuids, currentSteps |-> allure'.currentSteps]
    BY <1>1, <2>3, <2>5, StepCompletes
  <2>7. DOMAIN results' = Tests /\ (\A u \in Tests : u # t => results'[u] = results[u]) /\ Payloads(results'[t])
    BY <1>1, <2>3, <2>4, <2>5
  <2>8. DOMAIN verdict' = Tests /\ \A u \in Tests : u # t => verdict'[u] = verdict[u]
    BY <1>1, <2>5
  <2>9. pc' = [pc EXCEPT ![t] = pc'[t]] /\ pc'[t] \in {"ended", "steps", "ending"}
    BY <1>1, <2>5 DEF Goes
  <2>10. Types'
    <3>1. UNCHANGED <<phase, runs, ahead, metadata>> /\ pc' \in [Tests -> Places] /\ IsSeq(files')
      BY <1>1, <2>1, <2>6, <2>9 DEF Places, runVars, Grows
    <3>2. \A u \in Tests : Payloads(results'[u])
      BY <1>1, <2>7
    <3>3. IsSeq(allure'.uuids)
      BY <1>1, <2>6 DEF Types
    <3> QED  BY <1>1, <2>6, <2>7, <2>8, <3>1, <3>2, <3>3 DEF Types
  <2> QED  BY <1>1, <2>1, <2>6, <2>7, <2>8, <2>9, <2>10 DEF InTest, Places, Done
<1>5. CASE StepFails(t)
  <2>1. pc[t] = "steps" /\ At(t) <= NSteps /\ UNCHANGED <<runVars, metadata>>
    BY <1>5 DEF StepFails
  <2>2. PICK e \in Errors, ok \in May("onStepComplete") :
          /\ AllureOnStepComplete(t, IF Hears(ok) THEN <<toStepInfo(t, e)>> ELSE <<>>)
          /\ results' = [results EXCEPT ![t] = IF ok THEN Append(@, toStepInfo(t, e)) ELSE <<>>]
          /\ Goes(t, IF ok THEN "ended" ELSE "ending")
          /\ verdict' = [verdict EXCEPT ![t] = IF ok THEN @ ELSE "other"]
    BY <1>5 DEF StepFails
  <2> PICK r : r = toStepInfo(t, e)
    OBVIOUS
  <2>3. r.payload \in SUBSET Keys
    BY <1>a, <2>1
  <2>4. Payloads(<<>>) /\ Payloads(<<r>>) /\ Payloads(Append(results[t], r))
    BY <1>1, <2>3, FewPayloads, MorePayloads
  <2>5. \E rs \in {<<>>, <<r>>} : AllureOnStepComplete(t, rs)
    <3> HIDE DEF AllureOnStepComplete
    <3> QED  BY <2>2
  <2>6. /\ Grows(files, files') /\ OnlyAttachments(t, files, files')
        /\ allure'.uuids = allure.uuids /\ IsSeq(allure'.currentSteps)
        /\ allure' = [uuids |-> allure'.uuids, currentSteps |-> allure'.currentSteps]
    BY <1>1, <2>4, <2>5, StepCompletes
  <2>7. DOMAIN results' = Tests /\ (\A u \in Tests : u # t => results'[u] = results[u]) /\ Payloads(results'[t])
    BY <1>1, <2>2, <2>4
  <2>8. DOMAIN verdict' = Tests /\ \A u \in Tests : u # t => verdict'[u] = verdict[u]
    BY <1>1, <2>2
  <2>9. pc' = [pc EXCEPT ![t] = pc'[t]] /\ pc'[t] \in {"ended", "ending"}
    BY <1>1, <2>2 DEF Goes
  <2>10. Types'
    <3>1. UNCHANGED <<phase, runs, ahead, metadata>> /\ pc' \in [Tests -> Places] /\ IsSeq(files')
      BY <1>1, <2>1, <2>6, <2>9 DEF Places, runVars, Grows
    <3>2. \A u \in Tests : Payloads(results'[u])
      BY <1>1, <2>7
    <3>3. IsSeq(allure'.uuids)
      BY <1>1, <2>6 DEF Types
    <3> QED  BY <1>1, <2>6, <2>7, <2>8, <3>1, <3>2, <3>3 DEF Types
  <2> QED  BY <1>1, <2>1, <2>6, <2>7, <2>8, <2>9, <2>10 DEF InTest, Places, Done
<1>6. CASE Verdict(t) \/ UnhandledError(t)
  <2>1. /\ pc[t] = "ended" /\ Goes(t, "ending") /\ UNCHANGED <<runVars, metadata, results, allure, files>>
        /\ \E v : verdict' = [verdict EXCEPT ![t] = v]
    BY <1>6 DEF Verdict, UnhandledError
  <2>2. DOMAIN verdict' = Tests /\ \A u \in Tests : u # t => verdict'[u] = verdict[u]
    BY <1>1, <2>1
  <2>3. pc' = [pc EXCEPT ![t] = pc'[t]] /\ pc'[t] = "ending"
    BY <1>1, <2>1 DEF Goes
  <2>4. Types'
    BY <1>1, <2>1, <2>2, <2>3 DEF Types, Places, runVars
  <2> QED  BY <1>1, <2>1, <2>2, <2>3, <2>4, SameFiles DEF InTest, Places, Done
<1>7. ASSUME NEW i \in Steps, NEW k \in Keys, stampMetadata(t, i, k)
      PROVE  Types' /\ InTest(t)
  <2>1. /\ pc[t] = "steps" /\ metadata' = [metadata EXCEPT ![t][i] = @ \cup {k}]
        /\ UNCHANGED <<runVars, pc, results, verdict, allure, files>>
    BY <1>7 DEF stampMetadata
  <2>2. metadata' \in [Tests -> [Steps -> SUBSET Keys]]
    BY <1>1, <2>1
  <2>3. pc' = [pc EXCEPT ![t] = pc'[t]]
    BY <1>1, <2>1
  <2>4. Types'
    BY <1>1, <2>1, <2>2 DEF Types, runVars
  <2> QED  BY <1>1, <2>1, <2>3, <2>4, SameFiles DEF InTest, Places, Done
<1> QED  BY <1>2, <1>3, <1>4, <1>5, <1>6, <1>7

-----------------------------------------------------------------------------
(* The end of a test case                                                  *)

\* Its result comes last, and shows its steps.
ResultWritten(t) ==
  /\ Grows(files, files') /\ Len(files') > Len(files)
  /\ \A n \in 1..Len(files') : n > Len(files) /\ n # Len(files') => files'[n].file = "attachment"
  /\ (\E n \in {Len(files)} : files[n] = testResult(t, files[n].steps) /\ ResultTrue(n))'

LEMMA ResultComes ==
  ASSUME Types, NEW t \in Tests, files' = convertTestCase(t, files), UNCHANGED <<results, verdict, runs>>
  PROVE  ResultWritten(t)
<1> PICK acc : acc = [steps |-> <<>>, written |-> files]
  OBVIOUS
<1> PICK all : all = convertSteps(t, results[t], acc)
  OBVIOUS
<1> PICK res : res = testResult(t, all.steps)
  OBVIOUS
<1> PICK w : w = all.written
  OBVIOUS
<1>1. files' = Append(w, res)
  BY Zenon DEF convertTestCase
<1>2. IsSeq(acc.steps) /\ IsSeq(acc.written) /\ acc.written = files /\ Len(acc.steps) = 0
  BY Emptied DEF Types
<1>3. Payloads(results[t])
  BY DEF Types
<1>4. /\ Grows(acc.written, w) /\ OnlyAttachments(t, acc.written, w)
      /\ Len(all.steps) = Len(acc.steps) + Len(results[t])
      /\ \A i \in 1..Len(results[t]) : Shown(t, results[t][i], all.steps[Len(acc.steps) + i], w)
  BY <1>2, <1>3, StepsConverted, Zenon
<1>5. IsSeq(w) /\ Len(w) \in Nat /\ Len(files) \in Nat /\ Len(results[t]) \in Nat
      /\ DOMAIN results[t] = 1..Len(results[t])
  BY <1>3, <1>4, SeqParts DEF Grows, Types, Payloads
<1>6. /\ IsSeq(files') /\ Len(files') = Len(w) + 1
      /\ \A i \in 1..Len(w) : files'[i] = w[i]
      /\ files'[Len(w) + 1] = res
  BY <1>1, <1>5, Appended
<1>7. Grows(w, files')
  BY <1>5, <1>6 DEF Grows
<1>8. Grows(files, w) /\ OnlyAttachments(t, files, w)
  BY <1>2, <1>4
<1>9. Grows(files, files') /\ Len(files') > Len(files)
  <2>1. Grows(files, files')
    BY <1>7, <1>8, GrowsOn DEF Types
  <2> QED  BY <1>5, <1>6, <1>8, <2>1 DEF Grows
<1>10. \A n \in 1..Len(files') : n > Len(files) /\ n # Len(files') => files'[n].file = "attachment"
  BY <1>5, <1>6, <1>8 DEF OnlyAttachments
<1>11. /\ res.file = "result" /\ res.test = t /\ res.run = runs /\ res.status = convertStatus(verdict[t])
       /\ res.steps = all.steps
  BY DEF testResult
<1>12. ASSUME NEW i \in 1..Len(results[t]) PROVE Shown(t, results[t][i], res.steps[i], files')
  <2>1. Len(acc.steps) + i = i
    BY <1>2
  <2>2. Shown(t, results[t][i], all.steps[i], w)
    BY <1>4, <2>1
  <2> QED  BY <1>5, <1>7, <1>11, <2>2, ShownOn
<1>13. Len(res.steps) = Len(results[t])
  BY <1>2, <1>4, <1>5, <1>11
<1> PICK n : n = Len(files')
  OBVIOUS
<1>14. files'[n] = res /\ DOMAIN files' = 1..Len(files')
  BY <1>6, SeqParts
<1>15. ResultTrue(n)'
  <2>1. files'[n].test = t /\ files'[n].status = convertStatus(verdict'[t]) /\ files'[n].steps = res.steps
        /\ results'[t] = results[t]
    BY <1>11, <1>14
  <2>2. ASSUME NEW i \in DOMAIN results[t]
        PROVE  /\ res.steps[i].status = convertStatus(results[t][i].error)
               /\ \A m \in res.steps[i].sources :
                    m \in DOMAIN files' /\ files'[m].file = "attachment" /\ files'[m].test = t
               /\ {files'[m].key : m \in res.steps[i].sources} = results[t][i].payload
    BY <1>5, <1>12, <1>14 DEF Shown
  <2> QED  BY <1>13, <2>1, <2>2 DEF ResultTrue
<1>16. (files[n] = testResult(t, files[n].steps))'
  BY <1>11, <1>14 DEF testResult
<1> QED  BY <1>9, <1>10, <1>15, <1>16 DEF ResultWritten

LEMMA TestEnds ==
  ASSUME ReportInv, NEW t \in Tests, FinishTestCase(t)
  PROVE  ReportInv'
<1>1. /\ Types /\ FilesInv /\ UuidsInv /\ CompleteInv /\ pc \in [Tests -> Places]
      /\ pc[t] = "ending" /\ UNCHANGED <<phase, runs, groups, ahead, returned, metadata, results, verdict>>
  BY DEF ReportInv, FinishTestCase, runVars, Types
<1>2. PICK ok \in May("onTestCaseComplete") :
        AllureOnTestCaseComplete(t, ok) /\ Goes(t, IF ok THEN "over" ELSE "thrown")
  BY DEF FinishTestCase
<1>3. pc' = [pc EXCEPT ![t] = IF ok THEN "over" ELSE "thrown"]
  BY <1>2 DEF Goes
<1>4. Settled
  BY <1>1, <1>3 DEF Settled, Done
<1>5. Done(t)' /\ pc' \in [Tests -> Places]
  BY <1>1, <1>3 DEF Done, Places
<1>6. IsSeq(allure.uuids) /\ Len(allure.uuids) \in Nat /\ Len(files) \in Nat
  BY <1>1, SeqParts DEF Types
<1>9. \A v \in Tests : InGroup(v)' <=> InGroup(v)
  BY <1>1 DEF InGroup
<1>10. phase = "running" => returned' = {} /\ \A v \in Tests : pc'[v] = "idle" \/ InGroup(v)'
  BY <1>1, <1>3, <1>9 DEF CompleteInv
<1>11. returned' = {} /\ (~Rejected => phase = "running")
  BY <1>1 DEF CompleteInv, Over
<1>12. Rejected' => CompleteInv'
  BY <1>1, <1>10, <1>11 DEF CompleteInv
<1>13. ~ok => Rejected'
  BY <1>1, <1>3 DEF Rejected
<1>14. Rejected => Rejected'
  BY <1>1, <1>3 DEF Rejected
<1>7. CASE Hears(ok)
  <2>1. /\ files' = convertTestCase(t, files)
        /\ allure' = [allure EXCEPT !.uuids = Append(@, Len(files'))]
    BY <1>2, <1>7 DEF AllureOnTestCaseComplete
  <2>2. ResultWritten(t)
    BY <1>1, <2>1, ResultComes
  <2> PICK last : last = Len(files')
    OBVIOUS
  <2>3. /\ Grows(files, files') /\ last > Len(files) /\ last \in Nat /\ last = Len(files')
        /\ \A n \in 1..last : n > Len(files) /\ n # last => files'[n].file = "attachment"
        /\ files'[last].file = "result" /\ files'[last].test = t /\ files'[last].run = runs
        /\ ResultTrue(last)'
    BY <1>1, <2>2, SeqParts DEF ResultWritten, testResult, Grows
  <2>4. allure' = [uuids |-> Append(allure.uuids, last), currentSteps |-> allure.currentSteps]
    BY <1>1, <2>1 DEF Types
  <2> PICK u : u = allure.uuids
    OBVIOUS
  <2>5. /\ IsSeq(allure'.uuids) /\ Len(allure'.uuids) = Len(u) + 1
        /\ \A i \in 1..Len(u) : allure'.uuids[i] = u[i]
        /\ allure'.uuids[Len(u) + 1] = last
    BY <1>6, <2>4, Appended
  <2>6. Types'
    BY <1>1, <1>5, <2>3, <2>4, <2>5 DEF Types, Grows
  <2>7. IsResult(last)'
    BY <1>1, <2>3 DEF IsResult
  <2>8. FilesInv'
    <3> SUFFICES ASSUME NEW n \in 1..Len(files')
                 PROVE  /\ files'[n].file # "attachment" => files'[n].run \in Nat /\ files'[n].run <= runs'
                        /\ (IsResult(n) => files[n].test \in Tests /\ Done(files[n].test) /\ ResultTrue(n))'
                        /\ (IsContainer(n) => phase = "idle" /\ ContainerTrue(n))'
      BY DEF FilesInv
    <3>1. CASE n \in 1..Len(files)
      BY <1>1, <1>4, <2>3, <3>1, FilesKept
    <3>2. CASE n > Len(files) /\ n # last
      BY <2>3, <3>2 DEF IsResult, IsContainer
    <3>3. CASE n = last
      <4>1. runs' \in Nat /\ runs' = runs
        BY <1>1 DEF Types
      <4>2. ~IsContainer(n)'
        BY <2>3, <3>3 DEF IsContainer
      <4>3. (files[n].test \in Tests /\ Done(files[n].test))'
        BY <1>5, <2>3, <3>3 DEF Done
      <4> QED  BY <2>3, <3>3, <4>1, <4>2, <4>3
    <3> QED  BY <1>6, <2>3, <3>1, <3>2, <3>3
  <2>9. ASSUME phase # "idle", NEW i \in 1..Len(u)
        PROVE  /\ allure'.uuids[i] \in 1..Len(files') /\ (IsResult(allure.uuids[i]))'
               /\ files'[allure'.uuids[i]] = files[u[i]] /\ allure'.uuids[i] = u[i] /\ u[i] # last
    <3>1. PICK v : v = u[i]
      OBVIOUS
    <3>2. v \in 1..Len(files') /\ IsResult(v)' /\ files'[v] = files[v]
      BY <1>1, <2>3, <2>9, <3>1, UuidsKept
    <3>3. v \in 1..Len(files)
      BY <1>1, <2>9, <3>1 DEF UuidsInv
    <3> QED  BY <1>6, <2>3, <2>5, <3>1, <3>2, <3>3 DEF IsResult
  <2>10. UuidsInv'
    <3> SUFFICES ASSUME phase' # "idle"
                 PROVE  /\ \A i \in 1..Len(allure'.uuids) :
                             allure'.uuids[i] \in 1..Len(files') /\ (IsResult(allure.uuids[i]))'
                        /\ \A i, j \in 1..Len(allure'.uuids) : allure'.uuids[i] = allure'.uuids[j] => i = j
      BY DEF UuidsInv
    <3>1. \A i \in 1..Len(allure'.uuids) : i \in 1..Len(u) \/ i = Len(u) + 1
      BY <1>6, <2>5
    <3>2. last \in 1..Len(files')
      BY <1>6, <2>3
    <3>3. (IsResult(allure.uuids[Len(u) + 1]))'
      BY <2>5, <2>7 DEF IsResult
    <3>4. phase # "idle"
      BY <1>1
    <3>5. \A i, j \in 1..Len(u) : u[i] = u[j] => i = j
      BY <1>1, <3>4 DEF UuidsInv
    <3>6. \A i \in 1..Len(allure'.uuids) :
            allure'.uuids[i] \in 1..Len(files') /\ (IsResult(allure.uuids[i]))'
      <4> SUFFICES ASSUME NEW i \in 1..Len(allure'.uuids)
                   PROVE  allure'.uuids[i] \in 1..Len(files') /\ (IsResult(allure.uuids[i]))'
        OBVIOUS
      <4>1. CASE i \in 1..Len(u)
        BY <2>9, <3>4, <4>1
      <4>2. CASE i = Len(u) + 1
        BY <2>5, <3>2, <3>3, <4>2
      <4> QED  BY <3>1, <4>1, <4>2
    <3>7. ASSUME NEW i \in 1..Len(allure'.uuids), NEW j \in 1..Len(allure'.uuids),
                 allure'.uuids[i] = allure'.uuids[j]
          PROVE  i = j
      <4>1. CASE i \in 1..Len(u) /\ j \in 1..Len(u)
        BY <2>5, <3>5, <3>7, <4>1
      <4>2. CASE i \in 1..Len(u) /\ j = Len(u) + 1
        BY <2>5, <2>9, <3>4, <3>7, <4>2
      <4>3. CASE i = Len(u) + 1 /\ j \in 1..Len(u)
        BY <2>5, <2>9, <3>4, <3>7, <4>3
      <4> QED  BY <3>1, <4>1, <4>2, <4>3
    <3> QED  BY <3>6, <3>7
  <2>11. ASSUME ~Rejected' PROVE CompleteInv'
    <3>1. ok /\ ~Rejected
      BY <1>13, <1>14, <2>11
    <3>2. phase = "running" /\ phase' = "running"
      BY <1>1, <1>11, <3>1
    <3>3. Told = {v \in Tests : pc[v] = "over"}
      BY <1>1, <3>1, <3>2 DEF CompleteInv
    <3>5. Told' = Told \cup {t}
      <4>1. \A i \in 1..Len(u) : files'[allure'.uuids[i]] = files[u[i]]
        BY <2>9, <3>2
      <4>2. files'[allure'.uuids[Len(u) + 1]].test = t
        BY <2>3, <2>5
      <4>3. \A i \in 1..(Len(u) + 1) : i \in 1..Len(u) \/ i = Len(u) + 1
        BY <1>6
      <4>4. \A i \in 1..Len(u) : i \in 1..(Len(u) + 1)
        BY <1>6
      <4>5. Len(u) + 1 \in 1..(Len(u) + 1)
        BY <1>6
      <4>6. Told' = {files'[allure'.uuids[i]].test : i \in 1..(Len(u) + 1)}
        BY <2>5 DEF Told
      <4>7. Told = {files[u[i]].test : i \in 1..Len(u)}
        BY DEF Told
      <4>8. ASSUME NEW x, x \in Told' PROVE x \in Told \cup {t}
        <5>1. PICK i \in 1..(Len(u) + 1) : x = files'[allure'.uuids[i]].test
          BY <4>6, <4>8
        <5>2. CASE i \in 1..Len(u)
          <6>1. x = files[u[i]].test
            BY <4>1, <5>1, <5>2
          <6> QED  BY <4>7, <5>2, <6>1
        <5>3. CASE i = Len(u) + 1
          BY <4>2, <5>1, <5>3
        <5> QED  BY <4>3, <5>2, <5>3
      <4>9. \A x : x \in Told => x \in Told'
        BY <4>1, <4>4, <4>6, <4>7
      <4>10. t \in Told'
        BY <4>2, <4>5, <4>6
      <4> QED  BY <4>8, <4>9, <4>10
    <3>6. {v \in Tests : pc'[v] = "over"} = {v \in Tests : pc[v] = "over"} \cup {t}
      BY <1>1, <1>3, <3>1
    <3> QED  BY <1>10, <1>11, <2>11, <3>2, <3>3, <3>5, <3>6 DEF CompleteInv
  <2>12. CompleteInv'
    BY <1>12, <2>11
  <2> QED  BY <2>6, <2>8, <2>10, <2>12 DEF ReportInv
<1>8. CASE ~Hears(ok)
  <2>1. UNCHANGED <<files, allure>> /\ ~ok
    BY <1>2, <1>8 DEF AllureOnTestCaseComplete, Hears
  <2>3. Grows(files, files')
    BY <1>1, <2>1, SameFiles
  <2>4. Types'
    BY <1>1, <1>5, <2>1 DEF Types
  <2>5. FilesInv'
    BY <1>1, <1>4, <2>1, <2>3, FilesKept DEF FilesInv
  <2>6. UuidsInv'
    BY <1>1, <2>1 DEF UuidsInv, IsResult
  <2>7. CompleteInv'
    BY <1>12, <1>13, <2>1
  <2> QED  BY <2>4, <2>5, <2>6, <2>7 DEF ReportInv
<1> QED  BY <1>7, <1>8

-----------------------------------------------------------------------------
(* run()                                                                   *)

LEMMA RunStarts ==
  ASSUME ReportInv, Start
  PROVE  ReportInv'
<1>1. /\ Types /\ FilesInv /\ runs \in Nat /\ runs' = runs + 1 /\ returned' = {}
      /\ pc' = [t \in Tests |-> "idle"] /\ metadata' = [t \in Tests |-> NoStamp]
      /\ results' = [t \in Tests |-> <<>>] /\ verdict' = [t \in Tests |-> "none"]
      /\ UNCHANGED <<ahead, files>>
  BY DEF ReportInv, Start, Types
<1>2. PICK ok \in May("onStart") : AllureOnStart(ok) /\ phase' = IF ok THEN "running" ELSE "idle"
  BY DEF Start
<1>3. ok => allure' = Fresh
  BY <1>2 DEF AllureOnStart, Hears
<1>4. allure' = Fresh \/ allure' = allure
  BY <1>2 DEF AllureOnStart
<1>5. Types'
  <2>1. metadata' \in [Tests -> [Steps -> SUBSET Keys]]
    BY <1>1 DEF NoStamp
  <2>2. \A t \in Tests : Payloads(results'[t])
    BY <1>1, Emptied DEF Payloads
  <2>3. /\ allure' = [uuids |-> allure'.uuids, currentSteps |-> allure'.currentSteps]
        /\ IsSeq(allure'.uuids) /\ IsSeq(allure'.currentSteps)
    BY <1>1, <1>4, Emptied DEF Fresh, Types
  <2>4. pc' \in [Tests -> Places] /\ phase' \in {"idle", "running", "stopping"} /\ runs' \in Nat
    BY <1>1, <1>2 DEF Places
  <2> QED  BY <1>1, <2>1, <2>2, <2>3, <2>4 DEF Types
<1>6. FilesInv'
  <2> SUFFICES ASSUME NEW n \in 1..Len(files')
               PROVE  /\ files'[n].file # "attachment" => files'[n].run \in Nat /\ files'[n].run <= runs'
                      /\ (IsResult(n) => files[n].test \in Tests /\ Done(files[n].test) /\ ResultTrue(n))'
                      /\ (IsContainer(n) => phase = "idle" /\ ContainerTrue(n))'
    BY DEF FilesInv
  <2>1. files'[n] = files[n] /\ n \in 1..Len(files)
    BY <1>1
  <2>2. files'[n].file # "attachment" => files'[n].run \in Nat /\ files'[n].run <= runs' /\ files'[n].run # runs'
    BY <1>1, <2>1 DEF FilesInv
  <2> QED  BY <2>2 DEF IsResult, IsContainer
<1>7. UuidsInv'
  <2>1. phase' # "idle" => Len(allure'.uuids) = 0
    BY <1>2, <1>3, Emptied DEF Fresh
  <2> QED  BY <2>1 DEF UuidsInv
<1>8. CompleteInv'
  <2>1. phase' = "running" => Len(allure'.uuids) = 0
    BY <1>2, <1>3, Emptied DEF Fresh
  <2>2. {t \in Tests : pc'[t] = "over"} = {} /\ (\A t \in Tests : Over(t)')
    BY <1>1 DEF Over
  <2>3. phase' # "idle" => phase' = "running" /\ Told' = {}
    BY <1>2, <2>1 DEF Told
  <2>4. \A t \in Tests : pc'[t] = "idle"
    BY <1>1
  <2> QED  BY <1>1, <2>2, <2>3, <2>4 DEF CompleteInv
<1> QED  BY <1>5, <1>6, <1>7, <1>8 DEF ReportInv

\* The end of the groups, whether run() has results or not.
LEMMA RunStops ==
  ASSUME ReportInv, InitFails \/ GroupsEnd
  PROVE  ReportInv'
<1>1. /\ Types /\ FilesInv /\ UuidsInv /\ CompleteInv
      /\ phase = "running" /\ phase' = "stopping"
      /\ UNCHANGED <<runs, ahead, pc, metadata, results, verdict, allure, files>>
  BY DEF ReportInv, InitFails, GroupsEnd
<1>2. Types'
  BY <1>1 DEF Types
<1>3. Settled /\ Grows(files, files')
  BY <1>1, SameFiles DEF Settled, Done
<1>4. FilesInv'
  BY <1>1, <1>3, FilesKept DEF FilesInv
<1>5. UuidsInv'
  BY <1>1 DEF UuidsInv, IsResult
<1>6. CompleteInv'
  <2>1. /\ returned = {}
        /\ ~Rejected => Told = {t \in Tests : pc[t] = "over"}
        /\ \A t \in Tests : pc[t] = "idle" \/ InGroup(t)
    BY <1>1 DEF CompleteInv
  <2>2. (Rejected' <=> Rejected) /\ Told' = Told
    BY <1>1 DEF Rejected, Told
  <2>3. CASE InitFails
    <3>1. returned' = {} /\ \A t \in Tests : pc'[t] = "idle"
      BY <1>1, <2>1, <2>3 DEF InitFails
    <3>2. \A t \in Tests : Over(t)'
      BY <3>1 DEF Over
    <3> QED  BY <1>1, <2>1, <2>2, <3>1, <3>2 DEF CompleteInv
  <2>4. CASE Rejected /\ UNCHANGED returned
    BY <1>1, <2>1, <2>2, <2>4 DEF CompleteInv
  <2>5. CASE /\ \A t \in Tests : InGroup(t) => pc[t] = "over"
             /\ returned' = {t \in Tests : InGroup(t)}
    <3>1. \A t \in Tests : pc[t] = "idle" \/ pc[t] = "over"
      BY <2>1, <2>5
    <3>2. \A t \in Tests : InGroup(t) <=> pc'[t] = "over"
      <4>1. ASSUME NEW t \in Tests, pc[t] = "over" PROVE InGroup(t)
        BY <2>1, <4>1
      <4> QED  BY <1>1, <2>5, <4>1
    <3>3. returned' = {t \in Tests : pc'[t] = "over"}
      BY <2>5, <3>2
    <3>4. ~Rejected /\ \A t \in Tests : Over(t)'
      BY <1>1, <3>1 DEF Over, Rejected
    <3> QED  BY <1>1, <2>1, <2>2, <3>3, <3>4 DEF CompleteInv
  <2> QED  BY <2>3, <2>4, <2>5 DEF GroupsEnd
<1> QED  BY <1>2, <1>4, <1>5, <1>6 DEF ReportInv

LEMMA RunCompletes ==
  ASSUME ReportInv, Complete
  PROVE  ReportInv'
<1>1. /\ Types /\ FilesInv /\ UuidsInv /\ CompleteInv
      /\ phase = "stopping" /\ phase' = "idle"
      /\ UNCHANGED <<runs, groups, ahead, returned, pc, metadata, results, verdict, allure>>
  BY DEF ReportInv, Complete
<1> PICK c : c = convertToContainer
  OBVIOUS
<1>2. files' = files \/ files' = Append(files, c)
  BY DEF Complete, AllureOnComplete
<1>3. IsSeq(files) /\ Len(files) \in Nat /\ IsSeq(allure.uuids) /\ DOMAIN allure.uuids = 1..Len(allure.uuids)
  BY <1>1, SeqParts DEF Types
<1>4. ASSUME files' = Append(files, c)
      PROVE  /\ Grows(files, files') /\ Len(files') = Len(files) + 1
             /\ files'[Len(files) + 1] = c
  <2>1. /\ IsSeq(files') /\ Len(files') = Len(files) + 1
        /\ \A i \in 1..Len(files) : files'[i] = files[i]
        /\ files'[Len(files) + 1] = c
    BY <1>3, <1>4, Appended
  <2> QED  BY <1>3, <2>1 DEF Grows
<1>5. Grows(files, files')
  BY <1>1, <1>2, <1>4, SameFiles
<1>6. Types'
  BY <1>1, <1>5 DEF Types, Grows
<1>7. Settled
  BY <1>1 DEF Settled, Done
<1>8. ASSUME NEW n, n = Len(files) + 1, files' = Append(files, c) PROVE ContainerTrue(n)'
  <2> PICK u : u = allure.uuids
    OBVIOUS
  <2>1. files'[n].children = u
    BY <1>4, <1>8 DEF convertToContainer
  <2>2. IsInjective(u)
    BY <1>1, <1>3 DEF UuidsInv, IsInjective
  <2>3. ASSUME NEW i \in 1..Len(u)
        PROVE  u[i] \in DOMAIN files' /\ IsResult(u[i])' /\ files'[u[i]] = files[u[i]]
    <3>1. PICK v : v = u[i]
      OBVIOUS
    <3>2. v \in 1..Len(files') /\ IsResult(v)' /\ files'[v] = files[v]
      BY <1>1, <1>5, <2>3, <3>1, UuidsKept
    <3>3. DOMAIN files' = 1..Len(files')
      BY <1>5, SeqParts DEF Grows
    <3> QED  BY <3>1, <3>2, <3>3
  <2>4. ASSUME returned' # {}
        PROVE  {files'[u[i]].test : i \in DOMAIN u} = returned'
    <3>1. Told = {t \in Tests : pc[t] = "over"} /\ returned' = {t \in Tests : pc[t] = "over"}
      BY <1>1, <2>4 DEF CompleteInv
    <3>2. Told = {files'[u[i]].test : i \in DOMAIN u}
      BY <1>3, <2>3 DEF Told
    <3> QED  BY <3>1, <3>2
  <2> QED  BY <1>3, <2>1, <2>2, <2>3, <2>4 DEF ContainerTrue
<1>9. FilesInv'
  <2> SUFFICES ASSUME NEW n \in 1..Len(files')
               PROVE  /\ files'[n].file # "attachment" => files'[n].run \in Nat /\ files'[n].run <= runs'
                      /\ (IsResult(n) => files[n].test \in Tests /\ Done(files[n].test) /\ ResultTrue(n))'
                      /\ (IsContainer(n) => phase = "idle" /\ ContainerTrue(n))'
    BY DEF FilesInv
  <2>1. CASE n \in 1..Len(files)
    BY <1>1, <1>5, <1>7, <2>1, FilesKept
  <2>2. CASE n > Len(files)
    <3>1. files' = Append(files, c) /\ n = Len(files) + 1
      BY <1>2, <1>3, <1>4, <2>2
    <3>2. files'[n] = c
      BY <1>4, <3>1
    <3>3. c.file = "container" /\ c.run = runs /\ runs \in Nat /\ runs' = runs
      BY <1>1 DEF convertToContainer, Types
    <3>4. ~IsResult(n)'
      BY <3>2, <3>3 DEF IsResult
    <3> QED  BY <1>1, <1>8, <3>1, <3>2, <3>3, <3>4
  <2> QED  BY <1>3, <2>1, <2>2
<1>10. UuidsInv'
  BY <1>1 DEF UuidsInv
<1>11. CompleteInv'
  <2>1. Rejected' <=> Rejected
    BY <1>1 DEF Rejected
  <2>2. \A t \in Tests : Over(t)' <=> Over(t)
    BY <1>1 DEF Over
  <2> QED  BY <1>1, <2>1, <2>2 DEF CompleteInv
<1> QED  BY <1>6, <1>9, <1>10, <1>11 DEF ReportInv

-----------------------------------------------------------------------------
(* The theorem                                                             *)

LEMMA ReportStart == Init => ReportInv
<1> SUFFICES ASSUME Init PROVE ReportInv
  OBVIOUS
<1>1. Types
  <2>1. metadata \in [Tests -> [Steps -> SUBSET Keys]]
    BY DEF Init, NoStamp
  <2>2. \A t \in Tests : Payloads(results[t])
    BY Emptied DEF Payloads, Init
  <2>3. /\ allure = [uuids |-> allure.uuids, currentSteps |-> allure.currentSteps]
        /\ IsSeq(allure.uuids) /\ IsSeq(allure.currentSteps)
    BY Emptied DEF Fresh, Init
  <2>4. pc \in [Tests -> Places] /\ phase \in {"idle", "running", "stopping"} /\ runs \in Nat
        /\ ahead \in BOOLEAN /\ DOMAIN results = Tests /\ DOMAIN verdict = Tests /\ IsSeq(files)
    BY Emptied DEF Init, Places
  <2> QED  BY <2>1, <2>2, <2>3, <2>4 DEF Types
<1>2. FilesInv
  BY Emptied DEF FilesInv, Init
<1>3. UuidsInv
  BY DEF UuidsInv, Init
<1>4. CompleteInv
  BY DEF CompleteInv, Init, Rejected, Over
<1> QED  BY <1>1, <1>2, <1>3, <1>4 DEF ReportInv

LEMMA ReportStep == ReportInv /\ [Next]_vars => ReportInv'
<1> SUFFICES ASSUME ReportInv, [Next]_vars PROVE ReportInv'
  OBVIOUS
<1>1. CASE UNCHANGED vars
  <2>1. /\ UNCHANGED <<phase, runs, groups, ahead, pc, metadata, results>>
        /\ UNCHANGED <<verdict, returned, allure, files>>
    BY <1>1 DEF vars
  <2>2. Types'
    BY <2>1 DEF ReportInv, Types
  <2>3. Settled /\ Grows(files, files')
    BY <2>1, SameFiles DEF Settled, Done, ReportInv
  <2>4. FilesInv'
    BY <2>1, <2>3, FilesKept DEF FilesInv, ReportInv
  <2>5. UuidsInv'
    BY <2>1 DEF UuidsInv, IsResult, ReportInv
  <2>6. CompleteInv'
    BY <2>1 DEF CompleteInv, ReportInv, Rejected, Told, InGroup, Over
  <2> QED  BY <2>2, <2>4, <2>5, <2>6 DEF ReportInv
<1>2. CASE Start
  BY <1>2, RunStarts
<1>3. CASE InitFails \/ GroupsEnd
  BY <1>3, RunStops
<1>4. CASE Complete
  BY <1>4, RunCompletes
<1>5. ASSUME NEW t \in Tests,
             \/ ExecuteTestCase(t) \/ Build(t) \/ StepPasses(t) \/ StepFails(t)
             \/ Verdict(t) \/ UnhandledError(t)
             \/ \E i \in Steps, k \in Keys : stampMetadata(t, i, k)
      PROVE  ReportInv'
  <2>1. Types' /\ InTest(t)
    BY <1>5, InTestSteps
  <2> QED  BY <2>1, InTestKeeps DEF ReportInv
<1>6. ASSUME NEW t \in Tests, FinishTestCase(t) PROVE ReportInv'
  BY <1>6, TestEnds
<1> QED  BY <1>1, <1>2, <1>3, <1>4, <1>5, <1>6 DEF Next

\* The files that AllureReporter wrote of a run are true: each result has the
\* status and the steps of its own test case, each step its own attachments,
\* and the container lists results of this run, each once, and all of them when
\* run() has results (allure-reporter.ts, result-converter.ts): for any number
\* of test cases in parallel, of steps and of runs, and wherever another
\* reporter throws.
THEOREM FilesTellResults == Spec => []Reported
<1>1. ReportInv => Reported
  <2> SUFFICES ASSUME ReportInv, NEW n \in DOMAIN files
               PROVE  (IsResult(n) => ResultTrue(n)) /\ (IsContainer(n) => ContainerTrue(n))
    BY DEF Reported
  <2>1. n \in 1..Len(files)
    BY SeqParts DEF ReportInv, Types
  <2> QED  BY <2>1 DEF ReportInv, FilesInv
<1> QED  BY <1>1, ReportStart, ReportStep, PTL DEF Spec
=============================================================================
