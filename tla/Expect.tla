------------------------------- MODULE Expect -------------------------------
(***************************************************************************)
(* The deep comparisons of expect(): isDeepEqual, which toEqual,           *)
(* toStrictEqual and toHaveProperty use, the shape of toMatchObject, and   *)
(* the diff a failed comparison shows.                                     *)
(*                                                                         *)
(* A value is an atom or an object; the heap gives each object its kind    *)
(* and its contents, a partial function from Keys to values: the own       *)
(* properties of a plain object, the items of an array, the entries of a   *)
(* Map, the elements of a Set in order, the time of a Date.  Objects may   *)
(* share parts and hold themselves.                                        *)
(***************************************************************************)
EXTENDS Naturals, Sequences, FiniteSets

CONSTANTS
  Objects,
  KeyOrder,   \* the keys, in the order of Object.keys
  Left,       \* expect(Left)...
  Right,      \* ...toEqual(Right)
  Cases,      \* <<matcher, the heaps to use it on>> (a bound)
  MAX_DEPTH

VARIABLES heap, matcher, verdict, diff

vars == <<heap, matcher, verdict, diff>>

Undefined == "undefined"

Kind(o)     == heap[o].kind
IsArray(o)  == Kind(o) = "array"
Fields(o)   == DOMAIN heap[o].at
Get(o, k)   == IF k \in Fields(o) THEN heap[o].at[k] ELSE Undefined
Both(a, b, kind) == Kind(a) = kind /\ Kind(b) = kind

\* Object.keys: the entries of a Map, a Set and a Date are no properties
ObjectKeys(o) == IF Kind(o) \in {"map", "set", "date"} THEN {} ELSE Fields(o)

-----------------------------------------------------------------------------
(* isDeepEqual.  seen is the WeakMap of the pairs the walk has been at, and *)
(* lives as long as the walk, also after a comparison that failed.          *)

Says(eq, seen) == [eq |-> eq, seen |-> seen]

RECURSIVE walk(_, _, _, _), walkAll(_, _, _), matchElements(_, _, _, _)

\* the first pair that differs ends the comparison
walkAll(pairs, strict, seen) ==
  IF pairs = <<>> THEN Says(TRUE, seen)
  ELSE LET first == walk(Head(pairs)[1], Head(pairs)[2], strict, seen)
       IN  IF first.eq THEN walkAll(Tail(pairs), strict, first.seen) ELSE first

Pairs(a, b, keys) ==
  LET ks == SelectSeq(KeyOrder, LAMBDA k : k \in keys)
  IN  [i \in DOMAIN ks |-> <<Get(a, ks[i]), Get(b, ks[i])>>]

equalMap(a, b, strict, seen) ==
  IF Fields(a) # Fields(b) THEN Says(FALSE, seen)
  ELSE walkAll(Pairs(a, b, Fields(a)), strict, seen)

Items(o) == LET ks == SelectSeq(KeyOrder, LAMBDA k : k \in Fields(o))
            IN  [i \in DOMAIN ks |-> heap[o].at[ks[i]]]
Without(s, i) == SubSeq(s, 1, i - 1) \o SubSeq(s, i + 1, Len(s))

\* each element takes the first free one it equals; tried counts those it did not
matchElements(as, bs, tried, se) ==
  IF as = <<>> THEN Says(TRUE, se.seen)
  ELSE IF tried = Len(bs) THEN Says(FALSE, se.seen)
  ELSE LET try == walk(Head(as), bs[tried + 1], se.strict, se.seen)
           now == [se EXCEPT !.seen = try.seen]
       IN  IF try.eq THEN matchElements(Tail(as), Without(bs, tried + 1), 0, now)
           ELSE matchElements(as, bs, tried + 1, now)

equalSet(a, b, strict, seen) ==
  IF Cardinality(Fields(a)) # Cardinality(Fields(b)) THEN Says(FALSE, seen)
  ELSE matchElements(Items(a), Items(b), 0, [strict |-> strict, seen |-> seen])

walkArray(a, b, strict, seen) ==
  IF Fields(a) # Fields(b) THEN Says(FALSE, seen)
  ELSE walkAll(Pairs(a, b, Fields(a)), strict, seen)

\* strict compares the number of keys, and the values of the keys of a
walkObject(a, b, strict, seen) ==
  IF strict /\ Cardinality(ObjectKeys(a)) # Cardinality(ObjectKeys(b)) THEN Says(FALSE, seen)
  ELSE walkAll(Pairs(a, b, IF strict THEN ObjectKeys(a) ELSE ObjectKeys(a) \cup ObjectKeys(b)), strict, seen)

GuardedByLeft(a, b, seen) == \E p \in seen : p[1] = a
Guarded(a, b, seen) == <<a, b>> \in seen

walk(a, b, strict, seen) ==
  LET now == seen \cup {<<a, b>>}
  IN  IF a = b THEN Says(TRUE, seen)
      ELSE IF ~({a, b} \subseteq Objects) THEN Says(FALSE, seen)
      ELSE IF Guarded(a, b, seen) THEN Says(TRUE, seen)
      ELSE IF strict /\ Kind(a) # Kind(b) THEN Says(FALSE, now)
      ELSE IF Both(a, b, "date") THEN Says(heap[a].at = heap[b].at, now)
      ELSE IF Both(a, b, "map") THEN equalMap(a, b, strict, now)
      ELSE IF Both(a, b, "set") THEN equalSet(a, b, strict, now)
      ELSE IF IsArray(a) # IsArray(b) THEN Says(FALSE, now)
      ELSE IF IsArray(a) THEN walkArray(a, b, strict, now)
      ELSE walkObject(a, b, strict, now)

isDeepEqual(a, b, strict) == walk(a, b, strict, {}).eq

-----------------------------------------------------------------------------
(* toMatchObject                                                           *)

\* here a Map, a Set and a Date are plain objects too
isPlainObject(v) == v \in Objects /\ ~IsArray(v)

RECURSIVE matchObjectShape(_, _, _)

\* "yes", "no", or "overflow": nothing stops it where both sides come back to
\* a pair they were at
matchObjectShape(actual, expected, path) ==
  LET Match(k) ==
        LET ev == Get(expected, k)  av == Get(actual, k)
        IN  IF isPlainObject(ev) /\ isPlainObject(av)
              THEN matchObjectShape(av, ev, path \cup {<<actual, expected>>})
              ELSE IF isDeepEqual(av, ev, FALSE) THEN "yes" ELSE "no"
      results == [i \in DOMAIN KeyOrder |->
                    IF KeyOrder[i] \in ObjectKeys(expected) THEN Match(KeyOrder[i]) ELSE "yes"]
      bad     == {i \in DOMAIN results : results[i] # "yes"}
  IN  IF <<actual, expected>> \in path THEN "overflow"
      ELSE IF bad = {} THEN "yes"
      ELSE results[CHOOSE i \in bad : \A j \in bad : i <= j]

-----------------------------------------------------------------------------
(* renderDiff: whether it shows a difference, or the mark of its depth     *)

isStructured(v) == v \in Objects /\ Kind(v) \notin {"map", "set", "date"}

RECURSIVE walkDiff(_, _, _)

walkDiff(e, a, depth) ==
  \/ depth >= MAX_DEPTH
  \/ IsArray(e) # IsArray(a)
  \/ \E k \in Fields(e) \cup Fields(a) :
       LET ev == Get(e, k)  av == Get(a, k)
       IN  /\ ~isDeepEqual(ev, av, FALSE)
           /\ isStructured(ev) /\ isStructured(av) => walkDiff(ev, av, depth + 1)

renderDiff(e, a) == isStructured(e) /\ isStructured(a) => walkDiff(e, a, 0)

-----------------------------------------------------------------------------

YesNo(b) == IF b THEN "yes" ELSE "no"

toEqual       == YesNo(isDeepEqual(Left, Right, FALSE))
toStrictEqual == YesNo(isDeepEqual(Left, Right, TRUE))

\* both sides must be objects and no arrays
toMatchObject ==
  IF isPlainObject(Left) /\ isPlainObject(Right) THEN matchObjectShape(Left, Right, {}) ELSE "TypeError"

Holds == CASE matcher = "toEqual"       -> toEqual
           [] matcher = "toStrictEqual" -> toStrictEqual
           [] matcher = "toMatchObject" -> toMatchObject

Init ==
  /\ \E c \in Cases : matcher = c[1] /\ heap \in c[2]
  /\ verdict = "none"
  /\ diff = FALSE

\* expect(Left).matcher(Right): a failed comparison renders the diff
Compare ==
  /\ verdict = "none"
  /\ verdict' = Holds
  /\ diff' = (Holds = "no" /\ renderDiff(Right, Left))
  /\ UNCHANGED <<heap, matcher>>

Next == Compare

Spec == Init /\ [][Next]_vars

-----------------------------------------------------------------------------
(* What the comparisons are for                                            *)

\* Two values are the same when no path of keys tells them apart: the greatest
\* relation of objects of the same kind whose parts are the same or related.
\* Strictly, with the same keys; else a missing property is an undefined one.
Related(R, v, w) == v = w \/ <<v, w>> \in R
Alike(R, a, b, strict) ==
  /\ Kind(a) = Kind(b)
  /\ strict \/ Kind(a) # "plain" => Fields(a) = Fields(b)
  /\ Kind(a) # "set" => \A k \in Fields(a) \cup Fields(b) : Related(R, Get(a, k), Get(b, k))
  /\ Kind(a) = "set" => \E f \in [Fields(a) -> Fields(b)] :
       /\ \A k \in Fields(b) : \E j \in Fields(a) : f[j] = k
       /\ \A k \in Fields(a) : Related(R, Get(a, k), Get(b, f[k]))

RECURSIVE Greatest(_, _)
Greatest(R, strict) ==
  LET S == {p \in R : Alike(R, p[1], p[2], strict)} IN IF S = R THEN R ELSE Greatest(S, strict)

Same(v, w, strict) == Related(Greatest(Objects \X Objects, strict), v, w)

\* An object matches another that has the same values for its keys, down to
\* what are no plain objects.
Plain(v) == v \in Objects /\ Kind(v) = "plain"
RECURSIVE Matching(_)
Matching(R) ==
  LET S == {p \in R : \A k \in Fields(p[2]) :
              LET av == Get(p[1], k)  ev == Get(p[2], k)
              IN  IF Plain(av) /\ Plain(ev) THEN <<av, ev>> \in R ELSE Same(av, ev, FALSE)}
  IN  IF S = R THEN R ELSE Matching(S)

Promised == CASE matcher = "toEqual"       -> Same(Left, Right, FALSE)
              [] matcher = "toStrictEqual" -> Same(Left, Right, TRUE)
              [] matcher = "toMatchObject" -> <<Left, Right>> \in Matching({p \in Objects \X Objects : Plain(p[1]) /\ Plain(p[2])})

\* A comparison that ends says what holds of the two values, however they share
\* parts or hold themselves, and a failed one shows a difference, but for
\* toStrictEqual, whose diff is the one of toEqual.
ExpectTells ==
  /\ verdict \in {"yes", "no"} => (verdict = "yes") = Promised
  /\ verdict = "no" /\ matcher # "toStrictEqual" => diff

\* Not so: matchObjectShape has no guard against cycles, and toStrictEqual
\* renders the diff of toEqual.
ComparisonEnds == verdict # "overflow"
StrictShown    == verdict = "no" => diff
=============================================================================
