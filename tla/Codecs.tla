------------------------------- MODULE Codecs -------------------------------
(***************************************************************************)
(* The codecs of the MQ adapters.  A publisher encodes a payload with the  *)
(* topic as the key and a subscriber decodes it with the same key:         *)
(* ProtobufCodec by the type of the first of its bindings that matches the *)
(* key, JsonCodec by none.  One codec may serve both, and all topics, so   *)
(* its calls for different topics come in any order.                       *)
(***************************************************************************)
EXTENDS Naturals, Sequences

CONSTANTS
  Keys,
  Types,      \* the protobuf types of the .proto files
  Matchers,   \* <<kind, keys>>: what a "string", "regexp", "global" or "predicate" is for
  MaxBindings, MaxCalls

VARIABLES
  bindings,   \* a sequence of <<matcher, type>>, or <<"json">>
  built,      \* "no", "yes", or "failed"
  lastIndex,  \* the bindings whose global RegExp would go on after its last match
  wire,       \* <<key, type>> of what was encoded and not yet decoded
  got,        \* what the last decode came to
  calls

vars == <<bindings, built, lastIndex, wire, got, calls>>

Json == bindings = <<"json">>

Init ==
  /\ bindings \in {<<"json">>} \cup UNION {[1..n -> Matchers \X (Types \cup {"typo"})] : n \in 0..MaxBindings}
  /\ built = "no"
  /\ lastIndex = {} /\ wire = {} /\ got = <<>>
  /\ calls = 0

\* the constructor looks every type up and throws for one that is not in the files
New ==
  /\ built = "no"
  /\ built' = IF ~Json /\ \E i \in DOMAIN bindings : bindings[i][2] = "typo" THEN "failed" ELSE "yes"
  /\ UNCHANGED <<bindings, lastIndex, wire, got, calls>>

-----------------------------------------------------------------------------

Kind(i)     == bindings[i][1][1]
For(i, key) == key \in bindings[i][1][2]

\* test() of a global RegExp goes on after its last match, whatever the key of
\* that was, finds nothing there and begins again
Says(i, key) == For(i, key) /\ (Kind(i) = "global" => i \notin lastIndex)

\* 0 when no entry says yes; a predicate that throws says no
matchEntry(key) ==
  LET H == {i \in DOMAIN bindings : Says(i, key)}
  IN  IF H = {} THEN 0 ELSE CHOOSE i \in H : \A j \in H : i <= j

matchLast(key) ==
  LET H == {i \in DOMAIN bindings : Says(i, key)}
  IN  IF H = {} THEN 0 ELSE CHOOSE i \in H : \A j \in H : i >= j

\* the global RegExps up to the hit were asked: the hit keeps where it matched
Asked(hit)   == {i \in DOMAIN bindings : Kind(i) = "global" /\ (hit = 0 \/ i <= hit)}
Indices(hit) == (lastIndex \ Asked(hit)) \cup (Asked(hit) \cap {hit})

\* a key that no entry matches throws, and so may verify(): nothing is sent
encode(key) ==
  /\ built = "yes" /\ ~Json /\ calls < MaxCalls
  /\ LET hit == matchEntry(key)
     IN  /\ wire' \in {wire} \cup (IF hit = 0 THEN {} ELSE {wire \cup {<<key, bindings[hit][2]>>}})
         /\ lastIndex' = Indices(hit)
  /\ calls' = calls + 1
  /\ UNCHANGED <<bindings, built, got>>

\* stringify() may throw
encodeJson(key) ==
  /\ built = "yes" /\ Json /\ calls < MaxCalls
  /\ wire' \in {wire, wire \cup {<<key, "json">>}}
  /\ calls' = calls + 1
  /\ UNCHANGED <<bindings, built, lastIndex, got>>

\* the bytes of one type are refused by another one, or taken for its own
Outcomes(m, hit) ==
  IF hit = 0 THEN {"refused"}
  ELSE {bindings[hit][2]} \cup (IF bindings[hit][2] = m[2] THEN {} ELSE {"refused"})

decodeBy(m, hit) ==
  /\ lastIndex' = Indices(hit)
  /\ \E x \in Outcomes(m, hit) : got' = <<m, x>>

Takes(m) == m \in wire /\ wire' = wire \ {m} /\ UNCHANGED <<bindings, built, calls>>

decodeLast(m) == Takes(m) /\ ~Json /\ decodeBy(m, matchLast(m[1]))

decode(m) == Takes(m) /\ ~Json /\ decodeBy(m, matchEntry(m[1]))

\* whatever bytes or text it comes in
decodeJson(m) == Takes(m) /\ Json /\ got' = <<m, "json">> /\ UNCHANGED lastIndex

Next ==
  \/ New
  \/ \E k \in Keys : encode(k) \/ encodeJson(k)
  \/ \E m \in wire : decode(m) \/ decodeJson(m)

Spec == Init /\ [][Next]_vars

-----------------------------------------------------------------------------
(* Properties                                                              *)

\* A message is decoded as the type it was encoded with, whatever the codec
\* served in between.
DecodedAlways == got # <<>> => got[2] = got[1][2]

\* It is so when no global RegExp for its key comes before the first other
\* entry for it; those for other keys do not matter.
Stable(key) ==
  Json \/ \E i \in DOMAIN bindings : Kind(i) # "global" /\ For(i, key)
            /\ \A j \in 1..i : For(j, key) => Kind(j) # "global"
DecodedAsEncoded == got # <<>> /\ Stable(got[1][1]) => DecodedAlways
=============================================================================
