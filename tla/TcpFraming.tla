----------------------------- MODULE TcpFraming -----------------------------
(***************************************************************************)
(* protocol-tcp/src/framing.ts: how messages are put into and taken out of *)
(* a byte stream that arrives in chunks of any size.                       *)
(*                                                                         *)
(* A framing is a length field of 1, 2, 4 or 8 bytes or, with 0 of them, a *)
(* delimiter.                                                              *)
(***************************************************************************)
EXTENDS Integers, Sequences

Bytes == 0..255

From(b, i) == SubSeq(b, i, Len(b))

(* the length field: big-endian, 8 bytes as a high and a low word of 4 *)

readUInt32BE(b, i) == 256 * (256 * (256 * b[i] + b[i + 1]) + b[i + 2]) + b[i + 3]

readLength(b, n) ==
  CASE n = 1 -> b[1]
    [] n = 2 -> 256 * b[1] + b[2]
    [] n = 4 -> readUInt32BE(b, 1)
    [] n = 8 -> 65536 * (65536 * readUInt32BE(b, 1)) + readUInt32BE(b, 5)

\* 2^32 is written as two factors, each of which TLC can count to
High(length) == (length \div 65536) \div 65536
Low(length)  == length - 65536 * (65536 * High(length))

writeUInt32BE(v) ==
  <<v \div 16777216, (v \div 65536) % 256, (v \div 256) % 256, v % 256>>

\* writeUInt8 and the others throw a RangeError for what does not fit
Fits(length, n) ==
  CASE n = 1 -> length < 256
    [] n = 2 -> length < 65536
    [] n = 4 -> High(length) = 0
    [] n = 8 -> High(High(length)) = 0

writeLength(length, n) ==
  CASE n = 1 -> <<length>>
    [] n = 2 -> <<length \div 256, length % 256>>
    [] n = 4 -> writeUInt32BE(length)
    [] n = 8 -> writeUInt32BE(High(length)) \o writeUInt32BE(Low(length))

(* the delimiter *)

Occurs(d, b, i) == i + Len(d) - 1 <= Len(b) /\ SubSeq(b, i, i + Len(d) - 1) = d

IndexOf(d, b) ==
  CHOOSE i \in 1..Len(b) : Occurs(d, b, i) /\ \A j \in 1..(i - 1) : ~Occurs(d, b, j)

(* the frame that a buffer begins with *)

HasFrame(b, f) ==
  LET n == f.lengthFieldLength
  IN  IF n > 0 THEN Len(b) >= n /\ Len(b) >= n + readLength(b, n)
               ELSE \E i \in 1..Len(b) : Occurs(f.delimiter, b, i)

Frame(b, f) ==
  LET n   == f.lengthFieldLength
      len == readLength(b, n)
      i   == IndexOf(f.delimiter, b)
  IN  IF n > 0 THEN [payload |-> SubSeq(b, n + 1, n + len), after |-> From(b, n + len + 1)]
               ELSE [payload |-> SubSeq(b, 1, i - 1), after |-> From(b, i + Len(f.delimiter))]

(* the loop: what is left of the buffer after each of its rounds *)

readBuffer(b, f) ==
  LET left[k \in Nat] ==
        IF k = 0 THEN b
        ELSE LET last == left[k - 1]
             IN  IF HasFrame(last, f) THEN Frame(last, f).after ELSE last
  IN  left

Rounds(b, f) ==
  CHOOSE n \in 0..Len(b) : /\ ~HasFrame(readBuffer(b, f)[n], f)
                           /\ \A k \in 0..(n - 1) : HasFrame(readBuffer(b, f)[k], f)

\* without a length field and a delimiter every chunk is a message
processIncomingBuffer(b, f) ==
  LET n == Rounds(b, f)
  IN  IF f.lengthFieldLength > 0 \/ f.delimiter # <<>>
        THEN [messages |-> [k \in 1..n |-> Frame(readBuffer(b, f)[k - 1], f).payload],
              rest     |-> readBuffer(b, f)[n]]
        ELSE [messages |-> IF b = <<>> THEN <<>> ELSE <<b>>, rest |-> <<>>]

\* with the delimiter that TcpClientAdapter.send appends when there is no length field
frameMessage(p, f) ==
  IF f.lengthFieldLength > 0
    THEN writeLength(Len(p), f.lengthFieldLength) \o p
    ELSE p \o f.delimiter
=============================================================================
