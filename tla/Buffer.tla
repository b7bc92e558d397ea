------------------------------- MODULE Buffer -------------------------------
(***************************************************************************)
(* core/Buffer.h: a byte queue in a vector, with a read and a write index  *)
(* that start behind a prefix of kBufferPrefixed bytes, and the peeks of   *)
(* core/MemoryData.h.  Indices are size_t: differences wrap at Word.       *)
(*                                                                         *)
(* An operation that goes past the end of the vector is undefined; the     *)
(* model stops there (InVector becomes false).                             *)
(***************************************************************************)
EXTENDS Integers, Sequences, FiniteSets

CONSTANTS
    kBufferPrefixed,
    InitSizes,      \* the sizes a buffer is created with
    Word,           \* size_t holds 0 .. Word - 1
    Lens,           \* the lengths the operations are called with
    Bytes,          \* the byte values, 0 .. Bytes - 1
    SizeofInt, SizeofLong,
    MaxSize,        \* bound on the size of the vector
    MaxTurns        \* bound on the turns of the loops of makeSpace

BufferAssumption ==
    /\ kBufferPrefixed \in Nat \ {0} /\ Word \in Nat /\ Bytes \in Nat \ {0}
    /\ MaxSize \in Nat /\ MaxTurns \in Nat \ {0}
    /\ InitSizes \subseteq (kBufferPrefixed + 1) .. MaxSize
    /\ Lens \subseteq 0 .. MaxSize
    /\ SizeofInt \in 1 .. MaxSize /\ SizeofLong \in SizeofInt + 1 .. MaxSize
    /\ 4 * MaxSize < Word

VARIABLES
    buf,        \* the vector (a function of 0 .. size - 1), the two indices, and
                \* whether the vector was created with less than two prefixes or some
                \* resize has made it smaller
    expect,     \* the bytes written (by a peek too) and not yet read, oldest first
    next        \* the value of the next byte that is written

vars == <<buf, expect, next>>

Vector(n, f) == [i \in 0 .. n - 1 |-> IF i \in DOMAIN f THEN f[i] ELSE 0]

Size(b) == Cardinality(DOMAIN b.fData)
capacity(b) == (Size(b) - kBufferPrefixed) % Word
length(b) == (b.fWriteIdx - b.fReadIdx) % Word

right(b) == (capacity(b) - b.fWriteIdx) % Word
left(b) == b.fReadIdx - kBufferPrefixed

\* The bytes between the indices.
Contents(b) == [i \in 1 .. length(b) |-> b.fData[b.fReadIdx + i - 1]]

Init ==
    /\ \E n \in InitSizes :
         buf = [fData |-> Vector(n, <<>>), fReadIdx |-> kBufferPrefixed,
                fWriteIdx |-> kBufferPrefixed, shrunk |-> n < 2 * kBufferPrefixed]
    /\ expect = <<>>
    /\ next = 0

-----------------------------------------------------------------------------
resize(b, n) == [b EXCEPT !.fData = Vector(n, @), !.shrunk = @ \/ n < Size(b)]

arrange(b) ==
    [b EXCEPT !.fData = [i \in DOMAIN @ |->
                IF i \in kBufferPrefixed .. kBufferPrefixed + length(b) - 1
                THEN @[b.fReadIdx + i - kBufferPrefixed] ELSE @[i]],
              !.fReadIdx = kBufferPrefixed,
              !.fWriteIdx = kBufferPrefixed + length(b)]

tryArrange(b) ==
    IF b.fReadIdx = b.fWriteIdx
    THEN [b EXCEPT !.fReadIdx = kBufferPrefixed, !.fWriteIdx = kBufferPrefixed]
    ELSE IF 100 * b.fReadIdx > 88 * capacity(b) THEN arrange(b) ELSE b

\* The inner loop of makeSpace: the capacity, doubled until len more bytes fit.
Fits(b, rz, len) == (rz - length(b)) % Word >= len
Doubled(b, len) ==
    LET rz[n \in 0 .. MaxTurns] == IF n = 0 THEN capacity(b) ELSE
            IF Fits(b, rz[n - 1], len) THEN rz[n - 1] ELSE (2 * rz[n - 1]) % Word
    IN  rz[MaxTurns]

\* One turn of makeSpace; nothing happens when the inner loop does not end.
Turn(b, len) ==
    IF right(b) > len THEN b
    ELSE IF (right(b) + left(b)) % Word > len THEN arrange(b)
    ELSE IF Fits(b, Doubled(b, len), len) THEN resize(b, Doubled(b, len))
    ELSE b

makeSpace(b, len) ==
    LET turn[n \in 0 .. MaxTurns] == IF n = 0 THEN b ELSE Turn(turn[n - 1], len)
    IN  turn[MaxTurns]

\* makeSpace() returns: its loop ends.
Spacious(b, len) == right(makeSpace(b, len)) > len

\* len bytes are stored at the write index; what falls outside the vector is lost.
Store(b, s) ==
    [b EXCEPT !.fData = [i \in DOMAIN @ |-> IF i \in b.fWriteIdx .. b.fWriteIdx + Len(s) - 1
                                            THEN s[i - b.fWriteIdx + 1] ELSE @[i]],
              !.fWriteIdx = @ + Len(s)]

Fresh(len) == [i \in 1 .. len |-> (next + i - 1) % Bytes]

\* The buffer becomes b.  Bytes that are not between the indices are forgotten.
Becomes(b) ==
    /\ Size(b) <= MaxSize
    /\ buf' = [b EXCEPT !.fData = [i \in DOMAIN @ |->
                IF b.fReadIdx <= i /\ i < b.fWriteIdx THEN @[i] ELSE 0]]

\* read(), shrink(): len bytes leave at the front.
Drop(b, len) == tryArrange([b EXCEPT !.fReadIdx = @ + len])
Smaller(m, n) == IF m < n THEN m ELSE n

-----------------------------------------------------------------------------
write(len) ==
    /\ Spacious(buf, len)
    /\ Becomes(Store(makeSpace(buf, len), Fresh(len)))
    /\ expect' = expect \o Fresh(len)
    /\ next' = (next + len) % Bytes

\* read() and shrink() remove at most what is there.
read(len) ==
    LET n == Smaller(len, length(buf))
    IN  /\ n > 0
        /\ Becomes(Drop(buf, n))
        /\ expect' = SubSeq(expect, n + 1, Len(expect))
        /\ UNCHANGED next

\* The receiving pattern of README and HttpConnection: a read of up to right() bytes to
\* end(), then fill(n).
recv(n) ==
    /\ n > 0 /\ n <= right(buf)
    /\ Becomes(Store(buf, Fresh(n)))
    /\ expect' = expect \o Fresh(n)
    /\ next' = (next + n) % Bytes

\* fill(c, len): the vector is resized to length() + len when right() is too small, and
\* len bytes are inserted at the write index.
fillChar(len) ==
    LET b == IF right(buf) < len THEN resize(buf, length(buf) + len) ELSE buf
        f == [i \in 0 .. Size(b) + len - 1 |->
                IF i < b.fWriteIdx THEN b.fData[i]
                ELSE IF i < b.fWriteIdx + len THEN next ELSE b.fData[i - len]]
    IN  /\ len > 0
        /\ b.fWriteIdx <= Size(b)
        /\ Becomes([b EXCEPT !.fData = f, !.fWriteIdx = @ + len])
        /\ expect' = expect \o [i \in 1 .. len |-> next]
        /\ UNCHANGED next

\* The bytes of the long that readLong() makes of v: it returns an int, the low bytes of v,
\* whose sign fills the others.
readLong(v) ==
    [i \in 1 .. SizeofLong |-> IF i <= SizeofInt THEN v[i]
                              ELSE IF 2 * v[SizeofInt] >= Bytes THEN Bytes - 1 ELSE 0]

\* MemoryData::peekChar, peekInt and peekLong read a value of len bytes and write it back at
\* the end.  v is the local variable: the bytes that read() did not fill are not set.
peekData(len) ==
    LET n == Smaller(len, length(buf))
        b == IF n = 0 THEN buf ELSE Drop(buf, n)
    IN  /\ Spacious(b, len)
        /\ \E v \in [1 .. len -> 0 .. Bytes - 1] :
             LET s == IF len = SizeofLong THEN readLong(v) ELSE v
             IN  /\ \A i \in 1 .. n : v[i] = buf.fData[buf.fReadIdx + i - 1]
                 /\ Becomes(Store(makeSpace(b, len), s))
                 /\ expect' = SubSeq(expect, n + 1, Len(expect)) \o s
        /\ UNCHANGED next

clear ==
    /\ Becomes([buf EXCEPT !.fReadIdx = kBufferPrefixed, !.fWriteIdx = kBufferPrefixed])
    /\ expect' = <<>>
    /\ UNCHANGED next

expand ==
    /\ Becomes(resize(buf, 2 * Size(buf)))
    /\ UNCHANGED <<expect, next>>

\* The indices are inside the vector.
InVector == buf.fReadIdx <= buf.fWriteIdx /\ buf.fWriteIdx <= Size(buf)

Step == \/ clear \/ expand
        \/ \E len \in Lens : write(len) \/ read(len) \/ recv(len) \/ fillChar(len)
        \/ \E len \in {1, SizeofInt, SizeofLong} : peekData(len)

Next == InVector /\ Step

Spec == Init /\ [][Next]_vars

-----------------------------------------------------------------------------
BufferTypeOK ==
    /\ buf.fData \in [DOMAIN buf.fData -> 0 .. Bytes - 1]
    /\ buf.fReadIdx >= kBufferPrefixed /\ buf.fWriteIdx < Word
    /\ expect \in Seq(0 .. Bytes - 1) /\ next \in 0 .. Bytes - 1 /\ buf.shrunk \in BOOLEAN

\* Until a resize has made the vector smaller (it had room for two prefixes), the buffer is
\* a queue of bytes: what is between the indices is what was written and not read, through
\* every arrange, resize, insertion and receive.  A peek counts as a read and a write of
\* what it writes back, which for peekLong() may be other bytes.
ByteQueue == ~buf.shrunk => InVector /\ Contents(buf) = expect

\* Until then there is room for what right() says, which never wraps.
RoomUntilShrunk == ~buf.shrunk => buf.fWriteIdx + right(buf) <= Size(buf)

=============================================================================
