------------------------------- MODULE Base64 -------------------------------
(***************************************************************************)
(* util/base64/base64.c and its wrapper util/Base64.h.  A char is signed,  *)
(* -128 .. 127; a shift to the right of one is \div, a mask is %.  A C     *)
(* string is the sequence of its chars with the NUL that ends it.          *)
(***************************************************************************)
EXTENDS Integers, Sequences, FiniteSetsExt

CONSTANTS
    Plain, MaxPlain,    \* the chars of texts to encode, and their length
    Coded, MaxCoded     \* the chars of texts to decode, and their length

Base64Assumption ==
    /\ Plain \subseteq -128 .. 127 /\ Coded \subseteq 1 .. 127
    /\ MaxPlain \in Nat /\ MaxCoded \in Nat

VARIABLES
    content,    \* a text to encode
    coded       \* a text to decode, well-formed or not
vars == <<content, coded>>

NUL == 0
Pad == 61       \* '='

basis_64(v) ==
    IF v < 26 THEN 65 + v ELSE IF v < 52 THEN 71 + v ELSE IF v < 62 THEN v - 4
    ELSE IF v = 62 THEN 43 ELSE 47

\* The table has 64 for a char that is not in the alphabet.
pr2six(c) ==
    IF c \in 65 .. 90 THEN c - 65 ELSE IF c \in 97 .. 122 THEN c - 71
    ELSE IF c \in 48 .. 57 THEN c + 4 ELSE IF c = 43 THEN 62 ELSE IF c = 47 THEN 63 ELSE 64

\* The low w bits of a char from bit k on.
Bits(c, k, w) == (c \div 2^k) % 2^w

\* n groups of m chars, one after the other.
Groups(n, m, g(_)) == [i \in 1 .. n * m |-> g((i - 1) \div m)[((i - 1) % m) + 1]]

Signed(n) == IF n > 127 THEN n - 256 ELSE n

-----------------------------------------------------------------------------
Base64encode_len(len) == ((len + 2) \div 3) * 4 + 1

\* Mutant of group: the top bits of the third char are shifted one place too few.
groupShifted(a, b, c) ==
    <<basis_64(Bits(a, 2, 6)), basis_64(Bits(a, 0, 2) * 16 + Bits(b, 4, 4)),
      basis_64(Bits(b, 0, 4) * 4 + Bits(c, 5, 2)), basis_64(Bits(c, 0, 6))>>

\* Three chars as four.
group(a, b, c) ==
    <<basis_64(Bits(a, 2, 6)), basis_64(Bits(a, 0, 2) * 16 + Bits(b, 4, 4)),
      basis_64(Bits(b, 0, 4) * 4 + Bits(c, 6, 2)), basis_64(Bits(c, 0, 6))>>

\* Whole groups while i < len - 2, then one or two chars that are left, padded.
Base64encode(string) ==
    LET len == Len(string)
        full == len \div 3
        whole == Groups(full, 4, LAMBDA j :
                     group(string[3 * j + 1], string[3 * j + 2], string[3 * j + 3]))
        one == group(string[len], 0, 0)
        two == group(string[len - 1], string[len], 0)
        tail == CASE len % 3 = 1 -> <<one[1], one[2], Pad, Pad>>
                  [] len % 3 = 2 -> <<two[1], two[2], two[3], Pad>>
                  [] OTHER -> << >>
    IN  whole \o tail \o <<NUL>>

\* The chars of the alphabet that a coded text starts with: while (pr2six[...] <= 63).
nprbytes(bufcoded) ==
    Min({i \in DOMAIN bufcoded : pr2six(bufcoded[i]) > 63}) - 1

Base64decode_len(bufcoded) == ((nprbytes(bufcoded) + 3) \div 4) * 3 + 1

\* Three bytes of four chars, as many of them as n chars give.
ungroup(s, i, n) ==
    LET v(k) == IF k <= n THEN pr2six(s[i + k]) ELSE 0
    IN  SubSeq(<<Signed((v(1) * 4 + v(2) \div 16) % 256),
                 Signed((v(2) * 16 + v(3) \div 4) % 256),
                 Signed((v(3) * 64 + v(4)) % 256)>>, 1, n - 1)

\* The bytes written, with the NUL after them, and the count returned.  The loop leaves
\* one to four chars for the end; (4 - nprbytes) & 3 is taken of what the loop leaves.
Base64decode(bufcoded) ==
    LET n == nprbytes(bufcoded)
        loops == IF n > 4 THEN (n - 1) \div 4 ELSE 0
        rest == n - 4 * loops
        whole == Groups(loops, 3, LAMBDA j : ungroup(bufcoded, 4 * j, 4))
        tail == IF rest > 1 THEN ungroup(bufcoded, 4 * loops, rest) ELSE << >>
    IN  [bytes |-> whole \o tail \o <<NUL>>,
         count |-> ((n + 3) \div 4) * 3 - ((4 - rest) % 4)]

\* std::string(const char*): up to the first NUL.
CString(buf) == SubSeq(buf, 1, Min({i \in DOMAIN buf : buf[i] = NUL}) - 1)

encode(s) == IF s = << >> THEN << >> ELSE CString(Base64encode(s))
decode(s) == IF s = << >> THEN << >> ELSE CString(Base64decode(Append(s, NUL)).bytes)

-----------------------------------------------------------------------------
Init == content = << >> /\ coded = << >>

\* Every text of the bounded alphabets is reached.
Next ==
    \/ /\ Len(content) < MaxPlain /\ coded = << >>
       /\ \E c \in Plain : content' = Append(content, c)
       /\ UNCHANGED coded
    \/ /\ Len(coded) < MaxCoded /\ content = << >>
       /\ \E c \in Coded : coded' = Append(coded, c)
       /\ UNCHANGED content

Spec == Init /\ [][Next]_vars

-----------------------------------------------------------------------------
\* The bits of a text from the left, and the text in radix 64 with zero bits added.
BitAt(s, k) == IF k >= 8 * Len(s) THEN 0 ELSE Bits(s[(k \div 8) + 1], 7 - (k % 8), 1)
Radix64(s) ==
    [j \in 1 .. (8 * Len(s) + 5) \div 6 |->
        LET b(k) == BitAt(s, 6 * (j - 1) + k)
        IN  32 * b(0) + 16 * b(1) + 8 * b(2) + 4 * b(3) + 2 * b(4) + b(5)]

\* encode() writes the text in radix 64, most significant bits first, also for chars that
\* are negative, and pads it to a multiple of four.
EncodesRadix64 ==
    LET r == Radix64(content)  e == encode(content)
    IN  /\ SubSeq(e, 1, Len(r)) = [j \in DOMAIN r |-> basis_64(r[j])]
        /\ \A j \in Len(r) + 1 .. Len(e) : e[j] = Pad
        /\ Len(e) % 4 = 0 /\ Len(e) - Len(r) < 4

\* Decoding what was encoded gives the text again, with its length; through the wrapper,
\* whose results are made from C strings, what is before its first NUL.
RoundTrip ==
    LET d == Base64decode(Base64encode(content))
    IN  /\ d.count = Len(content) /\ d.bytes = Append(content, NUL)
        /\ decode(encode(content)) = CString(Append(content, NUL))

\* Nothing is written past the buffers that the _len functions size, whatever the text is,
\* and the count that decoding returns is the number of bytes it has written.
WithinBuffers ==
    LET d == Base64decode(Append(coded, NUL))
    IN  /\ Len(Base64encode(content)) <= Base64encode_len(Len(content))
        /\ Len(d.bytes) <= Base64decode_len(Append(coded, NUL))
        /\ d.count = Len(d.bytes) - 1

=============================================================================
