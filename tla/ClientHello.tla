---------------------------- MODULE ClientHello -----------------------------
(***************************************************************************)
(* net/ssl/ClientHelloParser.h: the ciphers and the server name of a TLS   *)
(* client hello.  The caller collects the bytes of a connection in a       *)
(* buffer and calls parse() on it after every read until it returns 0.     *)
(* parse() converts fields to host order in the caller's buffer, so that   *)
(* what a call reads depends on the calls before.  Hellos are well-formed. *)
(***************************************************************************)
EXTENDS Integers, Sequences

CONSTANTS
    Hellos,     \* [length, ciphers, extensions]: the record length, and the lists
    Cuts,       \* the numbers of bytes after which a read may end
    MaxConns    \* bound on the connections one parser sees

Shorts == {v \in Int : v >= -32768 /\ v < 32768}    \* what a short holds

HelloAssumption ==
    /\ MaxConns \in Nat \ {0} /\ Cuts \subseteq Nat
    /\ \A h \in Hellos : /\ h.length \in Shorts /\ h.length > 0 /\ h.ciphers \in Seq(Nat)
                        /\ h.extensions \in Seq([type : Nat, name : STRING])

RecoderSize == 5
More == 1
Done == 0
NoName == "none"
Unknown == "bytes that were not received"
TooMany == 2^30     \* more than any buffer has

VARIABLES
    hello,      \* the hello of the connection
    have,       \* bytes of it in the buffer
    memLength,  \* Recoder.length as the buffer holds it, a short in host order
    swaps,      \* conversions made in this buffer (history)
    ret,        \* what the last parse() of this buffer returned
    bCompleted, fCiphers, fServer,
    conns,      \* connections so far
    names       \* the server names of earlier connections (history)

fields == <<bCompleted, fCiphers, fServer>>
Total == hello.length + RecoderSize
vars == <<hello, have, memLength, swaps, ret, fields, conns, names>>

\* ntohs on a little-endian host, of the 16 bits of a short; the result is stored in a short.
ntohs(v) ==
    LET u == v % 65536
        w == (u % 256) * 256 + (u \div 256)
    IN  IF w >= 32768 THEN w - 65536 ELSE w

\* The walk over the extensions stops at the first of type 0; without one, the name
\* that was there stays.
serverName(h, old) ==
    LET n == {i \in DOMAIN h.extensions : h.extensions[i].type = 0}
    IN  IF n = {} THEN old ELSE h.extensions[CHOOSE i \in n : \A j \in n : i <= j].name

\* {} or the name that a hello asks for: the first of its names.
Asked(h) ==
    {h.extensions[i].name : i \in {j \in DOMAIN h.extensions :
        h.extensions[j].type = 0 /\ \A k \in 1 .. j - 1 : h.extensions[k].type # 0}}

NewBuffer(h) ==
    /\ hello' = h /\ have' = 0 /\ memLength' = ntohs(h.length) /\ swaps' = 0 /\ ret' = More

HelloTypeOK ==
    /\ hello \in Hellos /\ have \in 0 .. Total
    /\ memLength \in Shorts /\ ret \in {More, Done}
    /\ ret = Done => bCompleted
    /\ conns \in 1 .. MaxConns

Init ==
    /\ hello \in Hellos /\ have = 0 /\ memLength = ntohs(hello.length) /\ swaps = 0 /\ ret = More
    /\ bCompleted = FALSE /\ fCiphers = << >> /\ fServer = NoName
    /\ conns = 1 /\ names = {NoName}

\* size_t need = recoder->length + sizeof(Recoder): a negative length makes it wrap.
need(length) == IF length + RecoderSize < 0 THEN TooMany ELSE length + RecoderSize

\* A read brings the buffer to n bytes, and parse() is called on it.
parse(n) ==
    /\ ret = More /\ n \in Cuts \cup {Total}
    /\ n > have /\ n <= Total
    /\ have' = n
    /\ \/ n < RecoderSize /\ UNCHANGED <<memLength, swaps, ret, fields>>
       \/ /\ n >= RecoderSize
          /\ memLength' = ntohs(memLength)
          /\ swaps' = swaps + 1
          /\ \/ n < need(memLength') /\ UNCHANGED <<ret, fields>>
             \/ /\ n >= need(memLength')
                /\ \/ /\ n = Total
                      /\ fCiphers' = fCiphers \o hello.ciphers
                      /\ fServer' = serverName(hello, fServer)
                   \/ n < Total /\ fCiphers' = <<Unknown>> /\ fServer' = Unknown
                /\ bCompleted' = TRUE /\ ret' = Done
    /\ UNCHANGED <<hello, conns, names>>

\* Mutant of reset: the list of ciphers stays.
resetKeeps == bCompleted' = FALSE /\ UNCHANGED <<fCiphers, fServer>>

\* fServer keeps its value.
reset == bCompleted' = FALSE /\ fCiphers' = << >> /\ UNCHANGED fServer

\* reset(), and the parser is used for the next connection.
NextConnection(h) ==
    /\ conns < MaxConns
    /\ conns' = conns + 1
    /\ names' = names \cup Asked(hello)
    /\ NewBuffer(h)
    /\ reset

Next ==
    \/ \E n \in Cuts \cup {Total} : parse(n)
    \/ \E h \in Hellos : NextConnection(h)

Spec == Init /\ [][Next]_vars

-----------------------------------------------------------------------------
\* A hello that is whole and reported complete has all its ciphers once and in order, whatever
\* connections were parsed, completed or given up before.
CiphersOfThis == ret = Done /\ have = Total => fCiphers = hello.ciphers

\* The server name of a complete hello is its own; a hello without one shows that of an
\* earlier connection.
NameOfThis ==
    ret = Done /\ have = Total =>
        fServer \in IF Asked(hello) # {} THEN Asked(hello) ELSE names \cup {Unknown}

\* A hello that comes in one read is complete with that call, and a head that is converted
\* once never makes an incomplete one look complete.
WholeInOne ==
    /\ swaps = 1 /\ have = Total => ret = Done
    /\ swaps <= 1 /\ ret = Done => have = Total

=============================================================================
