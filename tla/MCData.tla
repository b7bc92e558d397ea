------------------------------- MODULE MCData -------------------------------
(***************************************************************************)
(* Instances for TLC of what keeps, carries or converts data: identifiers  *)
(* and their heap, the hash map, the buffer, the body of a message, the    *)
(* tunnel, the resolver, base64, ids and the configuration.  They do not   *)
(* touch each other's state, and a behaviour moves one of them: part says  *)
(* which.                                                                  *)
(***************************************************************************)
EXTENDS Integers, Sequences, FiniteSets

CONSTANTS
    Tasks, MaxId, NoId,                                     \* of Cid
    Names, Values, Hash(_), Capacity, MaxCapacity, Missing, \* of HashMap
    kBufferPrefixed, InitSizes, Word, BufLens, MaxSize, MaxTurns,
    SizeofInt, SizeofLong,                                  \* of Buffer
    kMemoryLimit, Chunk, BodyLens, MaxFile,                 \* of BodyStore
    Bytes,                                                  \* of both
    MaxBytes, MaxCalls,                                     \* of Tunnel
    Hosts, MaxResolve, MaxEvents,                           \* of DNS
    Crews, SEQUENCE_MASK, TidShift, TimeShift, MaxClock, MaxIds,    \* of UUID
    Plain, MaxPlain, Coded, MaxCoded,                       \* of Base64
    Lines, Files, MaxLines                                  \* of ConfigParser

\* Five names: two share a hash, others share a bucket until the map grows.
StringHash(n) == CASE n = 1 -> 0 [] n = 2 -> 2 [] n = 3 -> 2 [] n = 4 -> 5 [] n = 5 -> 7

\* Chars with the bits that shifts and masks could get wrong.
SmallChars == {-128, -86, -1, 0, 1, 85}

\* Lines that look alike: a header with and without its closing bracket, a comment with an
\* "=", a header behind a blank, values with an "=".
ConfigLines == {<<"[", "a", "]">>, <<"[", "a">>, <<"[", "b", "]">>, <<"k", "=", "1">>,
                <<"k", "=", "=">>, <<"#", "=">>, <<" ", "[", "=">>, << >>}

VARIABLE part    \* the component that moves

\* cid.c and heap.c.
VARIABLES base, recycle, cid, failed
Ids == INSTANCE Cid WITH None <- NoId
cidVars == <<base, recycle, cid, failed>>

\* hash_map.c.
VARIABLES table, count, meant
Map == INSTANCE HashMap
mapVars == <<table, count, meant>>

\* core/Buffer.h.
VARIABLES buf_bu, expect_bu, next_bu
Buf == INSTANCE Buffer WITH
    Lens <- BufLens, buf <- buf_bu, expect <- expect_bu, next <- next_bu
bufferVars == <<buf_bu, expect_bu, next_bu>>

\* HttpBody and TempFile.
VARIABLES bodyMode, fMode, fBuf, tmp, tmpOff, linked, pFile, pOff, next_bo, expect_bo,
          whole, stalled, mixed
Body == INSTANCE BodyStore WITH
    Lens <- BodyLens, next <- next_bo, expect <- expect_bo
bodyVars == <<bodyMode, fMode, fBuf, tmp, tmpOff, linked, pFile, pOff, next_bo, expect_bo,
              whole, stalled, mixed>>

\* SocketHelper.h: a tunnel with and without TLS.
VARIABLES use_ssl, sent, closed, rx_tu, buf, out_tu, lost, hooked, pipes, calls_tu, pc_tu,
          ret
Tun == INSTANCE Tunnel WITH
    rx <- rx_tu, out <- out_tu, calls <- calls_tu, pc <- pc_tu
tunnelVars == <<use_ssl, sent, closed, rx_tu, buf, out_tu, lost, hooked, pipes, calls_tu,
                pc_tu, ret>>

\* proto/dns/DNS.h: the calls on one object.
VARIABLES bInited, channel, fResults, pc_dns, queries, events, calls_dns, host, returned,
          heard, initFailed, twice
Dns == INSTANCE DNS WITH pc <- pc_dns, calls <- calls_dns
dnsVars == <<bInited, channel, fResults, pc_dns, queries, events, calls_dns, host, returned,
             heard, initFailed, twice>>

\* base64.c.
VARIABLES content, coded
B64 == INSTANCE Base64
base64Vars == <<content, coded>>

\* util/UUID.h: three threads, one with a number too large for its field, or one thread
\* that uses up the numbers of a millisecond.
VARIABLES tids, clock, LAST_TIME_STAMP, SEQUENCE, pc_uu, current, seq, calls_uu, ids,
          repeated, overlapped, spilt, setBack
Uid == INSTANCE UUID WITH MaxCalls <- MaxIds, pc <- pc_uu, calls <- calls_uu
uuidVars == <<tids, clock, LAST_TIME_STAMP, SEQUENCE, pc_uu, current, seq, calls_uu, ids,
              repeated, overlapped, spilt, setBack>>

\* core/ConfigParser.cpp.
VARIABLES disk, filename, configMap, written, text
Conf == INSTANCE ConfigParser
configVars == <<disk, filename, configMap, written, text>>

ASSUME DataAssumption ==
    /\ Ids!CidAssumption
    /\ Map!HashMapAssumption
    /\ Buf!BufferAssumption
    /\ Body!BodyAssumption
    /\ Tun!TunnelAssumption
    /\ Dns!DNSAssumption
    /\ B64!Base64Assumption
    /\ Uid!UUIDAssumption
    /\ Conf!ConfigAssumption

allVars == <<part, cidVars, mapVars, bufferVars, bodyVars, tunnelVars, dnsVars, base64Vars,
             uuidVars, configVars>>

Init ==
    /\ part \in {"cid", "map", "buffer", "body", "tunnel", "dns", "base64", "uuid", "config"}
    /\ Ids!Init
    /\ Map!Init
    /\ Buf!Init
    /\ Body!Init
    /\ Tun!Init
    /\ Dns!Init
    /\ B64!Init
    /\ Uid!Init
    /\ Conf!Init
    /\ part # "buffer" => Buf!Size(buf_bu) = CHOOSE n \in InitSizes : TRUE
    /\ part # "tunnel" => ~use_ssl
    /\ part # "uuid" => tids = CHOOSE crew \in Crews : TRUE
    /\ part # "dns" => host = CHOOSE h \in Hosts : TRUE

\* One component takes a step; the others stay as they are.
Next ==
    \/ /\ part = "cid" /\ Ids!Next
       /\ UNCHANGED <<part, mapVars, bufferVars, bodyVars, tunnelVars, dnsVars, base64Vars, uuidVars,
                       configVars>>
    \/ /\ part = "map" /\ Map!Next
       /\ UNCHANGED <<part, cidVars, bufferVars, bodyVars, tunnelVars, dnsVars, base64Vars, uuidVars,
                       configVars>>
    \/ /\ part = "buffer" /\ Buf!Next
       /\ UNCHANGED <<part, cidVars, mapVars, bodyVars, tunnelVars, dnsVars, base64Vars, uuidVars,
                       configVars>>
    \/ /\ part = "body" /\ Body!Next
       /\ UNCHANGED <<part, cidVars, mapVars, bufferVars, tunnelVars, dnsVars, base64Vars, uuidVars,
                       configVars>>
    \/ /\ part = "tunnel" /\ Tun!Next
       /\ UNCHANGED <<part, cidVars, mapVars, bufferVars, bodyVars, dnsVars, base64Vars, uuidVars,
                       configVars>>
    \/ /\ part = "dns" /\ Dns!Next
       /\ UNCHANGED <<part, cidVars, mapVars, bufferVars, bodyVars, tunnelVars, base64Vars, uuidVars,
                       configVars>>
    \/ /\ part = "base64" /\ B64!Next
       /\ UNCHANGED <<part, cidVars, mapVars, bufferVars, bodyVars, tunnelVars, dnsVars, uuidVars,
                       configVars>>
    \/ /\ part = "uuid" /\ Uid!Next
       /\ UNCHANGED <<part, cidVars, mapVars, bufferVars, bodyVars, tunnelVars, dnsVars, base64Vars,
                       configVars>>
    \/ /\ part = "config" /\ Conf!Next
       /\ UNCHANGED <<part, cidVars, mapVars, bufferVars, bodyVars, tunnelVars, dnsVars, base64Vars,
                       uuidVars>>

Spec == Init /\ [][Next]_allVars

-----------------------------------------------------------------------------
\* Tables.  The heap of freed task identifiers gives the smallest of them first (they are used
\* only when the counter has reached max_id), loses none, and until an allocation fails no two
\* live tasks share an identifier.  The hash map finds what was last
\* put under a name, however often it has grown, and counts it.
TablesRight ==
    /\ part = "cid" => Ids!SmallestFirst /\ Ids!IdsConserved /\ Ids!IdsDistinct
    /\ part = "map" => Map!GetsWhatWasPut /\ Map!CountRight

\* Bytes.  Until a resize has made its vector smaller a Buffer is a queue of bytes (those of
\* a peek are read and written again, by peekLong() changed) with real room behind end().
\* The readers of a body get what was written, in order, across the spill to the file, mode
\* switches, failed sends and resets, and a successful send wrote all of it, as long as no
\* reset left unread bytes in the temporary file and the peer did not take nothing.
BytesKept ==
    /\ part = "buffer" => Buf!BufferTypeOK /\ Buf!ByteQueue /\ Buf!RoomUntilShrunk
    /\ part = "body" => /\ Body!BodyTypeOK /\ Body!BodyInOrder /\ Body!SentWhole
                        /\ Body!SpillEmpties

\* A tunnel neither loses, doubles nor moves a byte while its calls succeed, however reads and
\* writes cut the stream, and leaves the task hooked on every path.  The first name a DNS
\* object resolves is answered truly, no answer to a query that timed out turns up in a later
\* call, and a channel is destroyed once, unless ares_init_options failed on an object in use.
CarriedAndResolved ==
    /\ part = "tunnel" => Tun!TunnelTypeOK /\ Tun!CarriedInOrder /\ Tun!HookedOutside
    /\ part = "dns" => /\ Dns!DnsTypeOK /\ Dns!FirstIsRight /\ Dns!NoStrayAnswer
                       /\ Dns!DestroyedOnce

\* The configuration finds the first value in the first block of that name in the text that
\* was read last, and what it prints reads back.
LookupsRight ==
    part = "config" => Conf!ConfigTypeOK /\ Conf!LookupIsFirst /\ Conf!DumpReadsBack

\* Codes.  encode() writes the text in radix 64, also for chars that are negative; decoding
\* gives the text again (through the wrapper, up to its first NUL); and nothing is written
\* past the buffers that the _len functions size, whatever the text is.  UUID returns an id
\* twice only when calls of threads overlap, the clock was set back or a number covers the
\* bits of another.
CodesRight ==
    /\ part = "base64" => B64!EncodesRadix64 /\ B64!RoundTrip /\ B64!WithinBuffers
    /\ part = "uuid" => Uid!UUIDTypeOK /\ Uid!UniqueUnlessMixed
=============================================================================
