----------------------------- MODULE SslSession -----------------------------
(***************************************************************************)
(* net/ssl/LibSSL.h, SSLHandler.h and the session functions of SSLHelper.h *)
(* The contexts of OpenSSL are made on first use and kept in two global    *)
(* tables that no lock protects; the threads of a program look them up and *)
(* store them in any order.  A handler owns one SSL object, which its      *)
(* destructor does not free: only close() does.                            *)
(*                                                                         *)
(* A context and an SSL object are named by the order they are made in;    *)
(* cipher strings are sequences of names with a separator.               *)
(***************************************************************************)
EXTENDS Integers, Sequences, FiniteSets

CONSTANTS
    Threads,    \* the threads that open sessions
    Versions,   \* the versions they ask for
    Wanted,     \* lists of cipher codes that clients offer
    MaxOpen     \* bound on the calls of open()

NATTAN_SSLV3 == 768    \* 0x0300
NATTAN_TLS12 == 771    \* 0x0303
NATTAN_SSL_ANY == 4

\* A version indexes a table of five by its last four bits: the versions are the macros of
\* LibSSL.h and the one after them that a hello may name.
SslAssumption ==
    /\ IsFiniteSet(Threads) /\ MaxOpen \in Nat /\ Wanted \subseteq Seq(Nat)
    /\ Versions \subseteq {NATTAN_SSL_ANY} \cup NATTAN_SSLV3 .. NATTAN_TLS12 + 1

Sides == {"client", "server"}
None == 0
Colon == -1     \* the separator of a cipher string

VARIABLES
    g_ssl_ctx_list, \* by side and index, the context in the table, or None
    ctxs,           \* the contexts made: side and method
    pc,             \* what a thread is doing
    opened,         \* calls of open() so far
    arg,            \* side and version of its open()
    ctx,            \* the context it has looked up
    fssl,           \* the SSL object of its handler, or None
    ssls,           \* the SSL objects made: their contexts
    live,           \* those that have not been freed
    unclosed,       \* those whose handler was deleted without a close()
    ciphers         \* the cipher string of its session and the list it came from

table == <<g_ssl_ctx_list, ctxs>>
objects == <<fssl, ssls, live, unclosed>>
vars == <<table, pc, opened, arg, ctx, objects, ciphers>>

Args == [side : Sides, version : Versions]
NoArg == [side |-> "client", version |-> NATTAN_SSL_ANY]

SslTypeOK ==
    /\ g_ssl_ctx_list \in [Sides -> [0 .. 4 -> 0 .. Len(ctxs)]]
    /\ \A i \in 1 .. Len(ctxs) : ctxs[i].side \in Sides
    /\ pc \in [Threads -> {"idle", "looked", "have", "open", "up", "closed"}]
    /\ arg \in [Threads -> Args \cup {NoArg}] /\ ctx \in [Threads -> 0 .. Len(ctxs)]
    /\ fssl \in [Threads -> 0 .. Len(ssls)] /\ live \subseteq 1 .. Len(ssls)
    /\ ssls \in Seq(1 .. Len(ctxs)) /\ opened \in 0 .. MaxOpen

Init ==
    /\ g_ssl_ctx_list = [s \in Sides |-> [i \in 0 .. 4 |-> None]]
    /\ opened = 0 /\ ctxs = <<>> /\ ssls = <<>> /\ live = {} /\ unclosed = {}
    /\ pc = [t \in Threads |-> "idle"] /\ arg = [t \in Threads |-> NoArg]
    /\ ctx = [t \in Threads |-> None] /\ fssl = [t \in Threads |-> None]
    /\ ciphers = [t \in Threads |-> [codes |-> <<>>, list |-> <<>>]]

\* NewClientSSLCtx and NewServerSSLCtx: the method of OpenSSL for a version.
NewSSLCtx(side, v) ==
    [side |-> side, method |-> IF v \in NATTAN_SSLV3 .. NATTAN_TLS12 THEN v ELSE NATTAN_SSL_ANY]

\* open(), up to the read of the table in GetClientSSLCtx or GetServerSSLCtx.
open(t, a) ==
    /\ pc[t] = "idle" /\ opened < MaxOpen
    /\ opened' = opened + 1
    /\ arg' = [arg EXCEPT ![t] = a]
    /\ ctx' = [ctx EXCEPT ![t] = g_ssl_ctx_list[a.side][a.version % 16]]
    /\ pc' = [pc EXCEPT ![t] = "looked"]
    /\ UNCHANGED <<table, objects, ciphers>>

\* The rest of it: what was not in the table is made, and what it has is stored, over
\* whatever another thread has stored since.
GetSSLCtx(t) ==
    LET a == arg[t]  c == IF ctx[t] = None THEN Len(ctxs) + 1 ELSE ctx[t]
    IN  /\ pc[t] = "looked"
        /\ ctxs' = IF ctx[t] = None THEN Append(ctxs, NewSSLCtx(a.side, a.version)) ELSE ctxs
        /\ g_ssl_ctx_list' = [g_ssl_ctx_list EXCEPT ![a.side][a.version % 16] = c]
        /\ ctx' = [ctx EXCEPT ![t] = c]
        /\ pc' = [pc EXCEPT ![t] = "have"]
        /\ UNCHANGED <<opened, arg, objects, ciphers>>

Idle(t) ==
    /\ pc' = [pc EXCEPT ![t] = "idle"]
    /\ arg' = [arg EXCEPT ![t] = NoArg] /\ ctx' = [ctx EXCEPT ![t] = None]
    /\ fssl' = [fssl EXCEPT ![t] = None]
    /\ ciphers' = [ciphers EXCEPT ![t] = [codes |-> <<>>, list |-> <<>>]]

\* SSL_new fails: the handler is deleted and there is nothing to free.
OpenFails(t) ==
    /\ pc[t] = "have" /\ Idle(t)
    /\ UNCHANGED <<table, opened, ssls, live, unclosed>>

SSL_new(t) ==
    /\ ssls' = Append(ssls, ctx[t])
    /\ live' = live \cup {Len(ssls) + 1}

\* SSL_set_fd fails: CreateServerSSLHandler and CreateClientSSLHandler delete a handler
\* that has an SSL object.
SetFdFails(t) ==
    /\ pc[t] = "have" /\ SSL_new(t) /\ Idle(t)
    /\ unclosed' = unclosed \cup {Len(ssls) + 1}
    /\ UNCHANGED <<table, opened>>

CreateSSLHandler(t) ==
    /\ pc[t] = "have" /\ SSL_new(t)
    /\ fssl' = [fssl EXCEPT ![t] = Len(ssls) + 1]
    /\ pc' = [pc EXCEPT ![t] = "open"]
    /\ UNCHANGED <<table, opened, arg, ctx, unclosed, ciphers>>

\* Accept or Connect succeeds (when it fails, nothing changes).
Handshake(t) ==
    /\ pc[t] = "open"
    /\ pc' = [pc EXCEPT ![t] = "up"]
    /\ UNCHANGED <<table, opened, arg, ctx, objects, ciphers>>

\* Code c has a standard name, and that has a name in OpenSSL.
GetCipherByHexCode(c) == IF c \in 1 .. 9 THEN c ELSE None

\* Mutant of JoinCiphers: a separator before every code but the first.
JoinByPlace(codes) ==
    LET join[n \in 0 .. Len(codes)] ==
            IF n = 0 THEN <<>>
            ELSE IF GetCipherByHexCode(codes[n]) = None THEN join[n - 1]
            ELSE join[n - 1] \o (IF n = 1 THEN <<>> ELSE <<Colon>>)
                             \o <<GetCipherByHexCode(codes[n])>>
    IN  join[Len(codes)]

\* A name joins the string, behind a separator unless it is the first; no name, no change.
Joined(s, name) ==
    IF name = None THEN s ELSE s \o (IF s = <<>> THEN <<>> ELSE <<Colon>>) \o <<name>>

JoinCiphers(codes) ==
    LET join[n \in 0 .. Len(codes)] ==
            IF n = 0 THEN <<>> ELSE Joined(join[n - 1], GetCipherByHexCode(codes[n]))
    IN  join[Len(codes)]

\* setCipherListInteger before the handshake; OpenSSL refuses an empty string and keeps
\* what it had.
setCipherList(t, codes) ==
    /\ pc[t] = "open" /\ JoinCiphers(codes) # <<>>
    /\ ciphers' = [ciphers EXCEPT ![t] = [codes |-> codes, list |-> JoinCiphers(codes)]]
    /\ UNCHANGED <<table, pc, opened, arg, ctx, objects>>

freeResources(t) ==
    /\ live' = live \ {fssl[t]}
    /\ fssl' = [fssl EXCEPT ![t] = None]

\* close(), and a second close().
close(t) ==
    /\ pc[t] \in {"open", "up", "closed"}
    /\ freeResources(t)
    /\ pc' = [pc EXCEPT ![t] = "closed"]
    /\ UNCHANGED <<table, opened, arg, ctx, ssls, unclosed, ciphers>>

\* ~SSLHandler: "if (!fssl) close()" frees nothing.
Delete(t) ==
    /\ pc[t] \in {"open", "up", "closed"} /\ Idle(t)
    /\ unclosed' = unclosed \cup ({fssl[t]} \ {None})
    /\ UNCHANGED <<table, opened, ssls, live>>

Next ==
    \E t \in Threads :
        \/ \E a \in Args : open(t, a)
        \/ GetSSLCtx(t) \/ OpenFails(t) \/ SetFdFails(t) \/ CreateSSLHandler(t)
        \/ Handshake(t) \/ close(t) \/ Delete(t)
        \/ \E codes \in Wanted : setCipherList(t, codes)

Spec == Init /\ [][Next]_vars

-----------------------------------------------------------------------------
\* A session always has a context of its own side and for the version that was asked for,
\* however the threads interleave their look-ups and stores: a slot of the table may be
\* overwritten, but only with a context that serves as well (GetClientSSLCtx).
CtxRight ==
    \A t \in Threads : fssl[t] # None =>
        ctxs[ssls[fssl[t]]] = NewSSLCtx(arg[t].side, arg[t].version)

\* The unprotected tables waste few contexts: for every slot at most one is made per
\* thread, because a slot once filled is never empty again.
FewContexts ==
    \A s \in Sides, m \in {NATTAN_SSL_ANY} \cup NATTAN_SSLV3 .. NATTAN_TLS12 :
        Cardinality({i \in 1 .. Len(ctxs) : ctxs[i] = [side |-> s, method |-> m]})
            <= Cardinality(Threads)

\* The SSL objects that live are those of the handlers and those whose handler was
\* deleted without a close(); no handler has one that was freed, and no two share one.
SslOwned ==
    /\ live = ({fssl[t] : t \in Threads} \ {None}) \cup unclosed
    /\ \A t, u \in Threads : t # u /\ fssl[t] # None => fssl[t] # fssl[u]

\* The places of an offer, up to n, whose cipher OpenSSL has a name for.
Named(codes, n) == {i \in 1 .. n : GetCipherByHexCode(codes[i]) # None}

\* A well-formed list of exactly the named ciphers among the first n, in their order.
InOrder(list, codes, n) ==
    LET named == Named(codes, n)
    IN  /\ Len(list) = IF named = {} THEN 0 ELSE 2 * Cardinality(named) - 1
        /\ \A i \in named :
             list[2 * Cardinality(Named(codes, i - 1)) + 1] = GetCipherByHexCode(codes[i])
        /\ \A k \in 1 .. Len(list) : k % 2 = 0 => list[k] = Colon

\* The cipher string of a session is a well-formed list of exactly the offered ciphers that
\* OpenSSL has a name for, in the order of the offer, wherever the unknown ones stand.
CiphersInOrder ==
    \A t \in Threads : InOrder(ciphers[t].list, ciphers[t].codes, Len(ciphers[t].codes))

=============================================================================
