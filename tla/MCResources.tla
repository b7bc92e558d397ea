---------------------------- MODULE MCResources -----------------------------
(***************************************************************************)
(* Instances for TLC of what must live, and be right, as long as somebody  *)
(* uses it: a descriptor and the tasks that wait for it, the tables that   *)
(* are indexed by descriptors, TLS sessions and certificates, and what a   *)
(* parser keeps of a client hello.  They do not touch each other's state,  *)
(* and a behaviour moves one of them: part says which.  TLC runs the       *)
(* instance of MCResources.cfg; ResourcesProofs is about every instance.   *)
(***************************************************************************)
EXTENDS Integers, Sequences, FiniteSets

VARIABLE part    \* the component that moves

\* event.c: tasks and descriptors, some of them listening.
CONSTANTS PollTasks, NoTask, PollFds, Listening, Memory, Reports, Size, MaxAge
VARIABLES g_inner_fd_list, task, error, slot, registered, ready, loc, expired, pc_ev, on, ptr,
          age, shared, freed
Poll == INSTANCE EventPoll WITH
    Tasks <- PollTasks, Fds <- PollFds, pc <- pc_ev
pollVars == <<g_inner_fd_list, task, error, slot, registered, ready, loc, expired, pc_ev, on,
              ptr, age, shared, freed>>

\* Reads with and without a time limit.
CONSTANTS MaxBytes, MaxCalls
VARIABLES hooked, sent, ended, inbox, got, pc_io, fired, ret_io, calls, expiries
Io == INSTANCE HookedIo WITH pc <- pc_io, ret <- ret_io
ioVars == <<hooked, sent, ended, inbox, got, pc_io, fired, ret_io, calls, expiries>>

\* net/Socket.h: Sockets and descriptor numbers.
CONSTANTS SockFds, Socks, MaxConn, MaxHandler
VARIABLES open_so, g_sock_address, g_sock_ssl_handler, fSockFd, meant, pending, shut, nconn,
          nssl, session, handlers, overwritten, other, listenFailed
Socket == INSTANCE SocketTable WITH
    Fds <- SockFds, open <- open_so
socketVars == <<open_so, g_sock_address, g_sock_ssl_handler, fSockFd, meant, pending, shut,
                nconn, nssl, session, handlers, overwritten, other, listenFailed>>

\* net/ssl: threads that open sessions.
CONSTANTS Threads, Versions, Wanted, MaxOpen
VARIABLES g_ssl_ctx_list, ctxs, pc_ssl, opened, arg, ctx, fssl, ssls, live, unclosed,
          ciphers
Ssl == INSTANCE SslSession WITH pc <- pc_ssl
sslVars == <<g_ssl_ctx_list, ctxs, pc_ssl, opened, arg, ctx, fssl, ssls, live, unclosed,
             ciphers>>

\* SSLHelper.h: the certificate functions, every call of OpenSSL may fail.
CONSTANTS OrgExtensions, Set1Results
VARIABLES pc_ce, refs, ca_cert, ca_pkey, exts, cert, pkey, keyed, copied, ret_ce
Cert == INSTANCE CertSign WITH pc <- pc_ce, ret <- ret_ce
certVars == <<pc_ce, refs, ca_cert, ca_pkey, exts, cert, pkey, keyed, copied, ret_ce>>

\* ClientHelloParser.h: one parser, one connection after the other.
CONSTANTS Hellos, Cuts, MaxConns
VARIABLES hello, have, memLength, swaps, ret_he, bCompleted, fCiphers, fServer, conns, names
Hello == INSTANCE ClientHello WITH ret <- ret_he
helloVars == <<hello, have, memLength, swaps, ret_he, bCompleted, fCiphers, fServer, conns,
               names>>

\* For TLC.  At most three extensions.
SmallExtensions == UNION {[1 .. n -> {"subjectAltName", "other"}] : n \in 0 .. 3}

Ext(t, n) == [type |-> t, name |-> n]

\* Hellos with a record length below 256, one whose bytes are the same both ways, and one
\* that is small when they are swapped.
Hello1 == [length |-> 130, ciphers |-> <<1, 2>>, extensions |-> <<Ext(10, "none"), Ext(0, "a")>>]
Hello2 == [length |-> 514, ciphers |-> <<3>>, extensions |-> <<Ext(0, "b"), Ext(0, "c")>>]
Hello3 == [length |-> 512, ciphers |-> <<4>>, extensions |-> << >>]
SmallHellos == {Hello1, Hello2, Hello3}

\* An offer with an unknown code (0) first, between and last.
SmallWanted == {<<0, 2, 0, 1, 0>>}

ASSUME ResourcesAssumption ==
    /\ Poll!PollAssumption
    /\ Io!IoAssumption
    /\ Socket!SocketAssumption
    /\ Ssl!SslAssumption
    /\ Cert!CertAssumption
    /\ Hello!HelloAssumption

allVars == <<part, pollVars, ioVars, socketVars, sslVars, certVars, helloVars>>

Init ==
    /\ part \in {"poll", "io", "socket", "ssl", "cert", "hello"}
    /\ Poll!Init
    /\ Io!Init
    /\ Socket!Init
    /\ Ssl!Init
    /\ Cert!Init
    /\ Hello!Init
    /\ part # "cert" => exts = CHOOSE e \in OrgExtensions : TRUE
    /\ part # "hello" => hello = CHOOSE h \in Hellos : TRUE

\* One component takes a step; the others stay as they are.
Next ==
    \/ /\ part = "poll" /\ Poll!Next
       /\ UNCHANGED <<part, ioVars, socketVars, sslVars, certVars, helloVars>>
    \/ /\ part = "io" /\ Io!Next
       /\ UNCHANGED <<part, pollVars, socketVars, sslVars, certVars, helloVars>>
    \/ /\ part = "socket" /\ Socket!Next
       /\ UNCHANGED <<part, pollVars, ioVars, sslVars, certVars, helloVars>>
    \/ /\ part = "ssl" /\ Ssl!Next
       /\ UNCHANGED <<part, pollVars, ioVars, socketVars, certVars, helloVars>>
    \/ /\ part = "cert" /\ Cert!Next
       /\ UNCHANGED <<part, pollVars, ioVars, socketVars, sslVars, helloVars>>
    \/ /\ part = "hello" /\ Hello!Next
       /\ UNCHANGED <<part, pollVars, ioVars, socketVars, sslVars, certVars>>

Spec == Init /\ [][Next]_allVars

-----------------------------------------------------------------------------
\* A task that waits for a descriptor of its own can be reached: its inner_fd names it, the
\* descriptor is in the epoll set, and its time-out, if it has one, is in the wheel.  Only
\* another task takes this away: one that polls the same descriptor, one that closes it, or
\* one that returns through a pointer to an inner_fd that was closed under it.  And nobody
\* is woken for a descriptor it is not waiting for.
PollersReached ==
    part = "poll" => Poll!EventTypeOK /\ Poll!NobodyForgotten /\ Poll!NoStrayWake

\* A time-out is reported only after the timer has expired FD_TIMEOUT times since the wait
\* began, though several expirations may be read as one: the first may come at once, so that
\* more than FD_TIMEOUT - 1 seconds have passed.
NotEarly == Poll!NotEarly

\* A task reads what the peer sends, in order, nothing twice and nothing skipped, though bytes
\* and the timer of co_poll race; its hook is off only after a readTill that timed out, and
\* no hooked call returns EAGAIN.
ReadsRight == part = "io" => Io!ReadInOrder /\ Io!UnhookedByExpiry

\* While descriptor numbers are reused, until a TcpListen fails: the tables of addresses and
\* TLS handlers speak of connections that are there, every Socket has the connection its
\* user means, and nobody loses a descriptor.  Even after that, a handler lives as long as
\* the table or a close() under way points to it, each has one owner, and only one that was
\* overwritten in the table has none.
SocketsRight ==
    part = "socket" =>
        /\ Socket!SocketTypeOK /\ Socket!TablesCurrent /\ Socket!NoneDangles
        /\ Socket!NoDescriptorLost /\ Socket!HandlersOwned

\* A TLS session has a context of its side and version, however threads race for the tables,
\* which waste at most one context per slot and thread; SSL objects are owned until freed or
\* dropped with an unclosed handler.  Whichever exit signCert takes, it has freed what it made
\* but the exponent of genRSA, and its pointers agree with its answer.  Whatever connections a
\* ClientHelloParser has served before, a hello that is whole and complete has its own ciphers
\* once and in order, and its own server name if it has one; one that comes in one read is
\* complete with that call.
TlsRight ==
    /\ part = "ssl" => Ssl!SslTypeOK /\ Ssl!CtxRight /\ Ssl!FewContexts /\ Ssl!SslOwned
    /\ part = "cert" => Cert!CertTypeOK /\ Cert!NothingLost /\ Cert!AnswerHonest
    /\ part = "hello" => /\ Hello!HelloTypeOK /\ Hello!CiphersOfThis
                         /\ Hello!NameOfThis /\ Hello!WholeInOne

\* The lists that TLS code makes from other lists: a cipher string follows the offer, wherever
\* the unknown codes stand, and the names signCert copies are those of the original.
ListsRight ==
    /\ part = "ssl" => Ssl!CiphersInOrder
    /\ part = "cert" => Cert!SanCopied

=============================================================================
