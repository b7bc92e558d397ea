---------------------------- MODULE SocketTable -----------------------------
(***************************************************************************)
(* net/Socket.h and the connection functions of net/SocketHelper.h.        *)
(* A Socket holds the number of a descriptor; the peer address and the TLS *)
(* handler of a connection are in two global tables indexed by that        *)
(* number.  The kernel gives a number that was closed to whoever opens a   *)
(* descriptor next: another task, or code that does not use Socket at all. *)
(*                                                                         *)
(* Connections, and TLS handlers, are numbered in the order in which they  *)
(* are made.  A connect yields to other tasks, and so does a close while   *)
(* SSL_shutdown writes; everything else is one step.                       *)
(***************************************************************************)
EXTENDS Integers, FiniteSets

CONSTANTS
    Fds,        \* the descriptor numbers
    Socks,      \* the Socket objects of the program, one per task
    MaxConn,    \* bound on the connections opened
    MaxHandler  \* bound on the TLS handlers made

INVALID_SOCKET == -1   \* not a descriptor
None == 0

SocketAssumption == MaxConn \in Nat /\ MaxHandler \in Nat /\ Fds \subseteq Nat

VARIABLES
    open,               \* the connection behind a descriptor, or None
    g_sock_address,     \* the connection whose address the table holds for it
    g_sock_ssl_handler, \* the handler the table holds for it, or None
    fSockFd,            \* the descriptor number of a Socket
    meant,              \* the connection its user means
    pending,            \* the descriptor of a connect that is under way
    shut,               \* the handler in SSL_shutdown under its close, or None
    nconn,              \* connections opened so far
    nssl,               \* handlers made so far
    session,            \* the connection a handler was made for
    handlers,           \* handlers that have not been deleted
    overwritten,        \* handlers that another one took the entry of
    other,              \* connections without a Socket: files, pipes, timers
    listenFailed        \* a TcpListen has failed

ghosts == <<other, listenFailed>>
tables == <<g_sock_address, g_sock_ssl_handler>>
tls == <<nssl, session, handlers, overwritten>>
vars == <<open, tables, tls, fSockFd, meant, pending, shut, nconn, ghosts>>

Conns == 1 .. MaxConn
Handlers == 1 .. MaxHandler

SocketTypeOK ==
    /\ open \in [Fds -> Conns \cup {None}]
    /\ g_sock_address \in [Fds -> Conns \cup {None}]
    /\ g_sock_ssl_handler \in [Fds -> Handlers \cup {None}]
    /\ fSockFd \in [Socks -> Fds \cup {INVALID_SOCKET}]
    /\ meant \in [Socks -> Conns \cup {None}]
    /\ pending \in [Socks -> Fds \cup {INVALID_SOCKET}]
    /\ shut \in [Socks -> Handlers \cup {None}]
    /\ nconn \in 0 .. MaxConn /\ nssl \in 0 .. MaxHandler
    /\ session \in [Handlers -> Conns \cup {None}]
    /\ handlers \subseteq Handlers /\ overwritten \subseteq Handlers
    /\ other \subseteq Conns /\ listenFailed \in BOOLEAN

Init ==
    /\ open = [f \in Fds |-> None]
    /\ g_sock_address = [f \in Fds |-> None]
    /\ g_sock_ssl_handler = [f \in Fds |-> None]
    /\ fSockFd = [s \in Socks |-> INVALID_SOCKET]
    /\ meant = [s \in Socks |-> None]
    /\ pending = [s \in Socks |-> INVALID_SOCKET]
    /\ shut = [s \in Socks |-> None]
    /\ nconn = 0 /\ nssl = 0 /\ session = [h \in Handlers |-> None]
    /\ handlers = {} /\ overwritten = {} /\ other = {} /\ listenFailed = FALSE

\* socket() or accept() gives a free number to a new connection.
NewDescriptor(f) ==
    /\ nconn < MaxConn /\ open[f] = None
    /\ nconn' = nconn + 1
    /\ open' = [open EXCEPT ![f] = nconn + 1]

\* Socket s gets the number f of connection c.
Attached(s, f, c) ==
    /\ fSockFd' = [fSockFd EXCEPT ![s] = f]
    /\ meant' = [meant EXCEPT ![s] = c]

Idle(s) == fSockFd[s] = INVALID_SOCKET /\ pending[s] = INVALID_SOCKET

setupSockAddress(f, c) == g_sock_address' = [g_sock_address EXCEPT ![f] = c]

\* The descriptor is closed (which fails when it is not open), and task s is done with it.
Closed(s, f) ==
    /\ open' = [open EXCEPT ![f] = None]
    /\ fSockFd' = [fSockFd EXCEPT ![s] = INVALID_SOCKET]
    /\ pending' = [pending EXCEPT ![s] = INVALID_SOCKET]
    /\ meant' = [meant EXCEPT ![s] = None]

\* Mutant of closeFd: the address stays in its table.
closeKeepsAddress(s, f) ==
    /\ g_sock_ssl_handler' = [g_sock_ssl_handler EXCEPT ![f] = None]
    /\ shut' = [shut EXCEPT ![s] = g_sock_ssl_handler[f]]
    /\ IF g_sock_ssl_handler[f] = None
       THEN Closed(s, f)
       ELSE UNCHANGED <<open, fSockFd, pending, meant>>
    /\ UNCHANGED g_sock_address

\* Socket::close() on number f: both table entries are cleared.  Without a handler the
\* descriptor is closed at once; with one, SSL_shutdown may yield before that.
closeFd(s, f) ==
    /\ g_sock_address' = [g_sock_address EXCEPT ![f] = None]
    /\ g_sock_ssl_handler' = [g_sock_ssl_handler EXCEPT ![f] = None]
    /\ shut' = [shut EXCEPT ![s] = g_sock_ssl_handler[f]]
    /\ IF g_sock_ssl_handler[f] = None
       THEN Closed(s, f)
       ELSE UNCHANGED <<open, fSockFd, pending, meant>>

-----------------------------------------------------------------------------
\* TcpConnect and TcpConnectTill: socket(), then connect(), which yields.
ConnectBegin(s, f) ==
    /\ Idle(s)
    /\ NewDescriptor(f)
    /\ pending' = [pending EXCEPT ![s] = f]
    /\ UNCHANGED <<tables, tls, fSockFd, meant, shut, ghosts>>

\* TcpConnect: connected, and the caller attaches what it is given.
TcpConnect(s) ==
    LET f == pending[s]
    IN  /\ f # INVALID_SOCKET /\ shut[s] = None /\ open[f] # None
        /\ setupSockAddress(f, open[f])
        /\ Attached(s, f, open[f])
        /\ pending' = [pending EXCEPT ![s] = INVALID_SOCKET]
        /\ UNCHANGED <<open, g_sock_ssl_handler, tls, shut, nconn, ghosts>>

\* TcpConnectTill: refused, failed, or no event within ms: the socket is closed and the
\* caller gets INVALID_SOCKET.  (TcpConnect fails the same way.)
TcpConnectTill(s) ==
    /\ pending[s] # INVALID_SOCKET /\ shut[s] = None
    /\ closeFd(s, pending[s])
    /\ UNCHANGED <<tls, nconn, ghosts>>

\* TcpListen: a listening socket, or, when bind or listen fails, the number of the
\* descriptor that has just been closed.
TcpListen(s, f) ==
    /\ Idle(s)
    /\ nconn < MaxConn /\ open[f] = None
    /\ nconn' = nconn + 1
    /\ Attached(s, f, nconn + 1)
    /\ \/ /\ open' = [open EXCEPT ![f] = nconn + 1]
          /\ setupSockAddress(f, nconn + 1)
          /\ UNCHANGED listenFailed
       \/ UNCHANGED <<open, g_sock_address>> /\ listenFailed' = TRUE
    /\ UNCHANGED <<g_sock_ssl_handler, tls, pending, shut, other>>

\* TcpAccept: a connection, or one that has failed already and is closed again.
TcpAccept(s, f) ==
    /\ Idle(s)
    /\ nconn < MaxConn /\ open[f] = None
    /\ nconn' = nconn + 1
    /\ \/ /\ open' = [open EXCEPT ![f] = nconn + 1]
          /\ setupSockAddress(f, nconn + 1)
          /\ Attached(s, f, nconn + 1)
       \/ UNCHANGED <<open, g_sock_address, fSockFd, meant>>
    /\ UNCHANGED <<g_sock_ssl_handler, tls, pending, shut, ghosts>>

\* The user puts a TLS session on its connection.  A handler that is there is overwritten.
setSSLHandler(s) ==
    LET f == fSockFd[s]
    IN  /\ f # INVALID_SOCKET /\ shut[s] = None /\ nssl < MaxHandler
        /\ nssl' = nssl + 1
        /\ session' = [session EXCEPT ![nssl + 1] = meant[s]]
        /\ handlers' = handlers \cup {nssl + 1}
        /\ overwritten' = overwritten \cup ({g_sock_ssl_handler[f]} \ {None})
        /\ g_sock_ssl_handler' = [g_sock_ssl_handler EXCEPT ![f] = nssl + 1]
        /\ UNCHANGED <<open, g_sock_address, fSockFd, meant, pending, shut, nconn, ghosts>>

close(s) ==
    /\ fSockFd[s] # INVALID_SOCKET /\ shut[s] = None
    /\ closeFd(s, fSockFd[s])
    /\ UNCHANGED <<tls, nconn, ghosts>>

\* The rest of close(), after SSL_shutdown: the handler is deleted, the descriptor closed.
CloseEnd(s) ==
    /\ shut[s] # None
    /\ handlers' = handlers \ {shut[s]} /\ shut' = [shut EXCEPT ![s] = None]
    /\ \E f \in {fSockFd[s], pending[s]} \ {INVALID_SOCKET} : Closed(s, f)
    /\ UNCHANGED <<tables, nssl, session, overwritten, nconn, ghosts>>

\* detach() by one object and attach() by another: the connection moves.
Move(s, t) ==
    /\ fSockFd[s] # INVALID_SOCKET /\ shut[s] = None /\ Idle(t)
    /\ fSockFd' = [fSockFd EXCEPT ![t] = fSockFd[s], ![s] = INVALID_SOCKET]
    /\ meant' = [meant EXCEPT ![t] = meant[s], ![s] = None]
    /\ UNCHANGED <<open, tables, tls, pending, shut, nconn, ghosts>>

\* A file, a pipe or a timer is opened: a descriptor without a Socket.
OtherOpen(f) ==
    /\ NewDescriptor(f)
    /\ other' = other \cup {nconn + 1}
    /\ UNCHANGED <<tables, tls, fSockFd, meant, pending, shut, listenFailed>>

Next ==
    \/ \E s \in Socks : \/ TcpConnect(s) \/ TcpConnectTill(s) \/ setSSLHandler(s)
                        \/ close(s) \/ CloseEnd(s)
                        \/ \E f \in Fds : \/ ConnectBegin(s, f) \/ TcpListen(s, f)
                                          \/ TcpAccept(s, f)
                        \/ \E t \in Socks \ {s} : Move(s, t)
    \/ \E f \in Fds : OtherOpen(f)

Spec == Init /\ [][Next]_vars

-----------------------------------------------------------------------------
\* The tables never speak of a connection that is gone: an entry belongs to the
\* connection that is behind the descriptor now, so that no bytes of one connection
\* go through the TLS handler, or are logged under the address, of another.  A Socket
\* left over from a TcpListen that failed can break this.
TablesCurrent ==
    ~listenFailed => \A f \in Fds : /\ g_sock_address[f] \in {None, open[f]}
                                    /\ g_sock_ssl_handler[f] # None =>
                                            session[g_sock_ssl_handler[f]] = open[f]

\* Every Socket with a number has the connection its user means, whatever connects fail
\* or time out meanwhile, until a TcpListen fails: it returns the number it has closed,
\* and its Socket then closes whatever connection gets that number next.
NoneDangles ==
    ~listenFailed => \A s \in Socks : fSockFd[s] # INVALID_SOCKET => open[fSockFd[s]] = meant[s]

\* No connect, accept or close leaves a descriptor open that nobody owns.
NoDescriptorLost ==
    ~listenFailed => \A f \in Fds : open[f] # None =>
        \/ open[f] \in other
        \/ \E s \in Socks : f \in {fSockFd[s], pending[s]}

\* The table and the tasks inside close() own the handlers: what they point to has not been
\* deleted, no handler has two owners, and what has none was overwritten.
HandlersOwned ==
    LET tabled == {g_sock_ssl_handler[f] : f \in Fds} \ {None}
        closing == {shut[s] : s \in Socks} \ {None}
    IN  /\ handlers = tabled \cup closing \cup overwritten
        /\ tabled \cap closing = {} /\ (tabled \cup closing) \cap overwritten = {}
        /\ \A f, g \in Fds : g_sock_ssl_handler[f] = g_sock_ssl_handler[g] =>
                f = g \/ g_sock_ssl_handler[f] = None
        /\ \A s, t \in Socks : shut[s] = shut[t] => s = t \/ shut[s] = None

=============================================================================
