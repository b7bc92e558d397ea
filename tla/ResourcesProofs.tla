-------------------------- MODULE ResourcesProofs ---------------------------
(***************************************************************************)
(* What MCResources' components promise, for every number of tasks,        *)
(* threads, descriptors, Sockets and connections.  A step of MCResources   *)
(* is a step of one component or leaves it alone, so each component has an *)
(* inductive invariant of its own.  Lists that a loop builds are known by  *)
(* what every turn of the loop keeps.                                      *)
(***************************************************************************)
EXTENDS MCResources, ListLemmas, FiniteSetTheorems

\* A step of the whole is a step of each component, or leaves it alone.
LEMMA StepOfParts ==
    ASSUME [Next]_allVars
    PROVE  /\ part' = part
           /\ [Poll!Next]_pollVars
           /\ [Io!Next]_ioVars
           /\ [Socket!Next]_socketVars
           /\ [Ssl!Next]_sslVars
           /\ [Cert!Next]_certVars
           /\ [Hello!Next]_helloVars
BY DEF Next, allVars

-----------------------------------------------------------------------------
\* The hooked reads.  The hook is off outside readTill only after one that timed out.
IoInv ==
    /\ sent \in Nat /\ inbox \in Seq(Nat) /\ got \in Seq(Nat) /\ expiries \in Nat
    /\ got \o inbox = [i \in 1 .. sent |-> i]
    /\ ~hooked /\ pc_io # "till" => expiries > 0
    /\ ret_io = "EAGAIN" => expiries > 0

\* Before the first byte the stream is empty.
LEMMA IoInit == Io!Init => IoInv
<1> SUFFICES ASSUME Io!Init PROVE IoInv
  OBVIOUS
<1>1. sent = 0 /\ inbox = <<>> /\ got = <<>> /\ hooked = TRUE /\ ret_io = "none" /\ expiries = 0
  BY DEF Io!Init
<1>2. <<>> \o <<>> = [i \in 1 .. 0 |-> i]
  OBVIOUS
<1> QED BY <1>1, <1>2 DEF IoInv

\* A system read moves bytes from the inbox to what was got and changes no order.
LEMMA SysReadKeeps ==
    ASSUME IoInv, NEW n, Io!SysRead(n)
    PROVE  /\ got' \in Seq(Nat) /\ inbox' \in Seq(Nat) /\ got' \o inbox' = got \o inbox
           /\ ret_io' = "bytes"
<1>1. Splits(Nat, got, inbox, n, got', inbox')
  BY DEF Io!SysRead, IoInv, Splits
<1>2. got' \in Seq(Nat) /\ inbox' \in Seq(Nat) /\ got' \o inbox' = got \o inbox
  BY ONLY <1>1, SplitConcat
<1> QED BY <1>2 DEF Io!SysRead

\* Every hooked call keeps IoInv: bytes move from the inbox to the reader at one end only.
LEMMA IoNext == IoInv /\ [Io!Next]_ioVars => IoInv'
<1> SUFFICES ASSUME IoInv, [Io!Next]_ioVars PROVE IoInv'
  OBVIOUS
<1>1. CASE UNCHANGED ioVars
  BY <1>1 DEF ioVars, IoInv
<1>2. CASE Io!PeerSends
  <2>1. /\ sent' = sent + 1 /\ inbox' = Append(inbox, sent + 1)
        /\ UNCHANGED <<hooked, got, pc_io, ret_io, expiries>>
    BY <1>2 DEF Io!PeerSends
  <2>2. /\ sent \in Nat /\ inbox \in Seq(Nat) /\ got \in Seq(Nat) /\ sent + 1 \in Nat
        /\ got \o inbox = [i \in 1 .. sent |-> i]
    BY DEF IoInv
  <2>3. got \o Append(inbox, sent + 1) = Append(got \o inbox, sent + 1)
    <3> DEFINE e == sent + 1
    <3>1. got \in Seq(Nat) /\ inbox \in Seq(Nat) /\ e \in Nat
      BY <2>2
    <3> HIDE DEF e
    <3>2. got \o Append(inbox, e) = Append(got \o inbox, e)
      BY ONLY <3>1, AppendConcat
    <3> QED BY <3>2 DEF e
  <2>4. Append([i \in 1 .. sent |-> i], sent + 1) = [i \in 1 .. sent + 1 |-> i]
    BY <2>2
  <2>5. got' \o inbox' = [i \in 1 .. sent' |-> i]
    BY <2>1, <2>2, <2>3, <2>4
  <2>6. inbox' \in Seq(Nat) /\ sent' \in Nat
    BY <2>1, <2>2
  <2> QED BY <2>1, <2>5, <2>6 DEF IoInv
<1>3. CASE Io!PeerEnds \/ Io!TimerFires \/ Io!TillExpires \/ Io!ReadTimesOut
  <2>1. UNCHANGED <<hooked, sent, inbox, got>>
    BY <1>3 DEF Io!PeerEnds, Io!TimerFires, Io!TillExpires, Io!ReadTimesOut
  <2>2. \/ UNCHANGED <<pc_io, ret_io, expiries>>
        \/ pc_io = "till" /\ ret_io' = "timeout" /\ expiries' = expiries + 1
        \/ pc_io = "read" /\ ret_io' = "timeout" /\ expiries' = expiries
    BY <1>3 DEF Io!PeerEnds, Io!TimerFires, Io!TillExpires, Io!ReadTimesOut
  <2> QED BY <2>1, <2>2 DEF IoInv
<1>4. ASSUME NEW n, Io!read(n) \/ Io!ReadWakes(n) \/ Io!co_read_till(n) \/ Io!TillReads(n)
      PROVE  IoInv'
  <2>1. UNCHANGED <<sent, expiries>>
    BY <1>4 DEF Io!read, Io!ReadWakes, Io!co_read_till, Io!TillReads
  <2>2. ASSUME Io!SysRead(n) \/ Io!SysReadEnds PROVE IoInv'
    <3>0. inbox # <<>> \/ ended
      BY <2>2 DEF Io!SysRead, Io!SysReadEnds
    <3>1. hooked' = TRUE \/ (hooked' = hooked /\ pc_io # "till")
      <4>1. CASE Io!read(n) \/ Io!ReadWakes(n)
        BY <4>1 DEF Io!read, Io!ReadWakes, Io!Called
      <4>2. CASE Io!co_read_till(n) \/ Io!TillReads(n)
        BY <3>0, <4>2 DEF Io!co_read_till, Io!TillReads, Io!Nothing
      <4> QED BY <1>4, <4>1, <4>2
    <3>2. /\ got' \in Seq(Nat) /\ inbox' \in Seq(Nat) /\ got' \o inbox' = got \o inbox
          /\ ret_io' # "EAGAIN"
      <4>1. CASE Io!SysRead(n)
        BY <4>1, SysReadKeeps
      <4>2. CASE Io!SysReadEnds
        BY <4>2 DEF Io!SysReadEnds, IoInv
      <4> QED BY <2>2, <4>1, <4>2
    <3> QED BY <2>1, <3>1, <3>2 DEF IoInv
  <2>3. CASE ~(Io!SysRead(n) \/ Io!SysReadEnds)
    <3>1. UNCHANGED <<got, inbox>>
      BY <1>4, <2>3 DEF Io!read, Io!ReadWakes, Io!co_read_till, Io!TillReads, Io!Nothing
    <3>2. pc_io = "run" /\ (pc_io' = "till" \/ UNCHANGED hooked)
      BY <1>4, <2>3 DEF Io!read, Io!ReadWakes, Io!co_read_till, Io!TillReads, Io!Called
    <3>3. UNCHANGED ret_io \/ (ret_io' = "EAGAIN" /\ ~hooked)
      BY <1>4, <2>3 DEF Io!read, Io!ReadWakes, Io!co_read_till, Io!TillReads
    <3> QED BY <2>1, <3>1, <3>2, <3>3 DEF IoInv
  <2> QED BY <2>2, <2>3
<1> QED BY <1>1, <1>2, <1>3, <1>4 DEF Io!Next

\* Whatever reads with and without a time limit are mixed and however bytes race the timer
\* of co_poll, a task gets what the peer sends, all of it and in order, and a hooked read
\* gives up early only after a readTill has timed out.
THEOREM ReadsInOrder == Spec => []ReadsRight
<1>1. Init => IoInv
  BY IoInit DEF Init
<1>2. IoInv /\ [Next]_allVars => IoInv'
  BY IoNext, StepOfParts
<1>3. IoInv => ReadsRight
  BY DEF IoInv, ReadsRight, Io!ReadInOrder, Io!UnhookedByExpiry
<1> QED BY <1>1, <1>2, <1>3, PTL DEF Spec

-----------------------------------------------------------------------------
\* The Sockets.  Connections are numbered as they come, and a Socket that has a descriptor
\* means one.
Numbered ==
    /\ Socket!SocketTypeOK
    /\ \A f \in SockFds : open_so[f] <= nconn
    /\ \A s \in Socks : meant[s] <= nconn
    /\ \A s \in Socks : fSockFd[s] # Socket!INVALID_SOCKET => meant[s] # Socket!None
    /\ \A s \in Socks : pending[s] # Socket!INVALID_SOCKET => fSockFd[s] = Socket!INVALID_SOCKET
    /\ \A s \in Socks : shut[s] # Socket!None =>
            pending[s] # Socket!INVALID_SOCKET \/ fSockFd[s] # Socket!INVALID_SOCKET

\* The handlers: what the table or a task inside close() points to has been made for a
\* connection and not been deleted, it has one owner, and what has none was overwritten.
Handled ==
    /\ \A h \in handlers : h <= nssl
    /\ overwritten \subseteq handlers
    /\ \A f \in SockFds : g_sock_ssl_handler[f] # Socket!None =>
            /\ g_sock_ssl_handler[f] \in handlers \ overwritten
            /\ session[g_sock_ssl_handler[f]] # Socket!None
    /\ \A s \in Socks : shut[s] # Socket!None => shut[s] \in handlers \ overwritten
    /\ \A h \in handlers \ overwritten :
            (\E f \in SockFds : g_sock_ssl_handler[f] = h) \/ (\E s \in Socks : shut[s] = h)
    /\ \A f \in SockFds, s \in Socks :
            g_sock_ssl_handler[f] # Socket!None => g_sock_ssl_handler[f] # shut[s]
    /\ \A f, g \in SockFds :
            g_sock_ssl_handler[f] # Socket!None /\ f # g =>
                g_sock_ssl_handler[f] # g_sock_ssl_handler[g]
    /\ \A s, u \in Socks : shut[s] # Socket!None /\ s # u => shut[s] # shut[u]

\* Until a TcpListen fails, no two tasks have the same number, as a Socket or for a connect
\* under way, and what they have is open; the tables no longer speak of what is being closed.
Owned ==
    ~listenFailed =>
        /\ \A s, u \in Socks :
              fSockFd[s] # Socket!INVALID_SOCKET /\ s # u => fSockFd[s] # fSockFd[u]
        /\ \A s, u \in Socks :
              pending[s] # Socket!INVALID_SOCKET /\ s # u => pending[s] # pending[u]
        /\ \A s, u \in Socks : fSockFd[s] # Socket!INVALID_SOCKET => fSockFd[s] # pending[u]
        /\ \A s \in Socks : pending[s] # Socket!INVALID_SOCKET => open_so[pending[s]] # Socket!None
        /\ \A s \in Socks, f \in SockFds : shut[s] # Socket!None /\ f \in {fSockFd[s], pending[s]} =>
              g_sock_address[f] = Socket!None /\ g_sock_ssl_handler[f] = Socket!None

SocketInv ==
    /\ Numbered /\ Handled /\ Owned
    /\ Socket!TablesCurrent /\ Socket!NoneDangles /\ Socket!NoDescriptorLost

\* No connection, no entry.
LEMMA SocketInit == Socket!Init => SocketInv
<1> SUFFICES ASSUME Socket!Init PROVE SocketInv
  OBVIOUS
<1> USE ResourcesAssumption DEF Socket!SocketAssumption, Socket!Init, Socket!None,
      Socket!INVALID_SOCKET
<1>1. Numbered
  <2>1. listenFailed \in BOOLEAN
    BY Zenon
  <2>2. 0 \in 0 .. MaxConn /\ 0 \in 0 .. MaxHandler
    OBVIOUS
  <2>3. /\ open_so \in [SockFds -> Socket!Conns \cup {0}]
        /\ g_sock_address \in [SockFds -> Socket!Conns \cup {0}]
        /\ g_sock_ssl_handler \in [SockFds -> Socket!Handlers \cup {0}]
        /\ session \in [Socket!Handlers -> Socket!Conns \cup {0}]
        /\ meant \in [Socks -> Socket!Conns \cup {0}]
        /\ shut \in [Socks -> Socket!Handlers \cup {0}]
        /\ fSockFd \in [Socks -> SockFds \cup {-1}] /\ pending \in [Socks -> SockFds \cup {-1}]
    OBVIOUS
  <2> QED BY <2>1, <2>2, <2>3 DEF Numbered, Socket!SocketTypeOK
<1>2. Owned
  BY DEF Owned
<1>3. Handled
  BY DEF Handled
<1>4. Socket!TablesCurrent /\ Socket!NoneDangles /\ Socket!NoDescriptorLost
  BY DEF Socket!TablesCurrent, Socket!NoneDangles, Socket!NoDescriptorLost
<1> QED BY <1>1, <1>2, <1>3, <1>4 DEF SocketInv

\* The handlers do not depend on the rest.
LEMMA HandledKept ==
    ASSUME Handled,
           UNCHANGED <<g_sock_ssl_handler, shut, nssl, session, handlers, overwritten>>
    PROVE  Handled'
BY DEF Handled

\* A connect that has begun holds a new descriptor that no table names yet.
LEMMA SocketConnectBegin ==
    ASSUME SocketInv, NEW s \in Socks, NEW f \in SockFds, Socket!ConnectBegin(s, f)
    PROVE  SocketInv'
<1> USE ResourcesAssumption DEF Socket!SocketAssumption, Socket!None, Socket!INVALID_SOCKET,
        Socket!Conns, Socket!Handlers, SocketInv, Numbered, Socket!SocketTypeOK, Socket!ConnectBegin,
        Socket!NewDescriptor, Socket!Idle, Socket!tables, Socket!tls, Socket!ghosts
<1>1. Numbered'
  <2>1. /\ g_sock_ssl_handler' \in [SockFds -> Socket!Handlers \cup {0}]
        /\ shut' \in [Socks -> Socket!Handlers \cup {0}] /\ nssl' \in 0 .. MaxHandler
        /\ session' \in [Socket!Handlers -> Socket!Conns \cup {0}]
        /\ handlers' \subseteq Socket!Handlers /\ overwritten' \subseteq Socket!Handlers
    OBVIOUS
  <2>2. /\ open_so' \in [SockFds -> Socket!Conns \cup {0}]
        /\ g_sock_address' \in [SockFds -> Socket!Conns \cup {0}]
        /\ meant' \in [Socks -> Socket!Conns \cup {0}]
        /\ fSockFd' \in [Socks -> SockFds \cup {-1}] /\ pending' \in [Socks -> SockFds \cup {-1}]
        /\ nconn' \in 0 .. MaxConn /\ other' \subseteq Socket!Conns
    OBVIOUS
  <2>3. listenFailed' \in BOOLEAN
    OBVIOUS
  <2>4. Socket!SocketTypeOK'
    BY <2>1, <2>2, <2>3
  <2>5. \A g \in SockFds : open_so'[g] <= nconn'
    OBVIOUS
  <2>8. \A u \in Socks : meant'[u] <= nconn'
    OBVIOUS
  <2>6. /\ \A u \in Socks : fSockFd'[u] # -1 => meant'[u] # 0
        /\ \A u \in Socks : pending'[u] # -1 => fSockFd'[u] = -1
    OBVIOUS
  <2>7. \A u \in Socks : shut'[u] # 0 => pending'[u] # -1 \/ fSockFd'[u] # -1
    OBVIOUS
  <2> QED BY <2>4, <2>5, <2>6, <2>7, <2>8
<1>3. Handled'
  BY HandledKept
<1>4. Owned'
  BY DEF Owned, Handled, Socket!NoneDangles, Socket!TablesCurrent
<1>5. Socket!TablesCurrent'
  BY DEF Owned, Handled, Socket!TablesCurrent, Socket!NoneDangles
<1>6. Socket!NoneDangles'
  BY DEF Owned, Socket!NoneDangles
<1>7. Socket!NoDescriptorLost'
  BY DEF Owned, Socket!NoDescriptorLost, Socket!NoneDangles
<1> QED BY <1>1, <1>3, <1>4, <1>5, <1>6, <1>7

\* TcpConnect attaches the descriptor and enters its address.
LEMMA SocketConnect ==
    ASSUME SocketInv, NEW s \in Socks, Socket!TcpConnect(s)
    PROVE  SocketInv'
<1> USE ResourcesAssumption DEF Socket!SocketAssumption, Socket!None, Socket!INVALID_SOCKET,
        Socket!Conns, Socket!Handlers, SocketInv, Numbered, Socket!SocketTypeOK, Socket!TcpConnect,
        Socket!setupSockAddress, Socket!Attached, Socket!tls, Socket!ghosts
<1>1. Numbered'
  <2>1. /\ g_sock_ssl_handler' \in [SockFds -> Socket!Handlers \cup {0}]
        /\ shut' \in [Socks -> Socket!Handlers \cup {0}] /\ nssl' \in 0 .. MaxHandler
        /\ session' \in [Socket!Handlers -> Socket!Conns \cup {0}]
        /\ handlers' \subseteq Socket!Handlers /\ overwritten' \subseteq Socket!Handlers
    OBVIOUS
  <2>2. /\ open_so' \in [SockFds -> Socket!Conns \cup {0}]
        /\ g_sock_address' \in [SockFds -> Socket!Conns \cup {0}]
        /\ meant' \in [Socks -> Socket!Conns \cup {0}]
        /\ fSockFd' \in [Socks -> SockFds \cup {-1}] /\ pending' \in [Socks -> SockFds \cup {-1}]
        /\ nconn' \in 0 .. MaxConn /\ other' \subseteq Socket!Conns
    OBVIOUS
  <2>3. listenFailed' \in BOOLEAN
    OBVIOUS
  <2>4. Socket!SocketTypeOK'
    BY <2>1, <2>2, <2>3
  <2>5. \A g \in SockFds : open_so'[g] <= nconn'
    OBVIOUS
  <2>8. \A u \in Socks : meant'[u] <= nconn'
    OBVIOUS
  <2>6. /\ \A u \in Socks : fSockFd'[u] # -1 => meant'[u] # 0
        /\ \A u \in Socks : pending'[u] # -1 => fSockFd'[u] = -1
    OBVIOUS
  <2>7. \A u \in Socks : shut'[u] # 0 => pending'[u] # -1 \/ fSockFd'[u] # -1
    OBVIOUS
  <2> QED BY <2>4, <2>5, <2>6, <2>7, <2>8
<1>3. Handled'
  BY HandledKept
<1>4. Owned'
  BY DEF Owned, Handled, Socket!NoneDangles, Socket!TablesCurrent
<1>5. Socket!TablesCurrent'
  BY DEF Owned, Handled, Socket!TablesCurrent, Socket!NoneDangles
<1>6. Socket!NoneDangles'
  BY DEF Owned, Socket!NoneDangles
<1>7. Socket!NoDescriptorLost'
  BY DEF Owned, Socket!NoDescriptorLost, Socket!NoneDangles
<1> QED BY <1>1, <1>3, <1>4, <1>5, <1>6, <1>7

\* What close() does before SSL_shutdown may yield, or all of it when there is no handler.
LEMMA SocketCloseBegins ==
    ASSUME SocketInv, NEW s \in Socks, NEW f \in SockFds, f \in {fSockFd[s], pending[s]},
           shut[s] = 0, Socket!closeFd(s, f),
           UNCHANGED <<nssl, session, handlers, overwritten, nconn, other, listenFailed>>
    PROVE  SocketInv'
<1> USE ResourcesAssumption DEF Socket!SocketAssumption, Socket!None, Socket!INVALID_SOCKET,
        Socket!Conns, Socket!Handlers, SocketInv, Numbered, Socket!SocketTypeOK
<1>a. /\ g_sock_address' = [g_sock_address EXCEPT ![f] = 0]
      /\ g_sock_ssl_handler' = [g_sock_ssl_handler EXCEPT ![f] = 0]
      /\ shut' = [shut EXCEPT ![s] = g_sock_ssl_handler[f]]
  BY DEF Socket!closeFd
<1>d. listenFailed' \in BOOLEAN
  OBVIOUS
<1>h. Handled'
  <2>1. /\ \A g \in SockFds : g_sock_ssl_handler'[g] = IF g = f THEN 0 ELSE g_sock_ssl_handler[g]
        /\ \A u \in Socks : shut'[u] = IF u = s THEN g_sock_ssl_handler[f] ELSE shut[u]
    BY <1>a
  <2> HIDE DEF Numbered, SocketInv
  <2>2. Handled /\ g_sock_ssl_handler[f] \in Nat /\ (\A u \in Socks : shut[u] \in Nat)
    BY DEF SocketInv, Numbered
  <2>3. \A h \in handlers \ overwritten :
            (\E g \in SockFds : g_sock_ssl_handler'[g] = h) \/ (\E u \in Socks : shut'[u] = h)
    BY <2>1, <2>2 DEF Handled
  <2>4. /\ \A u \in Socks : shut'[u] # 0 => shut'[u] \in handlers \ overwritten
        /\ \A u, v \in Socks : shut'[u] # 0 /\ u # v => shut'[u] # shut'[v]
    BY <2>1, <2>2 DEF Handled
  <2>5. /\ \A g \in SockFds : g_sock_ssl_handler'[g] # 0 =>
                /\ g_sock_ssl_handler'[g] \in handlers \ overwritten
                /\ session[g_sock_ssl_handler'[g]] # 0
        /\ \A g \in SockFds, u \in Socks :
                g_sock_ssl_handler'[g] # 0 => g_sock_ssl_handler'[g] # shut'[u]
        /\ \A g, k \in SockFds : g_sock_ssl_handler'[g] # 0 /\ g # k =>
                g_sock_ssl_handler'[g] # g_sock_ssl_handler'[k]
    <3>1. \A g \in SockFds : g_sock_ssl_handler'[g] # 0 => g # f /\ g_sock_ssl_handler'[g] = g_sock_ssl_handler[g]
      BY <2>1
    <3>2. \A g \in SockFds : g_sock_ssl_handler'[g] # 0 =>
                /\ g_sock_ssl_handler'[g] \in handlers \ overwritten
                /\ session[g_sock_ssl_handler'[g]] # 0
      BY <2>2, <3>1 DEF Handled
    <3>3. ASSUME NEW g \in SockFds, NEW u \in Socks, g_sock_ssl_handler'[g] # 0
          PROVE  g_sock_ssl_handler'[g] # shut'[u]
      <4>1. g # f /\ g_sock_ssl_handler'[g] = g_sock_ssl_handler[g] /\ g_sock_ssl_handler[g] # 0
        BY <3>1, <3>3
      <4>2. g_sock_ssl_handler[g] # shut[u] /\ g_sock_ssl_handler[g] # g_sock_ssl_handler[f]
        BY <2>1, <2>2, <4>1 DEF Handled
      <4> QED BY <2>1, <4>1, <4>2
    <3>4. ASSUME NEW g \in SockFds, NEW k \in SockFds, g_sock_ssl_handler'[g] # 0, g # k
          PROVE  g_sock_ssl_handler'[g] # g_sock_ssl_handler'[k]
      <4>1. g_sock_ssl_handler'[g] = g_sock_ssl_handler[g] /\ g_sock_ssl_handler[g] # g_sock_ssl_handler[k]
        BY <2>2, <3>1, <3>4 DEF Handled
      <4>2. g_sock_ssl_handler'[k] = 0 \/ g_sock_ssl_handler'[k] = g_sock_ssl_handler[k]
        BY <3>1
      <4> QED BY <3>4, <4>1, <4>2
    <3> QED BY <3>2, <3>3, <3>4
  <2>6. (\A h \in handlers : h <= nssl) /\ overwritten \subseteq handlers
    BY <2>2 DEF Handled
  <2> QED BY <2>3, <2>4, <2>5, <2>6 DEF Handled
<1>b. CASE g_sock_ssl_handler[f] = 0
  <2>0. /\ open_so' = [open_so EXCEPT ![f] = 0] /\ fSockFd' = [fSockFd EXCEPT ![s] = -1]
        /\ pending' = [pending EXCEPT ![s] = -1] /\ meant' = [meant EXCEPT ![s] = 0]
    BY <1>b DEF Socket!closeFd, Socket!Closed
  <2>1. Numbered'
    <3>1. /\ g_sock_ssl_handler' \in [SockFds -> Socket!Handlers \cup {0}]
          /\ shut' \in [Socks -> Socket!Handlers \cup {0}] /\ nssl' \in 0 .. MaxHandler
          /\ session' \in [Socket!Handlers -> Socket!Conns \cup {0}]
          /\ handlers' \subseteq Socket!Handlers /\ overwritten' \subseteq Socket!Handlers
      BY <1>a, <1>b, <1>d, <2>0
    <3>2. /\ open_so' \in [SockFds -> Socket!Conns \cup {0}]
          /\ g_sock_address' \in [SockFds -> Socket!Conns \cup {0}]
          /\ meant' \in [Socks -> Socket!Conns \cup {0}]
          /\ fSockFd' \in [Socks -> SockFds \cup {-1}] /\ pending' \in [Socks -> SockFds \cup {-1}]
          /\ nconn' \in 0 .. MaxConn /\ other' \subseteq Socket!Conns
      BY <1>a, <1>b, <1>d, <2>0
    <3>3. listenFailed' \in BOOLEAN
      BY <1>a, <1>b, <1>d, <2>0
    <3>4. Socket!SocketTypeOK'
      BY <3>1, <3>2, <3>3
    <3>5. \A g \in SockFds : open_so'[g] <= nconn'
      BY <1>a, <1>b, <1>d, <2>0
    <3>8. \A u \in Socks : meant'[u] <= nconn'
      BY <1>a, <1>b, <1>d, <2>0
    <3>6. /\ \A u \in Socks : fSockFd'[u] # -1 => meant'[u] # 0
          /\ \A u \in Socks : pending'[u] # -1 => fSockFd'[u] = -1
      BY <1>a, <1>b, <1>d, <2>0
    <3>7. \A u \in Socks : shut'[u] # 0 => pending'[u] # -1 \/ fSockFd'[u] # -1
      BY <1>a, <1>b, <1>d, <2>0
    <3> QED BY <3>4, <3>5, <3>6, <3>7, <3>8
  <2>3. Handled'
    BY <1>h
  <2>4. Owned'
    BY <1>a, <1>b, <1>d, <2>0 DEF Owned, Handled, Socket!NoneDangles, Socket!TablesCurrent
  <2>5. Socket!TablesCurrent'
    BY <1>a, <1>b, <1>d, <2>0 DEF Owned, Handled, Socket!TablesCurrent, Socket!NoneDangles
  <2>6. Socket!NoneDangles'
    BY <1>a, <1>b, <1>d, <2>0 DEF Owned, Socket!NoneDangles
  <2>7. Socket!NoDescriptorLost'
    BY <1>a, <1>b, <1>d, <2>0 DEF Owned, Socket!NoDescriptorLost, Socket!NoneDangles
  <2> QED BY <2>1, <2>3, <2>4, <2>5, <2>6, <2>7
<1>c. CASE g_sock_ssl_handler[f] # 0
  <2>0. UNCHANGED <<open_so, fSockFd, pending, meant>>
    BY <1>c DEF Socket!closeFd
  <2>1. Numbered'
    <3>1. /\ g_sock_ssl_handler' \in [SockFds -> Socket!Handlers \cup {0}]
          /\ shut' \in [Socks -> Socket!Handlers \cup {0}] /\ nssl' \in 0 .. MaxHandler
          /\ session' \in [Socket!Handlers -> Socket!Conns \cup {0}]
          /\ handlers' \subseteq Socket!Handlers /\ overwritten' \subseteq Socket!Handlers
      BY <1>a, <1>c, <1>d, <2>0
    <3>2. /\ open_so' \in [SockFds -> Socket!Conns \cup {0}]
          /\ g_sock_address' \in [SockFds -> Socket!Conns \cup {0}]
          /\ meant' \in [Socks -> Socket!Conns \cup {0}]
          /\ fSockFd' \in [Socks -> SockFds \cup {-1}] /\ pending' \in [Socks -> SockFds \cup {-1}]
          /\ nconn' \in 0 .. MaxConn /\ other' \subseteq Socket!Conns
      BY <1>a, <1>c, <1>d, <2>0
    <3>3. listenFailed' \in BOOLEAN
      BY <1>a, <1>c, <1>d, <2>0
    <3>4. Socket!SocketTypeOK'
      BY <3>1, <3>2, <3>3
    <3>5. \A g \in SockFds : open_so'[g] <= nconn'
      BY <1>a, <1>c, <1>d, <2>0
    <3>8. \A u \in Socks : meant'[u] <= nconn'
      BY <1>a, <1>c, <1>d, <2>0
    <3>6. /\ \A u \in Socks : fSockFd'[u] # -1 => meant'[u] # 0
          /\ \A u \in Socks : pending'[u] # -1 => fSockFd'[u] = -1
      BY <1>a, <1>c, <1>d, <2>0
    <3>7. \A u \in Socks : shut'[u] # 0 => pending'[u] # -1 \/ fSockFd'[u] # -1
      BY <1>a, <1>c, <1>d, <2>0
    <3> QED BY <3>4, <3>5, <3>6, <3>7, <3>8
  <2>3. Handled'
    BY <1>h
  <2>4. Owned'
    BY <1>a, <1>c, <1>d, <2>0 DEF Owned, Handled, Socket!NoneDangles, Socket!TablesCurrent
  <2>5. Socket!TablesCurrent'
    BY <1>a, <1>c, <1>d, <2>0 DEF Owned, Handled, Socket!TablesCurrent, Socket!NoneDangles
  <2>6. Socket!NoneDangles'
    BY <1>a, <1>c, <1>d, <2>0 DEF Owned, Socket!NoneDangles
  <2>7. Socket!NoDescriptorLost'
    BY <1>a, <1>c, <1>d, <2>0 DEF Owned, Socket!NoDescriptorLost, Socket!NoneDangles
  <2> QED BY <2>1, <2>3, <2>4, <2>5, <2>6, <2>7
<1> QED BY <1>b, <1>c

\* TcpConnectTill that fails or times out closes the descriptor.
LEMMA SocketConnectTill ==
    ASSUME SocketInv, NEW s \in Socks, Socket!TcpConnectTill(s)
    PROVE  SocketInv'
<1>1. /\ pending[s] \in SockFds /\ shut[s] = 0 /\ Socket!closeFd(s, pending[s])
      /\ UNCHANGED <<nssl, session, handlers, overwritten, nconn, other, listenFailed>>
  BY DEF SocketInv, Numbered, Socket!SocketTypeOK, Socket!TcpConnectTill, Socket!tls,
     Socket!ghosts, Socket!None, Socket!INVALID_SOCKET
<1> QED BY <1>1, SocketCloseBegins

\* close() takes the descriptor, its address and its handler away.
LEMMA SocketClose ==
    ASSUME SocketInv, NEW s \in Socks, Socket!close(s)
    PROVE  SocketInv'
<1>1. /\ fSockFd[s] \in SockFds /\ shut[s] = 0 /\ Socket!closeFd(s, fSockFd[s])
      /\ UNCHANGED <<nssl, session, handlers, overwritten, nconn, other, listenFailed>>
  BY DEF SocketInv, Numbered, Socket!SocketTypeOK, Socket!close, Socket!tls,
     Socket!ghosts, Socket!None, Socket!INVALID_SOCKET
<1> QED BY <1>1, SocketCloseBegins

\* After SSL_shutdown the handler is deleted, and nobody else has it.
LEMMA SocketCloseEnds ==
    ASSUME SocketInv, NEW s \in Socks, Socket!CloseEnd(s)
    PROVE  SocketInv'
<1> USE ResourcesAssumption DEF Socket!SocketAssumption, Socket!None, Socket!INVALID_SOCKET,
        Socket!Conns, Socket!Handlers, SocketInv, Numbered, Socket!SocketTypeOK, Socket!tables,
        Socket!ghosts
<1>0. PICK f \in {fSockFd[s], pending[s]} \ {-1} : Socket!Closed(s, f)
  BY DEF Socket!CloseEnd
<1>a. /\ f \in SockFds /\ shut[s] # 0 /\ handlers' = handlers \ {shut[s]}
      /\ shut' = [shut EXCEPT ![s] = 0] /\ open_so' = [open_so EXCEPT ![f] = 0]
      /\ fSockFd' = [fSockFd EXCEPT ![s] = -1] /\ pending' = [pending EXCEPT ![s] = -1]
      /\ meant' = [meant EXCEPT ![s] = 0]
      /\ UNCHANGED <<g_sock_address, g_sock_ssl_handler, nssl, session, overwritten, nconn,
                     other, listenFailed>>
  <2> HIDE DEF Socket!Conns, Socket!Handlers
  <2>1. f \in SockFds
    BY <1>0
  <2> HIDE DEF SocketInv, Numbered, Socket!SocketTypeOK
  <2>2. /\ shut[s] # 0 /\ handlers' = handlers \ {shut[s]}
        /\ shut' = [shut EXCEPT ![s] = 0]
    BY DEF Socket!CloseEnd
  <2>3. /\ open_so' = [open_so EXCEPT ![f] = 0]
        /\ fSockFd' = [fSockFd EXCEPT ![s] = -1] /\ pending' = [pending EXCEPT ![s] = -1]
        /\ meant' = [meant EXCEPT ![s] = 0]
    BY <1>0 DEF Socket!Closed
  <2>4. UNCHANGED <<g_sock_address, g_sock_ssl_handler, nssl, session, overwritten, nconn,
                    other, listenFailed>>
    BY DEF Socket!CloseEnd
  <2> QED BY <2>1, <2>2, <2>3, <2>4
<1>d. listenFailed' \in BOOLEAN
  BY <1>a
<1>e. \A g \in SockFds : g \in {fSockFd[s], pending[s]} => g = f
  BY <1>0
<1>1. Numbered'
  <2>1. /\ g_sock_ssl_handler' \in [SockFds -> Socket!Handlers \cup {0}]
        /\ shut' \in [Socks -> Socket!Handlers \cup {0}] /\ nssl' \in 0 .. MaxHandler
        /\ session' \in [Socket!Handlers -> Socket!Conns \cup {0}]
        /\ handlers' \subseteq Socket!Handlers /\ overwritten' \subseteq Socket!Handlers
    BY <1>0, <1>a, <1>d
  <2>2. /\ open_so' \in [SockFds -> Socket!Conns \cup {0}]
        /\ g_sock_address' \in [SockFds -> Socket!Conns \cup {0}]
        /\ meant' \in [Socks -> Socket!Conns \cup {0}]
        /\ fSockFd' \in [Socks -> SockFds \cup {-1}] /\ pending' \in [Socks -> SockFds \cup {-1}]
        /\ nconn' \in 0 .. MaxConn /\ other' \subseteq Socket!Conns
    BY <1>0, <1>a, <1>d
  <2>3. listenFailed' \in BOOLEAN
    BY <1>0, <1>a, <1>d
  <2>4. Socket!SocketTypeOK'
    BY <2>1, <2>2, <2>3
  <2>5. \A g \in SockFds : open_so'[g] <= nconn'
    BY <1>0, <1>a, <1>d
  <2>8. \A u \in Socks : meant'[u] <= nconn'
    BY <1>0, <1>a, <1>d
  <2>6. /\ \A u \in Socks : fSockFd'[u] # -1 => meant'[u] # 0
        /\ \A u \in Socks : pending'[u] # -1 => fSockFd'[u] = -1
    BY <1>0, <1>a, <1>d
  <2>7. \A u \in Socks : shut'[u] # 0 => pending'[u] # -1 \/ fSockFd'[u] # -1
    BY <1>0, <1>a, <1>d
  <2> QED BY <2>4, <2>5, <2>6, <2>7, <2>8
<1>3. Handled'
  <2>1. \A u \in Socks : shut'[u] = IF u = s THEN 0 ELSE shut[u]
    BY <1>a
  <2> QED BY <1>a, <2>1, SMTT(30) DEF Handled
<1>4. Owned'
  BY <1>0, <1>a, <1>d DEF Owned, Handled, Socket!NoneDangles, Socket!TablesCurrent
<1>5. Socket!TablesCurrent'
  BY <1>0, <1>a, <1>d DEF Owned, Handled, Socket!TablesCurrent, Socket!NoneDangles
<1>6. Socket!NoneDangles'
  BY <1>0, <1>a, <1>d DEF Owned, Socket!NoneDangles
<1>7. Socket!NoDescriptorLost'
  BY <1>0, <1>a, <1>e DEF Owned, Socket!NoDescriptorLost, Socket!NoneDangles
<1> QED BY <1>1, <1>3, <1>4, <1>5, <1>6, <1>7

\* TcpListen; when it fails, the ghosts say so and the claims end.
LEMMA SocketListen ==
    ASSUME SocketInv, NEW s \in Socks, NEW f \in SockFds, Socket!TcpListen(s, f)
    PROVE  SocketInv'
<1> USE ResourcesAssumption DEF Socket!SocketAssumption, Socket!None, Socket!INVALID_SOCKET,
        Socket!Conns, Socket!Handlers, SocketInv, Numbered, Socket!SocketTypeOK, Socket!tls
<1>0. /\ UNCHANGED <<g_sock_ssl_handler, nssl, session, handlers, overwritten, pending, shut, other>>
      /\ nconn' = nconn + 1 /\ nconn < MaxConn /\ fSockFd[s] = -1 /\ pending[s] = -1
      /\ fSockFd' = [fSockFd EXCEPT ![s] = f] /\ meant' = [meant EXCEPT ![s] = nconn + 1]
      /\ open_so[f] = 0
  BY DEF Socket!TcpListen, Socket!Idle, Socket!Attached
<1>a. CASE UNCHANGED <<open_so, g_sock_address>> /\ listenFailed' = TRUE
  <2>1. Numbered'
    <3>1. /\ g_sock_ssl_handler' \in [SockFds -> Socket!Handlers \cup {0}]
          /\ shut' \in [Socks -> Socket!Handlers \cup {0}] /\ nssl' \in 0 .. MaxHandler
          /\ session' \in [Socket!Handlers -> Socket!Conns \cup {0}]
          /\ handlers' \subseteq Socket!Handlers /\ overwritten' \subseteq Socket!Handlers
      BY <1>a, <1>0
    <3>2. /\ open_so' \in [SockFds -> Socket!Conns \cup {0}]
          /\ g_sock_address' \in [SockFds -> Socket!Conns \cup {0}]
          /\ meant' \in [Socks -> Socket!Conns \cup {0}]
          /\ fSockFd' \in [Socks -> SockFds \cup {-1}] /\ pending' \in [Socks -> SockFds \cup {-1}]
          /\ nconn' \in 0 .. MaxConn /\ other' \subseteq Socket!Conns
      BY <1>a, <1>0
    <3>3. listenFailed' \in BOOLEAN
      BY <1>a, <1>0
    <3>4. Socket!SocketTypeOK'
      BY <3>1, <3>2, <3>3
    <3>5. \A g \in SockFds : open_so'[g] <= nconn'
      BY <1>a, <1>0
    <3>8. \A u \in Socks : meant'[u] <= nconn'
      BY <1>a, <1>0
    <3>6. /\ \A u \in Socks : fSockFd'[u] # -1 => meant'[u] # 0
          /\ \A u \in Socks : pending'[u] # -1 => fSockFd'[u] = -1
      BY <1>a, <1>0
    <3>7. \A u \in Socks : shut'[u] # 0 => pending'[u] # -1 \/ fSockFd'[u] # -1
      BY <1>a, <1>0
    <3> QED BY <3>4, <3>5, <3>6, <3>7, <3>8
  <2>3. Handled'
    BY <1>a, <1>0, HandledKept
  <2>4. Owned'
    BY <1>a, <1>0 DEF Owned, Handled, Socket!NoneDangles, Socket!TablesCurrent
  <2>5. Socket!TablesCurrent'
    BY <1>a, <1>0 DEF Owned, Handled, Socket!TablesCurrent, Socket!NoneDangles
  <2>6. Socket!NoneDangles'
    BY <1>a, <1>0 DEF Owned, Socket!NoneDangles
  <2>7. Socket!NoDescriptorLost'
    BY <1>a, <1>0 DEF Owned, Socket!NoDescriptorLost, Socket!NoneDangles
  <2> QED BY <2>1, <2>3, <2>4, <2>5, <2>6, <2>7
<1>b. CASE /\ open_so' = [open_so EXCEPT ![f] = nconn + 1] /\ UNCHANGED listenFailed
           /\ g_sock_address' = [g_sock_address EXCEPT ![f] = nconn + 1]
  <2>1. Numbered'
    <3>1. /\ g_sock_ssl_handler' \in [SockFds -> Socket!Handlers \cup {0}]
          /\ shut' \in [Socks -> Socket!Handlers \cup {0}] /\ nssl' \in 0 .. MaxHandler
          /\ session' \in [Socket!Handlers -> Socket!Conns \cup {0}]
          /\ handlers' \subseteq Socket!Handlers /\ overwritten' \subseteq Socket!Handlers
      BY <1>b, <1>0
    <3>2. /\ open_so' \in [SockFds -> Socket!Conns \cup {0}]
          /\ g_sock_address' \in [SockFds -> Socket!Conns \cup {0}]
          /\ meant' \in [Socks -> Socket!Conns \cup {0}]
          /\ fSockFd' \in [Socks -> SockFds \cup {-1}] /\ pending' \in [Socks -> SockFds \cup {-1}]
          /\ nconn' \in 0 .. MaxConn /\ other' \subseteq Socket!Conns
      BY <1>b, <1>0
    <3>3. listenFailed' \in BOOLEAN
      BY <1>b, <1>0
    <3>4. Socket!SocketTypeOK'
      BY <3>1, <3>2, <3>3
    <3>5. \A g \in SockFds : open_so'[g] <= nconn'
      BY <1>b, <1>0
    <3>8. \A u \in Socks : meant'[u] <= nconn'
      BY <1>b, <1>0
    <3>6. /\ \A u \in Socks : fSockFd'[u] # -1 => meant'[u] # 0
          /\ \A u \in Socks : pending'[u] # -1 => fSockFd'[u] = -1
      BY <1>b, <1>0
    <3>7. \A u \in Socks : shut'[u] # 0 => pending'[u] # -1 \/ fSockFd'[u] # -1
      BY <1>b, <1>0
    <3> QED BY <3>4, <3>5, <3>6, <3>7, <3>8
  <2>3. Handled'
    BY <1>b, <1>0, HandledKept
  <2>4. Owned'
    BY <1>b, <1>0 DEF Owned, Handled, Socket!NoneDangles, Socket!TablesCurrent
  <2>5. Socket!TablesCurrent'
    BY <1>b, <1>0 DEF Owned, Handled, Socket!TablesCurrent, Socket!NoneDangles
  <2>6. Socket!NoneDangles'
    BY <1>b, <1>0 DEF Owned, Socket!NoneDangles
  <2>7. Socket!NoDescriptorLost'
    BY <1>b, <1>0 DEF Owned, Socket!NoDescriptorLost, Socket!NoneDangles
  <2> QED BY <2>1, <2>3, <2>4, <2>5, <2>6, <2>7
<1> QED BY <1>a, <1>b DEF Socket!TcpListen, Socket!setupSockAddress

\* TcpAccept gives a socket a new connection, or none.
LEMMA SocketAccept ==
    ASSUME SocketInv, NEW s \in Socks, NEW f \in SockFds, Socket!TcpAccept(s, f)
    PROVE  SocketInv'
<1> USE ResourcesAssumption DEF Socket!SocketAssumption, Socket!None, Socket!INVALID_SOCKET,
        Socket!Conns, Socket!Handlers, SocketInv, Numbered, Socket!SocketTypeOK, Socket!tls,
        Socket!ghosts
<1>0. /\ UNCHANGED <<g_sock_ssl_handler, nssl, session, handlers, overwritten, pending, shut, other,
                     listenFailed>>
      /\ nconn' = nconn + 1 /\ nconn < MaxConn /\ fSockFd[s] = -1 /\ pending[s] = -1
      /\ open_so[f] = 0
  BY DEF Socket!TcpAccept, Socket!Idle
<1>a. CASE UNCHANGED <<open_so, g_sock_address, fSockFd, meant>>
  <2>1. Numbered'
    <3>1. /\ g_sock_ssl_handler' \in [SockFds -> Socket!Handlers \cup {0}]
          /\ shut' \in [Socks -> Socket!Handlers \cup {0}] /\ nssl' \in 0 .. MaxHandler
          /\ session' \in [Socket!Handlers -> Socket!Conns \cup {0}]
          /\ handlers' \subseteq Socket!Handlers /\ overwritten' \subseteq Socket!Handlers
      BY <1>a, <1>0
    <3>2. /\ open_so' \in [SockFds -> Socket!Conns \cup {0}]
          /\ g_sock_address' \in [SockFds -> Socket!Conns \cup {0}]
          /\ meant' \in [Socks -> Socket!Conns \cup {0}]
          /\ fSockFd' \in [Socks -> SockFds \cup {-1}] /\ pending' \in [Socks -> SockFds \cup {-1}]
          /\ nconn' \in 0 .. MaxConn /\ other' \subseteq Socket!Conns
      BY <1>a, <1>0
    <3>3. listenFailed' \in BOOLEAN
      BY <1>a, <1>0
    <3>4. Socket!SocketTypeOK'
      BY <3>1, <3>2, <3>3
    <3>5. \A g \in SockFds : open_so'[g] <= nconn'
      BY <1>a, <1>0
    <3>8. \A u \in Socks : meant'[u] <= nconn'
      BY <1>a, <1>0
    <3>6. /\ \A u \in Socks : fSockFd'[u] # -1 => meant'[u] # 0
          /\ \A u \in Socks : pending'[u] # -1 => fSockFd'[u] = -1
      BY <1>a, <1>0
    <3>7. \A u \in Socks : shut'[u] # 0 => pending'[u] # -1 \/ fSockFd'[u] # -1
      BY <1>a, <1>0
    <3> QED BY <3>4, <3>5, <3>6, <3>7, <3>8
  <2>3. Handled'
    BY <1>a, <1>0, HandledKept
  <2>4. Owned'
    BY <1>a, <1>0 DEF Owned, Handled, Socket!NoneDangles, Socket!TablesCurrent
  <2>5. Socket!TablesCurrent'
    BY <1>a, <1>0 DEF Owned, Handled, Socket!TablesCurrent, Socket!NoneDangles
  <2>6. Socket!NoneDangles'
    BY <1>a, <1>0 DEF Owned, Socket!NoneDangles
  <2>7. Socket!NoDescriptorLost'
    BY <1>a, <1>0 DEF Owned, Socket!NoDescriptorLost, Socket!NoneDangles
  <2> QED BY <2>1, <2>3, <2>4, <2>5, <2>6, <2>7
<1>b. CASE /\ open_so' = [open_so EXCEPT ![f] = nconn + 1]
           /\ g_sock_address' = [g_sock_address EXCEPT ![f] = nconn + 1]
           /\ fSockFd' = [fSockFd EXCEPT ![s] = f] /\ meant' = [meant EXCEPT ![s] = nconn + 1]
  <2>1. Numbered'
    <3>1. /\ g_sock_ssl_handler' \in [SockFds -> Socket!Handlers \cup {0}]
          /\ shut' \in [Socks -> Socket!Handlers \cup {0}] /\ nssl' \in 0 .. MaxHandler
          /\ session' \in [Socket!Handlers -> Socket!Conns \cup {0}]
          /\ handlers' \subseteq Socket!Handlers /\ overwritten' \subseteq Socket!Handlers
      BY <1>b, <1>0
    <3>2. /\ open_so' \in [SockFds -> Socket!Conns \cup {0}]
          /\ g_sock_address' \in [SockFds -> Socket!Conns \cup {0}]
          /\ meant' \in [Socks -> Socket!Conns \cup {0}]
          /\ fSockFd' \in [Socks -> SockFds \cup {-1}] /\ pending' \in [Socks -> SockFds \cup {-1}]
          /\ nconn' \in 0 .. MaxConn /\ other' \subseteq Socket!Conns
      BY <1>b, <1>0
    <3>3. listenFailed' \in BOOLEAN
      BY <1>b, <1>0
    <3>4. Socket!SocketTypeOK'
      BY <3>1, <3>2, <3>3
    <3>5. \A g \in SockFds : open_so'[g] <= nconn'
      BY <1>b, <1>0
    <3>8. \A u \in Socks : meant'[u] <= nconn'
      BY <1>b, <1>0
    <3>6. /\ \A u \in Socks : fSockFd'[u] # -1 => meant'[u] # 0
          /\ \A u \in Socks : pending'[u] # -1 => fSockFd'[u] = -1
      BY <1>b, <1>0
    <3>7. \A u \in Socks : shut'[u] # 0 => pending'[u] # -1 \/ fSockFd'[u] # -1
      BY <1>b, <1>0
    <3> QED BY <3>4, <3>5, <3>6, <3>7, <3>8
  <2>3. Handled'
    BY <1>b, <1>0, HandledKept
  <2>4. Owned'
    BY <1>b, <1>0 DEF Owned, Handled, Socket!NoneDangles, Socket!TablesCurrent
  <2>5. Socket!TablesCurrent'
    BY <1>b, <1>0 DEF Owned, Handled, Socket!TablesCurrent, Socket!NoneDangles
  <2>6. Socket!NoneDangles'
    BY <1>b, <1>0 DEF Owned, Socket!NoneDangles
  <2>7. Socket!NoDescriptorLost'
    BY <1>b, <1>0 DEF Owned, Socket!NoDescriptorLost, Socket!NoneDangles
  <2> QED BY <2>1, <2>3, <2>4, <2>5, <2>6, <2>7
<1> QED BY <1>a, <1>b DEF Socket!TcpAccept, Socket!setupSockAddress, Socket!Attached

\* setSSLHandler enters a new handler of this connection; the one it overwrites is counted.
LEMMA SocketHandler ==
    ASSUME SocketInv, NEW s \in Socks, Socket!setSSLHandler(s)
    PROVE  SocketInv'
<1> USE ResourcesAssumption DEF Socket!SocketAssumption, Socket!None, Socket!INVALID_SOCKET,
        Socket!Conns, Socket!Handlers, SocketInv, Numbered, Socket!SocketTypeOK
<1>a. /\ fSockFd[s] \in SockFds /\ nssl < MaxHandler /\ nssl' = nssl + 1 /\ shut[s] = 0
      /\ session' = [session EXCEPT ![nssl + 1] = meant[s]]
      /\ handlers' = handlers \cup {nssl + 1}
      /\ overwritten' = overwritten \cup ({g_sock_ssl_handler[fSockFd[s]]} \ {0})
      /\ g_sock_ssl_handler' = [g_sock_ssl_handler EXCEPT ![fSockFd[s]] = nssl + 1]
      /\ UNCHANGED <<open_so, g_sock_address, fSockFd, meant, pending, shut, nconn, other,
                     listenFailed>>
  BY DEF Socket!setSSLHandler, Socket!ghosts
<1>d. listenFailed' \in BOOLEAN
  BY <1>a
<1>e. nssl + 1 \in Socket!Handlers /\ nssl + 1 \notin handlers
  BY <1>a DEF Handled
<1>f. overwritten' \subseteq handlers /\ handlers' \subseteq Socket!Handlers
  <2>1. g_sock_ssl_handler[fSockFd[s]] # 0 => g_sock_ssl_handler[fSockFd[s]] \in handlers
    BY <1>a DEF Handled
  <2> QED BY <1>a, <1>e, <2>1 DEF Handled
<1>g. /\ overwritten' \subseteq Socket!Handlers /\ nssl' \in 0 .. MaxHandler
      /\ session' \in [Socket!Handlers -> Socket!Conns \cup {0}]
      /\ g_sock_ssl_handler' \in [SockFds -> Socket!Handlers \cup {0}]
  <2>1. overwritten' \subseteq Socket!Handlers
    BY <1>f
  <2>2. meant[s] \in Socket!Conns \cup {0} /\ nssl' \in 0 .. MaxHandler
    BY <1>a
  <2>3. session' \in [Socket!Handlers -> Socket!Conns \cup {0}]
    BY <1>a, <2>2
  <2>4. g_sock_ssl_handler' \in [SockFds -> Socket!Handlers \cup {0}]
    BY <1>a, <1>e
  <2> QED BY <2>1, <2>2, <2>3, <2>4
<1>c. \A f \in SockFds : f # fSockFd[s] /\ g_sock_ssl_handler[f] # 0 =>
        session'[g_sock_ssl_handler[f]] = session[g_sock_ssl_handler[f]]
  BY <1>a DEF Handled
<1>1. Numbered'
  <2>1. /\ g_sock_ssl_handler' \in [SockFds -> Socket!Handlers \cup {0}]
        /\ shut' \in [Socks -> Socket!Handlers \cup {0}] /\ nssl' \in 0 .. MaxHandler
        /\ session' \in [Socket!Handlers -> Socket!Conns \cup {0}]
        /\ handlers' \subseteq Socket!Handlers /\ overwritten' \subseteq Socket!Handlers
    BY <1>a, <1>f, <1>g
  <2>2. /\ open_so' \in [SockFds -> Socket!Conns \cup {0}]
        /\ g_sock_address' \in [SockFds -> Socket!Conns \cup {0}]
        /\ meant' \in [Socks -> Socket!Conns \cup {0}]
        /\ fSockFd' \in [Socks -> SockFds \cup {-1}] /\ pending' \in [Socks -> SockFds \cup {-1}]
        /\ nconn' \in 0 .. MaxConn /\ other' \subseteq Socket!Conns
    BY <1>a, <1>c, <1>d, <1>e, <1>f
  <2>3. listenFailed' \in BOOLEAN
    BY <1>a, <1>c, <1>d, <1>e, <1>f
  <2>4. Socket!SocketTypeOK'
    BY <2>1, <2>2, <2>3
  <2>5. \A g \in SockFds : open_so'[g] <= nconn'
    BY <1>a, <1>c, <1>d, <1>e, <1>f
  <2>8. \A u \in Socks : meant'[u] <= nconn'
    BY <1>a, <1>c, <1>d, <1>e, <1>f
  <2>6. /\ \A u \in Socks : fSockFd'[u] # -1 => meant'[u] # 0
        /\ \A u \in Socks : pending'[u] # -1 => fSockFd'[u] = -1
    BY <1>a, <1>c, <1>d, <1>e, <1>f
  <2>7. \A u \in Socks : shut'[u] # 0 => pending'[u] # -1 \/ fSockFd'[u] # -1
    BY <1>a, <1>c, <1>d, <1>e, <1>f
  <2> QED BY <2>4, <2>5, <2>6, <2>7, <2>8
<1>3. Handled'
  <2>1. \A f \in SockFds : g_sock_ssl_handler'[f] = IF f = fSockFd[s] THEN nssl + 1
                                                  ELSE g_sock_ssl_handler[f]
    BY <1>a
  <2>2. session'[nssl + 1] # 0
    BY <1>a
  <2>3. nssl + 1 \notin handlers /\ nssl + 1 \notin overwritten'
    BY <1>e, <1>f
  <2>4. \A f \in SockFds : g_sock_ssl_handler'[f] # 0 =>
            /\ g_sock_ssl_handler'[f] \in handlers' \ overwritten'
            /\ session'[g_sock_ssl_handler'[f]] # 0
    <3>1. \A f \in SockFds : f # fSockFd[s] /\ g_sock_ssl_handler[f] # 0 =>
            g_sock_ssl_handler[f] \in handlers \ overwritten /\ session[g_sock_ssl_handler[f]] # 0
      BY DEF Handled
    <3>2. \A f \in SockFds : f # fSockFd[s] /\ g_sock_ssl_handler[f] # 0 =>
            g_sock_ssl_handler[f] # g_sock_ssl_handler[fSockFd[s]]
      BY <1>a DEF Handled
    <3> QED BY <1>a, <1>c, <2>1, <2>2, <2>3, <3>1, <3>2
  <2>5. \A u \in Socks : shut'[u] # 0 => shut'[u] \in handlers' \ overwritten'
    BY <1>a DEF Handled
  <2>6. \A h \in handlers' \ overwritten' :
            (\E f \in SockFds : g_sock_ssl_handler'[f] = h) \/ (\E u \in Socks : shut'[u] = h)
    <3> TAKE h \in handlers' \ overwritten'
    <3>1. /\ fSockFd[s] \in SockFds /\ shut' = shut /\ handlers' = handlers \cup {nssl + 1}
          /\ overwritten' = overwritten \cup ({g_sock_ssl_handler[fSockFd[s]]} \ {0})
      BY <1>a
    <3>2. CASE h = nssl + 1
      BY <2>1, <3>1, <3>2
    <3>3. CASE h # nssl + 1
      <4>1. h \in handlers \ overwritten /\ (h # g_sock_ssl_handler[fSockFd[s]] \/ h = 0)
        BY <3>1, <3>3
      <4>2. h # 0
        <5>1. h \in 1 .. MaxHandler
          BY <4>1
        <5> QED BY <5>1
      <4>3. (\E f \in SockFds : g_sock_ssl_handler[f] = h) \/ (\E u \in Socks : shut[u] = h)
        BY <4>1 DEF Handled
      <4>4. \A f \in SockFds : g_sock_ssl_handler[f] = h => g_sock_ssl_handler'[f] = h
        BY <2>1, <4>1, <4>2
      <4> QED BY <3>1, <4>3, <4>4
    <3> QED BY <3>2, <3>3
  <2>7. /\ \A h \in handlers' : h <= nssl'
        /\ overwritten' \subseteq handlers'
    BY <1>a, <1>f DEF Handled
  <2>8. /\ \A f \in SockFds, u \in Socks : g_sock_ssl_handler'[f] # 0 => g_sock_ssl_handler'[f] # shut'[u]
        /\ \A f, g \in SockFds : g_sock_ssl_handler'[f] # 0 /\ f # g =>
                g_sock_ssl_handler'[f] # g_sock_ssl_handler'[g]
        /\ \A u, v \in Socks : shut'[u] # 0 /\ u # v => shut'[u] # shut'[v]
    BY <1>a, <2>1, <2>3 DEF Handled
  <2> QED BY <2>4, <2>5, <2>6, <2>7, <2>8 DEF Handled
<1>4. Owned'
  BY <1>a, <1>c, <1>d, <1>e, <1>f DEF Owned, Handled, Socket!NoneDangles, Socket!TablesCurrent
<1>5. Socket!TablesCurrent'
  BY <1>a, <1>c, <1>d, <1>e, <1>f DEF Owned, Handled, Socket!TablesCurrent, Socket!NoneDangles
<1>6. Socket!NoneDangles'
  BY <1>a, <1>c, <1>d, <1>e, <1>f DEF Owned, Socket!NoneDangles
<1>7. Socket!NoDescriptorLost'
  BY <1>a, <1>c, <1>d, <1>e, <1>f DEF Owned, Socket!NoDescriptorLost, Socket!NoneDangles
<1> QED BY <1>1, <1>3, <1>4, <1>5, <1>6, <1>7

\* A move leaves the descriptor with one of two sockets.
LEMMA SocketMove ==
    ASSUME SocketInv, NEW s \in Socks, NEW v \in Socks \ {s}, Socket!Move(s, v)
    PROVE  SocketInv'
<1> USE ResourcesAssumption DEF Socket!SocketAssumption, Socket!None, Socket!INVALID_SOCKET,
        Socket!Conns, Socket!Handlers, SocketInv, Numbered, Socket!SocketTypeOK, Socket!Move, Socket!Idle,
        Socket!tables, Socket!tls, Socket!ghosts
<1>1. Numbered'
  <2>1. /\ g_sock_ssl_handler' \in [SockFds -> Socket!Handlers \cup {0}]
        /\ shut' \in [Socks -> Socket!Handlers \cup {0}] /\ nssl' \in 0 .. MaxHandler
        /\ session' \in [Socket!Handlers -> Socket!Conns \cup {0}]
        /\ handlers' \subseteq Socket!Handlers /\ overwritten' \subseteq Socket!Handlers
    OBVIOUS
  <2>2. /\ open_so' \in [SockFds -> Socket!Conns \cup {0}]
        /\ g_sock_address' \in [SockFds -> Socket!Conns \cup {0}]
        /\ meant' \in [Socks -> Socket!Conns \cup {0}]
        /\ fSockFd' \in [Socks -> SockFds \cup {-1}] /\ pending' \in [Socks -> SockFds \cup {-1}]
        /\ nconn' \in 0 .. MaxConn /\ other' \subseteq Socket!Conns
    OBVIOUS
  <2>3. listenFailed' \in BOOLEAN
    OBVIOUS
  <2>4. Socket!SocketTypeOK'
    BY <2>1, <2>2, <2>3
  <2>5. \A g \in SockFds : open_so'[g] <= nconn'
    OBVIOUS
  <2>8. \A u \in Socks : meant'[u] <= nconn'
    OBVIOUS
  <2>6. /\ \A u \in Socks : fSockFd'[u] # -1 => meant'[u] # 0
        /\ \A u \in Socks : pending'[u] # -1 => fSockFd'[u] = -1
    OBVIOUS
  <2>7. \A u \in Socks : shut'[u] # 0 => pending'[u] # -1 \/ fSockFd'[u] # -1
    OBVIOUS
  <2> QED BY <2>4, <2>5, <2>6, <2>7, <2>8
<1>3. Handled'
  BY HandledKept
<1>4. Owned'
  <2>1. /\ \A u \in Socks : fSockFd'[u] = IF u = v THEN fSockFd[s] ELSE IF u = s THEN -1 ELSE fSockFd[u]
        /\ fSockFd[s] # -1 /\ fSockFd[v] = -1 /\ pending[v] = -1 /\ v # s
    OBVIOUS
  <2>2. shut[s] = 0 /\ shut[v] = 0
    OBVIOUS
  <2>3. UNCHANGED <<pending, shut, open_so, g_sock_address, g_sock_ssl_handler>>
    OBVIOUS
  <2>4. listenFailed' = listenFailed
    BY Zenon
  <2>5. SocketInv
    OBVIOUS
  <2> HIDE DEF SocketInv, Numbered, Socket!SocketTypeOK, Socket!Move, Socket!Conns, Socket!Handlers
  <2> SUFFICES ASSUME ~listenFailed' PROVE Owned'
    BY DEF Owned
  <2>a. ~listenFailed
    BY <2>4, Zenon
  <2>6. /\ \A t, u \in Socks : fSockFd[t] # -1 /\ t # u => fSockFd[t] # fSockFd[u]
        /\ \A t, u \in Socks : pending[t] # -1 /\ t # u => pending[t] # pending[u]
        /\ \A t, u \in Socks : fSockFd[t] # -1 => fSockFd[t] # pending[u]
        /\ \A t \in Socks : pending[t] # -1 => open_so[pending[t]] # 0
        /\ \A t \in Socks, f \in SockFds : shut[t] # 0 /\ f \in {fSockFd[t], pending[t]} =>
              g_sock_address[f] = 0 /\ g_sock_ssl_handler[f] = 0
    BY <2>5, <2>a DEF SocketInv, Owned
  <2>7. \A t, u \in Socks : fSockFd'[t] # -1 /\ t # u => fSockFd'[t] # fSockFd'[u]
    BY <2>1, <2>6
  <2>8. \A t, u \in Socks : fSockFd'[t] # -1 => fSockFd'[t] # pending'[u]
    BY <2>1, <2>3, <2>6
  <2>9. \A t \in Socks, f \in SockFds : shut'[t] # 0 /\ f \in {fSockFd'[t], pending'[t]} =>
              g_sock_address'[f] = 0 /\ g_sock_ssl_handler'[f] = 0
    BY <2>1, <2>2, <2>3, <2>6
  <2>10. /\ \A t, u \in Socks : pending'[t] # -1 /\ t # u => pending'[t] # pending'[u]
         /\ \A t \in Socks : pending'[t] # -1 => open_so'[pending'[t]] # 0
    BY <2>3, <2>6
  <2> QED BY <2>7, <2>8, <2>9, <2>10 DEF Owned
<1>5. Socket!TablesCurrent'
  BY DEF Owned, Handled, Socket!TablesCurrent, Socket!NoneDangles
<1>6. Socket!NoneDangles'
  BY DEF Owned, Socket!NoneDangles
<1>7. Socket!NoDescriptorLost'
  BY DEF Owned, Socket!NoDescriptorLost, Socket!NoneDangles
<1> QED BY <1>1, <1>3, <1>4, <1>5, <1>6, <1>7

\* A descriptor that other code opens takes a number no socket has.
LEMMA SocketOther ==
    ASSUME SocketInv, NEW f \in SockFds, Socket!OtherOpen(f)
    PROVE  SocketInv'
<1> USE ResourcesAssumption DEF Socket!SocketAssumption, Socket!None, Socket!INVALID_SOCKET,
        Socket!Conns, Socket!Handlers, SocketInv, Numbered, Socket!SocketTypeOK, Socket!OtherOpen,
        Socket!NewDescriptor, Socket!tables, Socket!tls
<1>1. Numbered'
  <2>1. /\ g_sock_ssl_handler' \in [SockFds -> Socket!Handlers \cup {0}]
        /\ shut' \in [Socks -> Socket!Handlers \cup {0}] /\ nssl' \in 0 .. MaxHandler
        /\ session' \in [Socket!Handlers -> Socket!Conns \cup {0}]
        /\ handlers' \subseteq Socket!Handlers /\ overwritten' \subseteq Socket!Handlers
    OBVIOUS
  <2>2. /\ open_so' \in [SockFds -> Socket!Conns \cup {0}]
        /\ g_sock_address' \in [SockFds -> Socket!Conns \cup {0}]
        /\ meant' \in [Socks -> Socket!Conns \cup {0}]
        /\ fSockFd' \in [Socks -> SockFds \cup {-1}] /\ pending' \in [Socks -> SockFds \cup {-1}]
        /\ nconn' \in 0 .. MaxConn /\ other' \subseteq Socket!Conns
    OBVIOUS
  <2>3. listenFailed' \in BOOLEAN
    OBVIOUS
  <2>4. Socket!SocketTypeOK'
    BY <2>1, <2>2, <2>3
  <2>5. \A g \in SockFds : open_so'[g] <= nconn'
    OBVIOUS
  <2>8. \A u \in Socks : meant'[u] <= nconn'
    OBVIOUS
  <2>6. /\ \A u \in Socks : fSockFd'[u] # -1 => meant'[u] # 0
        /\ \A u \in Socks : pending'[u] # -1 => fSockFd'[u] = -1
    OBVIOUS
  <2>7. \A u \in Socks : shut'[u] # 0 => pending'[u] # -1 \/ fSockFd'[u] # -1
    OBVIOUS
  <2> QED BY <2>4, <2>5, <2>6, <2>7, <2>8
<1>3. Handled'
  BY HandledKept
<1>4. Owned'
  BY DEF Owned, Handled, Socket!NoneDangles, Socket!TablesCurrent
<1>5. Socket!TablesCurrent'
  BY DEF Owned, Handled, Socket!TablesCurrent, Socket!NoneDangles
<1>6. Socket!NoneDangles'
  BY DEF Owned, Socket!NoneDangles
<1>7. Socket!NoDescriptorLost'
  BY DEF Owned, Socket!NoDescriptorLost, Socket!NoneDangles
<1> QED BY <1>1, <1>3, <1>4, <1>5, <1>6, <1>7

\* Every step keeps SocketInv.
LEMMA SocketNext == SocketInv /\ [Socket!Next]_socketVars => SocketInv'
<1> SUFFICES ASSUME SocketInv, [Socket!Next]_socketVars PROVE SocketInv'
  OBVIOUS
<1>1. CASE UNCHANGED socketVars
  BY <1>1 DEF socketVars, SocketInv, Numbered, Handled, Owned, Socket!SocketTypeOK,
     Socket!TablesCurrent, Socket!NoneDangles, Socket!NoDescriptorLost
<1>2. CASE Socket!Next
  BY <1>2, SocketConnectBegin, SocketConnect, SocketConnectTill, SocketListen, SocketAccept,
     SocketHandler, SocketClose, SocketCloseEnds, SocketMove, SocketOther DEF Socket!Next
<1> QED BY <1>1, <1>2

\* Handled says of each handler what HandlersOwned says of the sets.
LEMMA SocketHandlers == SocketInv => Socket!HandlersOwned
<1> SUFFICES ASSUME SocketInv PROVE Socket!HandlersOwned
  OBVIOUS
<1> DEFINE tabled == {g_sock_ssl_handler[f] : f \in SockFds} \ {0}
           closing == {shut[s] : s \in Socks} \ {0}
<1> USE DEF SocketInv, Numbered, Socket!SocketTypeOK, Handled, Socket!None, Socket!Handlers
<1>0. 0 \notin handlers
  OBVIOUS
<1>5. tabled \subseteq handlers /\ closing \subseteq handlers
  OBVIOUS
<1>1. handlers \subseteq tabled \cup closing \cup overwritten
  BY <1>0
<1>2. tabled \cup closing \cup overwritten \subseteq handlers
  BY <1>5
<1>3. tabled \cap closing = {} /\ (tabled \cup closing) \cap overwritten = {}
  OBVIOUS
<1>4. handlers = tabled \cup closing \cup overwritten
  BY <1>1, <1>2
<1> QED BY <1>3, <1>4 DEF Socket!HandlersOwned

\* However numbers are reused, connects fail or time out, a close waits in SSL_shutdown, and
\* connections move between Sockets: until a TcpListen fails the tables speak of the
\* connections that are there, every Socket has the connection its user means and nobody
\* loses a descriptor.  Whatever fails, a TLS handler has one owner, the table or a close()
\* under way, until that deletes it, and only a handler that was overwritten has none.
THEOREM SocketsKeptApart == Spec => []SocketsRight
<1>1. Init => SocketInv
  BY SocketInit DEF Init
<1>2. SocketInv /\ [Next]_allVars => SocketInv'
  BY SocketNext, StepOfParts
<1>3. SocketInv => SocketsRight
  BY SocketHandlers DEF SocketInv, SocketsRight, Numbered
<1> QED BY <1>1, <1>2, <1>3, PTL DEF Spec

-----------------------------------------------------------------------------
\* Waiting for descriptors.  The wheel: the slots one to four ahead of its position are
\* different, and a step of the wheel brings each of them one nearer.
LEMMA WheelTurns ==
    ASSUME NEW n \in Nat, n > 3, NEW k \in 0 .. n - 1, NEW d \in 1 .. 4
    PROVE  /\ (k + d) % n \in 0 .. n - 1
           /\ (k + d) % n = (k + 1) % n => d = 1
           /\ d > 1 => (((k + 1) % n) + (d - 1)) % n = (k + d) % n
<1>1. ASSUME NEW x \in 0 .. 2 * n - 1
      PROVE  x % n = IF x < n THEN x ELSE x - n
  BY SMTT(30)
<1>2. k + d \in 0 .. 2 * n - 1 /\ k + 1 \in 0 .. 2 * n - 1
  OBVIOUS
<1>3. /\ (k + d) % n = IF k + d < n THEN k + d ELSE k + d - n
      /\ (k + 1) % n = IF k + 1 < n THEN k + 1 ELSE k + 1 - n
  <2>1. (k + d) % n = IF k + d < n THEN k + d ELSE k + d - n
    BY ONLY <1>1, <1>2
  <2>2. (k + 1) % n = IF k + 1 < n THEN k + 1 ELSE k + 1 - n
    BY ONLY <1>1, <1>2
  <2> QED BY ONLY <2>1, <2>2
<1>4. (k + d) % n \in 0 .. n - 1 /\ ((k + d) % n = (k + 1) % n => d = 1)
  BY <1>3
<1>5. ASSUME d > 1 PROVE (((k + 1) % n) + (d - 1)) % n = (k + d) % n
  <2>1. ((k + 1) % n) + (d - 1) \in 0 .. 2 * n - 1
    BY <1>3, <1>5
  <2>2. (((k + 1) % n) + (d - 1)) % n = IF ((k + 1) % n) + (d - 1) < n THEN ((k + 1) % n) + (d - 1)
                                                                 ELSE ((k + 1) % n) + (d - 1) - n
    BY ONLY <1>1, <2>1
  <2> QED BY <1>3, <1>5, <2>2
<1> QED BY <1>4, <1>5

\* A task whose inner_fd is freed is inside event_poll, and tasks that poll one inner_fd
\* together are known to share it.  The others have the pointer that the table has, and no
\* two descriptors have the same.
Polling ==
    /\ \A f, g \in PollFds : g_inner_fd_list[f] # 0 /\ g_inner_fd_list[f] = g_inner_fd_list[g] => f = g
    /\ \A t \in PollTasks : pc_ev[t] # "run" /\ t \notin freed =>
            ptr[t] # 0 /\ ptr[t] = g_inner_fd_list[on[t]]
    /\ \A t \in freed : pc_ev[t] # "run"
    /\ \A t, u \in PollTasks :
        pc_ev[t] # "run" /\ pc_ev[u] # "run" /\ on[t] = on[u] /\ {t, u} \cap freed = {} /\ t # u
            => t \in shared

\* What is in the epoll set or in the wheel is open and belongs to a task that polls it.
Polled ==
    \A f \in PollFds : f \in registered \/ slot[f] # Poll!NoSlot =>
        /\ g_inner_fd_list[f] # 0
        /\ \E t \in PollTasks \ freed : /\ pc_ev[t] # "run" /\ on[t] = f
                                        /\ task[f] = t \/ t \in shared

\* A time-out is d steps of the wheel ahead when at most d expirations are missing, one more if
\* the wheel has a step to make up for; and it is marked when none is.
Timed ==
    \A t \in PollTasks : pc_ev[t] # "run" /\ t \notin shared /\ t \notin freed =>
        /\ "time" \in error[on[t]] => age[t] >= 3
        /\ slot[on[t]] # Poll!NoSlot =>
            \E d \in 1 .. 4 : /\ slot[on[t]] = (loc + d) % Size
                              /\ age[t] + d >= 3 /\ (expired => age[t] + d >= 4)

PollInv == Poll!EventTypeOK /\ Poll!NobodyForgotten /\ Polling /\ Polled /\ Timed

\* At first nobody polls.
LEMMA PollInit == Poll!Init => PollInv
<1> SUFFICES ASSUME Poll!Init PROVE PollInv
  OBVIOUS
<1> USE ResourcesAssumption DEF Poll!PollAssumption, Poll!Init, Poll!FD_TIMEOUT, Poll!NoSlot,
        Poll!NULL
<1>1. Poll!EventTypeOK
  <2>1. Poll!AnyFd \in PollFds
    BY DEF Poll!AnyFd
  <2>2. expired \in BOOLEAN
    BY Zenon
  <2> QED BY <2>1, <2>2 DEF Poll!EventTypeOK
<1>2. Poll!NobodyForgotten /\ Polling /\ Polled /\ Timed
  BY DEF Poll!NobodyForgotten, Polling, Polled, Timed
<1> QED BY <1>1, <1>2 DEF PollInv

\* event_poll registers its descriptor and enters the wheel; a second poller makes both shared.
LEMMA PollBegins ==
    ASSUME PollInv, NEW t \in PollTasks, NEW f \in PollFds, Poll!event_poll(t, f)
    PROVE  PollInv'
<1> USE ResourcesAssumption DEF Poll!PollAssumption, Poll!FD_TIMEOUT, Poll!NoSlot,
        Poll!NULL, Poll!Open, PollInv, Poll!event_poll, Poll!wheel_update_element, Poll!Pollers
<1>1. Poll!EventTypeOK'
  BY WheelTurns DEF Poll!EventTypeOK
<1>2. Poll!NobodyForgotten'
  BY DEF Poll!EventTypeOK, Poll!NobodyForgotten, Polling
<1>3. Polling'
  BY DEF Poll!EventTypeOK, Polling
<1>4. Polled'
  BY DEF Poll!EventTypeOK, Polled, Polling
<1>5. Timed'
  <2> SUFFICES ASSUME NEW u \in PollTasks, pc_ev'[u] # "run", u \notin shared', u \notin freed'
               PROVE  /\ "time" \in error'[on'[u]] => age'[u] >= 3
                      /\ slot'[on'[u]] # -1 =>
                          \E d \in 1 .. 4 : /\ slot'[on'[u]] = (loc' + d) % Size
                                            /\ age'[u] + d >= 3 /\ (expired' => age'[u] + d >= 4)
    BY DEF Timed
  <2>1. CASE u = t
    <3>1. on'[u] = f /\ error'[f] = {} /\ age'[u] = 0 /\ loc' = loc
      BY <2>1 DEF Poll!EventTypeOK
    <3>2. slot'[f] = slot[f] \/ slot'[f] = (loc' + 4) % Size
      BY <3>1 DEF Poll!EventTypeOK
    <3>3. slot[f] = -1
      BY <2>1 DEF Poll!EventTypeOK, Polled
    <3> QED BY <3>1, <3>2, <3>3
  <2>2. CASE u # t
    <3>1. on[u] # f /\ pc_ev[u] # "run" /\ u \notin shared /\ u \notin freed /\ on[u] \in PollFds
      BY <2>2 DEF Poll!EventTypeOK
    <3>2. /\ on'[u] = on[u] /\ error'[on[u]] = error[on[u]] /\ age'[u] = age[u]
          /\ slot'[on[u]] = slot[on[u]] /\ loc' = loc /\ expired' = expired
      BY <2>2, <3>1 DEF Poll!EventTypeOK
    <3> QED BY <3>1, <3>2 DEF Timed
  <2> QED BY <2>1, <2>2
<1> QED BY <1>1, <1>2, <1>3, <1>4, <1>5

\* A poll that epoll_ctl refuses takes the descriptor from whoever waits for it.
LEMMA PollFails ==
    ASSUME PollInv, NEW t \in PollTasks, NEW f \in PollFds, Poll!PollFails(t, f)
    PROVE  PollInv'
<1> USE ResourcesAssumption DEF Poll!PollAssumption, Poll!FD_TIMEOUT, Poll!NoSlot,
        Poll!NULL, Poll!Open, PollInv, Poll!PollFails, Poll!Pollers, Poll!tvars
<1>1. Poll!EventTypeOK'
  BY DEF Poll!EventTypeOK
<1>2. Poll!NobodyForgotten'
  BY DEF Poll!EventTypeOK, Poll!NobodyForgotten, Polling
<1>3. Polling'
  BY DEF Poll!EventTypeOK, Polling
<1>4. Polled'
  BY DEF Poll!EventTypeOK, Polled, Polling
<1>5. Timed'
  BY DEF Poll!EventTypeOK, Timed
<1> QED BY <1>1, <1>2, <1>3, <1>4, <1>5

\* A resumed task takes the descriptor its pointer leads to out of the epoll set and the
\* wheel: its own, unless its inner_fd was freed.
LEMMA PollReturns ==
    ASSUME PollInv, NEW t \in PollTasks, Poll!PollReturn(t)
    PROVE  PollInv'
<1> USE ResourcesAssumption DEF Poll!PollAssumption, Poll!FD_TIMEOUT, Poll!NoSlot,
        Poll!NULL, PollInv
<1>0. Poll!AnyFd \in PollFds
  BY DEF Poll!AnyFd
<1>1. PICK f \in PollFds : /\ g_inner_fd_list[f] # 0 /\ g_inner_fd_list[f] = ptr[t]
                           /\ slot' = [slot EXCEPT ![f] = -1] /\ registered' = registered \ {f}
                           /\ shared' = (shared \cup Poll!Pollers(f)) \ {t}
  BY DEF Poll!PollReturn, Poll!Open
<1>2. /\ pc_ev[t] = "woken" /\ pc_ev' = [pc_ev EXCEPT ![t] = "run"]
      /\ on' = [on EXCEPT ![t] = Poll!AnyFd] /\ ptr' = [ptr EXCEPT ![t] = 0]
      /\ age' = [age EXCEPT ![t] = 0] /\ freed' = freed \ {t}
      /\ UNCHANGED <<g_inner_fd_list, task, error, ready, loc, expired>>
  BY DEF Poll!PollReturn, Poll!Back
<1>3. Poll!EventTypeOK'
  BY <1>0, <1>1, <1>2 DEF Poll!EventTypeOK, Poll!Pollers
<1>4. t \notin freed => on[t] = f
  BY <1>1, <1>2 DEF Polling, Poll!EventTypeOK
<1>5. \A u \in PollTasks : u # t => /\ pc_ev'[u] = pc_ev[u] /\ on'[u] = on[u] /\ ptr'[u] = ptr[u]
                                    /\ age'[u] = age[u] /\ (u \in freed' <=> u \in freed)
                                    /\ u \notin shared' => u \notin shared
                                    /\ u \in shared => u \in shared'
  BY <1>1, <1>2 DEF Poll!EventTypeOK
<1>6. /\ pc_ev'[t] = "run" /\ t \notin freed'
      /\ \A g \in PollFds : g # f => slot'[g] = slot[g] /\ (g \in registered' <=> g \in registered)
      /\ slot'[f] = -1 /\ f \notin registered'
  BY <1>1, <1>2 DEF Poll!EventTypeOK
<1>7. \A u \in PollTasks : u # t /\ pc_ev[u] # "run" /\ u \notin freed /\ u \notin shared' => on[u] # f
  BY <1>1 DEF Poll!Pollers
<1>8. \A u \in PollTasks : on[u] \in PollFds
  BY DEF Poll!EventTypeOK
<1>9. Poll!NobodyForgotten'
  BY <1>2, <1>5, <1>6, <1>7, <1>8 DEF Poll!NobodyForgotten, Poll!Open
<1>10. Polling'
  BY <1>2, <1>5, <1>6 DEF Polling
<1>11. Polled'
  BY <1>2, <1>4, <1>5, <1>6 DEF Polled
<1>12. Timed'
  BY <1>2, <1>5, <1>6, <1>7, <1>8 DEF Timed
<1> QED BY <1>3, <1>9, <1>10, <1>11, <1>12

\* A task returns through memory that is free: its inner_fd was freed under it, and it may
\* unregister any descriptor.
LEMMA PollReturnsFreed ==
    ASSUME PollInv, NEW t \in PollTasks, Poll!PollReturnFreed(t)
    PROVE  PollInv'
<1> USE ResourcesAssumption DEF Poll!PollAssumption, Poll!FD_TIMEOUT, Poll!NoSlot,
        Poll!NULL, PollInv
<1>0. Poll!AnyFd \in PollFds
  BY DEF Poll!AnyFd
<1>1. /\ registered' \subseteq registered
      /\ \A u \in PollTasks : u # t /\ pc_ev[u] # "run" /\ u \notin freed /\ u \notin shared'
            => (on[u] \in registered => on[u] \in registered')
      /\ shared' \subseteq PollTasks
      /\ \A u \in PollTasks : u # t /\ u \in shared => u \in shared'
  BY DEF Poll!PollReturnFreed, Poll!Pollers, Poll!EventTypeOK
<1>2. /\ pc_ev[t] = "woken" /\ pc_ev' = [pc_ev EXCEPT ![t] = "run"]
      /\ on' = [on EXCEPT ![t] = Poll!AnyFd] /\ ptr' = [ptr EXCEPT ![t] = 0]
      /\ age' = [age EXCEPT ![t] = 0] /\ freed' = freed \ {t}
      /\ UNCHANGED <<g_inner_fd_list, task, error, slot, ready, loc, expired>>
  BY DEF Poll!PollReturnFreed, Poll!Back
<1>3. Poll!EventTypeOK'
  BY <1>0, <1>1, <1>2 DEF Poll!EventTypeOK
<1>4. t \in freed
  <2>1. ptr[t] \notin {g_inner_fd_list[f] : f \in PollFds} /\ on[t] \in PollFds
    BY DEF Poll!PollReturnFreed, Poll!EventTypeOK
  <2> QED BY <1>2, <2>1 DEF Polling
<1>5. \A u \in PollTasks : u # t => /\ pc_ev'[u] = pc_ev[u] /\ on'[u] = on[u] /\ ptr'[u] = ptr[u]
                                    /\ age'[u] = age[u] /\ (u \in freed' <=> u \in freed)
  BY <1>2 DEF Poll!EventTypeOK
<1>6. pc_ev'[t] = "run" /\ t \notin freed'
  BY <1>2 DEF Poll!EventTypeOK
<1>9. Poll!NobodyForgotten'
  BY <1>1, <1>2, <1>5, <1>6 DEF Poll!NobodyForgotten, Poll!Open
<1>10. Polling'
  BY <1>1, <1>2, <1>5, <1>6 DEF Polling
<1>11. Polled'
  BY <1>1, <1>2, <1>4, <1>5, <1>6 DEF Polled
<1>12. Timed'
  BY <1>1, <1>2, <1>5, <1>6 DEF Timed
<1> QED BY <1>3, <1>9, <1>10, <1>11, <1>12

\* event_wait resumes the tasks of the descriptors reported.
LEMMA PollWaits ==
    ASSUME PollInv, NEW reported \in SUBSET registered, Poll!event_wait(reported)
    PROVE  PollInv'
<1> USE ResourcesAssumption DEF Poll!PollAssumption, Poll!FD_TIMEOUT, Poll!NoSlot,
        Poll!NULL, Poll!Open, PollInv, Poll!event_wait, Poll!Resumed
<1>1. Poll!EventTypeOK'
  BY DEF Poll!EventTypeOK
<1>2. Poll!NobodyForgotten'
  BY DEF Poll!EventTypeOK, Poll!NobodyForgotten, Polling
<1>3. Polling'
  BY DEF Poll!EventTypeOK, Polling
<1>4. Polled'
  BY DEF Poll!EventTypeOK, Polled, Polling
<1>5. Timed'
  BY DEF Poll!EventTypeOK, Timed
<1> QED BY <1>1, <1>2, <1>3, <1>4, <1>5

\* The timer expires and ages the waits.
LEMMA PollTimer ==
    ASSUME PollInv, Poll!TimerExpires
    PROVE  PollInv'
<1> USE ResourcesAssumption DEF Poll!PollAssumption, Poll!FD_TIMEOUT, Poll!NoSlot,
        Poll!NULL, Poll!Open, PollInv, Poll!TimerExpires, Poll!fvars
<1>1. Poll!EventTypeOK'
  BY DEF Poll!EventTypeOK
<1>2. Poll!NobodyForgotten'
  BY DEF Poll!EventTypeOK, Poll!NobodyForgotten, Polling
<1>3. Polling'
  BY DEF Poll!EventTypeOK, Polling
<1>4. Polled'
  BY DEF Poll!EventTypeOK, Polled, Polling
<1>5. Timed'
  BY DEF Poll!EventTypeOK, Timed
<1> QED BY <1>1, <1>2, <1>3, <1>4, <1>5

\* timeout_task turns the wheel by one slot and resumes the tasks of that slot.
LEMMA PollTimes ==
    ASSUME PollInv, Poll!timeout_task
    PROVE  PollInv'
<1> USE ResourcesAssumption DEF Poll!PollAssumption, Poll!FD_TIMEOUT, Poll!NoSlot,
        Poll!NULL, Poll!Open, PollInv, Poll!timeout_task, Poll!Resumed
<1>a. (loc + 1) % Size \in 0 .. Size - 1
  BY WheelTurns DEF Poll!EventTypeOK
<1>1. Poll!EventTypeOK'
  BY <1>a DEF Poll!EventTypeOK
<1>2. Poll!NobodyForgotten'
  BY DEF Poll!EventTypeOK, Poll!NobodyForgotten, Polling
<1>3. Polling'
  BY DEF Poll!EventTypeOK, Polling
<1>4. Polled'
  BY DEF Poll!EventTypeOK, Polled, Polling
<1>5. Timed'
  <2> SUFFICES ASSUME NEW u \in PollTasks, pc_ev'[u] # "run", u \notin shared', u \notin freed'
               PROVE  /\ "time" \in error'[on'[u]] => age'[u] >= 3
                      /\ slot'[on'[u]] # -1 =>
                          \E d \in 1 .. 4 : /\ slot'[on'[u]] = (loc' + d) % Size
                                            /\ age'[u] + d >= 3 /\ (expired' => age'[u] + d >= 4)
    BY DEF Timed
  <2> DEFINE f == on[u]
  <2>1. /\ f \in PollFds /\ pc_ev[u] # "run" /\ u \notin shared /\ u \notin freed
        /\ on'[u] = f /\ age'[u] = age[u] /\ age[u] \in Nat /\ loc' = (loc + 1) % Size
    BY DEF Poll!EventTypeOK
  <2>2. /\ error'[f] = IF slot[f] = (loc + 1) % Size THEN error[f] \cup {"time"} ELSE error[f]
        /\ slot'[f] = IF slot[f] = (loc + 1) % Size THEN -1 ELSE slot[f]
    BY <2>1 DEF Poll!EventTypeOK
  <2>3. expired /\ ~expired'
    OBVIOUS
  <2>4. CASE slot[f] = -1
    <3>1. slot[f] # (loc + 1) % Size
      BY <2>4, <1>a
    <3> QED BY <2>1, <2>2, <2>4, <3>1 DEF Timed
  <2>5. CASE slot[f] # -1
    <3>1. PICK d \in 1 .. 4 : slot[f] = (loc + d) % Size /\ age[u] + d >= 4
      BY <2>1, <2>3, <2>5 DEF Timed
    <3>2. /\ (loc + d) % Size = (loc + 1) % Size => d = 1
          /\ d > 1 => (((loc + 1) % Size) + (d - 1)) % Size = (loc + d) % Size
      BY WheelTurns DEF Poll!EventTypeOK
    <3>3. CASE d = 1
      BY <2>1, <2>2, <3>1, <3>3
    <3>4. CASE d > 1
      <4>1. slot[f] # (loc + 1) % Size /\ d - 1 \in 1 .. 4
        BY <3>1, <3>2, <3>4
      <4>2. error'[f] = error[f] /\ slot'[f] = (loc' + (d - 1)) % Size /\ age'[u] + (d - 1) >= 3
        BY <2>1, <2>2, <3>1, <3>2, <3>4, <4>1
      <4> QED BY <2>1, <2>3, <4>1, <4>2 DEF Timed
    <3> QED BY <3>3, <3>4
  <2> QED BY <2>4, <2>5
<1> QED BY <1>1, <1>2, <1>3, <1>4, <1>5

\* What the peer does changes what epoll would report and nothing else.
LEMMA PollPeer ==
    ASSUME PollInv, NEW f \in PollFds, NEW r \in {{}} \cup Reports, Poll!PeerActs(f, r)
    PROVE  PollInv'
<1> USE ResourcesAssumption DEF Poll!PollAssumption, Poll!FD_TIMEOUT, Poll!NoSlot,
        Poll!NULL, Poll!Open, PollInv, Poll!PeerActs, Poll!fvars, Poll!tvars
<1>1. Poll!EventTypeOK'
  BY DEF Poll!EventTypeOK
<1>2. Poll!NobodyForgotten'
  BY DEF Poll!EventTypeOK, Poll!NobodyForgotten, Polling
<1>3. Polling'
  BY DEF Poll!EventTypeOK, Polling
<1>4. Polled'
  BY DEF Poll!EventTypeOK, Polled, Polling
<1>5. Timed'
  BY DEF Poll!EventTypeOK, Timed
<1> QED BY <1>1, <1>2, <1>3, <1>4, <1>5

\* close() frees the inner_fd and marks who still waits for it.
LEMMA PollCloses ==
    ASSUME PollInv, NEW f \in PollFds, Poll!close(f)
    PROVE  PollInv'
<1> USE ResourcesAssumption DEF Poll!PollAssumption, Poll!FD_TIMEOUT, Poll!NoSlot,
        Poll!NULL, Poll!Open, PollInv, Poll!close, Poll!Pollers, Poll!tvars
<1>1. Poll!EventTypeOK'
  BY DEF Poll!EventTypeOK
<1>2. Poll!NobodyForgotten'
  BY DEF Poll!EventTypeOK, Poll!NobodyForgotten, Polling
<1>3. Polling'
  BY DEF Poll!EventTypeOK, Polling
<1>4. Polled'
  BY DEF Poll!EventTypeOK, Polled, Polling
<1>5. Timed'
  BY DEF Poll!EventTypeOK, Timed
<1> QED BY <1>1, <1>2, <1>3, <1>4, <1>5

\* A number that is opened again gets a fresh inner_fd.
LEMMA PollReopens ==
    ASSUME PollInv, NEW f \in PollFds, Poll!new_inner_fd(f)
    PROVE  PollInv'
<1> USE ResourcesAssumption DEF Poll!PollAssumption, Poll!FD_TIMEOUT, Poll!NoSlot,
        Poll!NULL, Poll!Open, PollInv, Poll!new_inner_fd, Poll!tvars
<1>1. Poll!EventTypeOK'
  BY DEF Poll!EventTypeOK
<1>2. Poll!NobodyForgotten'
  BY DEF Poll!EventTypeOK, Poll!NobodyForgotten, Polling
<1>3. Polling'
  BY DEF Poll!EventTypeOK, Polling
<1>4. Polled'
  BY DEF Poll!EventTypeOK, Polled, Polling
<1>5. Timed'
  BY DEF Poll!EventTypeOK, Timed
<1> QED BY <1>1, <1>2, <1>3, <1>4, <1>5

\* Every step keeps PollInv.
LEMMA PollNext == PollInv /\ [Poll!Next]_pollVars => PollInv'
<1> SUFFICES ASSUME PollInv, [Poll!Next]_pollVars PROVE PollInv'
  OBVIOUS
<1>1. CASE UNCHANGED pollVars
  BY <1>1 DEF pollVars, PollInv, Poll!EventTypeOK, Poll!NobodyForgotten, Poll!Open, Polling,
     Polled, Timed
<1>2. CASE Poll!Next
  BY <1>2, PollBegins, PollFails, PollReturns, PollReturnsFreed, PollWaits, PollTimer, PollTimes,
     PollPeer, PollCloses, PollReopens DEF Poll!Next, Poll!Scheduler
<1> QED BY <1>1, <1>2

\* PollInv is an invariant of the run.
LEMMA PollAlways == Spec => []PollInv
<1>1. Init => PollInv
  BY PollInit DEF Init
<1>2. PollInv /\ [Next]_allVars => PollInv'
  BY PollNext, StepOfParts
<1> QED BY <1>1, <1>2, PTL DEF Spec

\* Whatever events, time-outs, closes and second pollers interleave, and whatever memory
\* malloc gives away again: a task can be reached by its event and by its time-out while no
\* other task has polled its descriptor, closed it, or returned through a freed inner_fd
\* that led to it; and what is in the epoll set or in the wheel belongs to a task that waits
\* for it.
THEOREM NobodyIsForgotten == Spec => []PollersReached
<1>1. PollInv => PollersReached
  BY DEF PollInv, PollersReached, Polled, Poll!NoStrayWake
<1> QED BY <1>1, PollAlways, PTL

\* With a wheel of at least four slots the timer has expired FD_TIMEOUT times when a wait
\* reports a time-out, wherever the wheel stands and however many expirations were read as
\* one.  In seconds that is more than FD_TIMEOUT - 1: the first may come at once.
THEOREM TimeoutsNotEarly == Spec => NotEarly
<1>1. ASSUME PollInv
      PROVE  [\A t \in PollTasks :
                Poll!PollReturn(t) /\ Poll!Result(on[t]) = "ETIME" /\ t \notin shared \cup freed
                    => age[t] >= Poll!FD_TIMEOUT]_Poll!vars
  BY <1>1 DEF PollInv, Timed, Poll!PollReturn, Poll!Result, Poll!FD_TIMEOUT
<1> QED BY <1>1, PollAlways, PTL DEF NotEarly, Poll!NotEarly

-----------------------------------------------------------------------------
\* Client hellos.  The length of a record is itself again after two conversions.
LEMMA SwapTwice ==
    ASSUME NEW v \in Hello!Shorts
    PROVE  Hello!ntohs(v) \in Hello!Shorts /\ (v > 0 => Hello!ntohs(Hello!ntohs(v)) = v)
<1> DEFINE u == v % 65536  a == u % 256  b == u \div 256  w == a * 256 + b
           x == IF w >= 32768 THEN w - 65536 ELSE w
<1>0. v \in Int /\ v < 32768
  BY DEF Hello!Shorts
<1>1. u \in Int /\ u >= 0 /\ u < 65536 /\ (v > 0 => u = v)
  BY ONLY <1>0
<1> HIDE DEF u
<1>2. /\ a \in Int /\ b \in Int /\ a >= 0 /\ a < 256 /\ b >= 0 /\ b < 256
      /\ u = 256 * b + a
  BY ONLY <1>1
<1> HIDE DEF a, b
<1>3. w \in Int /\ w >= 0 /\ w < 65536
  BY ONLY <1>2
<1>4. x \in Int /\ x >= -32768 /\ x < 32768 /\ x % 65536 = w
  BY ONLY <1>3
<1>5. w % 256 = b /\ w \div 256 = a
  BY ONLY <1>2
<1>6. Hello!ntohs(v) = x
  BY DEF Hello!ntohs, u, a, b
<1>7. ASSUME v > 0 PROVE Hello!ntohs(x) = v
  <2>1. b * 256 + a = v
    BY <1>1, <1>2, <1>7
  <2> HIDE DEF x, w
  <2>2. Hello!ntohs(x) = IF b * 256 + a >= 32768 THEN b * 256 + a - 65536 ELSE b * 256 + a
    BY ONLY <1>4, <1>5 DEF Hello!ntohs
  <2> QED BY ONLY <1>0, <2>1, <2>2
<1>8. x \in Hello!Shorts
  BY ONLY <1>4 DEF Hello!Shorts
<1> HIDE DEF x
<1> QED BY <1>6, <1>7, <1>8

\* The walk over the extensions of a hello finds the name it asks for, if it asks for one.
LEMMA NameFound ==
    ASSUME NEW h \in Hellos, NEW old
    PROVE  IF Hello!Asked(h) # {} THEN Hello!serverName(h, old) \in Hello!Asked(h)
                                  ELSE Hello!serverName(h, old) = old
<1> DEFINE e == h.extensions
           n == {i \in DOMAIN e : e[i].type = 0}
           m == CHOOSE i \in n : \A j \in n : i <= j
<1>1. DOMAIN e = 1 .. Len(e) /\ Len(e) \in Nat
  <2>1. e \in Seq([type : Nat, name : STRING])
    BY ResourcesAssumption DEF Hello!HelloAssumption
  <2> HIDE DEF e
  <2> QED BY <2>1
<1>2. CASE n = {}
  BY <1>2 DEF Hello!Asked, Hello!serverName
<1>3. CASE n # {}
  <2>1. n \in SUBSET Nat
    BY <1>1
  <2>2. \E i \in n : \A j \in n : i <= j
    BY <1>3, <2>1, LeastNumber
  <2>3. m \in n /\ \A j \in n : m <= j
    BY <2>2
  <2>4. m \in DOMAIN e /\ e[m].type = 0 /\ \A k \in 1 .. m - 1 : e[k].type # 0
    <3> HIDE DEF e, m
    <3>1. m \in DOMAIN e /\ e[m].type = 0
      BY <2>3
    <3>2. ASSUME NEW k \in 1 .. m - 1 PROVE e[k].type # 0
      <4>1. k \in DOMAIN e /\ ~(m <= k)
        BY <1>1, <3>1
      <4> QED BY <2>3, <4>1
    <3> QED BY <3>1, <3>2
  <2>5. e[m].name \in Hello!Asked(h)
    BY <2>4 DEF Hello!Asked
  <2>6. Hello!serverName(h, old) = e[m].name
    BY <1>3 DEF Hello!serverName
  <2> QED BY <2>5, <2>6
<1> QED BY <1>2, <1>3

\* What the fields of a parser are before a hello is complete, and what the buffer holds.
HelloInv ==
    /\ Hello!HelloTypeOK
    /\ ret_he = Hello!More => fCiphers = <<>> /\ fServer \in names \cup {Hello!Unknown}
    /\ ret_he = Hello!Done /\ have # Hello!Total => fServer = Hello!Unknown
    /\ swaps \in Nat
    /\ swaps = 0 => memLength = Hello!ntohs(hello.length) /\ ret_he = Hello!More
    /\ swaps > 0 => have >= Hello!RecoderSize
    /\ swaps = 1 => memLength = hello.length
    /\ Hello!CiphersOfThis /\ Hello!NameOfThis /\ Hello!WholeInOne

\* A new parser has parsed nothing.
LEMMA HelloInit == Hello!Init => HelloInv
<1> SUFFICES ASSUME Hello!Init PROVE HelloInv
  OBVIOUS
<1> USE DEF Hello!Init, Hello!More, Hello!Done, Hello!Total, Hello!RecoderSize
<1>1. /\ hello \in Hellos /\ hello.length \in Hello!Shorts /\ hello.length > 0
      /\ MaxConns \in Nat \ {0}
  BY ResourcesAssumption DEF Hello!HelloAssumption
<1>2. Hello!ntohs(hello.length) \in Hello!Shorts
  BY <1>1, SwapTwice
<1>3. Hello!HelloTypeOK
  <2>1. hello.length \in Int /\ 0 \in 0 .. hello.length + 5
    BY <1>1 DEF Hello!Shorts
  <2> QED BY <1>1, <1>2, <2>1 DEF Hello!HelloTypeOK
<1> QED BY <1>1, <1>3 DEF HelloInv, Hello!CiphersOfThis, Hello!NameOfThis, Hello!WholeInOne

\* parse() converts the length once while the hello is incomplete; a second conversion
\* undoes the first.
LEMMA HelloParse ==
    ASSUME HelloInv, NEW n \in Cuts \cup {Hello!Total}, Hello!parse(n)
    PROVE  HelloInv'
<1> USE DEF Hello!More, Hello!Done, Hello!RecoderSize
<1>1. /\ hello \in Hellos /\ hello.length \in Hello!Shorts /\ hello.length > 0
      /\ hello.ciphers \in Seq(Nat)
      /\ hello.length \in Int /\ Hello!Total = hello.length + 5 /\ Hello!Total \in Nat
      /\ memLength \in Hello!Shorts /\ have \in Nat /\ swaps \in Nat
  BY ResourcesAssumption DEF HelloInv, Hello!HelloTypeOK, Hello!HelloAssumption, Hello!Total,
     Hello!Shorts
<1>2. /\ n \in Nat /\ n > have /\ n <= Hello!Total /\ ret_he = 1 /\ have' = n
      /\ UNCHANGED <<hello, conns, names>>
  BY <1>1, ResourcesAssumption DEF Hello!parse, Hello!HelloAssumption
<1>3. Hello!Total' = Hello!Total
  BY <1>2 DEF Hello!Total
<1>4. CASE n < 5 /\ UNCHANGED <<memLength, swaps, ret_he, bCompleted, fCiphers, fServer>>
  <2>1. Hello!HelloTypeOK'
    BY <1>1, <1>2, <1>3, <1>4 DEF HelloInv, Hello!HelloTypeOK
  <2> QED BY <1>1, <1>2, <1>3, <1>4, <2>1
          DEF HelloInv, Hello!CiphersOfThis, Hello!NameOfThis, Hello!WholeInOne
<1>5. CASE n >= 5 /\ memLength' = Hello!ntohs(memLength) /\ swaps' = swaps + 1
  <2>1. memLength' \in Hello!Shorts
    BY <1>1, <1>5, SwapTwice
  <2>2. swaps' = 1 => memLength' = hello.length
    <3>1. swaps' = 1 => memLength = Hello!ntohs(hello.length)
      BY <1>1, <1>5 DEF HelloInv
    <3>2. Hello!ntohs(Hello!ntohs(hello.length)) = hello.length
      BY <1>1, SwapTwice
    <3> QED BY <1>5, <3>1, <3>2
  <2>3. swaps' = 1 => Hello!need(memLength') = Hello!Total
    BY <1>1, <2>2 DEF Hello!need
  <2>4. CASE n < Hello!need(memLength') /\ UNCHANGED <<ret_he, bCompleted, fCiphers, fServer>>
    <3>1. Hello!HelloTypeOK'
      BY <1>1, <1>2, <1>3, <2>1, <2>4 DEF HelloInv, Hello!HelloTypeOK
    <3>2. Hello!WholeInOne'
      BY <1>1, <1>2, <1>3, <1>5, <2>3, <2>4 DEF Hello!WholeInOne
    <3> QED BY <1>1, <1>2, <1>3, <1>5, <2>2, <2>4, <3>1, <3>2
            DEF HelloInv, Hello!CiphersOfThis, Hello!NameOfThis
  <2>5. CASE /\ n >= Hello!need(memLength') /\ bCompleted' = TRUE /\ ret_he' = 0
             /\ \/ /\ n = Hello!Total
                   /\ fCiphers' = fCiphers \o hello.ciphers
                   /\ fServer' = Hello!serverName(hello, fServer)
                \/ n < Hello!Total /\ fCiphers' = <<Hello!Unknown>> /\ fServer' = Hello!Unknown
    <3>1. Hello!HelloTypeOK'
      BY <1>1, <1>2, <1>3, <2>1, <2>5 DEF HelloInv, Hello!HelloTypeOK
    <3>2. Hello!WholeInOne'
      BY <1>1, <1>2, <1>3, <1>5, <2>3, <2>5 DEF Hello!WholeInOne
    <3>3. Hello!CiphersOfThis'
      <4>1. fCiphers = <<>>
        BY <1>2 DEF HelloInv
      <4>2. <<>> \o hello.ciphers = hello.ciphers
        BY <1>1, ConcatEmptySeq
      <4> QED BY <1>2, <1>3, <2>5, <4>1, <4>2 DEF Hello!CiphersOfThis
    <3>4. Hello!NameOfThis'
      <4>1. fServer \in names \cup {Hello!Unknown}
        BY <1>2 DEF HelloInv
      <4>2. Hello!Asked(hello)' = Hello!Asked(hello)
        BY <1>2 DEF Hello!Asked
      <4>3. IF Hello!Asked(hello) # {} THEN Hello!serverName(hello, fServer) \in Hello!Asked(hello)
                                       ELSE Hello!serverName(hello, fServer) = fServer
        BY <1>1, NameFound
      <4> QED BY <1>2, <1>3, <2>5, <4>1, <4>2, <4>3 DEF Hello!NameOfThis
    <3> QED BY <1>1, <1>2, <1>3, <1>5, <2>2, <2>5, <3>1, <3>2, <3>3, <3>4 DEF HelloInv
  <2>6. ~(n < 5)
    BY ONLY <1>2, <1>5
  <2> QED BY <2>4, <2>5, <2>6, Zenon DEF Hello!parse, Hello!fields
<1> QED BY <1>4, <1>5 DEF Hello!parse, Hello!fields

\* The next connection brings a new buffer and reset() fields.
LEMMA HelloConnection ==
    ASSUME HelloInv, NEW h \in Hellos, Hello!NextConnection(h)
    PROVE  HelloInv'
<1> USE DEF Hello!More, Hello!Done, Hello!RecoderSize
<1>1. /\ conns' = conns + 1 /\ conns < MaxConns /\ names' = names \cup Hello!Asked(hello)
      /\ hello' = h /\ have' = 0 /\ memLength' = Hello!ntohs(h.length) /\ swaps' = 0 /\ ret_he' = 1
      /\ bCompleted' = FALSE /\ fCiphers' = <<>> /\ fServer' = fServer
  BY DEF Hello!NextConnection, Hello!NewBuffer, Hello!reset
<1>2. h.length \in Hello!Shorts /\ h.length > 0 /\ MaxConns \in Nat
  BY ResourcesAssumption DEF Hello!HelloAssumption
<1>3. Hello!ntohs(h.length) \in Hello!Shorts
  BY <1>2, SwapTwice
<1>4. Hello!HelloTypeOK'
  <2>1. 0 \in 0 .. h.length + 5
    BY <1>2 DEF Hello!Shorts
  <2> QED BY <1>1, <1>2, <1>3, <2>1 DEF HelloInv, Hello!HelloTypeOK, Hello!Total
<1>5. fServer \in names' \cup {Hello!Unknown}
  <2>1. ret_he = 1 \/ ret_he = 0
    BY DEF HelloInv, Hello!HelloTypeOK
  <2> QED BY <1>1, <2>1 DEF HelloInv, Hello!NameOfThis
<1> QED BY <1>1, <1>4, <1>5
        DEF HelloInv, Hello!CiphersOfThis, Hello!NameOfThis, Hello!WholeInOne

\* Every step keeps HelloInv.
LEMMA HelloNext == HelloInv /\ [Hello!Next]_helloVars => HelloInv'
<1> SUFFICES ASSUME HelloInv, [Hello!Next]_helloVars PROVE HelloInv'
  OBVIOUS
<1>1. CASE UNCHANGED helloVars
  BY <1>1 DEF helloVars, HelloInv, Hello!HelloTypeOK, Hello!Total, Hello!CiphersOfThis,
     Hello!NameOfThis, Hello!WholeInOne
<1>2. CASE Hello!Next
  BY <1>2, HelloParse, HelloConnection DEF Hello!Next
<1> QED BY <1>1, <1>2

-----------------------------------------------------------------------------
\* The certificates.  What signCert holds at each of its steps.
Signing == {"rsa", "pkey", "set1", "cert", "fill", "x509sign"}

CertRefs ==
    /\ refs["bio"] \in 0 .. 1
    /\ pc_ce # "stored" => refs["bio"] = IF pc_ce \in {"readCert", "readKey"} THEN 1 ELSE 0
    /\ refs["serial"] = IF pc_ce \in Signing THEN 1 ELSE 0
    /\ refs["bn"] \in 0 .. 1
    /\ pc_ce \notin {"returned", "stored"} =>
        refs["bn"] = IF pc_ce \in Signing \ {"rsa"} THEN 1 ELSE 0
    /\ refs["rsa"] = IF pc_ce \in {"pkey", "set1"} \/ keyed THEN 1 ELSE 0
    /\ refs["pkey"] = Cert!Held(pkey) /\ refs["cert"] = Cert!Held(cert)

CertSteps ==
    /\ pc_ce \in {"loadCert", "readCert", "loadKey", "readKey", "sign", "returned", "stored"}
                 \cup Signing
    /\ ret_ce = "none" <=> pc_ce \notin {"returned", "stored"}
    /\ pc_ce = "stored" => ret_ce = "true"
    /\ cert = "object" <=> pc_ce \in {"fill", "x509sign"} \/ ret_ce = "true"
    /\ pkey = "object" <=> pc_ce \in {"set1", "cert", "fill", "x509sign"} \/ ret_ce = "true"
    /\ pc_ce \in Signing => cert # "unset" /\ pkey # "unset"
    /\ pc_ce = "sign" \/ ret_ce = "false" => cert = pkey
    /\ pc_ce \in {"loadCert", "readCert", "loadKey", "readKey", "sign"} => cert = "unset" /\ pkey = "unset"
    /\ keyed => pc_ce \in {"cert", "fill", "x509sign"} \/ ret_ce = "true"
    /\ pc_ce = "x509sign" \/ ret_ce = "true" => keyed

CertInv == Cert!CertTypeOK /\ CertRefs /\ CertSteps

\* Nothing is held before the certificate authority is loaded.
LEMMA CertInit == Cert!Init => CertInv
<1> SUFFICES ASSUME Cert!Init PROVE CertInv
  OBVIOUS
<1> USE DEF Cert!Init
<1>1. Cert!CertTypeOK
  <2>1. ca_cert \in BOOLEAN /\ ca_pkey \in BOOLEAN /\ keyed \in BOOLEAN
    BY Zenon
  <2> QED BY <2>1 DEF Cert!CertTypeOK
<1>2. CertRefs
  BY DEF CertRefs, Cert!Held, Signing, Cert!Kinds
<1>3. CertSteps
  BY DEF CertSteps, Signing
<1> QED BY <1>1, <1>2, <1>3 DEF CertInv

\* The extension signCert finds is one of org_cert's.
LEMMA SanFound ==
    ASSUME NEW es \in Seq({"subjectAltName", "other"})
    PROVE  Cert!FindSan(es) \in Seq({"subjectAltName", "other"})
<1> DEFINE at == {i \in 1 .. Len(es) : es[i] = "subjectAltName"}
           m == CHOOSE i \in at : \A j \in at : i <= j
<1>1. CASE at = {}
  BY <1>1 DEF Cert!FindSan
<1>2. CASE at # {}
  <2>1. at \in SUBSET Nat
    OBVIOUS
  <2>2. \E i \in at : \A j \in at : i <= j
    BY <1>2, <2>1, LeastNumber
  <2>3. m \in at
    BY <2>2
  <2>4. es[m] = "subjectAltName"
    BY <2>3
  <2>5. Cert!FindSan(es) = <<es[m]>>
    BY <1>2 DEF Cert!FindSan
  <2> HIDE DEF m
  <2> QED BY <2>4, <2>5
<1> QED BY <1>1, <1>2

\* The two loads of the certificate authority.
LEMMA CertLoad ==
    ASSUME CertInv, Cert!loadX509FromFile \/ Cert!loadPrivateKeyFromFile
    PROVE  CertInv'
<1> USE ResourcesAssumption DEF Cert!CertAssumption, CertInv, Cert!certs, Cert!out, Cert!Kinds,
        Cert!loadX509FromFile, Cert!loadPrivateKeyFromFile, Cert!Load, Cert!New, Cert!Without
<1>1. Cert!CertTypeOK'
  BY DEF Cert!CertTypeOK, CertRefs, CertSteps, Signing, Cert!Held
<1>2. CertRefs'
  BY DEF Cert!CertTypeOK, CertRefs, CertSteps, Signing, Cert!Held
<1>3. CertSteps'
  BY DEF Cert!CertTypeOK, CertSteps, Signing
<1> QED BY <1>1, <1>2, <1>3

\* signCert refuses its parameters or makes a serial number.
LEMMA CertBegin ==
    ASSUME CertInv, Cert!BadParameter \/ Cert!MakeSerial
    PROVE  CertInv'
<1> USE ResourcesAssumption DEF Cert!CertAssumption, CertInv, Cert!certs, Cert!out, Cert!Kinds,
        Cert!BadParameter, Cert!MakeSerial, Cert!Return, Cert!New
<1>1. Cert!CertTypeOK'
  BY DEF Cert!CertTypeOK, CertRefs, CertSteps, Signing, Cert!Held
<1>2. CertRefs'
  BY DEF Cert!CertTypeOK, CertRefs, CertSteps, Signing, Cert!Held
<1>3. CertSteps'
  BY DEF Cert!CertTypeOK, CertSteps, Signing
<1> QED BY <1>1, <1>2, <1>3

\* genRSA makes a key and leaves its exponent, or fails and the serial number is freed.
LEMMA CertRsa ==
    ASSUME CertInv, Cert!genRSA \/ Cert!genRSAFails
    PROVE  CertInv'
<1> USE ResourcesAssumption DEF Cert!CertAssumption, CertInv, Cert!certs, Cert!out, Cert!Kinds,
        Cert!genRSA, Cert!genRSAFails, Cert!Return, Cert!Without
<1>1. Cert!CertTypeOK'
  BY DEF Cert!CertTypeOK, CertRefs, CertSteps, Signing, Cert!Held
<1>2. CertRefs'
  BY DEF Cert!CertTypeOK, CertRefs, CertSteps, Signing, Cert!Held
<1>3. CertSteps'
  BY DEF Cert!CertTypeOK, CertSteps, Signing
<1> QED BY <1>1, <1>2, <1>3

\* The object for the key is made, or the RSA key and the serial number are freed.
LEMMA CertPkey ==
    ASSUME CertInv, Cert!MakePkey
    PROVE  CertInv'
<1> USE ResourcesAssumption DEF Cert!CertAssumption, CertInv, Cert!certs, Cert!out, Cert!Kinds,
        Cert!MakePkey, Cert!Return, Cert!New, Cert!Without
<1>1. Cert!CertTypeOK'
  BY DEF Cert!CertTypeOK, CertRefs, CertSteps, Signing, Cert!Held
<1>2. CertRefs'
  BY DEF Cert!CertTypeOK, CertRefs, CertSteps, Signing, Cert!Held
<1>3. CertSteps'
  BY DEF Cert!CertTypeOK, CertSteps, Signing
<1> QED BY <1>1, <1>2, <1>3

\* The object takes a reference to the RSA key, or is left without one and nobody notices.
LEMMA CertSetKey ==
    ASSUME CertInv, NEW r \in Set1Results, Cert!SetKey(r)
    PROVE  CertInv'
<1> USE ResourcesAssumption DEF Cert!CertAssumption, CertInv, Cert!certs, Cert!out, Cert!Kinds,
        Cert!SetKey, Cert!Return, Cert!Without
<1>a. ~(r < 0) /\ keyed' \in BOOLEAN /\ (keyed' <=> r = 1)
  <2>1. ~(r < 0)
    BY ONLY ResourcesAssumption, r \in Set1Results DEF Cert!CertAssumption
  <2>2. keyed' = (r = 1)
    BY <2>1, Zenon
  <2> QED BY <2>1, <2>2, Zenon
<1>b. /\ pc_ce = "set1" /\ pc_ce' = "cert"
      /\ UNCHANGED <<ret_ce, ca_cert, ca_pkey, exts, cert, pkey, copied>>
      /\ refs' = [refs EXCEPT !["rsa"] = @ - (IF r = 1 THEN 0 ELSE 1)]
  BY <1>a
<1>c. refs["rsa"] = 1 /\ refs \in [Cert!Kinds -> Nat]
  BY <1>b DEF Cert!CertTypeOK, CertRefs
<1>d. refs' \in [Cert!Kinds -> Nat] /\ refs'["rsa"] = IF r = 1 THEN 1 ELSE 0
  BY <1>b, <1>c
<1>1. Cert!CertTypeOK'
  BY <1>a, <1>b, <1>d DEF Cert!CertTypeOK
<1>2. CertRefs'
  BY <1>a, <1>b, <1>c, <1>d DEF Cert!CertTypeOK, CertRefs, CertSteps, Signing, Cert!Held
<1>3. CertSteps'
  BY DEF Cert!CertTypeOK, CertSteps, Signing
<1> QED BY <1>1, <1>2, <1>3

\* The new certificate is made, or the key is freed.
LEMMA CertMake ==
    ASSUME CertInv, Cert!MakeCert
    PROVE  CertInv'
<1> USE ResourcesAssumption DEF Cert!CertAssumption, CertInv, Cert!certs, Cert!out, Cert!Kinds,
        Cert!MakeCert, Cert!Return, Cert!New, Cert!Without
<1>1. Cert!CertTypeOK'
  <2>1. copied' \in Seq({"subjectAltName", "other"})
    BY SanFound DEF Cert!CertTypeOK
  <2>2. UNCHANGED <<ca_cert, ca_pkey, exts>>
    OBVIOUS
  <2>3. keyed' \in BOOLEAN
    BY DEF Cert!CertTypeOK
  <2>4. refs' \in [Cert!Kinds -> Nat]
    BY DEF Cert!CertTypeOK, CertRefs, CertSteps, Signing, Cert!Held
  <2>5. /\ cert' \in {"unset", "null", "object"} /\ pkey' \in {"unset", "null", "object"}
        /\ ret_ce' \in {"none", "true", "false"}
    BY DEF Cert!CertTypeOK
  <2> QED BY <2>1, <2>2, <2>3, <2>4, <2>5 DEF Cert!CertTypeOK
<1>2. CertRefs'
  BY DEF Cert!CertTypeOK, CertRefs, CertSteps, Signing, Cert!Held
<1>3. CertSteps'
  BY DEF Cert!CertTypeOK, CertSteps, Signing
<1> QED BY <1>1, <1>2, <1>3

\* The certificate is filled and signed, or both objects are freed.
LEMMA CertFill ==
    ASSUME CertInv, Cert!FillCert \/ Cert!X509Sign
    PROVE  CertInv'
<1> USE ResourcesAssumption DEF Cert!CertAssumption, CertInv, Cert!certs, Cert!out, Cert!Kinds,
        Cert!FillCert, Cert!X509Sign, Cert!GiveUp, Cert!Return, Cert!Without
<1>1. Cert!CertTypeOK'
  <2>1. copied' \in Seq({"subjectAltName", "other"})
    <3>1. copied' = copied \/ copied' = <<>>
      BY Zenon
    <3>2. copied \in Seq({"subjectAltName", "other"}) /\ <<>> \in Seq({"subjectAltName", "other"})
      BY DEF Cert!CertTypeOK
    <3> QED BY ONLY <3>1, <3>2
  <2>2. UNCHANGED <<ca_cert, ca_pkey, exts>>
    OBVIOUS
  <2>3. keyed' \in BOOLEAN
    BY DEF Cert!CertTypeOK
  <2>4. refs' \in [Cert!Kinds -> Nat]
    BY DEF Cert!CertTypeOK, CertRefs, CertSteps, Signing, Cert!Held
  <2>5. /\ cert' \in {"unset", "null", "object"} /\ pkey' \in {"unset", "null", "object"}
        /\ ret_ce' \in {"none", "true", "false"}
    BY DEF Cert!CertTypeOK
  <2> QED BY <2>1, <2>2, <2>3, <2>4, <2>5 DEF Cert!CertTypeOK
<1>2. CertRefs'
  BY DEF Cert!CertTypeOK, CertRefs, CertSteps, Signing, Cert!Held
<1>3. CertSteps'
  BY DEF Cert!CertTypeOK, CertSteps, Signing
<1> QED BY <1>1, <1>2, <1>3

\* A signed certificate is written through a BIO that is freed.
LEMMA CertStore ==
    ASSUME CertInv, Cert!storeX509ToPEMStr
    PROVE  CertInv'
<1> USE ResourcesAssumption DEF Cert!CertAssumption, CertInv, Cert!certs, Cert!out, Cert!Kinds,
        Cert!storeX509ToPEMStr, Cert!New, Cert!Without
<1>1. Cert!CertTypeOK'
  BY DEF Cert!CertTypeOK, CertRefs, CertSteps, Signing, Cert!Held
<1>2. CertRefs'
  BY DEF Cert!CertTypeOK, CertRefs, CertSteps, Signing, Cert!Held
<1>3. CertSteps'
  BY DEF Cert!CertTypeOK, CertSteps, Signing
<1> QED BY <1>1, <1>2, <1>3

\* Every step keeps CertInv.
LEMMA CertNext == CertInv /\ [Cert!Next]_certVars => CertInv'
<1> SUFFICES ASSUME CertInv, [Cert!Next]_certVars PROVE CertInv'
  OBVIOUS
<1>1. CASE UNCHANGED certVars
  BY <1>1 DEF certVars, CertInv, Cert!CertTypeOK, CertRefs, CertSteps, Cert!Held
<1>2. CASE Cert!Next
  BY <1>2, CertLoad, CertBegin, CertRsa, CertPkey, CertSetKey, CertMake, CertFill, CertStore
     DEF Cert!Next
<1> QED BY <1>1, <1>2

-----------------------------------------------------------------------------
\* TLS sessions.  The contexts of place i of the table of side s.
KindAt(s, i) == [side |-> s, method |-> IF i = 4 THEN 4 ELSE 768 + i]

CtxKinds == {KindAt(s, i) : s \in Ssl!Sides, i \in 0 .. 4}

PlaceOf(a) == a.version % 16

\* The place of a version in the table of contexts is 0 to 4, and says which context is made.
LEMMA PlaceKind ==
    ASSUME NEW a \in Ssl!Args \cup {Ssl!NoArg}
    PROVE  /\ a.side \in Ssl!Sides /\ PlaceOf(a) \in 0 .. 4
           /\ Ssl!NewSSLCtx(a.side, a.version) = KindAt(a.side, PlaceOf(a))
           /\ KindAt(a.side, PlaceOf(a)) \in CtxKinds
<1>1. /\ a.side \in Ssl!Sides /\ a.version \in Int
      /\ (a.version = 4 \/ (a.version >= 768 /\ a.version <= 772))
  <2>1. Versions \subseteq {4} \cup 768 .. 771 + 1
    BY ResourcesAssumption DEF Ssl!SslAssumption, Ssl!NATTAN_SSL_ANY, Ssl!NATTAN_SSLV3,
       Ssl!NATTAN_TLS12
  <2>2. \A z \in Versions : z \in Int /\ (z = 4 \/ (z >= 768 /\ z <= 772))
    BY ONLY <2>1
  <2>3. a.side \in Ssl!Sides /\ (a.version \in Versions \/ a.version = 4)
    BY DEF Ssl!Args, Ssl!NoArg, Ssl!Sides, Ssl!NATTAN_SSL_ANY
  <2> QED BY ONLY <2>2, <2>3
<1>2. PlaceOf(a) = IF a.version = 4 THEN 4 ELSE a.version - 768
  BY <1>1 DEF PlaceOf
<1>3. PlaceOf(a) \in 0 .. 4
  BY <1>1, <1>2
<1>4. Ssl!NewSSLCtx(a.side, a.version) = KindAt(a.side, PlaceOf(a))
  BY <1>1, <1>2 DEF Ssl!NewSSLCtx, KindAt, Ssl!NATTAN_SSL_ANY, Ssl!NATTAN_SSLV3, Ssl!NATTAN_TLS12
<1> QED BY <1>1, <1>3, <1>4 DEF CtxKinds

\* Different places of the tables have different contexts.
LEMMA KindsDiffer ==
    ASSUME NEW s, NEW u, NEW i \in 0 .. 4, NEW j \in 0 .. 4, KindAt(s, i) = KindAt(u, j)
    PROVE  s = u /\ i = j
<1>1. /\ KindAt(s, i).side = s /\ KindAt(s, i).method = (IF i = 4 THEN 4 ELSE 768 + i)
      /\ KindAt(u, j).side = u /\ KindAt(u, j).method = (IF j = 4 THEN 4 ELSE 768 + j)
  BY DEF KindAt
<1> QED BY <1>1

\* Cardinality means the same inside the instance.
LEMMA SameCardinality == ASSUME NEW S PROVE Ssl!Cardinality(S) = Cardinality(S)
BY DEF Ssl!Cardinality, Cardinality

\* There are finitely many threads.
LEMMA FiniteThreads == IsFiniteSet(Threads) /\ Cardinality(Threads) \in Nat
<1>1. IsFiniteSet(Threads)
  BY ResourcesAssumption, Zenon DEF Ssl!SslAssumption, Ssl!IsFiniteSet, IsFiniteSet
<1> QED BY <1>1, FS_CardinalityType

\* The contexts of a place, and the threads that have found it empty.
Made(s, i) == {n \in 1 .. Len(ctxs) : ctxs[n] = KindAt(s, i)}
Makers(s, i) ==
    {t \in Threads : pc_ssl[t] = "looked" /\ ctx[t] = 0 /\ arg[t].side = s /\ PlaceOf(arg[t]) = i}

SslTypes ==
    /\ Ssl!SslTypeOK /\ ctxs \in Seq(CtxKinds) /\ unclosed \subseteq 1 .. Len(ssls)

\* What is in a place serves it, and what a thread has got serves its call; a place that
\* a thread has seen filled, or has filled, stays filled.
SslPlaces ==
    /\ \A s \in Ssl!Sides, i \in 0 .. 4 :
        g_ssl_ctx_list[s][i] # 0 => ctxs[g_ssl_ctx_list[s][i]] = KindAt(s, i)
    /\ \A t \in Threads : ctx[t] # 0 =>
        /\ ctxs[ctx[t]] = KindAt(arg[t].side, PlaceOf(arg[t]))
        /\ g_ssl_ctx_list[arg[t].side][PlaceOf(arg[t])] # 0
    /\ \A t \in Threads : pc_ssl[t] = "have" => ctx[t] # 0

SslHandlers ==
    /\ \A t \in Threads : fssl[t] # 0 =>
        /\ pc_ssl[t] \in {"open", "up"} /\ ctx[t] # 0 /\ ssls[fssl[t]] = ctx[t]
        /\ fssl[t] \notin unclosed
    /\ Ssl!SslOwned

\* While a place is empty nobody has made a context for it; after that, only those that
\* have found it empty will.
SslFew ==
    \A s \in Ssl!Sides, i \in 0 .. 4 :
        IF g_ssl_ctx_list[s][i] = 0 THEN Made(s, i) = {}
        ELSE Cardinality(Made(s, i)) + Cardinality(Makers(s, i)) <= Cardinality(Threads)

SslInv == SslTypes /\ SslPlaces /\ SslHandlers /\ SslFew

\* Empty tables.
LEMMA SslInit == Ssl!Init => SslInv
<1> SUFFICES ASSUME Ssl!Init PROVE SslInv
  OBVIOUS
<1>1. /\ ctxs = <<>> /\ ssls = <<>> /\ live = {} /\ unclosed = {} /\ opened = 0
      /\ \A s \in Ssl!Sides, i \in 0 .. 4 : g_ssl_ctx_list[s][i] = 0
      /\ \A t \in Threads : ctx[t] = 0 /\ fssl[t] = 0 /\ pc_ssl[t] = "idle"
  BY DEF Ssl!Init, Ssl!None
<1>2. SslTypes
  <2>1. Len(ctxs) = 0 /\ Len(ssls) = 0 /\ ctxs \in Seq(CtxKinds) /\ ssls \in Seq(1 .. 0)
    BY <1>1
  <2>2. MaxOpen \in Nat
    BY ResourcesAssumption DEF Ssl!SslAssumption
  <2> QED BY <1>1, <2>1, <2>2 DEF SslTypes, Ssl!SslTypeOK, Ssl!Init, Ssl!None
<1>3. SslPlaces
  BY <1>1 DEF SslPlaces
<1>4. SslHandlers
  <2>1. {fssl[t] : t \in Threads} \ {0} = {}
    BY <1>1
  <2> QED BY <1>1, <2>1 DEF SslHandlers, Ssl!SslOwned, Ssl!None
<1>5. SslFew
  BY <1>1 DEF SslFew, Made
<1> QED BY <1>2, <1>3, <1>4, <1>5 DEF SslInv

\* The contexts made for a place and the threads about to make one can be counted.
LEMMA CountsFinite ==
    ASSUME SslInv, NEW s, NEW i
    PROVE  /\ IsFiniteSet(Made(s, i)) /\ Cardinality(Made(s, i)) \in Nat
           /\ IsFiniteSet(Makers(s, i)) /\ Cardinality(Makers(s, i)) \in Nat
<1>1. Makers(s, i) \subseteq Threads /\ IsFiniteSet(Threads)
  BY FiniteThreads DEF Makers
<1>2. Made(s, i) \subseteq 1 .. Len(ctxs) /\ Len(ctxs) \in Nat
  BY DEF Made, SslInv, SslTypes
<1>3. IsFiniteSet(1 .. Len(ctxs))
  BY <1>2, FS_Interval
<1>4. IsFiniteSet(Made(s, i)) /\ IsFiniteSet(Makers(s, i))
  BY <1>1, <1>2, <1>3, FS_Subset
<1> QED BY <1>4, FS_CardinalityType

\* A step that makes no context and lets no thread find a filled place empty.
LEMMA FewKept ==
    ASSUME SslInv, ctxs' = ctxs,
           \A s \in Ssl!Sides, i \in 0 .. 4 :
               /\ g_ssl_ctx_list'[s][i] = 0 => g_ssl_ctx_list[s][i] = 0
               /\ g_ssl_ctx_list'[s][i] # 0 => g_ssl_ctx_list[s][i] # 0
               /\ g_ssl_ctx_list[s][i] # 0 => Makers(s, i)' \subseteq Makers(s, i)
    PROVE  SslFew'
<1> SUFFICES ASSUME NEW s \in Ssl!Sides, NEW i \in 0 .. 4
             PROVE  IF g_ssl_ctx_list'[s][i] = 0 THEN Made(s, i)' = {}
                    ELSE Cardinality(Made(s, i)') + Cardinality(Makers(s, i)') <= Cardinality(Threads)
  BY DEF SslFew
<1>1. Made(s, i)' = Made(s, i)
  BY DEF Made
<1>2. CASE g_ssl_ctx_list[s][i] = 0
  BY <1>1, <1>2 DEF SslInv, SslFew
<1>3. CASE g_ssl_ctx_list[s][i] # 0
  <2>1. /\ Cardinality(Makers(s, i)') <= Cardinality(Makers(s, i))
        /\ Cardinality(Makers(s, i)') \in Nat
    BY <1>3, CountsFinite, FS_Subset, FS_CardinalityType
  <2>2. /\ Cardinality(Made(s, i)) \in Nat /\ Cardinality(Makers(s, i)) \in Nat
        /\ Cardinality(Threads) \in Nat
    BY CountsFinite, FiniteThreads
  <2>3. Cardinality(Made(s, i)) + Cardinality(Makers(s, i)) <= Cardinality(Threads)
    BY <1>3 DEF SslInv, SslFew
  <2>4. Cardinality(Made(s, i)) + Cardinality(Makers(s, i)') <= Cardinality(Threads)
    BY ONLY <2>1, <2>2, <2>3
  <2> QED BY <1>1, <1>3, <2>4
<1> QED BY <1>2, <1>3

\* open() looks into the table: a thread that finds its place empty becomes one of its makers.
LEMMA SslOpen ==
    ASSUME SslInv, NEW t \in Threads, NEW a \in Ssl!Args, Ssl!open(t, a)
    PROVE  SslInv'
<1> DEFINE c == g_ssl_ctx_list[a.side][PlaceOf(a)]
<1>1. /\ pc_ssl[t] = "idle" /\ opened < MaxOpen /\ opened' = opened + 1
      /\ arg' = [arg EXCEPT ![t] = a] /\ ctx' = [ctx EXCEPT ![t] = c]
      /\ pc_ssl' = [pc_ssl EXCEPT ![t] = "looked"]
      /\ UNCHANGED <<g_ssl_ctx_list, ctxs, fssl, ssls, live, unclosed, ciphers>>
  BY DEF Ssl!open, Ssl!table, Ssl!objects, PlaceOf
<1>2. a.side \in Ssl!Sides /\ PlaceOf(a) \in 0 .. 4 /\ MaxOpen \in Nat
  BY PlaceKind, ResourcesAssumption DEF Ssl!SslAssumption
<1>3. SslTypes'
  <2>1. c \in 0 .. Len(ctxs) /\ opened' \in 0 .. MaxOpen
    <3>1. g_ssl_ctx_list \in [Ssl!Sides -> [0 .. 4 -> 0 .. Len(ctxs)]] /\ opened \in 0 .. MaxOpen
      BY DEF SslInv, SslTypes, Ssl!SslTypeOK
    <3>2. g_ssl_ctx_list[a.side] \in [0 .. 4 -> 0 .. Len(ctxs)]
      BY <1>2, <3>1
    <3>3. c \in 0 .. Len(ctxs)
      BY <1>2, <3>2
    <3>4. opened' \in 0 .. MaxOpen
      BY <1>1, <1>2, <3>1
    <3> QED BY <3>3, <3>4
  <2>2. arg' \in [Threads -> Ssl!Args \cup {Ssl!NoArg}] /\ ctx' \in [Threads -> 0 .. Len(ctxs)]
    BY <1>1, <2>1 DEF SslInv, SslTypes, Ssl!SslTypeOK
  <2>3. pc_ssl' \in [Threads -> {"idle", "looked", "have", "open", "up", "closed"}]
    BY <1>1 DEF SslInv, SslTypes, Ssl!SslTypeOK
  <2> QED BY <1>1, <2>1, <2>2, <2>3 DEF SslInv, SslTypes, Ssl!SslTypeOK
<1>4. SslPlaces'
  BY <1>1, <1>2 DEF SslInv, SslTypes, Ssl!SslTypeOK, SslPlaces
<1>5. SslHandlers'
  BY <1>1 DEF SslInv, SslTypes, Ssl!SslTypeOK, SslHandlers, Ssl!SslOwned
<1>6. SslFew'
  <2>1. ASSUME NEW s \in Ssl!Sides, NEW i \in 0 .. 4, g_ssl_ctx_list[s][i] # 0
        PROVE  Makers(s, i)' \subseteq Makers(s, i)
    BY <1>1, <2>1 DEF Makers, SslInv, SslTypes, Ssl!SslTypeOK
  <2> QED BY <1>1, <2>1, FewKept
<1> QED BY <1>3, <1>4, <1>5, <1>6 DEF SslInv

\* GetClientSSLCtx and GetServerSSLCtx with a context found: it is stored where it came from.
LEMMA SslStore ==
    ASSUME SslInv, NEW t \in Threads, Ssl!GetSSLCtx(t), ctx[t] # 0
    PROVE  SslInv'
<1> DEFINE a == arg[t]  s0 == a.side  i0 == PlaceOf(a)
<1>1. /\ pc_ssl[t] = "looked" /\ ctxs' = ctxs /\ ctx' = [ctx EXCEPT ![t] = ctx[t]]
      /\ g_ssl_ctx_list' = [g_ssl_ctx_list EXCEPT ![s0][i0] = ctx[t]]
      /\ pc_ssl' = [pc_ssl EXCEPT ![t] = "have"]
      /\ UNCHANGED <<opened, arg, fssl, ssls, live, unclosed, ciphers>>
  BY DEF Ssl!GetSSLCtx, Ssl!None, Ssl!objects, PlaceOf
<1>2. s0 \in Ssl!Sides /\ i0 \in 0 .. 4 /\ ctx[t] \in 0 .. Len(ctxs) /\ ctx' = ctx
  <2>1. a \in Ssl!Args \cup {Ssl!NoArg} /\ ctx[t] \in 0 .. Len(ctxs) /\ ctx' = ctx
    BY <1>1 DEF SslInv, SslTypes, Ssl!SslTypeOK
  <2> QED BY <2>1, PlaceKind
<1>3. /\ g_ssl_ctx_list \in [Ssl!Sides -> [0 .. 4 -> 0 .. Len(ctxs)]]
      /\ ctxs[ctx[t]] = KindAt(s0, i0) /\ g_ssl_ctx_list[s0][i0] # 0
  BY DEF SslInv, SslTypes, Ssl!SslTypeOK, SslPlaces
<1> HIDE DEF s0, i0
<1>4. \A s \in Ssl!Sides, i \in 0 .. 4 :
        g_ssl_ctx_list'[s][i] = IF s = s0 /\ i = i0 THEN ctx[t] ELSE g_ssl_ctx_list[s][i]
  BY <1>1, <1>2, <1>3
<1>5. g_ssl_ctx_list' \in [Ssl!Sides -> [0 .. 4 -> 0 .. Len(ctxs)]]
  BY <1>1, <1>2, <1>3
<1>6. pc_ssl' \in [Threads -> {"idle", "looked", "have", "open", "up", "closed"}]
  BY <1>1 DEF SslInv, SslTypes, Ssl!SslTypeOK
<1>7. SslTypes'
  BY <1>1, <1>2, <1>5, <1>6 DEF SslInv, SslTypes, Ssl!SslTypeOK
<1>8. SslPlaces'
  <2>1. \A u \in Threads : arg[u].side \in Ssl!Sides /\ PlaceOf(arg[u]) \in 0 .. 4
    BY PlaceKind DEF SslInv, SslTypes, Ssl!SslTypeOK
  <2>2. \A s \in Ssl!Sides, i \in 0 .. 4 :
            g_ssl_ctx_list'[s][i] # 0 => ctxs[g_ssl_ctx_list'[s][i]] = KindAt(s, i)
    <3> TAKE s \in Ssl!Sides, i \in 0 .. 4
    <3>1. g_ssl_ctx_list[s][i] # 0 => ctxs[g_ssl_ctx_list[s][i]] = KindAt(s, i)
      BY DEF SslInv, SslPlaces
    <3>2. CASE s = s0 /\ i = i0
      BY <1>3, <1>4, <3>2
    <3>3. CASE ~(s = s0 /\ i = i0)
      <4>1. g_ssl_ctx_list'[s][i] = g_ssl_ctx_list[s][i]
        BY <1>4, <3>3
      <4> QED BY <3>1, <4>1
    <3> QED BY <3>2, <3>3
  <2>3. \A u \in Threads : ctx[u] # 0 => g_ssl_ctx_list'[arg[u].side][PlaceOf(arg[u])] # 0
    BY <1>4, <2>1 DEF SslInv, SslPlaces
  <2>4. \A u \in Threads : pc_ssl'[u] = "have" => ctx[u] # 0
    BY <1>1 DEF SslInv, SslTypes, Ssl!SslTypeOK, SslPlaces
  <2>5. \A u \in Threads : ctx[u] # 0 => ctxs[ctx[u]] = KindAt(arg[u].side, PlaceOf(arg[u]))
    BY DEF SslInv, SslPlaces
  <2>6. \A u \in Threads : PlaceOf(arg[u])' = PlaceOf(arg[u])
    BY <1>1 DEF PlaceOf
  <2> QED BY <1>1, <1>2, <2>2, <2>3, <2>4, <2>5, <2>6 DEF SslPlaces
<1>9. SslHandlers'
  <2>1. \A u \in Threads : fssl[u] # 0 => pc_ssl'[u] = pc_ssl[u]
    BY <1>1 DEF SslInv, SslTypes, Ssl!SslTypeOK, SslHandlers
  <2>2. Ssl!SslOwned'
    BY <1>1 DEF SslInv, SslHandlers, Ssl!SslOwned
  <2> QED BY <1>1, <1>2, <2>1, <2>2 DEF SslInv, SslHandlers
<1>10. SslFew'
  <2>1. ASSUME NEW s \in Ssl!Sides, NEW i \in 0 .. 4
        PROVE  Makers(s, i)' \subseteq Makers(s, i)
    BY <1>1, <1>2 DEF Makers, PlaceOf, SslInv, SslTypes, Ssl!SslTypeOK
  <2> QED BY <1>1, <1>3, <1>4, <2>1, FewKept
<1> QED BY <1>7, <1>8, <1>9, <1>10 DEF SslInv

\* The same with an empty place found: a context is made, and stored over whatever another
\* thread has stored since.
LEMMA SslMake ==
    ASSUME SslInv, NEW t \in Threads, Ssl!GetSSLCtx(t), ctx[t] = 0
    PROVE  SslInv'
<1> DEFINE a == arg[t]  s0 == a.side  i0 == PlaceOf(a)  c == Len(ctxs) + 1
<1>0. a \in Ssl!Args \cup {Ssl!NoArg}
  BY DEF SslInv, SslTypes, Ssl!SslTypeOK
<1>1. /\ pc_ssl[t] = "looked" /\ ctxs' = Append(ctxs, KindAt(s0, i0))
      /\ ctx' = [ctx EXCEPT ![t] = c]
      /\ g_ssl_ctx_list' = [g_ssl_ctx_list EXCEPT ![s0][i0] = c]
      /\ pc_ssl' = [pc_ssl EXCEPT ![t] = "have"]
      /\ UNCHANGED <<opened, arg, fssl, ssls, live, unclosed, ciphers>>
  BY <1>0, PlaceKind DEF Ssl!GetSSLCtx, Ssl!None, Ssl!objects, PlaceOf
<1>2. s0 \in Ssl!Sides /\ i0 \in 0 .. 4 /\ KindAt(s0, i0) \in CtxKinds
  BY <1>0, PlaceKind
<1>3. g_ssl_ctx_list \in [Ssl!Sides -> [0 .. 4 -> 0 .. Len(ctxs)]] /\ ctxs \in Seq(CtxKinds)
  BY DEF SslInv, SslTypes, Ssl!SslTypeOK
<1> HIDE DEF s0, i0
<1>4. /\ ctxs' \in Seq(CtxKinds) /\ Len(ctxs) \in Nat /\ Len(ctxs') = c /\ ctxs'[c] = KindAt(s0, i0)
      /\ \A n \in 1 .. Len(ctxs) : ctxs'[n] = ctxs[n]
  BY <1>1, <1>2, <1>3
<1>5. \A s \in Ssl!Sides, i \in 0 .. 4 :
        g_ssl_ctx_list'[s][i] = IF s = s0 /\ i = i0 THEN c ELSE g_ssl_ctx_list[s][i]
  BY <1>1, <1>2, <1>3
<1>6. \A u \in Threads : /\ arg[u].side \in Ssl!Sides /\ PlaceOf(arg[u]) \in 0 .. 4
                         /\ ctx[u] \in 0 .. Len(ctxs) /\ ctx'[u] = IF u = t THEN c ELSE ctx[u]
                         /\ PlaceOf(arg[u])' = PlaceOf(arg[u])
  <2>1. \A u \in Threads : arg[u] \in Ssl!Args \cup {Ssl!NoArg} /\ ctx[u] \in 0 .. Len(ctxs)
    BY DEF SslInv, SslTypes, Ssl!SslTypeOK
  <2>2. \A u \in Threads : ctx'[u] = IF u = t THEN c ELSE ctx[u]
    BY <1>1 DEF SslInv, SslTypes, Ssl!SslTypeOK
  <2>3. \A u \in Threads : PlaceOf(arg[u])' = PlaceOf(arg[u])
    BY <1>1 DEF PlaceOf
  <2> QED BY <2>1, <2>2, <2>3, PlaceKind
<1> HIDE DEF c
<1>c. c = Len(ctxs) + 1 /\ c # 0
  BY <1>4 DEF c
<1>7. SslTypes'
  <2>1. /\ 0 .. Len(ctxs) \subseteq 0 .. Len(ctxs') /\ 1 .. Len(ctxs) \subseteq 1 .. Len(ctxs')
        /\ c \in 0 .. Len(ctxs')
    BY <1>4, <1>c
  <2>2. g_ssl_ctx_list' \in [Ssl!Sides -> [0 .. 4 -> 0 .. Len(ctxs')]]
    BY <1>1, <1>2, <1>3, <2>1
  <2>3. \A n \in 1 .. Len(ctxs') : ctxs'[n].side \in Ssl!Sides
    <3>1. \A k \in CtxKinds : k.side \in Ssl!Sides
      BY DEF CtxKinds, KindAt
    <3>2. \A n \in 1 .. Len(ctxs') : ctxs'[n] \in CtxKinds
      BY <1>4
    <3> QED BY <3>1, <3>2
  <2>4. pc_ssl' \in [Threads -> {"idle", "looked", "have", "open", "up", "closed"}]
    BY <1>1 DEF SslInv, SslTypes, Ssl!SslTypeOK
  <2>5. ctx' \in [Threads -> 0 .. Len(ctxs')]
    BY <1>1, <2>1 DEF SslInv, SslTypes, Ssl!SslTypeOK
  <2>6. ssls' \in Seq(1 .. Len(ctxs')) /\ Len(ssls') = Len(ssls)
    BY <1>1, <2>1 DEF SslInv, SslTypes, Ssl!SslTypeOK
  <2> QED BY <1>1, <1>4, <2>2, <2>3, <2>4, <2>5, <2>6 DEF SslInv, SslTypes, Ssl!SslTypeOK
<1>8. SslPlaces'
  <2>1. ASSUME NEW s \in Ssl!Sides, NEW i \in 0 .. 4, g_ssl_ctx_list'[s][i] # 0
        PROVE  ctxs'[g_ssl_ctx_list'[s][i]] = KindAt(s, i)
    <3>1. CASE s = s0 /\ i = i0
      BY <1>4, <1>5, <3>1
    <3>2. CASE ~(s = s0 /\ i = i0)
      <4>1. g_ssl_ctx_list'[s][i] = g_ssl_ctx_list[s][i]
        BY <1>5, <3>2
      <4>2. ctxs[g_ssl_ctx_list[s][i]] = KindAt(s, i) /\ g_ssl_ctx_list[s][i] \in 1 .. Len(ctxs)
        <5>1. ctxs[g_ssl_ctx_list[s][i]] = KindAt(s, i)
          BY <2>1, <4>1 DEF SslInv, SslPlaces
        <5>2. g_ssl_ctx_list[s] \in [0 .. 4 -> 0 .. Len(ctxs)]
          BY <1>3
        <5>3. g_ssl_ctx_list[s][i] \in 0 .. Len(ctxs) /\ g_ssl_ctx_list[s][i] # 0
          BY <2>1, <4>1, <5>2
        <5> QED BY <1>4, <5>1, <5>3
      <4> QED BY <1>4, <4>1, <4>2
    <3> QED BY <3>1, <3>2
  <2>2. ASSUME NEW u \in Threads, ctx'[u] # 0
        PROVE  /\ ctxs'[ctx'[u]] = KindAt(arg[u].side, PlaceOf(arg[u]))
               /\ g_ssl_ctx_list'[arg[u].side][PlaceOf(arg[u])] # 0
    <3>1. CASE u = t
      BY <1>4, <1>5, <1>6, <1>c, <3>1 DEF s0, i0
    <3>2. CASE u # t
      <4>1. /\ ctxs[ctx[u]] = KindAt(arg[u].side, PlaceOf(arg[u])) /\ ctx[u] \in 1 .. Len(ctxs)
            /\ g_ssl_ctx_list[arg[u].side][PlaceOf(arg[u])] # 0 /\ ctx'[u] = ctx[u]
        BY <1>4, <1>6, <2>2, <3>2 DEF SslInv, SslPlaces
      <4>2. ctxs'[ctx'[u]] = KindAt(arg[u].side, PlaceOf(arg[u]))
        BY <1>4, <4>1
      <4>3. g_ssl_ctx_list'[arg[u].side][PlaceOf(arg[u])] # 0
        BY <1>5, <1>6, <1>c, <4>1
      <4> QED BY <4>2, <4>3
    <3> QED BY <3>1, <3>2
  <2>3. \A u \in Threads : pc_ssl'[u] = "have" => ctx'[u] # 0
    BY <1>1, <1>6, <1>c DEF SslInv, SslTypes, Ssl!SslTypeOK, SslPlaces
  <2>4. arg' = arg
    BY <1>1
  <2> QED BY <1>6, <2>1, <2>2, <2>3, <2>4 DEF SslPlaces
<1>9. SslHandlers'
  <2>1. \A u \in Threads : fssl[u] # 0 => pc_ssl'[u] = pc_ssl[u] /\ ctx'[u] = ctx[u]
    BY <1>1, <1>6 DEF SslInv, SslTypes, Ssl!SslTypeOK, SslHandlers
  <2>2. Ssl!SslOwned'
    BY <1>1 DEF SslInv, SslHandlers, Ssl!SslOwned
  <2> QED BY <1>1, <2>1, <2>2 DEF SslInv, SslHandlers
<1>10. SslFew'
  <2> SUFFICES ASSUME NEW s \in Ssl!Sides, NEW i \in 0 .. 4
               PROVE  IF g_ssl_ctx_list'[s][i] = 0 THEN Made(s, i)' = {}
                      ELSE Cardinality(Made(s, i)') + Cardinality(Makers(s, i)') <= Cardinality(Threads)
    BY DEF SslFew
  <2>0. /\ Cardinality(Made(s, i)) \in Nat /\ Cardinality(Makers(s, i)) \in Nat
        /\ IsFiniteSet(Made(s, i)) /\ IsFiniteSet(Makers(s, i)) /\ Cardinality(Threads) \in Nat
    BY CountsFinite, FiniteThreads
  <2>1. Makers(s, i)' = Makers(s, i) \ {t}
    BY <1>1, <1>6, <1>c DEF Makers, SslInv, SslTypes, Ssl!SslTypeOK
  <2>2. CASE s = s0 /\ i = i0
    <3>1. t \in Makers(s, i)
      BY <1>1, <2>2 DEF Makers, s0, i0
    <3>2. Made(s, i)' = Made(s, i) \cup {c} /\ c \notin Made(s, i)
      BY <1>4, <1>c, <2>2 DEF Made
    <3>3. /\ Cardinality(Made(s, i)') = Cardinality(Made(s, i)) + 1
          /\ Cardinality(Makers(s, i)') = Cardinality(Makers(s, i)) - 1
      <4>1. Cardinality(Made(s, i) \cup {c}) = Cardinality(Made(s, i)) + 1
        BY ONLY <2>0, <3>2, FS_AddElement
      <4>2. Cardinality(Makers(s, i) \ {t}) = Cardinality(Makers(s, i)) - 1
        BY ONLY <2>0, <3>1, FS_RemoveElement
      <4> QED BY <2>1, <3>2, <4>1, <4>2
    <3>4. Cardinality(Made(s, i)) + Cardinality(Makers(s, i)) <= Cardinality(Threads)
      <4>1. CASE g_ssl_ctx_list[s][i] = 0
        <5>1. Cardinality(Made(s, i)) = 0
          BY <4>1, FS_EmptySet DEF SslInv, SslFew
        <5>2. Cardinality(Makers(s, i)) <= Cardinality(Threads)
          BY FS_Subset, FiniteThreads DEF Makers
        <5> QED BY ONLY <2>0, <5>1, <5>2
      <4>2. CASE g_ssl_ctx_list[s][i] # 0
        BY <4>2 DEF SslInv, SslFew
      <4> QED BY <4>1, <4>2
    <3>5. Cardinality(Made(s, i)') + Cardinality(Makers(s, i)') <= Cardinality(Threads)
      BY ONLY <2>0, <3>3, <3>4
    <3> QED BY <1>5, <1>c, <2>2, <3>5
  <2>3. CASE ~(s = s0 /\ i = i0)
    <3>1. KindAt(s, i) # KindAt(s0, i0)
      BY <1>2, <2>3, KindsDiffer
    <3>2. Made(s, i)' = Made(s, i)
      BY <1>4, <1>c, <3>1 DEF Made
    <3>3. Makers(s, i)' = Makers(s, i)
      BY <2>1, <2>3 DEF Makers, s0, i0
    <3>4. g_ssl_ctx_list'[s][i] = g_ssl_ctx_list[s][i]
      BY <1>5, <2>3
    <3> QED BY <3>2, <3>3, <3>4 DEF SslInv, SslFew
  <2> QED BY <2>2, <2>3
<1> QED BY <1>7, <1>8, <1>9, <1>10 DEF SslInv

\* A thread that has got a context, or has a handler, and that does not touch the tables.
LEMMA SslLater ==
    ASSUME SslInv, NEW t \in Threads, UNCHANGED <<g_ssl_ctx_list, ctxs, opened>>,
           pc_ssl[t] \in {"have", "open", "up", "closed"},
           \/ /\ pc_ssl' = [pc_ssl EXCEPT ![t] = "idle"] /\ arg' = [arg EXCEPT ![t] = Ssl!NoArg]
              /\ ctx' = [ctx EXCEPT ![t] = 0]
           \/ /\ \E p \in {"open", "up", "closed"} : pc_ssl' = [pc_ssl EXCEPT ![t] = p]
              /\ UNCHANGED <<arg, ctx>>
    PROVE  SslPlaces' /\ SslFew'
           /\ pc_ssl' \in [Threads -> {"idle", "looked", "have", "open", "up", "closed"}]
           /\ arg' \in [Threads -> Ssl!Args \cup {Ssl!NoArg}]
           /\ ctx' \in [Threads -> 0 .. Len(ctxs')]
           /\ \A u \in Threads \ {t} : pc_ssl'[u] = pc_ssl[u] /\ ctx'[u] = ctx[u]
           /\ pc_ssl'[t] # "looked"
<1>1. /\ pc_ssl' \in [Threads -> {"idle", "looked", "have", "open", "up", "closed"}]
      /\ arg' \in [Threads -> Ssl!Args \cup {Ssl!NoArg}] /\ ctx' \in [Threads -> 0 .. Len(ctxs')]
  <2>1. pc_ssl' \in [Threads -> {"idle", "looked", "have", "open", "up", "closed"}]
    BY DEF SslInv, SslTypes, Ssl!SslTypeOK
  <2>2. arg' \in [Threads -> Ssl!Args \cup {Ssl!NoArg}]
    BY DEF SslInv, SslTypes, Ssl!SslTypeOK
  <2>3. ctx' \in [Threads -> 0 .. Len(ctxs')]
    <3>1. 0 \in 0 .. Len(ctxs)
      BY DEF SslInv, SslTypes
    <3> QED BY <3>1 DEF SslInv, SslTypes, Ssl!SslTypeOK
  <2> QED BY <2>1, <2>2, <2>3
<1>2. /\ \A u \in Threads \ {t} : pc_ssl'[u] = pc_ssl[u] /\ ctx'[u] = ctx[u] /\ arg'[u] = arg[u]
      /\ pc_ssl'[t] # "looked" /\ pc_ssl'[t] # "have"
      /\ ctx'[t] = 0 \/ (ctx'[t] = ctx[t] /\ arg'[t] = arg[t])
  BY DEF SslInv, SslTypes, Ssl!SslTypeOK
<1>3. SslPlaces'
  BY <1>2 DEF SslInv, SslPlaces, PlaceOf
<1>4. SslFew'
  <2>1. ASSUME NEW s \in Ssl!Sides, NEW i \in 0 .. 4
        PROVE  Makers(s, i)' \subseteq Makers(s, i)
    BY <1>2 DEF Makers, PlaceOf
  <2> QED BY <2>1, FewKept
<1> QED BY <1>1, <1>2, <1>3, <1>4

\* SSL_new makes an object of the context the thread has.
LEMMA SslNew ==
    ASSUME SslInv, NEW t \in Threads, pc_ssl[t] = "have", Ssl!SSL_new(t)
    PROVE  /\ ssls' \in Seq(1 .. Len(ctxs)) /\ Len(ssls) \in Nat /\ Len(ssls') = Len(ssls) + 1
           /\ ssls'[Len(ssls) + 1] = ctx[t] /\ ctx[t] # 0 /\ fssl[t] = 0
           /\ live' = live \cup {Len(ssls) + 1}
           /\ \A n \in 1 .. Len(ssls) : ssls'[n] = ssls[n]
<1>1. ctx[t] \in 1 .. Len(ctxs) /\ ssls \in Seq(1 .. Len(ctxs)) /\ Len(ctxs) \in Nat
  BY DEF SslInv, SslTypes, Ssl!SslTypeOK, SslPlaces
<1>2. ssls' = Append(ssls, ctx[t]) /\ live' = live \cup {Len(ssls) + 1}
  BY DEF Ssl!SSL_new
<1>3. fssl[t] = 0
  BY DEF SslInv, SslHandlers
<1> QED BY <1>1, <1>2, <1>3

\* An open() that fails forgets its context.
LEMMA SslOpenFails ==
    ASSUME SslInv, NEW t \in Threads, Ssl!OpenFails(t)
    PROVE  SslInv'
<1>1. /\ pc_ssl[t] = "have" /\ pc_ssl' = [pc_ssl EXCEPT ![t] = "idle"]
      /\ arg' = [arg EXCEPT ![t] = Ssl!NoArg] /\ ctx' = [ctx EXCEPT ![t] = 0]
      /\ fssl' = [fssl EXCEPT ![t] = 0]
      /\ UNCHANGED <<g_ssl_ctx_list, ctxs, opened, ssls, live, unclosed>>
  BY DEF Ssl!OpenFails, Ssl!Idle, Ssl!table, Ssl!None
<1>2. fssl' = fssl /\ fssl[t] = 0
  BY <1>1 DEF SslInv, SslTypes, Ssl!SslTypeOK, SslHandlers
<1>3. /\ SslPlaces' /\ SslFew'
      /\ pc_ssl' \in [Threads -> {"idle", "looked", "have", "open", "up", "closed"}]
      /\ arg' \in [Threads -> Ssl!Args \cup {Ssl!NoArg}] /\ ctx' \in [Threads -> 0 .. Len(ctxs')]
      /\ \A u \in Threads \ {t} : pc_ssl'[u] = pc_ssl[u] /\ ctx'[u] = ctx[u]
  BY <1>1, SslLater
<1>4. SslTypes'
  BY <1>1, <1>2, <1>3 DEF SslInv, SslTypes, Ssl!SslTypeOK
<1>5. SslHandlers'
  <2>1. Ssl!SslOwned'
    BY <1>1, <1>2 DEF SslInv, SslHandlers, Ssl!SslOwned
  <2> QED BY <1>1, <1>2, <1>3, <2>1 DEF SslInv, SslHandlers
<1> QED BY <1>3, <1>4, <1>5 DEF SslInv

\* An SSL object that gets no descriptor is dropped with its handler, unclosed.
LEMMA SslSetFdFails ==
    ASSUME SslInv, NEW t \in Threads, Ssl!SetFdFails(t)
    PROVE  SslInv'
<1> DEFINE n == Len(ssls) + 1
<1>1. /\ pc_ssl[t] = "have" /\ pc_ssl' = [pc_ssl EXCEPT ![t] = "idle"]
      /\ arg' = [arg EXCEPT ![t] = Ssl!NoArg] /\ ctx' = [ctx EXCEPT ![t] = 0]
      /\ fssl' = [fssl EXCEPT ![t] = 0] /\ unclosed' = unclosed \cup {n}
      /\ UNCHANGED <<g_ssl_ctx_list, ctxs, opened>>
  BY DEF Ssl!SetFdFails, Ssl!Idle, Ssl!table, Ssl!None
<1>2. /\ ssls' \in Seq(1 .. Len(ctxs)) /\ Len(ssls) \in Nat /\ Len(ssls') = n
      /\ fssl[t] = 0 /\ live' = live \cup {n}
      /\ \A k \in 1 .. Len(ssls) : ssls'[k] = ssls[k]
  BY <1>1, SslNew DEF Ssl!SetFdFails
<1>3. fssl' = fssl /\ fssl \in [Threads -> 0 .. Len(ssls)]
  BY <1>1, <1>2 DEF SslInv, SslTypes, Ssl!SslTypeOK
<1>4. /\ SslPlaces' /\ SslFew'
      /\ pc_ssl' \in [Threads -> {"idle", "looked", "have", "open", "up", "closed"}]
      /\ arg' \in [Threads -> Ssl!Args \cup {Ssl!NoArg}] /\ ctx' \in [Threads -> 0 .. Len(ctxs')]
      /\ \A u \in Threads \ {t} : pc_ssl'[u] = pc_ssl[u] /\ ctx'[u] = ctx[u]
  BY <1>1, SslLater
<1>5. SslTypes'
  <2>1. 0 .. Len(ssls) \subseteq 0 .. n /\ 1 .. Len(ssls) \subseteq 1 .. n /\ n \in 1 .. n
    BY <1>2
  <2>2. /\ fssl' \in [Threads -> 0 .. Len(ssls')] /\ live' \subseteq 1 .. Len(ssls')
        /\ unclosed' \subseteq 1 .. Len(ssls')
    BY <1>1, <1>2, <1>3, <2>1 DEF SslInv, SslTypes, Ssl!SslTypeOK
  <2> QED BY <1>1, <1>2, <1>4, <2>2 DEF SslInv, SslTypes, Ssl!SslTypeOK
<1>6. SslHandlers'
  <2>1. Ssl!SslOwned'
    BY <1>1, <1>2, <1>3 DEF SslInv, SslHandlers, Ssl!SslOwned
  <2> QED BY <1>1, <1>2, <1>3, <1>4, <2>1 DEF SslInv, SslHandlers
<1> QED BY <1>4, <1>5, <1>6 DEF SslInv

\* A handler owns the new SSL object.
LEMMA SslCreate ==
    ASSUME SslInv, NEW t \in Threads, Ssl!CreateSSLHandler(t)
    PROVE  SslInv'
<1> DEFINE n == Len(ssls) + 1
<1>1. /\ pc_ssl[t] = "have" /\ pc_ssl' = [pc_ssl EXCEPT ![t] = "open"]
      /\ fssl' = [fssl EXCEPT ![t] = n]
      /\ UNCHANGED <<g_ssl_ctx_list, ctxs, opened, arg, ctx, unclosed>>
  BY DEF Ssl!CreateSSLHandler, Ssl!table
<1>2. /\ ssls' \in Seq(1 .. Len(ctxs)) /\ Len(ssls) \in Nat /\ Len(ssls') = n
      /\ ssls'[n] = ctx[t] /\ ctx[t] # 0 /\ fssl[t] = 0 /\ live' = live \cup {n}
      /\ \A k \in 1 .. Len(ssls) : ssls'[k] = ssls[k]
  BY <1>1, SslNew DEF Ssl!CreateSSLHandler
<1>3. /\ fssl \in [Threads -> 0 .. Len(ssls)] /\ unclosed \subseteq 1 .. Len(ssls)
      /\ pc_ssl'[t] = "open" /\ \A u \in Threads : fssl'[u] = IF u = t THEN n ELSE fssl[u]
  BY <1>1 DEF SslInv, SslTypes, Ssl!SslTypeOK
<1>4. /\ SslPlaces' /\ SslFew'
      /\ pc_ssl' \in [Threads -> {"idle", "looked", "have", "open", "up", "closed"}]
      /\ \A u \in Threads \ {t} : pc_ssl'[u] = pc_ssl[u]
  BY <1>1, SslLater
<1> HIDE DEF n
<1>n. n = Len(ssls) + 1
  BY DEF n
<1>5. SslTypes'
  <2>1. /\ 0 .. Len(ssls) \subseteq 0 .. n /\ 1 .. Len(ssls) \subseteq 1 .. n /\ n \in 1 .. n
        /\ n \in 0 .. n
    BY <1>2, <1>n
  <2>2. fssl' \in [Threads -> 0 .. Len(ssls')]
    BY <1>1, <1>2, <1>3, <2>1
  <2>3. live' \subseteq 1 .. Len(ssls') /\ unclosed' \subseteq 1 .. Len(ssls')
    BY <1>1, <1>2, <2>1 DEF SslInv, SslTypes, Ssl!SslTypeOK
  <2> QED BY <1>1, <1>2, <1>4, <2>2, <2>3 DEF SslInv, SslTypes, Ssl!SslTypeOK
<1>6. SslHandlers'
  <2>0. \A u \in Threads : fssl[u] # n /\ n \notin unclosed /\ n # 0
    BY <1>2, <1>3, <1>n
  <2>1. Ssl!SslOwned'
    <3>1. {fssl'[u] : u \in Threads} \ {0} = ({fssl[u] : u \in Threads} \ {0}) \cup {n}
      BY <1>2, <1>3, <2>0
    <3>2. \A u, v \in Threads : u # v /\ fssl'[u] # 0 => fssl'[u] # fssl'[v]
      BY <1>3, <2>0 DEF SslInv, SslHandlers, Ssl!SslOwned, Ssl!None
    <3> QED BY <1>1, <1>2, <3>1, <3>2 DEF SslInv, SslHandlers, Ssl!SslOwned, Ssl!None
  <2>2. ASSUME NEW u \in Threads, fssl'[u] # 0
        PROVE  /\ pc_ssl'[u] \in {"open", "up"} /\ ctx'[u] # 0 /\ ssls'[fssl'[u]] = ctx'[u]
               /\ fssl'[u] \notin unclosed'
    <3>1. CASE u = t
      BY <1>1, <1>2, <1>3, <2>0, <3>1
    <3>2. CASE u # t
      <4>1. fssl'[u] = fssl[u] /\ fssl[u] \in 1 .. Len(ssls) /\ pc_ssl'[u] = pc_ssl[u]
        BY <1>2, <1>3, <1>4, <2>2, <3>2
      <4> QED BY <1>1, <1>2, <2>2, <4>1 DEF SslInv, SslHandlers
    <3> QED BY <3>1, <3>2
  <2> QED BY <2>1, <2>2 DEF SslHandlers
<1> QED BY <1>4, <1>5, <1>6 DEF SslInv

\* A handshake moves no object.
LEMMA SslHandshake ==
    ASSUME SslInv, NEW t \in Threads, Ssl!Handshake(t)
    PROVE  SslInv'
<1>1. /\ pc_ssl[t] = "open" /\ pc_ssl' = [pc_ssl EXCEPT ![t] = "up"]
      /\ UNCHANGED <<g_ssl_ctx_list, ctxs, opened, arg, ctx, fssl, ssls, live, unclosed>>
  BY DEF Ssl!Handshake, Ssl!table, Ssl!objects
<1>2. /\ SslPlaces' /\ SslFew'
      /\ pc_ssl' \in [Threads -> {"idle", "looked", "have", "open", "up", "closed"}]
      /\ \A u \in Threads \ {t} : pc_ssl'[u] = pc_ssl[u]
  BY <1>1, SslLater
<1>3. SslTypes'
  BY <1>1, <1>2 DEF SslInv, SslTypes, Ssl!SslTypeOK
<1>4. SslHandlers'
  <2>1. Ssl!SslOwned'
    BY <1>1 DEF SslInv, SslHandlers, Ssl!SslOwned
  <2>2. pc_ssl'[t] = "up"
    BY <1>1 DEF SslInv, SslTypes, Ssl!SslTypeOK
  <2> QED BY <1>1, <1>2, <2>1, <2>2 DEF SslInv, SslHandlers
<1> QED BY <1>2, <1>3, <1>4 DEF SslInv

\* close() frees the SSL object of the handler, which nobody else has.
LEMMA SslClose ==
    ASSUME SslInv, NEW t \in Threads, Ssl!close(t)
    PROVE  SslInv'
<1>1. /\ pc_ssl[t] \in {"open", "up", "closed"} /\ pc_ssl' = [pc_ssl EXCEPT ![t] = "closed"]
      /\ live' = live \ {fssl[t]} /\ fssl' = [fssl EXCEPT ![t] = 0]
      /\ UNCHANGED <<g_ssl_ctx_list, ctxs, opened, arg, ctx, ssls, unclosed>>
  BY DEF Ssl!close, Ssl!freeResources, Ssl!table, Ssl!None
<1>2. /\ SslPlaces' /\ SslFew'
      /\ pc_ssl' \in [Threads -> {"idle", "looked", "have", "open", "up", "closed"}]
      /\ \A u \in Threads \ {t} : pc_ssl'[u] = pc_ssl[u]
  BY <1>1, SslLater
<1>3. /\ fssl' \in [Threads -> 0 .. Len(ssls)] /\ unclosed \subseteq 1 .. Len(ssls)
      /\ \A u \in Threads : fssl'[u] = IF u = t THEN 0 ELSE fssl[u]
  BY <1>1 DEF SslInv, SslTypes, Ssl!SslTypeOK
<1>4. SslTypes'
  BY <1>1, <1>2, <1>3 DEF SslInv, SslTypes, Ssl!SslTypeOK
<1>5. SslHandlers'
  <2>1. \A u \in Threads \ {t} : fssl[u] = 0 \/ fssl[u] # fssl[t]
    BY DEF SslInv, SslHandlers, Ssl!SslOwned, Ssl!None
  <2>2. fssl[t] \notin unclosed
    BY <1>3 DEF SslInv, SslHandlers
  <2>3. {fssl'[u] : u \in Threads} \ {0} = ({fssl[u] : u \in Threads} \ {0}) \ {fssl[t]}
    BY <1>3, <2>1
  <2>4. Ssl!SslOwned'
    BY <1>1, <1>3, <2>2, <2>3 DEF SslInv, SslHandlers, Ssl!SslOwned, Ssl!None
  <2> QED BY <1>1, <1>2, <1>3, <2>4 DEF SslInv, SslHandlers
<1> QED BY <1>2, <1>4, <1>5 DEF SslInv

\* Deleting a handler drops what it has not closed.
LEMMA SslDelete ==
    ASSUME SslInv, NEW t \in Threads, Ssl!Delete(t)
    PROVE  SslInv'
<1>1. /\ pc_ssl[t] \in {"open", "up", "closed"} /\ pc_ssl' = [pc_ssl EXCEPT ![t] = "idle"]
      /\ arg' = [arg EXCEPT ![t] = Ssl!NoArg] /\ ctx' = [ctx EXCEPT ![t] = 0]
      /\ fssl' = [fssl EXCEPT ![t] = 0] /\ unclosed' = unclosed \cup ({fssl[t]} \ {0})
      /\ UNCHANGED <<g_ssl_ctx_list, ctxs, opened, ssls, live>>
  BY DEF Ssl!Delete, Ssl!Idle, Ssl!table, Ssl!None
<1>2. /\ SslPlaces' /\ SslFew'
      /\ pc_ssl' \in [Threads -> {"idle", "looked", "have", "open", "up", "closed"}]
      /\ arg' \in [Threads -> Ssl!Args \cup {Ssl!NoArg}] /\ ctx' \in [Threads -> 0 .. Len(ctxs')]
      /\ \A u \in Threads \ {t} : pc_ssl'[u] = pc_ssl[u] /\ ctx'[u] = ctx[u]
  BY <1>1, SslLater
<1>3. /\ fssl' \in [Threads -> 0 .. Len(ssls)] /\ fssl[t] \in 0 .. Len(ssls)
      /\ \A u \in Threads : fssl'[u] = IF u = t THEN 0 ELSE fssl[u]
  BY <1>1 DEF SslInv, SslTypes, Ssl!SslTypeOK
<1>4. SslTypes'
  <2>1. unclosed' \subseteq 1 .. Len(ssls)
    <3>1. unclosed \subseteq 1 .. Len(ssls) /\ Len(ssls) \in Nat
      BY DEF SslInv, SslTypes, Ssl!SslTypeOK
    <3>2. {fssl[t]} \ {0} \subseteq 1 .. Len(ssls)
      BY ONLY <1>3, <3>1
    <3> QED BY <1>1, <3>1, <3>2
  <2> QED BY <1>1, <1>2, <1>3, <2>1 DEF SslInv, SslTypes, Ssl!SslTypeOK
<1>5. SslHandlers'
  <2>1. \A u \in Threads \ {t} : fssl[u] = 0 \/ fssl[u] # fssl[t]
    BY DEF SslInv, SslHandlers, Ssl!SslOwned, Ssl!None
  <2>2. {fssl'[u] : u \in Threads} \ {0} = ({fssl[u] : u \in Threads} \ {0}) \ {fssl[t]}
    BY <1>3, <2>1
  <2>3. fssl[t] \in {fssl[u] : u \in Threads}
    OBVIOUS
  <2>4. Ssl!SslOwned'
    BY <1>1, <1>3, <2>2, <2>3 DEF SslInv, SslHandlers, Ssl!SslOwned, Ssl!None
  <2> QED BY <1>1, <1>2, <1>3, <2>1, <2>4 DEF SslInv, SslHandlers
<1> QED BY <1>2, <1>4, <1>5 DEF SslInv

\* The steps that change only cipher lists, or nothing.
LEMMA SslSame ==
    ASSUME SslInv, UNCHANGED <<g_ssl_ctx_list, ctxs, pc_ssl, opened, arg, ctx, fssl, ssls, live,
                               unclosed>>
    PROVE  SslInv'
<1>1. SslTypes' /\ SslPlaces'
  BY DEF SslInv, SslTypes, Ssl!SslTypeOK, SslPlaces, PlaceOf
<1>2. SslHandlers'
  BY DEF SslInv, SslHandlers, Ssl!SslOwned
<1>3. SslFew'
  <2>1. ASSUME NEW s \in Ssl!Sides, NEW i \in 0 .. 4
        PROVE  Makers(s, i)' \subseteq Makers(s, i)
    BY DEF Makers, PlaceOf
  <2> QED BY <2>1, FewKept
<1> QED BY <1>1, <1>2, <1>3 DEF SslInv

\* Every step keeps SslInv.
LEMMA SslNext == SslInv /\ [Ssl!Next]_sslVars => SslInv'
<1> SUFFICES ASSUME SslInv, [Ssl!Next]_sslVars PROVE SslInv'
  OBVIOUS
<1>1. CASE UNCHANGED sslVars
  BY <1>1, SslSame DEF sslVars
<1>2. ASSUME NEW t \in Threads, NEW codes \in Wanted, Ssl!setCipherList(t, codes)
      PROVE  SslInv'
  BY <1>2, SslSame DEF Ssl!setCipherList, Ssl!table, Ssl!objects
<1>3. ASSUME NEW t \in Threads, Ssl!GetSSLCtx(t)
      PROVE  SslInv'
  BY <1>3, SslStore, SslMake
<1> QED BY <1>1, <1>2, <1>3, SslOpen, SslOpenFails, SslSetFdFails, SslCreate, SslHandshake,
           SslClose, SslDelete DEF Ssl!Next

\* What SslInv says of the properties of SslSession.
LEMMA SslRight ==
    ASSUME SslInv
    PROVE  Ssl!SslTypeOK /\ Ssl!CtxRight /\ Ssl!FewContexts /\ Ssl!SslOwned
<1>1. Ssl!SslTypeOK /\ Ssl!SslOwned
  BY DEF SslInv, SslTypes, SslHandlers
<1>2. Ssl!CtxRight
  <2> SUFFICES ASSUME NEW t \in Threads, fssl[t] # 0
               PROVE  ctxs[ssls[fssl[t]]] = Ssl!NewSSLCtx(arg[t].side, arg[t].version)
    BY DEF Ssl!CtxRight, Ssl!None
  <2>1. ssls[fssl[t]] = ctx[t] /\ ctx[t] # 0
    BY DEF SslInv, SslHandlers
  <2>2. ctxs[ctx[t]] = KindAt(arg[t].side, PlaceOf(arg[t]))
    BY <2>1 DEF SslInv, SslPlaces
  <2>3. arg[t] \in Ssl!Args \cup {Ssl!NoArg}
    BY <1>1 DEF Ssl!SslTypeOK
  <2> QED BY <2>1, <2>2, <2>3, PlaceKind
<1>3. Ssl!FewContexts
  <2> DEFINE made(s, m) == {i \in 1 .. Len(ctxs) : ctxs[i] = [side |-> s, method |-> m]}
  <2> SUFFICES ASSUME NEW s \in Ssl!Sides,
                      NEW m \in {Ssl!NATTAN_SSL_ANY} \cup Ssl!NATTAN_SSLV3 .. Ssl!NATTAN_TLS12
               PROVE  Ssl!Cardinality(made(s, m)) <= Ssl!Cardinality(Threads)
    BY DEF Ssl!FewContexts
  <2> DEFINE i == IF m = 4 THEN 4 ELSE m - 768
  <2>1. i \in 0 .. 4 /\ [side |-> s, method |-> m] = KindAt(s, i)
    BY DEF KindAt, Ssl!NATTAN_SSL_ANY, Ssl!NATTAN_SSLV3, Ssl!NATTAN_TLS12
  <2> HIDE DEF i
  <2>2. made(s, m) = Made(s, i)
    BY <2>1 DEF Made
  <2>3. Cardinality(Made(s, i)) <= Cardinality(Threads)
    <3>1. /\ Cardinality(Made(s, i)) \in Nat /\ Cardinality(Makers(s, i)) \in Nat
          /\ Cardinality(Threads) \in Nat
      BY CountsFinite, FiniteThreads
    <3>2. \/ Cardinality(Made(s, i)) = 0
          \/ Cardinality(Made(s, i)) + Cardinality(Makers(s, i)) <= Cardinality(Threads)
      BY <2>1, FS_EmptySet DEF SslInv, SslFew
    <3> QED BY ONLY <3>1, <3>2
  <2> QED BY <2>2, <2>3, SameCardinality
<1> QED BY <1>1, <1>2, <1>3

-----------------------------------------------------------------------------
\* However threads race for the tables of contexts, whichever call of OpenSSL fails, and
\* whatever connections a parser has seen before: a session has a context of its side and
\* version, a place of the tables wastes at most a context per thread, SSL objects and what
\* signCert makes have their owners, and a complete hello has its own ciphers and name.
THEOREM TlsIsRight == Spec => []TlsRight
<1> DEFINE TlsInv == SslInv /\ CertInv /\ HelloInv
<1>1. Init => TlsInv
  BY SslInit, CertInit, HelloInit DEF Init
<1>2. TlsInv /\ [Next]_allVars => TlsInv'
  BY SslNext, CertNext, HelloNext, StepOfParts
<1>3. TlsInv => TlsRight
  <2>1. HelloInv => /\ Hello!HelloTypeOK /\ Hello!CiphersOfThis
                    /\ Hello!NameOfThis /\ Hello!WholeInOne
    BY DEF HelloInv
  <2>2. CertInv => Cert!CertTypeOK /\ Cert!NothingLost /\ Cert!AnswerHonest
    <3> SUFFICES ASSUME CertInv PROVE Cert!NothingLost /\ Cert!AnswerHonest
      BY DEF CertInv
    <3>1. Cert!NothingLost
      BY DEF CertInv, CertRefs, CertSteps, Signing, Cert!NothingLost, Cert!CertTypeOK
    <3>2. Cert!AnswerHonest
      BY DEF CertInv, CertSteps, Signing, Cert!AnswerHonest, Cert!CertTypeOK
    <3> QED BY <3>1, <3>2
  <2> QED BY <2>1, <2>2, SslRight DEF TlsRight
<1> QED BY <1>1, <1>2, <1>3, PTL DEF Spec

-----------------------------------------------------------------------------
\* The lists.  What the loop of setCipherListInteger has made of the first n codes.
Listed(l, codes, n) ==
    /\ l \in Seq(Int) /\ Ssl!InOrder(l, codes, n)
    /\ \A i \in Ssl!Named(codes, n) :
         2 * Cardinality(Ssl!Named(codes, i - 1)) + 1 \in 1 .. Len(l)

\* A code without a name leaves the named ones what they are, any other joins them.
LEMMA NamedNext ==
    ASSUME NEW codes, NEW n \in Nat
    PROVE  /\ Ssl!GetCipherByHexCode(codes[n + 1]) = Ssl!None
               => Ssl!Named(codes, n + 1) = Ssl!Named(codes, n)
           /\ Ssl!GetCipherByHexCode(codes[n + 1]) # Ssl!None
               => Ssl!Named(codes, n + 1) = Ssl!Named(codes, n) \cup {n + 1}
           /\ n + 1 \notin Ssl!Named(codes, n)
           /\ IsFiniteSet(Ssl!Named(codes, n)) /\ Cardinality(Ssl!Named(codes, n)) \in Nat
<1>1. \A i : i \in 1 .. n + 1 <=> (i \in 1 .. n \/ i = n + 1)
  OBVIOUS
<1>2. n + 1 \notin 1 .. n
  OBVIOUS
<1>3. Ssl!Named(codes, n) \subseteq 1 .. n /\ IsFiniteSet(1 .. n)
  BY FS_Interval DEF Ssl!Named
<1>4. IsFiniteSet(Ssl!Named(codes, n))
  BY <1>3, FS_Subset
<1>5. Cardinality(Ssl!Named(codes, n)) \in Nat
  BY <1>4, FS_CardinalityType
<1> QED BY <1>1, <1>2, <1>3, <1>4, <1>5 DEF Ssl!Named

\* One turn of the loop.
LEMMA ListedNext ==
    ASSUME NEW codes, NEW n \in Nat, NEW l, Listed(l, codes, n)
    PROVE  Listed(Ssl!Joined(l, Ssl!GetCipherByHexCode(codes[n + 1])), codes, n + 1)
<1> DEFINE name == Ssl!GetCipherByHexCode(codes[n + 1])
           S == Ssl!Named(codes, n)
           c == Cardinality(S)
           Place(i) == 2 * Cardinality(Ssl!Named(codes, i - 1)) + 1
           r == Ssl!Joined(l, name)
<1>1. /\ name = Ssl!None => Ssl!Named(codes, n + 1) = S
      /\ name # Ssl!None => Ssl!Named(codes, n + 1) = S \cup {n + 1}
      /\ n + 1 \notin S /\ IsFiniteSet(S) /\ c \in Nat
  BY NamedNext
<1>2. CASE name = Ssl!None
  <2>1. r = l
    BY <1>2 DEF Ssl!Joined
  <2>2. Ssl!Named(codes, n + 1) = Ssl!Named(codes, n)
    BY <1>1, <1>2
  <2> HIDE DEF r, name
  <2>3. Listed(r, codes, n + 1)
    BY <2>1, <2>2 DEF Listed, Ssl!InOrder
  <2> QED BY <2>3 DEF r, name
<1>3. CASE name # Ssl!None
  <2>1. Ssl!Named(codes, n + 1) = S \cup {n + 1} /\ Cardinality(S \cup {n + 1}) = c + 1
    BY <1>1, <1>3, FS_AddElement
  <2>2. name \in Int /\ Ssl!Colon \in Int
    BY <1>3 DEF Ssl!GetCipherByHexCode, Ssl!None, Ssl!Colon
  <2>3. /\ l \in Seq(Int) /\ Len(l) \in Nat
        /\ Len(l) = IF S = {} THEN 0 ELSE 2 * c - 1
        /\ \A i \in S : l[Place(i)] = Ssl!GetCipherByHexCode(codes[i]) /\ Place(i) \in 1 .. Len(l)
        /\ \A k \in 1 .. Len(l) : k % 2 = 0 => l[k] = Ssl!Colon
    BY SameCardinality, SMTT(60) DEF Listed, Ssl!InOrder
  <2>4. c = 0 <=> S = {}
    BY <1>1, FS_EmptySet
  <2> HIDE DEF c, S, Place
  <2>5. l = <<>> <=> S = {}
    BY <1>1, <2>3, <2>4
  <2>6. r = IF S = {} THEN <<name>> ELSE l \o <<Ssl!Colon>> \o <<name>>
    <3>1. l = <<>> => l \o <<>> \o <<name>> = <<name>>
      OBVIOUS
    <3> QED BY <1>3, <2>3, <2>5, <3>1 DEF Ssl!Joined
  <2> HIDE DEF r, name
  <2>7. /\ r \in Seq(Int) /\ Len(r) = 2 * c + 1 /\ r[2 * c + 1] = name /\ 2 * c + 1 \in 1 .. Len(r)
        /\ \A k \in 1 .. Len(l) : r[k] = l[k] /\ k \in 1 .. Len(r)
        /\ \A k \in 1 .. Len(r) : k \in 1 .. Len(l) \/ k = 2 * c + 1 \/ (k = 2 * c /\ r[k] = Ssl!Colon)
    <3>1. CASE S = {}
      <4>1. r = <<name>> /\ c = 0 /\ Len(l) = 0
        BY <2>3, <2>4, <2>6, <3>1
      <4> QED BY <2>2, <4>1
    <3>2. CASE S # {}
      <4> DEFINE m == l \o <<Ssl!Colon>>
      <4>1. r = m \o <<name>> /\ c > 0 /\ Len(l) = 2 * c - 1
        <5>1. r = m \o <<name>>
          BY <2>6, <3>2
        <5>2. c > 0 /\ Len(l) = 2 * c - 1
          <6>1. Len(l) = 2 * c - 1 /\ c # 0 /\ c \in Nat
            BY <1>1, <2>3, <2>4, <3>2
          <6> QED BY ONLY <6>1
        <5> QED BY <5>1, <5>2
      <4>2. /\ m \in Seq(Int) /\ Len(m) = Len(l) + 1 /\ m[Len(l) + 1] = Ssl!Colon
            /\ \A k \in 1 .. Len(l) : m[k] = l[k]
        BY <2>2, <2>3, SMTT(30)
      <4> HIDE DEF m
      <4>3. /\ r \in Seq(Int) /\ Len(r) = Len(m) + 1 /\ r[Len(m) + 1] = name
            /\ \A k \in 1 .. Len(m) : r[k] = m[k]
        BY <2>2, <4>1, <4>2
      <4>4. /\ Len(m) = 2 * c /\ Len(r) = 2 * c + 1
            /\ \A k \in 1 .. Len(l) : k \in 1 .. Len(m) /\ k \in 1 .. Len(r)
            /\ 2 * c \in 1 .. Len(m) /\ 2 * c + 1 \in 1 .. Len(r)
            /\ \A k \in 1 .. Len(r) : k \in 1 .. Len(l) \/ k = 2 * c \/ k = 2 * c + 1
        BY <1>1, <4>1, <4>2, <4>3
      <4> QED BY <4>1, <4>2, <4>3, <4>4
    <3> QED BY <3>1, <3>2
  <2>8. (2 * c + 1) % 2 # 0
    BY <1>1
  <2>9. Place(n + 1) = 2 * c + 1
    BY DEF Place, c, S
  <2>10. \A i \in S \cup {n + 1} : r[Place(i)] = Ssl!GetCipherByHexCode(codes[i]) /\ Place(i) \in 1 .. Len(r)
    BY <2>3, <2>7, <2>9 DEF name
  <2>11. \A k \in 1 .. Len(r) : k % 2 = 0 => r[k] = Ssl!Colon
    <3> SUFFICES ASSUME NEW k \in 1 .. Len(r), k % 2 = 0 PROVE r[k] = Ssl!Colon
      OBVIOUS
    <3>1. CASE k \in 1 .. Len(l)
      BY <2>3, <2>7, <3>1
    <3>2. CASE k = 2 * c + 1
      BY <2>8, <3>2
    <3> QED BY <2>7, <3>1, <3>2
  <2>12. Len(r) = 2 * (c + 1) - 1 /\ S \cup {n + 1} # {}
    BY <1>1, <2>7
  <2>13. Listed(r, codes, n + 1)
    BY <2>1, <2>7, <2>10, <2>11, <2>12, SameCardinality DEF Listed, Ssl!InOrder, Place
  <2> QED BY <2>13 DEF r, name
<1> QED BY <1>2, <1>3

\* All turns.
LEMMA CiphersJoin ==
    ASSUME NEW codes \in Seq(Nat)
    PROVE  Listed(Ssl!JoinCiphers(codes), codes, Len(codes))
<1> DEFINE N == Len(codes)
           X == Seq(Int)
           name(n) == Ssl!GetCipherByHexCode(codes[n])
           step == [n \in 1 .. N |-> [l \in X |-> Ssl!Joined(l, name(n))]]
           IsJoin(f) == f = [n \in 0 .. N |-> IF n = 0 THEN <<>> ELSE Ssl!Joined(f[n - 1], name(n))]
           join == CHOOSE f : IsJoin(f)
<1>1. N \in Nat /\ <<>> \in X
  OBVIOUS
<1>2. Ssl!JoinCiphers(codes) = join[N]
  BY DEF Ssl!JoinCiphers
<1>3. \A n \in 1 .. N : \A l \in X : Ssl!Joined(l, name(n)) \in X
  <2> SUFFICES ASSUME NEW n \in 1 .. N, NEW l \in X PROVE Ssl!Joined(l, name(n)) \in X
    OBVIOUS
  <2>1. name(n) \in Int /\ Ssl!Colon \in Int
    BY DEF Ssl!GetCipherByHexCode, Ssl!None, Ssl!Colon
  <2> HIDE DEF name
  <2>2. <<name(n)>> \in X /\ <<Ssl!Colon>> \in X /\ <<>> \in X
    BY <2>1
  <2>3. \A p, q \in X : p \o q \in X
    OBVIOUS
  <2> HIDE DEF X
  <2> QED BY <2>2, <2>3 DEF Ssl!Joined
<1> HIDE DEF N, X, name
<1>4. PICK f \in [0 .. N -> X] : IsLoop(f, N, <<>>, step)
  <2>1. step \in [1 .. N -> [X -> X]]
    BY <1>3
  <2> HIDE DEF step
  <2> QED BY <1>1, <2>1, LoopExists
<1>5. IsJoin(f)
  <2>1. f = [n \in 0 .. N |-> IF n = 0 THEN <<>> ELSE step[n][f[n - 1]]]
    BY <1>4 DEF IsLoop
  <2>2. \A n \in 0 .. N : n # 0 => f[n - 1] \in X /\ n \in 1 .. N
    BY <1>1, <1>4
  <2> QED BY <2>1, <2>2
<1>6. IsJoin(join)
  BY <1>5, Zenon
<1> HIDE DEF join
<1> DEFINE T == {n \in Nat : Listed(join[n], codes, n)}
<1>7. 0 \in T
  <2>1. join[0] = <<>>
    BY <1>1, <1>6
  <2>2. Ssl!Named(codes, 0) = {}
    BY DEF Ssl!Named
  <2>3. Listed(<<>>, codes, 0)
    BY <2>2 DEF Listed, Ssl!InOrder
  <2> QED BY <2>1, <2>3
<1>8. ASSUME NEW n \in 0 .. N - 1, n \in T PROVE n + 1 \in T
  <2>1. join[n + 1] = Ssl!Joined(join[n], name(n + 1)) /\ n \in Nat /\ n + 1 \in Nat
    BY <1>1, <1>6
  <2>2. Listed(Ssl!Joined(join[n], name(n + 1)), codes, n + 1)
    BY <1>8, <2>1, ListedNext DEF name
  <2> QED BY <2>1, <2>2
<1> HIDE DEF T
<1>9. N \in T
  <2>1. 0 .. N \subseteq T
    BY <1>1, <1>7, <1>8, UpTo
  <2> QED BY <1>1, <2>1
<1> QED BY <1>2, <1>9 DEF T, N

\* The string of a session is the one that was joined last, or none.
ListsInv == /\ ciphers \in [Threads -> [codes : Seq(Nat), list : Seq(Int)]]
            /\ Ssl!CiphersInOrder

\* No session has a string.
LEMMA ListsEmpty ==
    [codes |-> <<>>, list |-> <<>>] \in [codes : Seq(Nat), list : Seq(Int)]
    /\ Ssl!InOrder(<<>>, <<>>, 0)
<1>1. Ssl!Named(<<>>, 0) = {}
  BY DEF Ssl!Named
<1> QED BY <1>1 DEF Ssl!InOrder

\* A session with a new string.
LEMMA ListsPut ==
    ASSUME ListsInv, NEW t \in Threads, NEW codes \in Seq(Nat), NEW list \in Seq(Int),
           Ssl!InOrder(list, codes, Len(codes)),
           ciphers' = [ciphers EXCEPT ![t] = [codes |-> codes, list |-> list]]
    PROVE  ListsInv'
<1> DEFINE new == [codes |-> codes, list |-> list]
<1>1. new \in [codes : Seq(Nat), list : Seq(Int)] /\ new.codes = codes /\ new.list = list
  OBVIOUS
<1> HIDE DEF new
<1>2. ciphers' = [ciphers EXCEPT ![t] = new]
  BY DEF new
<1>3. ciphers' \in [Threads -> [codes : Seq(Nat), list : Seq(Int)]]
  BY <1>1, <1>2 DEF ListsInv
<1>4. \A u \in Threads : ciphers'[u] = IF u = t THEN new ELSE ciphers[u]
  BY <1>2 DEF ListsInv
<1>5. \A u \in Threads : Ssl!InOrder(ciphers'[u].list, ciphers'[u].codes, Len(ciphers'[u].codes))
  BY <1>1, <1>4 DEF ListsInv, Ssl!CiphersInOrder
<1> QED BY <1>3, <1>5 DEF ListsInv, Ssl!CiphersInOrder

\* Every step keeps the strings in order.
LEMMA ListsNext == ListsInv /\ [Ssl!Next]_sslVars => ListsInv'
<1> SUFFICES ASSUME ListsInv, [Ssl!Next]_sslVars PROVE ListsInv'
  OBVIOUS
<1>1. ASSUME UNCHANGED ciphers PROVE ListsInv'
  BY <1>1 DEF ListsInv, Ssl!CiphersInOrder
<1>2. ASSUME NEW t \in Threads, Ssl!Idle(t) PROVE ListsInv'
  <2>1. ciphers' = [ciphers EXCEPT ![t] = [codes |-> <<>>, list |-> <<>>]]
    BY <1>2 DEF Ssl!Idle
  <2>2. <<>> \in Seq(Nat) /\ <<>> \in Seq(Int) /\ Len(<<>>) = 0
    OBVIOUS
  <2>3. Ssl!InOrder(<<>>, <<>>, Len(<<>>))
    BY <2>2, ListsEmpty
  <2> QED BY <2>1, <2>2, <2>3, ListsPut
<1>3. ASSUME NEW t \in Threads, NEW codes \in Wanted, Ssl!setCipherList(t, codes) PROVE ListsInv'
  <2>1. codes \in Seq(Nat)
    BY ResourcesAssumption DEF Ssl!SslAssumption
  <2>2. Listed(Ssl!JoinCiphers(codes), codes, Len(codes))
    BY <2>1, CiphersJoin
  <2>3. Ssl!JoinCiphers(codes) \in Seq(Int) /\ Ssl!InOrder(Ssl!JoinCiphers(codes), codes, Len(codes))
    BY <2>2 DEF Listed
  <2>4. ciphers' = [ciphers EXCEPT ![t] = [codes |-> codes, list |-> Ssl!JoinCiphers(codes)]]
    BY <1>3 DEF Ssl!setCipherList
  <2> QED BY <2>1, <2>3, <2>4, ListsPut
<1>4. CASE UNCHANGED sslVars
  BY <1>1, <1>4 DEF sslVars
<1>5. CASE Ssl!Next
  <2>1. PICK t \in Threads :
          \/ \E a \in Ssl!Args : Ssl!open(t, a)
          \/ Ssl!GetSSLCtx(t) \/ Ssl!OpenFails(t) \/ Ssl!SetFdFails(t) \/ Ssl!CreateSSLHandler(t)
          \/ Ssl!Handshake(t) \/ Ssl!close(t) \/ Ssl!Delete(t)
          \/ \E codes \in Wanted : Ssl!setCipherList(t, codes)
    BY <1>5 DEF Ssl!Next
  <2>2. CASE \/ \E a \in Ssl!Args : Ssl!open(t, a)
             \/ Ssl!GetSSLCtx(t) \/ Ssl!CreateSSLHandler(t) \/ Ssl!Handshake(t) \/ Ssl!close(t)
    BY <1>1, <2>2 DEF Ssl!open, Ssl!GetSSLCtx, Ssl!CreateSSLHandler, Ssl!Handshake, Ssl!close
  <2>3. CASE Ssl!OpenFails(t) \/ Ssl!SetFdFails(t) \/ Ssl!Delete(t)
    BY <1>2, <2>3 DEF Ssl!OpenFails, Ssl!SetFdFails, Ssl!Delete
  <2> QED BY <1>3, <2>1, <2>2, <2>3
<1> QED BY <1>4, <1>5

\* What the loop over org_cert's extensions finds.
Names(es) == IF \E i \in 1 .. Len(es) : es[i] = "subjectAltName" THEN <<"subjectAltName">> ELSE <<>>

\* It finds the alternative names when there are any.
LEMMA SanNames ==
    ASSUME NEW es \in Seq({"subjectAltName", "other"})
    PROVE  Cert!FindSan(es) = Names(es)
<1> DEFINE at == {i \in 1 .. Len(es) : es[i] = "subjectAltName"}
           m == CHOOSE i \in at : \A j \in at : i <= j
<1>1. CASE at = {}
  BY <1>1 DEF Cert!FindSan, Names
<1>2. CASE at # {}
  <2>1. at \in SUBSET Nat
    OBVIOUS
  <2>2. \E i \in at : \A j \in at : i <= j
    BY <1>2, <2>1, LeastNumber
  <2>3. m \in at
    BY <2>2
  <2>4. es[m] = "subjectAltName" /\ m \in 1 .. Len(es)
    BY <2>3
  <2>5. Cert!FindSan(es) = <<es[m]>>
    BY <1>2 DEF Cert!FindSan
  <2> HIDE DEF m
  <2> QED BY <2>4, <2>5 DEF Names
<1> QED BY <1>1, <1>2

\* From the loop on the new certificate has org_cert's alternative names.
SanInv == pc_ce \in {"fill", "x509sign"} \/ ret_ce = "true" => copied = Names(exts)

\* Every step of signCert keeps them.
LEMMA SanNext == CertInv /\ SanInv /\ [Cert!Next]_certVars => SanInv'
<1> SUFFICES ASSUME CertInv, SanInv, [Cert!Next]_certVars PROVE SanInv'
  OBVIOUS
<1>1. /\ exts \in Seq({"subjectAltName", "other"})
      /\ ret_ce = "none" <=> pc_ce \notin {"returned", "stored"}
  BY ResourcesAssumption DEF Cert!CertAssumption, CertInv, Cert!CertTypeOK, CertSteps
<1>2. CASE UNCHANGED certVars
  BY <1>2 DEF certVars, SanInv
<1>3. CASE \/ Cert!loadX509FromFile \/ Cert!loadPrivateKeyFromFile \/ Cert!BadParameter
           \/ Cert!MakeSerial \/ Cert!genRSA \/ Cert!genRSAFails
  BY <1>1, <1>3 DEF SanInv, Cert!loadX509FromFile, Cert!loadPrivateKeyFromFile, Cert!Load,
     Cert!BadParameter, Cert!MakeSerial, Cert!genRSA, Cert!genRSAFails, Cert!Return, Cert!certs, Cert!out
<1>4. CASE Cert!MakePkey \/ \E r \in Set1Results : Cert!SetKey(r)
  BY <1>1, <1>4 DEF SanInv, Cert!MakePkey, Cert!SetKey, Cert!Return, Cert!certs
<1>5. CASE Cert!MakeCert
  <2>1. UNCHANGED exts
    BY <1>5 DEF Cert!MakeCert, Cert!certs
  <2>2. CASE copied' = Cert!FindSan(exts)
    BY <1>1, <2>1, <2>2, SanNames DEF SanInv
  <2>3. CASE Cert!Return("false")
    BY <2>3 DEF SanInv, Cert!Return
  <2> QED BY <1>5, <2>2, <2>3 DEF Cert!MakeCert
<1>6. CASE Cert!FillCert \/ Cert!X509Sign
  <2>1. UNCHANGED exts /\ pc_ce \in {"fill", "x509sign"}
    BY <1>6 DEF Cert!FillCert, Cert!X509Sign, Cert!certs
  <2>2. UNCHANGED copied \/ Cert!Return("false")
    BY <1>6 DEF Cert!FillCert, Cert!X509Sign, Cert!GiveUp, Cert!out
  <2> QED BY <2>1, <2>2 DEF SanInv, Cert!Return
<1>7. CASE Cert!storeX509ToPEMStr
  BY <1>1, <1>7 DEF SanInv, Cert!storeX509ToPEMStr, Cert!certs, Cert!out
<1> QED BY <1>2, <1>3, <1>4, <1>5, <1>6, <1>7 DEF Cert!Next

\* For every offer of ciphers and every list of extensions: the string a session gives to
\* OpenSSL names exactly the known ciphers of the offer, in its order and with a separator
\* between two of them, and a signed certificate has the alternative names of org_cert.
THEOREM ListsAreRight == Spec => []ListsRight
<1> DEFINE J == ListsInv /\ CertInv /\ SanInv
<1>1. Init => J
  <2> SUFFICES ASSUME Init PROVE J
    OBVIOUS
  <2>1. CertInv
    BY CertInit DEF Init
  <2>2. SanInv
    BY DEF Init, Cert!Init, SanInv
  <2>3. ListsInv
    <3>1. ciphers = [t \in Threads |-> [codes |-> <<>>, list |-> <<>>]]
      BY DEF Init, Ssl!Init
    <3>2. Len(<<>>) = 0
      OBVIOUS
    <3> QED BY <3>1, <3>2, ListsEmpty DEF ListsInv, Ssl!CiphersInOrder
  <2> QED BY <2>1, <2>2, <2>3
<1>2. J /\ [Next]_allVars => J'
  BY ListsNext, CertNext, SanNext, StepOfParts
<1>3. J => ListsRight
  <2>1. SanInv => Cert!SanCopied
    BY DEF SanInv, Names, Cert!SanCopied
  <2> QED BY <2>1 DEF ListsInv, ListsRight
<1> QED BY <1>1, <1>2, <1>3, PTL DEF Spec

=============================================================================
