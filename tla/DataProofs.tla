------------------------------ MODULE DataProofs -----------------------------
(***************************************************************************)
(* The parts of MCData, for every value of their constants: the resolver   *)
(* and the tunnel, the body of a message, the buffer, the identifiers of   *)
(* tasks with their heap, the hash map, the ids that threads make, base64  *)
(* and the configuration.  The loops of the buffer, the heap, the map, the *)
(* coder and the reader of lines need an induction over their turns.       *)
(***************************************************************************)
EXTENDS MCData, ListLemmas, FiniteSetTheorems

\* A step of the run is a step of these components or leaves them alone.
LEMMA StepOfParts ==
    ASSUME [Next]_allVars
    PROVE  /\ part' = part /\ [Tun!Next]_tunnelVars /\ [Dns!Next]_dnsVars
           /\ [Buf!Next]_bufferVars /\ [Body!Next]_bodyVars
           /\ [Map!Next]_mapVars /\ [Ids!Next]_cidVars
           /\ [Uid!Next]_uuidVars /\ [B64!Next]_base64Vars
           /\ [Conf!Next]_configVars
BY DEF Next, allVars

-----------------------------------------------------------------------------
\* The resolver.  The only query that can be open is that of the current call; what was
\* heard belongs to a call that has returned, because the answer ends the loop; and bInited
\* stands for a channel that is gone only after a failed init().
DnsTypes ==
    /\ channel \in {"none", "live", "freed"} /\ pc_dns \in {"idle", "poll", "gone"}
    /\ fResults \in Seq(Dns!Answers) /\ queries \subseteq Dns!Answers
    /\ events \in 0 .. MaxEvents /\ calls_dns \in 0 .. MaxResolve /\ heard \subseteq Nat
    /\ host \in Hosts

DnsFlags == bInited \in BOOLEAN /\ initFailed \in BOOLEAN /\ twice \in BOOLEAN

Ok(r) == r.ok = TRUE
Result == [host : Hosts, ok : BOOLEAN, ip : Dns!Answers \cup {Dns!NoIP}]

DnsCalls ==
    /\ returned \in Seq(Result)
    /\ Len(returned) = IF pc_dns = "poll" THEN calls_dns - 1 ELSE calls_dns
    /\ pc_dns = "poll" => channel = "live" /\ bInited
    /\ ~bInited => queries = {}
    /\ \A q \in queries : q = [host |-> host, call |-> calls_dns]

DnsHeard ==
    /\ heard \subseteq DOMAIN returned
    /\ \A c \in heard : Ok(returned[c])
    /\ Len(returned) = 0 => fResults = <<>>
    /\ Len(returned) > 0 /\ Ok(returned[1]) =>
           1 \in heard /\ returned[1].ip = [host |-> returned[1].host, call |-> 1]

DnsChannel ==
    /\ bInited /\ channel = "freed" /\ pc_dns # "gone" => initFailed
    /\ twice => initFailed

DnsInv == DnsTypes /\ DnsFlags /\ DnsCalls /\ DnsHeard /\ DnsChannel

\* No call, no answer.
LEMMA DnsInit == Dns!Init => DnsInv
<1> SUFFICES ASSUME Dns!Init PROVE DnsInv
  OBVIOUS
<1> USE DEF Dns!Init
<1>1. DnsTypes
  BY DataAssumption DEF DnsTypes, Dns!DNSAssumption
<1>2. DnsFlags
  BY Zenon DEF DnsFlags
<1>3. DnsCalls
  BY DEF DnsCalls
<1>4. DnsHeard
  BY DEF DnsHeard
<1>5. DnsChannel
  BY DEF DnsChannel
<1> QED BY <1>1, <1>2, <1>3, <1>4, <1>5 DEF DnsInv

\* What resolve() returns is a result, whichever address it prefers.
Entered(h, rs) ==
    /\ returned' \in Seq(Result) /\ Len(returned') = Len(returned) + 1 /\ Len(returned) \in Nat
    /\ returned'[Len(returned) + 1].host = h
    /\ returned'[Len(returned) + 1].ip = Dns!getPreferIP(rs)
    /\ \A i \in 1 .. Len(returned) : returned'[i] = returned[i]

\* Appending a result keeps the ones that are there.
LEMMA DnsEnters ==
    ASSUME DnsInv, NEW r \in Result, returned' = Append(returned, r)
    PROVE  /\ returned' \in Seq(Result) /\ Len(returned') = Len(returned) + 1 /\ Len(returned) \in Nat
           /\ returned'[Len(returned) + 1] = r
           /\ \A i \in 1 .. Len(returned) : returned'[i] = returned[i]
<1>1. returned \in Seq(Result)
  BY DEF DnsInv, DnsCalls
<1> QED BY <1>1

\* resolve() that answers: its result is entered, and is good when there is an address.
LEMMA DnsReturns ==
    ASSUME DnsInv, NEW h \in Hosts, NEW rs \in Seq(Dns!Answers), Dns!Return(h, rs # <<>>, rs)
    PROVE  Entered(h, rs) /\ (Ok(returned'[Len(returned) + 1]) <=> rs # <<>>)
<1> DEFINE r == [host |-> h, ok |-> rs # <<>>, ip |-> Dns!getPreferIP(rs)]
<1>1. Dns!getPreferIP(rs) \in Dns!Answers \cup {Dns!NoIP} /\ (rs # <<>>) \in BOOLEAN
  BY DEF Dns!getPreferIP
<1>2. r \in Result /\ returned' = Append(returned, r)
  BY <1>1 DEF Result, Dns!Return
<1>3. r.host = h /\ r.ip = Dns!getPreferIP(rs) /\ (Ok(r) <=> rs # <<>>)
  BY DEF Ok
<1> HIDE DEF r
<1> QED BY <1>2, <1>3, DnsEnters DEF Entered

\* resolve() that fails: its result is entered as a failure.
LEMMA DnsReturnsFalse ==
    ASSUME DnsInv, NEW h \in Hosts, NEW rs \in Seq(Dns!Answers), Dns!Return(h, FALSE, rs)
    PROVE  Entered(h, rs) /\ ~Ok(returned'[Len(returned) + 1])
<1> DEFINE r == [host |-> h, ok |-> FALSE, ip |-> Dns!getPreferIP(rs)]
<1>1. Dns!getPreferIP(rs) \in Dns!Answers \cup {Dns!NoIP}
  BY DEF Dns!getPreferIP
<1>2. r \in Result /\ returned' = Append(returned, r)
  BY <1>1 DEF Result, Dns!Return
<1>3. r.host = h /\ r.ip = Dns!getPreferIP(rs) /\ ~Ok(r)
  BY DEF Ok
<1> HIDE DEF r
<1> QED BY <1>2, <1>3, DnsEnters DEF Entered

\* A new call: the channel of the last one is destroyed with its query.
LEMMA DnsResolve ==
    ASSUME DnsInv, NEW h \in Hosts, Dns!resolve(h)
    PROVE  DnsInv'
<1> USE DEF DnsInv, Dns!resolve
<1>0. /\ MaxResolve \in Nat /\ MaxEvents \in Nat /\ calls_dns \in 0 .. MaxResolve
      /\ calls_dns + 1 \in 1 .. MaxResolve
  BY DataAssumption DEF Dns!DNSAssumption, DnsTypes
<1>1. queries' = {[host |-> h, call |-> calls_dns + 1]}
  BY DEF Dns!destroy, DnsCalls
<1>2. DnsTypes'
  BY <1>0, <1>1 DEF DnsTypes, Dns!Answers
<1>3. DnsFlags'
  <2>1. bInited' = TRUE /\ initFailed' = initFailed /\ twice' \in BOOLEAN
    BY DEF Dns!Destroys, DnsFlags
  <2> QED BY <2>1, Zenon DEF DnsFlags
<1>4. DnsCalls'
  BY <1>0, <1>1 DEF DnsCalls
<1>5. DnsHeard'
  BY DEF DnsHeard
<1>6. DnsChannel'
  BY DEF DnsChannel, Dns!Destroys
<1> QED BY <1>2, <1>3, <1>4, <1>5, <1>6

\* A call whose init() fails returns false, and nobody has heard of it.
LEMMA DnsResolveNoInit ==
    ASSUME DnsInv, NEW h \in Hosts, Dns!resolveNoInit(h)
    PROVE  DnsInv'
<1> USE DEF DnsInv, Dns!resolveNoInit
<1>0. /\ MaxResolve \in Nat /\ MaxEvents \in Nat /\ calls_dns \in 0 .. MaxResolve
      /\ calls_dns + 1 \in 1 .. MaxResolve /\ fResults \in Seq(Dns!Answers)
  BY DataAssumption DEF Dns!DNSAssumption, DnsTypes
<1>1. queries' = {}
  BY DEF Dns!destroy, DnsCalls
<1>r. Entered(h, fResults) /\ ~Ok(returned'[Len(returned) + 1])
  BY <1>0, DnsReturnsFalse
<1>2. DnsTypes'
  BY <1>0, <1>1 DEF DnsTypes, Dns!Answers
<1>3. DnsFlags'
  <2>1. bInited' = bInited /\ initFailed' \in BOOLEAN /\ twice' \in BOOLEAN
    BY DEF Dns!Destroys, DnsFlags
  <2> QED BY <2>1, Zenon DEF DnsFlags
<1>4. DnsCalls'
  BY <1>0, <1>1, <1>r DEF DnsCalls, Entered
<1>5. DnsHeard'
  BY <1>0, <1>r DEF DnsHeard, DnsCalls, Entered
<1>6. DnsChannel'
  BY DEF DnsChannel, Dns!Destroys
<1> QED BY <1>2, <1>3, <1>4, <1>5, <1>6

\* The destructor destroys the channel for the last time.
LEMMA DnsDestruct ==
    ASSUME DnsInv, Dns!destruct
    PROVE  DnsInv'
<1> USE DEF DnsInv, Dns!destruct
<1>1. queries' = {}
  BY DEF Dns!destroy, DnsCalls
<1>2. DnsTypes'
  BY <1>1 DEF DnsTypes, Dns!Answers
<1>3. DnsFlags'
  <2>1. UNCHANGED <<bInited, initFailed>> /\ twice' \in BOOLEAN
    BY DEF Dns!Destroys, DnsFlags
  <2> QED BY <2>1, Zenon DEF DnsFlags
<1>4. DnsCalls'
  BY <1>1 DEF DnsCalls
<1>5. DnsHeard'
  BY DEF DnsHeard
<1>6. DnsChannel'
  BY DEF DnsChannel, Dns!Destroys
<1> QED BY <1>2, <1>3, <1>4, <1>5, <1>6

\* The answer to the one open query, or its failure, ends the call.
LEMMA DnsQuery ==
    ASSUME DnsInv, NEW q \in queries, NEW success \in BOOLEAN, Dns!query(q, success)
    PROVE  DnsInv'
<1> USE DEF DnsInv, Dns!query
<1>0. /\ q = [host |-> host, call |-> calls_dns] /\ q \in Dns!Answers /\ host \in Hosts
      /\ fResults \in Seq(Dns!Answers) /\ calls_dns \in Nat /\ q.call = calls_dns
      /\ Len(returned) = calls_dns - 1
  BY DataAssumption DEF DnsCalls, DnsTypes, Dns!DNSAssumption
<1>1. queries' = {} /\ pc_dns' = "idle"
  BY DEF DnsCalls
<1>f. fResults' \in Seq(Dns!Answers)
  <2>1. CASE success
    BY <1>0, <2>1 DEF Dns!dns_callback
  <2>2. CASE ~success
    BY <1>0, <2>2 DEF Dns!dns_callback
  <2> QED BY <2>1, <2>2
<1>r. /\ returned' \in Seq(Result) /\ Len(returned') = calls_dns
      /\ Ok(returned'[calls_dns]) <=> fResults' # <<>>
      /\ returned'[calls_dns].host = host /\ returned'[calls_dns].ip = Dns!getPreferIP(fResults')
      /\ \A i \in 1 .. calls_dns - 1 : returned'[i] = returned[i]
      /\ calls_dns > 0
  <2>1. Dns!Return(host, fResults' # <<>>, fResults')
    BY <1>1
  <2>2. /\ Entered(host, fResults')
        /\ Ok(returned'[Len(returned) + 1]) <=> fResults' # <<>>
    BY <1>0, <1>f, <2>1, DnsReturns
  <2>3. Len(returned) + 1 = calls_dns
    BY <1>0, <2>2 DEF Entered
  <2> QED BY <2>2, <2>3 DEF Entered
<1>2. DnsTypes'
  BY <1>0, <1>1, <1>f DEF DnsTypes, Dns!Answers, Dns!dns_callback
<1>3. DnsFlags'
  <2>1. UNCHANGED <<bInited, initFailed, twice>>
    OBVIOUS
  <2> QED BY <2>1, Zenon DEF DnsFlags
<1>4. DnsCalls'
  BY <1>0, <1>1, <1>r DEF DnsCalls
<1>5. DnsHeard'
  <2>1. CASE success
    <3>0. /\ fResults' = Append(fResults, q) /\ heard' = heard \cup {calls_dns}
          /\ Append(fResults, q) # <<>>
      BY <1>0, <2>1 DEF Dns!dns_callback
    <3>1. /\ fResults' = Append(fResults, q) /\ fResults' # <<>> /\ heard' = heard \cup {calls_dns}
          /\ Ok(returned'[calls_dns])
      BY <1>r, <3>0
    <3>2. calls_dns = 1 => returned'[1].ip = [host |-> returned'[1].host, call |-> 1]
      <4>1. ASSUME calls_dns = 1 PROVE fResults = <<>>
        BY <1>0, <4>1 DEF DnsHeard, DnsCalls
      <4>2. ASSUME calls_dns = 1 PROVE Dns!getPreferIP(fResults') = q
        BY <3>1, <4>1, <4>2 DEF Dns!getPreferIP
      <4> QED BY <1>0, <1>r, <4>2
    <3>3. \A c \in heard : c \in 1 .. calls_dns - 1
      BY <1>0 DEF DnsHeard, DnsCalls
    <3>4. \A c \in heard' : c \in DOMAIN returned' /\ Ok(returned'[c])
      BY <1>r, <3>1, <3>3 DEF DnsHeard
    <3> QED BY <1>0, <1>r, <3>1, <3>2, <3>4 DEF DnsHeard
  <2>2. CASE ~success
    <3>1. UNCHANGED <<fResults, heard>>
      BY <2>2 DEF Dns!dns_callback
    <3>2. \A c \in heard : c \in 1 .. calls_dns - 1
      BY <1>0 DEF DnsHeard, DnsCalls
    <3>3. calls_dns = 1 => ~Ok(returned'[1])
      BY <1>0, <1>r, <3>1 DEF DnsHeard, DnsCalls
    <3> QED BY <1>0, <1>r, <3>1, <3>2, <3>3 DEF DnsHeard
  <2> QED BY <2>1, <2>2
<1>6. DnsChannel'
  BY DEF DnsChannel, DnsCalls
<1> QED BY <1>2, <1>3, <1>4, <1>5, <1>6

\* A second of silence ends the call with its query open.
LEMMA DnsTimeout ==
    ASSUME DnsInv, Dns!queryTimeout
    PROVE  DnsInv'
<1> USE DEF DnsInv, Dns!queryTimeout
<1>0. /\ host \in Hosts /\ fResults \in Seq(Dns!Answers) /\ calls_dns \in Nat
      /\ Len(returned) = calls_dns - 1 /\ Len(returned) \in Nat
  BY DataAssumption DEF DnsCalls, DnsTypes, Dns!DNSAssumption
<1>r. /\ returned' \in Seq(Result) /\ Len(returned') = calls_dns
      /\ Ok(returned'[calls_dns]) <=> fResults # <<>>
      /\ \A i \in 1 .. calls_dns - 1 : returned'[i] = returned[i]
      /\ calls_dns > 0
  <2>1. /\ Entered(host, fResults)
        /\ Ok(returned'[Len(returned) + 1]) <=> fResults # <<>>
    BY <1>0, DnsReturns
  <2>2. Len(returned) + 1 = calls_dns
    BY <1>0
  <2> QED BY <2>1, <2>2 DEF Entered
<1>2. DnsTypes'
  BY DEF DnsTypes, Dns!hist
<1>3. DnsFlags'
  <2>1. UNCHANGED <<bInited, initFailed, twice>>
    BY DEF Dns!hist
  <2> QED BY <2>1, Zenon DEF DnsFlags
<1>4. DnsCalls'
  BY <1>0, <1>r DEF DnsCalls, Dns!hist
<1>5. DnsHeard'
  <2>1. \A c \in heard : c \in 1 .. calls_dns - 1
    BY <1>0 DEF DnsHeard, DnsCalls
  <2>2. calls_dns = 1 => ~Ok(returned'[1])
    BY <1>0, <1>r DEF DnsHeard, DnsCalls
  <2> QED BY <1>0, <1>r, <2>1, <2>2 DEF DnsHeard, Dns!hist
<1>6. DnsChannel'
  BY DEF DnsChannel, DnsCalls, Dns!hist
<1> QED BY <1>2, <1>3, <1>4, <1>5, <1>6

\* Every step keeps DnsInv.
LEMMA DnsNext == DnsInv /\ [Dns!Next]_dnsVars => DnsInv'
<1> SUFFICES ASSUME DnsInv, [Dns!Next]_dnsVars PROVE DnsInv'
  OBVIOUS
<1>1. CASE UNCHANGED dnsVars \/ Dns!queryNothing
  <2> USE DEF DnsInv, dnsVars, Dns!queryNothing, Dns!hist
  <2>1. DnsTypes'
    <3>1. MaxEvents \in Nat /\ (events' = events \/ (events' = events + 1 /\ events < MaxEvents))
      BY <1>1, DataAssumption DEF Dns!DNSAssumption
    <3>2. UNCHANGED <<channel, pc_dns, fResults, queries, calls_dns, heard, host>>
      BY <1>1
    <3> QED BY <3>1, <3>2 DEF DnsTypes
  <2>2. DnsFlags'
    <3>1. UNCHANGED <<bInited, initFailed, twice>>
      BY <1>1
    <3> QED BY <3>1, Zenon DEF DnsFlags
  <2>3. DnsCalls' /\ DnsHeard' /\ DnsChannel'
    <3>1. UNCHANGED <<bInited, initFailed, twice>>
      BY <1>1
    <3>2. UNCHANGED <<channel, pc_dns, fResults, queries, calls_dns, heard, host, returned>>
      BY <1>1
    <3> QED BY <3>1, <3>2, Zenon DEF DnsCalls, DnsHeard, DnsChannel
  <2> QED BY <2>1, <2>2, <2>3
<1> QED BY <1>1, DnsResolve, DnsResolveNoInit, DnsDestruct, DnsQuery, DnsTimeout
    DEF Dns!Next, Dns!Loop

\* What DnsInv says of the properties of DNS.
LEMMA DnsRight ==
    ASSUME DnsInv
    PROVE  Dns!DnsTypeOK /\ Dns!FirstIsRight /\ Dns!NoStrayAnswer /\ Dns!DestroyedOnce
<1>1. Dns!DnsTypeOK
  <2>1. bInited \in BOOLEAN
    BY DEF DnsInv, DnsFlags
  <2>2. \A i \in DOMAIN fResults : fResults[i] \in Dns!Answers
    BY DEF DnsInv, DnsTypes
  <2> QED BY <2>1, <2>2 DEF DnsInv, DnsTypes, DnsCalls, Dns!DnsTypeOK
<1>2. Dns!FirstIsRight
  BY DEF DnsInv, DnsCalls, DnsHeard, Dns!FirstIsRight, Ok
<1>3. Dns!NoStrayAnswer /\ Dns!DestroyedOnce
  BY DEF DnsInv, DnsHeard, DnsChannel, Dns!NoStrayAnswer, Dns!DestroyedOnce, Ok
<1> QED BY <1>1, <1>2, <1>3

-----------------------------------------------------------------------------
\* The tunnel.  What was written, what is in the buffer and what waits at the socket are one
\* stream of increasing numbers; with what was lost they are all that was sent.
Increasing(s) == \A i, j \in DOMAIN s : i < j => s[i] < s[j]

Accounted(s, gone, n) ==
    /\ Increasing(s) /\ ToSet(s) \cup gone = 1 .. n /\ gone \cap ToSet(s) = {}

Stream == (out_tu \o buf) \o rx_tu

TunnelTypes ==
    /\ sent \in 0 .. MaxBytes /\ calls_tu \in 1 .. MaxCalls
    /\ pc_tu \in {"poll", "read", "write", "done", "crashed"} /\ ret \in {-1, 0}
    /\ out_tu \in Seq(Nat) /\ buf \in Seq(Nat) /\ rx_tu \in Seq(Nat)

TunnelFlags == use_ssl \in BOOLEAN /\ closed \in BOOLEAN /\ hooked \in BOOLEAN

TunnelPlaces ==
    /\ pc_tu \in {"poll", "read", "done", "crashed"} => buf = <<>>
    /\ pc_tu = "write" => use_ssl /\ buf # <<>>
    /\ pc_tu \in {"poll", "done"} => hooked
    /\ pc_tu = "read" /\ ~use_ssl => hooked

TunnelInv == TunnelTypes /\ TunnelFlags /\ TunnelPlaces /\ Accounted(Stream, lost, sent)

\* A byte that the client sends goes to the end of the stream.
LEMMA StreamGrows ==
    ASSUME NEW s \in Seq(Nat), NEW gone, NEW n \in Nat, Accounted(s, gone, n)
    PROVE  Accounted(Append(s, n + 1), gone, n + 1)
<1> DEFINE r == Append(s, n + 1)
<1>1. /\ Len(s) \in Nat /\ Len(r) = Len(s) + 1 /\ r[Len(s) + 1] = n + 1
      /\ DOMAIN s = 1 .. Len(s) /\ DOMAIN r = 1 .. Len(s) + 1
      /\ \A i \in 1 .. Len(s) : r[i] = s[i]
  OBVIOUS
<1> HIDE DEF r
<1>2. \A i \in 1 .. Len(s) : s[i] \in 1 .. n
  BY <1>1 DEF Accounted, ToSet
<1>3. Increasing(r)
  BY <1>1, <1>2 DEF Accounted, Increasing
<1>4. ToSet(r) = ToSet(s) \cup {n + 1}
  BY <1>1 DEF ToSet
<1>5. n + 1 \notin gone
  BY DEF Accounted
<1>6. ToSet(r) \cup gone = 1 .. n + 1
  <2>1. ToSet(s) \cup gone = 1 .. n
    BY DEF Accounted
  <2>2. (1 .. n) \cup {n + 1} = 1 .. n + 1
    OBVIOUS
  <2> QED BY <1>4, <2>1, <2>2
<1> QED BY <1>3, <1>4, <1>5, <1>6 DEF Accounted, r

\* A buffer that is dropped leaves the rest in order, and its bytes are lost and no others.
LEMMA StreamCut ==
    ASSUME NEW a \in Seq(Nat), NEW b \in Seq(Nat), NEW c \in Seq(Nat), NEW gone, NEW n,
           Accounted((a \o b) \o c, gone, n)
    PROVE  Accounted(a \o c, gone \cup ToSet(b), n)
<1> DEFINE s == (a \o b) \o c
           r == a \o c
           m == Len(a)
           k == Len(b)
           l == Len(c)
<1>1. /\ m \in Nat /\ k \in Nat /\ l \in Nat
      /\ DOMAIN s = 1 .. m + k + l /\ DOMAIN r = 1 .. m + l
      /\ DOMAIN a = 1 .. m /\ DOMAIN b = 1 .. k /\ DOMAIN c = 1 .. l
  OBVIOUS
<1>2. /\ \A i \in 1 .. m : s[i] = a[i] /\ r[i] = a[i]
      /\ \A i \in 1 .. k : s[m + i] = b[i]
      /\ \A i \in 1 .. l : s[m + k + i] = c[i] /\ r[m + i] = c[i]
  OBVIOUS
<1>3. Increasing(s) /\ ToSet(s) \cup gone = 1 .. n /\ gone \cap ToSet(s) = {}
  BY DEF Accounted
<1> HIDE DEF s, r, m, k, l
<1> DEFINE At(i) == IF i <= m THEN i ELSE k + i     \* where an element of r is in s
<1>a. /\ \A i \in 1 .. m + l : /\ At(i) \in 1 .. m + k + l
                              /\ \A j \in 1 .. k : At(i) # m + j
      /\ \A i, j \in 1 .. m + l : i < j => At(i) < At(j)
  BY <1>1
<1>4. \A i \in 1 .. m + l : r[i] = s[At(i)]
  <2> SUFFICES ASSUME NEW i \in 1 .. m + l, i > m PROVE r[i] = s[k + i]
    BY <1>1, <1>2
  <2>1. i - m \in 1 .. l /\ m + (i - m) = i /\ m + k + (i - m) = k + i
    BY <1>1
  <2> QED BY <1>2, <2>1
<1>b. \A i \in 1 .. m : i \in 1 .. m + l /\ At(i) = i
  BY <1>1
<1>c. \A i \in 1 .. m + k + l : i > m + k => i - k \in 1 .. m + l /\ At(i - k) = i
  BY <1>1
<1> HIDE DEF At
<1>5. Increasing(r)
  BY ONLY <1>1, <1>3, <1>4, <1>a DEF Increasing
<1>6. ASSUME NEW x PROVE x \in ToSet(s) <=> x \in ToSet(r) \/ x \in ToSet(b)
  <2>1. ASSUME x \in ToSet(s) PROVE x \in ToSet(r) \/ x \in ToSet(b)
    <3>1. PICK i \in 1 .. m + k + l : s[i] = x
      BY <1>1, <2>1 DEF ToSet
    <3>2. CASE i <= m
      <4>1. i \in 1 .. m
        BY <1>1, <3>2
      <4>2. i \in DOMAIN r /\ r[i] = x
        BY <1>1, <1>4, <1>b, <3>1, <4>1
      <4> QED BY <4>2 DEF ToSet
    <3>3. CASE i > m /\ i <= m + k
      <4>1. i - m \in 1 .. k /\ m + (i - m) = i
        BY <1>1, <3>3
      <4>2. b[i - m] = x
        BY <1>2, <3>1, <4>1
      <4> QED BY <1>1, <4>1, <4>2 DEF ToSet
    <3>4. CASE i > m + k
      <4>1. i - k \in DOMAIN r /\ r[i - k] = x
        BY <1>1, <1>4, <1>c, <3>1, <3>4
      <4> QED BY <4>1 DEF ToSet
    <3> QED BY <1>1, <3>2, <3>3, <3>4
  <2>2. ASSUME x \in ToSet(r) PROVE x \in ToSet(s)
    <3>1. PICK i \in 1 .. m + l : r[i] = x
      BY <1>1, <2>2 DEF ToSet
    <3>2. At(i) \in DOMAIN s /\ s[At(i)] = x
      BY <1>1, <1>4, <1>a, <3>1
    <3> QED BY <3>2 DEF ToSet
  <2>3. ASSUME x \in ToSet(b) PROVE x \in ToSet(s)
    <3>1. PICK i \in 1 .. k : b[i] = x
      BY <1>1, <2>3 DEF ToSet
    <3>2. m + i \in 1 .. m + k + l /\ s[m + i] = x
      BY <1>1, <1>2, <3>1
    <3> QED BY <1>1, <3>2 DEF ToSet
  <2> QED BY <2>1, <2>2, <2>3
<1>7. ASSUME NEW x \in ToSet(r), x \in ToSet(b) PROVE FALSE
  <2>1. PICK i \in 1 .. m + l : r[i] = x
    BY <1>1, <1>7 DEF ToSet
  <2>2. PICK j \in 1 .. k : b[j] = x
    BY <1>1, <1>7 DEF ToSet
  <2>3. s[m + j] = x /\ m + j \in DOMAIN s
    BY <1>1, <1>2, <2>2
  <2>4. s[At(i)] = x /\ At(i) \in DOMAIN s /\ At(i) # m + j
    BY <1>1, <1>4, <1>a, <2>1
  <2>5. x \in Nat /\ At(i) \in Nat /\ m + j \in Nat
    BY <1>1, <1>a, <2>1, <2>2
  <2>6. At(i) < m + j \/ m + j < At(i)
    BY <2>4, <2>5
  <2>7. x < x
    BY ONLY <1>3, <2>3, <2>4, <2>6 DEF Increasing
  <2> QED BY <2>5, <2>7
<1>8. ToSet(r) \cup (gone \cup ToSet(b)) = 1 .. n /\ (gone \cup ToSet(b)) \cap ToSet(r) = {}
  BY <1>3, <1>6, <1>7
<1> QED BY <1>5, <1>8 DEF Accounted, r

\* Nothing sent, nothing lost.
LEMMA TunnelInit == Tun!Init => TunnelInv
<1> SUFFICES ASSUME Tun!Init PROVE TunnelInv
  OBVIOUS
<1> USE DEF Tun!Init
<1>1. TunnelTypes
  BY DataAssumption DEF TunnelTypes, Tun!TunnelAssumption
<1>2. TunnelFlags
  BY Zenon DEF TunnelFlags
<1>3. TunnelPlaces
  BY DEF TunnelPlaces
<1>4. Accounted(Stream, lost, sent)
  <2>1. Stream = <<>> /\ lost = {} /\ sent = 0
    BY DEF Stream
  <2>2. ToSet(<<>>) = {} /\ 1 .. 0 = {} /\ Increasing(<<>>)
    BY DEF ToSet, Increasing
  <2> QED BY <2>1, <2>2 DEF Accounted
<1> QED BY <1>1, <1>2, <1>3, <1>4 DEF TunnelInv

\* The parts of the stream when its buffer is empty.
LEMMA NoBuffer ==
    ASSUME NEW a \in Seq(Nat), NEW c \in Seq(Nat)
    PROVE  (a \o <<>>) \o c = a \o c
<1>1. a \o <<>> = a
  OBVIOUS
<1> QED BY <1>1

\* A step that leaves the stream and the counts alone keeps the account.
LEMMA TunnelStill ==
    ASSUME TunnelInv, UNCHANGED <<sent, rx_tu, buf, out_tu, lost>>
    PROVE  Accounted(Stream, lost, sent)'
BY DEF TunnelInv, Accounted, Stream

\* tunnel() returns, with bytes in its buffer or without.
LEMMA TunnelDrops ==
    ASSUME TunnelInv, NEW r, Tun!Return(r), UNCHANGED <<sent, rx_tu, out_tu>>
    PROVE  buf' = <<>> /\ pc_tu' = "done" /\ ret' = r /\ Accounted(Stream, lost, sent)'
<1>1. /\ buf' = <<>> /\ pc_tu' = "done" /\ ret' = r /\ lost' = lost \cup ToSet(buf)
      /\ out_tu' = out_tu /\ rx_tu' = rx_tu /\ sent' = sent
  BY DEF Tun!Return, ToSet
<1>2. out_tu \in Seq(Nat) /\ buf \in Seq(Nat) /\ rx_tu \in Seq(Nat)
  BY DEF TunnelInv, TunnelTypes
<1>3. Accounted((out_tu \o buf) \o rx_tu, lost, sent)
  BY DEF TunnelInv, Stream
<1>4. Accounted(out_tu \o rx_tu, lost \cup ToSet(buf), sent)
  BY ONLY <1>2, <1>3, StreamCut
<1>5. (out_tu \o <<>>) \o rx_tu = out_tu \o rx_tu
  BY ONLY <1>2, NoBuffer
<1>6. Accounted((out_tu \o <<>>) \o rx_tu, lost \cup ToSet(buf), sent)
  BY ONLY <1>4, <1>5
<1>7. Accounted((out_tu' \o buf') \o rx_tu', lost', sent')
  BY ONLY <1>1, <1>6
<1> QED BY <1>1, <1>7 DEF Stream, Accounted

\* A byte more at the end of what waits is a byte more at the end of the stream.
LEMMA BytesAppended ==
    ASSUME NEW a \in Seq(Nat), NEW b \in Seq(Nat), NEW e \in Nat
    PROVE  Append(a \o b, e) = a \o Append(b, e)
<1>1. <<e>> \in Seq(Nat) /\ a \o b \in Seq(Nat)
  BY ConcatProperties
<1>2. Append(b, e) = b \o <<e>>
  BY <1>1
<1>3. Append(a \o b, e) = (a \o b) \o <<e>>
  BY <1>1
<1>4. (a \o b) \o <<e>> = a \o (b \o <<e>>)
  BY <1>1, ConcatAssociative
<1> QED BY ONLY <1>2, <1>3, <1>4

\* Splits for numbered bytes.
BytesMove(s, r, n, p, q) == Splits(Nat, s, r, n, p, q)
SameStream(s, r, p, q) == p \in Seq(Nat) /\ q \in Seq(Nat) /\ p \o q = s \o r

\* Bytes that move from one part of the stream to the next keep their order.
LEMMA BytesSplit ==
    ASSUME NEW s, NEW r, NEW n, NEW p, NEW q, BytesMove(s, r, n, p, q)
    PROVE  SameStream(s, r, p, q)
<1> DEFINE N == Nat
<1>1. Splits(N, s, r, n, p, q)
  BY DEF BytesMove
<1> HIDE DEF N
<1>2. p \in Seq(N) /\ q \in Seq(N) /\ p \o q = s \o r
  BY ONLY <1>1, SplitConcat
<1> QED BY <1>2 DEF N, SameStream

\* The client sends a byte.
LEMMA TunnelSends ==
    ASSUME TunnelInv, Tun!ClientSends
    PROVE  TunnelInv'
<1>1. /\ sent' = sent + 1 /\ sent < MaxBytes /\ rx_tu' = Append(rx_tu, sent + 1)
      /\ UNCHANGED <<buf, out_tu, lost, pipes, calls_tu, pc_tu, ret>>
  BY DEF Tun!ClientSends
<1>2. use_ssl' = use_ssl /\ closed' = closed /\ hooked' = hooked
  BY Zenon DEF Tun!ClientSends
<1>3. out_tu \in Seq(Nat) /\ buf \in Seq(Nat) /\ rx_tu \in Seq(Nat) /\ sent \in Nat /\ sent + 1 \in Nat
  BY DataAssumption DEF TunnelInv, TunnelTypes, Tun!TunnelAssumption
<1>4. TunnelTypes'
  BY <1>1, <1>3, DataAssumption DEF TunnelInv, TunnelTypes, Tun!TunnelAssumption
<1>5. TunnelFlags' /\ TunnelPlaces'
  BY <1>1, <1>2, Zenon DEF TunnelInv, TunnelFlags, TunnelPlaces
<1>6. Accounted(Stream, lost, sent)'
  <2>0. Stream \in Seq(Nat)
    BY <1>3, ConcatProperties DEF Stream
  <2>1. Accounted(Append(Stream, sent + 1), lost, sent + 1)
    BY ONLY <1>3, <2>0, TunnelInv, StreamGrows DEF TunnelInv
  <2>2. Append((out_tu \o buf) \o rx_tu, sent + 1) = (out_tu \o buf) \o Append(rx_tu, sent + 1)
    <3> DEFINE b == out_tu \o buf
               e == sent + 1
    <3>1. b \in Seq(Nat) /\ rx_tu \in Seq(Nat) /\ e \in Nat
      BY <1>3, ConcatProperties
    <3> HIDE DEF b, e
    <3>2. Append(b \o rx_tu, e) = b \o Append(rx_tu, e)
      BY ONLY <3>1, BytesAppended
    <3> QED BY <3>2 DEF b, e
  <2>3. Accounted((out_tu' \o buf') \o rx_tu', lost', sent')
    BY ONLY <1>1, <2>1, <2>2 DEF Stream
  <2> QED BY <2>3 DEF Stream, Accounted
<1> QED BY <1>4, <1>5, <1>6 DEF TunnelInv

\* Bytes go from the socket into the buffer.
LEMMA TunnelReads ==
    ASSUME TunnelInv, NEW k, Tun!sslRead(k)
    PROVE  TunnelInv'
<1>1. /\ pc_tu = "read" /\ k \in 1 .. Len(rx_tu)
      /\ buf' = SubSeq(rx_tu, 1, k) /\ rx_tu' = SubSeq(rx_tu, k + 1, Len(rx_tu)) /\ pc_tu' = "write"
      /\ UNCHANGED <<sent, out_tu, lost, pipes, calls_tu, ret>>
  BY DEF Tun!sslRead, Tun!peer
<1>2. use_ssl /\ use_ssl' = use_ssl /\ closed' = closed /\ hooked' = hooked
  BY Zenon DEF Tun!sslRead, Tun!peer
<1>3. out_tu \in Seq(Nat) /\ buf = <<>> /\ rx_tu \in Seq(Nat) /\ Len(rx_tu) \in Nat
  BY <1>1 DEF TunnelInv, TunnelTypes, TunnelPlaces
<1>4. BytesMove(out_tu, rx_tu, k, out_tu \o buf', rx_tu')
  BY <1>1, <1>3 DEF BytesMove, Splits
<1>5. rx_tu' \in Seq(Nat) /\ (out_tu \o buf') \o rx_tu' = out_tu \o rx_tu
  <2>1. SameStream(out_tu, rx_tu, out_tu \o buf', rx_tu')
    BY ONLY <1>4, BytesSplit
  <2> QED BY <2>1 DEF SameStream
<1>6. buf' \in Seq(Nat) /\ buf' # <<>>
  <2>1. buf' \in Seq(Nat) /\ Len(buf') = k /\ k > 0
    BY <1>1, <1>3, SubSeqProperties
  <2> QED BY <2>1
<1>7. TunnelTypes'
  BY <1>1, <1>5, <1>6 DEF TunnelInv, TunnelTypes
<1>8. TunnelFlags'
  BY <1>2, Zenon DEF TunnelInv, TunnelFlags
<1>9. TunnelPlaces'
  BY <1>1, <1>2, <1>6 DEF TunnelPlaces
<1>10. Accounted(Stream, lost, sent)'
  <2>1. (out_tu \o buf) \o rx_tu = out_tu \o rx_tu
    BY <1>3, NoBuffer
  <2>2. (out_tu' \o buf') \o rx_tu' = (out_tu \o buf) \o rx_tu
    BY ONLY <1>1, <1>5, <2>1
  <2>3. Accounted((out_tu' \o buf') \o rx_tu', lost', sent')
    BY ONLY <1>1, <2>2, TunnelInv DEF TunnelInv, Stream
  <2> QED BY <2>3 DEF Stream, Accounted
<1> QED BY <1>7, <1>8, <1>9, <1>10 DEF TunnelInv

\* Bytes go from the buffer to the server; the call polls again when it is empty.
LEMMA TunnelWrites ==
    ASSUME TunnelInv, NEW k, Tun!sslWrite(k)
    PROVE  TunnelInv'
<1>1. /\ pc_tu = "write" /\ k \in 1 .. Len(buf)
      /\ out_tu' = out_tu \o SubSeq(buf, 1, k) /\ buf' = SubSeq(buf, k + 1, Len(buf))
      /\ UNCHANGED <<sent, rx_tu, lost, pipes, calls_tu, ret>>
  BY DEF Tun!sslWrite, Tun!peer
<1>2. /\ use_ssl' = use_ssl /\ closed' = closed
      /\ \/ k < Len(buf) /\ pc_tu' = pc_tu /\ hooked' = hooked
         \/ k = Len(buf) /\ pc_tu' = "poll" /\ hooked' = TRUE
  BY DEF Tun!sslWrite, Tun!peer, Tun!Rehook
<1>3. out_tu \in Seq(Nat) /\ buf \in Seq(Nat) /\ Len(buf) \in Nat
  BY DEF TunnelInv, TunnelTypes
<1>4. BytesMove(out_tu, buf, k, out_tu', buf')
  BY <1>1, <1>3 DEF BytesMove, Splits
<1>5. out_tu' \in Seq(Nat) /\ buf' \in Seq(Nat) /\ out_tu' \o buf' = out_tu \o buf
  <2>1. SameStream(out_tu, buf, out_tu', buf')
    BY ONLY <1>4, BytesSplit
  <2> QED BY <2>1 DEF SameStream
<1>6. Len(buf') = Len(buf) - k
  <2>1. k + 1 \in 1 .. Len(buf) + 1
    BY <1>1, <1>3
  <2> QED BY <1>1, <1>3, <2>1, SubSeqProperties
<1>7. TunnelTypes'
  BY <1>1, <1>2, <1>5 DEF TunnelInv, TunnelTypes
<1>8. TunnelFlags'
  <2>1. hooked' \in BOOLEAN
    BY <1>2 DEF TunnelInv, TunnelFlags
  <2> QED BY <1>2, <2>1, Zenon DEF TunnelInv, TunnelFlags
<1>9. TunnelPlaces'
  <2>1. CASE k < Len(buf)
    <3>1. pc_tu' = "write"
      BY <1>1, <1>2, <1>3, <2>1
    <3>2. use_ssl /\ use_ssl' = use_ssl
      BY <1>1, <1>2, Zenon DEF TunnelInv, TunnelPlaces
    <3>3. buf' # <<>>
      <4>1. Len(buf') # 0
        BY <1>1, <1>3, <1>6, <2>1
      <4> QED BY ONLY <4>1
    <3> QED BY <3>1, <3>2, <3>3 DEF TunnelPlaces
  <2>2. CASE k = Len(buf)
    <3>1. pc_tu' = "poll" /\ hooked' /\ buf' = <<>>
      BY <1>1, <1>2, <1>3, <1>5, <1>6, <2>2
    <3> QED BY <3>1 DEF TunnelPlaces
  <2> QED BY <1>1, <1>3, <2>1, <2>2
<1>10. Accounted(Stream, lost, sent)'
  <2>1. Accounted((out_tu' \o buf') \o rx_tu', lost', sent')
    BY ONLY <1>1, <1>5, TunnelInv DEF TunnelInv, Stream
  <2> QED BY <2>1 DEF Stream, Accounted
<1> QED BY <1>7, <1>8, <1>9, <1>10 DEF TunnelInv

\* A call that returns is hooked: SpliceSocketData never was unhooked, and ~Unhook() runs at
\* every return of SpliceSSLData.
LEMMA TunnelReturns ==
    ASSUME TunnelInv, \/ Tun!pollTimeout \/ Tun!SpliceSocketData
                      \/ Tun!sslReadFails \/ Tun!sslWriteFails
    PROVE  TunnelInv'
<1>1. PICK r \in {-1, 0} : Tun!Return(r)
  BY DEF Tun!pollTimeout, Tun!SpliceSocketData, Tun!sslReadFails, Tun!sslWriteFails
<1>2. UNCHANGED <<sent, rx_tu, out_tu, calls_tu>>
  BY DEF Tun!pollTimeout, Tun!SpliceSocketData, Tun!sslReadFails, Tun!sslWriteFails, Tun!peer
<1>3. use_ssl' = use_ssl /\ closed' = closed
  BY Zenon DEF Tun!pollTimeout, Tun!SpliceSocketData, Tun!sslReadFails, Tun!sslWriteFails, Tun!peer
<1>4. hooked' = TRUE
  <2>1. CASE Tun!sslReadFails \/ Tun!sslWriteFails
    BY <2>1, Zenon DEF Tun!sslReadFails, Tun!sslWriteFails, Tun!Rehook
  <2>2. CASE Tun!pollTimeout \/ Tun!SpliceSocketData
    <3>1. hooked /\ hooked' = hooked
      BY <2>2 DEF Tun!pollTimeout, Tun!SpliceSocketData, TunnelInv, TunnelPlaces
    <3> QED BY <3>1 DEF TunnelInv, TunnelFlags
  <2> QED BY <2>1, <2>2
<1>5. buf' = <<>> /\ pc_tu' = "done" /\ ret' = r /\ Accounted(Stream, lost, sent)'
  BY <1>1, <1>2, TunnelDrops
<1>6. TunnelTypes'
  BY <1>2, <1>5 DEF TunnelInv, TunnelTypes
<1>7. TunnelFlags'
  BY <1>3, <1>4, Zenon DEF TunnelInv, TunnelFlags
<1>8. TunnelPlaces'
  BY <1>4, <1>5 DEF TunnelPlaces
<1> QED BY <1>5, <1>6, <1>7, <1>8 DEF TunnelInv

\* The poll, the read that crashes, a further call, the close of the client.
LEMMA TunnelMoves ==
    ASSUME TunnelInv, \/ Tun!poll \/ Tun!sslReadAgain \/ Tun!tunnelAgain \/ Tun!ClientCloses
                      \/ UNCHANGED tunnelVars
    PROVE  TunnelInv'
<1> USE DEF Tun!poll, Tun!sslReadAgain, Tun!tunnelAgain, Tun!ClientCloses, tunnelVars, Tun!peer
<1>1. UNCHANGED <<sent, rx_tu, buf, out_tu, lost>>
  OBVIOUS
<1>2. TunnelTypes'
  <2>1. /\ MaxCalls \in Nat
        /\ calls_tu' = calls_tu \/ (calls_tu' = calls_tu + 1 /\ calls_tu < MaxCalls)
    BY DataAssumption DEF Tun!TunnelAssumption
  <2>2. /\ pc_tu' \in {"read", "crashed", "poll"} \/ pc_tu' = pc_tu
        /\ ret' = 0 \/ ret' = ret
    OBVIOUS
  <2> QED BY <1>1, <2>1, <2>2 DEF TunnelInv, TunnelTypes
<1>3. use_ssl' = use_ssl /\ closed' \in BOOLEAN /\ hooked' \in BOOLEAN
  BY DEF TunnelInv, TunnelFlags
<1>4. TunnelFlags'
  BY <1>3, Zenon DEF TunnelInv, TunnelFlags
<1>5. TunnelPlaces'
  <2>1. CASE Tun!poll
    BY <2>1, <1>1 DEF TunnelInv, TunnelPlaces
  <2>2. CASE Tun!sslReadAgain
    BY <2>2, <1>1 DEF TunnelInv, TunnelPlaces
  <2>3. CASE Tun!tunnelAgain
    BY <2>3, <1>1 DEF TunnelInv, TunnelPlaces
  <2>4. CASE Tun!ClientCloses \/ UNCHANGED tunnelVars
    <3>1. use_ssl' = use_ssl /\ hooked' = hooked /\ pc_tu' = pc_tu /\ buf' = buf
      BY <2>4, Zenon
    <3> QED BY <3>1, Zenon DEF TunnelInv, TunnelPlaces
  <2> QED BY <2>1, <2>2, <2>3, <2>4
<1>6. Accounted(Stream, lost, sent)'
  BY <1>1, TunnelStill
<1> QED BY <1>2, <1>4, <1>5, <1>6 DEF TunnelInv

\* Every step keeps TunnelInv.
LEMMA TunnelNext == TunnelInv /\ [Tun!Next]_tunnelVars => TunnelInv'
BY TunnelSends, TunnelReads, TunnelWrites, TunnelReturns, TunnelMoves DEF Tun!Next, Tun!Step

\* What TunnelInv says of the properties of Tunnel.
LEMMA TunnelRight ==
    ASSUME TunnelInv
    PROVE  Tun!TunnelTypeOK /\ Tun!CarriedInOrder /\ Tun!HookedOutside
<1>1. {use_ssl, closed, hooked} \subseteq BOOLEAN
  BY Zenon DEF TunnelInv, TunnelFlags
<1>2. Tun!TunnelTypeOK
  BY <1>1 DEF TunnelInv, TunnelTypes, TunnelPlaces, Tun!TunnelTypeOK
<1>3. Tun!CarriedInOrder
  BY DEF TunnelInv, Accounted, Increasing, ToSet, Stream, Tun!CarriedInOrder
<1>4. Tun!HookedOutside
  BY DEF TunnelInv, TunnelPlaces, Tun!HookedOutside
<1> QED BY <1>2, <1>3, <1>4

-----------------------------------------------------------------------------
\* The body of a message.  While nothing is mixed up, a TempFile in memory has read its file
\* to the end: this is what makes the spill keep the order.
ByteSet == 0 .. Bytes - 1

BodyTypes ==
    /\ bodyMode \in {"temp", "disk"} /\ fMode \in {"buffer", "file"}
    /\ fBuf \in Seq(ByteSet) /\ tmp \in Seq(ByteSet) /\ pFile \in Seq(ByteSet)
    /\ Len(fBuf) <= kMemoryLimit
    /\ tmpOff \in 0 .. Len(tmp) /\ pOff \in 0 .. Len(pFile) /\ next_bo \in ByteSet

BodyFlags == /\ linked \in BOOLEAN /\ whole \in BOOLEAN /\ mixed \in BOOLEAN
             /\ stalled \in BOOLEAN

FileRead == fMode = "buffer" /\ ~mixed => tmpOff = Len(tmp)

BodyInv == BodyTypes /\ BodyFlags /\ FileRead /\ Body!BodyInOrder /\ Body!SentWhole
           /\ Body!SpillEmpties

\* What is left of a sequence.
LEMMA FromIs ==
    ASSUME NEW S, NEW s \in Seq(S), NEW o \in 0 .. Len(s)
    PROVE  /\ Body!From(s, o) \in Seq(S) /\ Len(Body!From(s, o)) = Len(s) - o
           /\ \A i \in 1 .. Len(s) - o : Body!From(s, o)[i] = s[o + i]
<1>1. Len(s) \in Nat /\ o + 1 \in 1 .. Len(s) + 1
  OBVIOUS
<1>2. /\ Body!From(s, o) \in Seq(S) /\ Len(Body!From(s, o)) = Len(s) - (o + 1) + 1
      /\ \A i \in 1 .. Len(s) - (o + 1) + 1 : Body!From(s, o)[i] = s[o + 1 + i - 1]
  BY <1>1, SubSeqProperties DEF Body!From
<1> QED BY <1>1, <1>2

\* Reading on from where one has read to.
LEMMA FromFrom ==
    ASSUME NEW S, NEW s \in Seq(S), NEW o \in 0 .. Len(s), NEW n \in 0 .. Len(s) - o
    PROVE  Body!From(Body!From(s, o), n) = Body!From(s, o + n)
<1> DEFINE r == Body!From(s, o)
           a == Body!From(r, n)
           b == Body!From(s, o + n)
<1>0. Len(s) \in Nat
  OBVIOUS
<1>1. /\ r \in Seq(S) /\ Len(r) = Len(s) - o
      /\ \A i \in 1 .. Len(s) - o : r[i] = s[o + i]
  BY FromIs
<1> HIDE DEF r
<1>2. /\ a \in Seq(S) /\ Len(a) = Len(r) - n
      /\ \A i \in 1 .. Len(r) - n : a[i] = r[n + i]
  <2>1. r \in Seq(S) /\ n \in 0 .. Len(r)
    BY <1>0, <1>1
  <2> QED BY ONLY <2>1, FromIs
<1>3. /\ b \in Seq(S) /\ Len(b) = Len(s) - (o + n)
      /\ \A i \in 1 .. Len(s) - (o + n) : b[i] = s[(o + n) + i]
  <2>1. o + n \in 0 .. Len(s)
    BY <1>0
  <2> QED BY <2>1, FromIs
<1> HIDE DEF a, b
<1>4. \A i \in 1 .. Len(a) : a[i] = b[i]
  <2> SUFFICES ASSUME NEW i \in 1 .. Len(a) PROVE a[i] = b[i]
    OBVIOUS
  <2>1. i \in 1 .. Len(r) - n /\ n + i \in 1 .. Len(s) - o /\ o + (n + i) = (o + n) + i
        /\ i \in 1 .. Len(s) - (o + n)
    BY <1>0, <1>1, <1>2
  <2> QED BY ONLY <1>1, <1>2, <1>3, <2>1
<1>5. a = b
  <2>1. Len(a) = Len(b)
    BY <1>0, <1>1, <1>2, <1>3
  <2> QED BY ONLY <1>2, <1>3, <1>4, <2>1, SeqEqual
<1> QED BY <1>5 DEF a, b, r

\* What is left of a sequence that grows.
LEMMA FromGrows ==
    ASSUME NEW S, NEW s \in Seq(S), NEW u \in Seq(S), NEW o \in 0 .. Len(s)
    PROVE  Body!From(s \o u, o) = Body!From(s, o) \o u
<1> DEFINE w == s \o u
           a == Body!From(w, o)
           r == Body!From(s, o)
           b == r \o u
<1>0. Len(s) \in Nat /\ Len(u) \in Nat
  OBVIOUS
<1>1. /\ w \in Seq(S) /\ Len(w) = Len(s) + Len(u)
      /\ \A i \in 1 .. Len(s) + Len(u) : w[i] = IF i <= Len(s) THEN s[i] ELSE u[i - Len(s)]
  BY ConcatProperties
<1> HIDE DEF w
<1>2. /\ a \in Seq(S) /\ Len(a) = Len(w) - o
      /\ \A i \in 1 .. Len(w) - o : a[i] = w[o + i]
  <2>1. w \in Seq(S) /\ o \in 0 .. Len(w)
    BY <1>0, <1>1
  <2> QED BY ONLY <2>1, FromIs
<1>3. /\ r \in Seq(S) /\ Len(r) = Len(s) - o
      /\ \A i \in 1 .. Len(s) - o : r[i] = s[o + i]
  BY FromIs
<1> HIDE DEF a, r
<1>4. /\ b \in Seq(S) /\ Len(b) = Len(r) + Len(u)
      /\ \A i \in 1 .. Len(r) + Len(u) : b[i] = IF i <= Len(r) THEN r[i] ELSE u[i - Len(r)]
  BY <1>3, ConcatProperties
<1> HIDE DEF b
<1>5. \A i \in 1 .. Len(a) : a[i] = b[i]
  BY <1>0, <1>1, <1>2, <1>3, <1>4
<1>6. a = b
  <2>1. Len(a) = Len(b)
    BY <1>0, <1>1, <1>2, <1>3, <1>4
  <2> QED BY ONLY <1>2, <1>4, <1>5, <2>1, SeqEqual
<1> QED BY <1>6 DEF a, b, r, w

\* What is stored, apart from the flags of the last send.
StoreInv == BodyTypes /\ FileRead /\ Body!BodyInOrder /\ Body!SpillEmpties

\* The readers of the body see bytes.
LEMMA UnreadIs ==
    ASSUME BodyTypes
    PROVE  Body!Unread \in Seq(ByteSet) /\ Len(Body!Unread) \in Nat
<1>1. /\ fBuf \in Seq(ByteSet) /\ tmp \in Seq(ByteSet) /\ pFile \in Seq(ByteSet)
      /\ tmpOff \in 0 .. Len(tmp) /\ pOff \in 0 .. Len(pFile)
  BY DEF BodyTypes
<1>2. Body!From(tmp, tmpOff) \in Seq(ByteSet) /\ Body!From(pFile, pOff) \in Seq(ByteSet)
  BY ONLY <1>1, FromIs
<1>3. Body!Unread \in Seq(ByteSet)
  BY <1>1, <1>2 DEF Body!Unread
<1> QED BY <1>3

\* The bytes of a write.
LEMMA FreshBytes ==
    ASSUME BodyTypes, NEW n \in Nat
    PROVE  /\ Body!Fresh(n) \in Seq(ByteSet) /\ Len(Body!Fresh(n)) = n
           /\ (next_bo + n) % Bytes \in ByteSet
<1>1. Bytes \in Nat \ {0} /\ next_bo \in Nat
  BY DataAssumption DEF BodyTypes, ByteSet, Body!BodyAssumption
<1>2. \A k \in Nat : k % Bytes \in ByteSet
  BY <1>1, SMTT(30) DEF ByteSet
<1>3. \A i \in 1 .. n : next_bo + i - 1 \in Nat
  BY <1>1
<1>4. Body!Fresh(n) \in Seq(ByteSet) /\ Len(Body!Fresh(n)) = n
  <2>1. \A i \in 1 .. n : (next_bo + i - 1) % Bytes \in ByteSet
    BY <1>2, <1>3
  <2> QED BY <2>1 DEF Body!Fresh
<1>5. (next_bo + n) % Bytes \in ByteSet
  BY <1>1, <1>2
<1> QED BY <1>4, <1>5

\* n bytes leave at the front.
LEMMA Consumed ==
    ASSUME StoreInv, NEW n \in 0 .. Len(Body!Unread), Body!Consume(n),
           bodyMode' = bodyMode, next_bo' = next_bo, mixed' = mixed, mixed \in BOOLEAN,
           ~mixed \/ bodyMode = "disk" => expect_bo' = Body!From(expect_bo, n)
    PROVE  StoreInv' /\ linked' = linked
<1>0. /\ fBuf \in Seq(ByteSet) /\ tmp \in Seq(ByteSet) /\ pFile \in Seq(ByteSet)
      /\ tmpOff \in 0 .. Len(tmp) /\ pOff \in 0 .. Len(pFile) /\ n \in Nat
      /\ Len(tmp) \in Nat /\ Len(pFile) \in Nat /\ Len(fBuf) \in Nat
  BY UnreadIs DEF StoreInv, BodyTypes
<1>m. bodyMode \in {"temp", "disk"} /\ fMode \in {"buffer", "file"}
  BY DEF StoreInv, BodyTypes
<1>k. kMemoryLimit \in Nat
  BY DataAssumption DEF Body!BodyAssumption
<1>u. Body!Unread' = Body!From(Body!Unread, n) /\ fMode' = fMode /\ tmp' = tmp /\ pFile' = pFile
      /\ fBuf' \in Seq(ByteSet) /\ Len(fBuf') <= kMemoryLimit
      /\ tmpOff' \in 0 .. Len(tmp) /\ pOff' \in 0 .. Len(pFile)
      /\ (fMode = "buffer" => tmpOff' = tmpOff) /\ (fMode = "file" => fBuf' = fBuf)
  <2>1. CASE bodyMode = "disk"
    <3>1. pOff' = pOff + n /\ UNCHANGED <<pFile, fMode, fBuf, tmp, tmpOff>>
      BY <2>1 DEF Body!Consume, Body!tvars
    <3>2. Body!Unread = Body!From(pFile, pOff) /\ Body!Unread' = Body!From(pFile, pOff + n)
      BY <2>1, <3>1 DEF Body!Unread, Body!From
    <3>3. n \in 0 .. Len(pFile) - pOff
      <4>1. Len(Body!From(pFile, pOff)) = Len(pFile) - pOff
        BY ONLY <1>0, FromIs
      <4> QED BY <3>2, <4>1
    <3>4. Body!From(Body!From(pFile, pOff), n) = Body!From(pFile, pOff + n)
      BY ONLY <1>0, <3>3, FromFrom
    <3> QED BY <1>0, <3>1, <3>2, <3>3, <3>4 DEF StoreInv, BodyTypes
  <2>2. CASE bodyMode = "temp" /\ fMode = "file"
    <3>1. tmpOff' = tmpOff + n /\ UNCHANGED <<pFile, pOff, fMode, fBuf, tmp>>
      BY <2>2 DEF Body!Consume, Body!fvars
    <3>2. Body!Unread = Body!From(tmp, tmpOff) /\ Body!Unread' = Body!From(tmp, tmpOff + n)
      BY <2>2, <3>1 DEF Body!Unread, Body!From
    <3>3. n \in 0 .. Len(tmp) - tmpOff
      <4>1. Len(Body!From(tmp, tmpOff)) = Len(tmp) - tmpOff
        BY ONLY <1>0, FromIs
      <4> QED BY <3>2, <4>1
    <3>4. Body!From(Body!From(tmp, tmpOff), n) = Body!From(tmp, tmpOff + n)
      BY ONLY <1>0, <3>3, FromFrom
    <3> QED BY <1>0, <2>2, <3>1, <3>2, <3>3, <3>4 DEF StoreInv, BodyTypes
  <2>3. CASE bodyMode = "temp" /\ fMode = "buffer"
    <3>1. fBuf' = Body!From(fBuf, n) /\ UNCHANGED <<pFile, pOff, fMode, tmp, tmpOff>>
      BY <2>3 DEF Body!Consume, Body!fvars
    <3>2. Body!Unread = fBuf /\ Body!Unread' = fBuf'
      BY <2>3, <3>1 DEF Body!Unread
    <3>3. Body!From(fBuf, n) \in Seq(ByteSet) /\ Len(Body!From(fBuf, n)) = Len(fBuf) - n
      <4>1. n \in 0 .. Len(fBuf)
        BY <3>2
      <4> QED BY ONLY <1>0, <4>1, FromIs
    <3> QED BY <1>0, <1>k, <2>3, <3>1, <3>2, <3>3 DEF StoreInv, BodyTypes
  <2> QED BY <1>m, <2>1, <2>2, <2>3
<1>1. BodyTypes'
  BY <1>m, <1>u DEF StoreInv, BodyTypes
<1>2. FileRead'
  BY <1>u DEF StoreInv, FileRead
<1>3. Body!BodyInOrder'
  BY <1>u DEF StoreInv, Body!BodyInOrder
<1>4. Body!SpillEmpties'
  BY <1>u DEF StoreInv, Body!SpillEmpties
<1>5. linked' = linked
  BY Zenon DEF Body!Consume, Body!tvars
<1> QED BY <1>1, <1>2, <1>3, <1>4, <1>5 DEF StoreInv

\* A TempFile whose buffer goes to its file, followed by s.
LEMMA Spilt ==
    ASSUME StoreInv, NEW s \in Seq(ByteSet), bodyMode = "temp", ~mixed, Body!dumpToFile(s)
    PROVE  Body!From(tmp', tmpOff') = Body!Unread \o s
<1>1. /\ fBuf \in Seq(ByteSet) /\ tmp \in Seq(ByteSet) /\ tmpOff \in 0 .. Len(tmp)
      /\ fMode \in {"buffer", "file"} /\ tmpOff' = tmpOff /\ tmp' = (tmp \o fBuf) \o s
  BY DEF StoreInv, BodyTypes, Body!dumpToFile
<1> DEFINE w == tmp \o fBuf
<1>2. w \in Seq(ByteSet) /\ tmpOff \in 0 .. Len(w)
  <2>1. w \in Seq(ByteSet) /\ Len(w) = Len(tmp) + Len(fBuf)
    BY <1>1, ConcatProperties
  <2> QED BY <1>1, <2>1
<1>3. Body!From(w, tmpOff) = Body!From(tmp, tmpOff) \o fBuf
  BY ONLY <1>1, FromGrows
<1> HIDE DEF w
<1>4. Body!From(w \o s, tmpOff) = Body!From(w, tmpOff) \o s
  BY ONLY <1>2, s \in Seq(ByteSet), FromGrows
<1>5. Body!From(w, tmpOff) = Body!Unread
  <2>0. /\ Body!From(tmp, tmpOff) \in Seq(ByteSet)
        /\ Len(Body!From(tmp, tmpOff)) = Len(tmp) - tmpOff
    BY ONLY <1>1, FromIs
  <2>1. CASE fMode = "buffer"
    <3>1. Len(Body!From(tmp, tmpOff)) = 0
      BY <1>1, <2>0, <2>1 DEF StoreInv, FileRead
    <3>2. Body!From(tmp, tmpOff) = <<>>
      BY <2>0, <3>1
    <3>3. <<>> \o fBuf = fBuf
      BY <1>1
    <3> QED BY <1>3, <2>1, <3>2, <3>3 DEF Body!Unread
  <2>2. CASE fMode = "file"
    <3>1. fBuf = <<>>
      BY <2>2 DEF StoreInv, Body!SpillEmpties
    <3>2. Body!From(tmp, tmpOff) \o <<>> = Body!From(tmp, tmpOff)
      BY <2>0
    <3> QED BY <1>3, <2>2, <3>1, <3>2 DEF Body!Unread
  <2> QED BY <1>1, <2>1, <2>2
<1> QED BY <1>1, <1>4, <1>5 DEF w

\* Bytes are added at the end, in memory, with a spill, or in a file.
LEMMA BodyWrite ==
    ASSUME StoreInv, NEW n \in Nat, Body!write(n), mixed \in BOOLEAN
    PROVE  /\ StoreInv' /\ linked' = linked /\ whole' = whole /\ mixed' = mixed
           /\ stalled' = stalled
<1> DEFINE s == Body!Fresh(n)
<1>b. BodyTypes
  BY DEF StoreInv
<1>s. s \in Seq(ByteSet) /\ Len(s) = n /\ (next_bo + n) % Bytes \in ByteSet
  BY <1>b, FreshBytes
<1>0. /\ fBuf \in Seq(ByteSet) /\ tmp \in Seq(ByteSet) /\ pFile \in Seq(ByteSet)
      /\ tmpOff \in 0 .. Len(tmp) /\ pOff \in 0 .. Len(pFile)
      /\ Len(tmp) \in Nat /\ Len(pFile) \in Nat /\ Len(fBuf) \in Nat
      /\ bodyMode \in {"temp", "disk"} /\ fMode \in {"buffer", "file"}
  BY <1>b DEF BodyTypes
<1>k. kMemoryLimit \in Nat
  BY DataAssumption DEF Body!BodyAssumption
<1>1. /\ next_bo' = (next_bo + n) % Bytes /\ expect_bo' = expect_bo \o s /\ bodyMode' = bodyMode
      /\ \/ /\ bodyMode = "disk" /\ pFile' = pFile \o s /\ UNCHANGED <<pOff, Body!tvars>>
         \/ bodyMode = "temp" /\ Body!tempWrite(s) /\ UNCHANGED <<pFile, pOff>>
  BY DEF Body!write, Body!fvars
<1>2. whole' = whole /\ mixed' = mixed /\ stalled' = stalled
  BY Zenon DEF Body!write
<1>3. linked' = linked
  BY <1>1, Zenon DEF Body!tvars, Body!tempWrite, Body!dumpToFile
<1> HIDE DEF s
<1>4. CASE bodyMode = "disk"
  <2>1. pFile' = pFile \o s /\ UNCHANGED <<pOff, fMode, fBuf, tmp, tmpOff>>
    BY <1>1, <1>4 DEF Body!tvars
  <2>2. pFile \o s \in Seq(ByteSet) /\ Len(pFile \o s) = Len(pFile) + Len(s)
    BY <1>0, <1>s, ConcatProperties
  <2>3. BodyTypes'
    BY <1>0, <1>1, <1>4, <1>s, <1>b, <2>1, <2>2 DEF BodyTypes
  <2>4. FileRead' /\ Body!SpillEmpties'
    BY <1>2, <2>1 DEF StoreInv, FileRead, Body!SpillEmpties
  <2>5. Body!Unread = expect_bo /\ Body!Unread = Body!From(pFile, pOff)
    BY <1>4 DEF StoreInv, Body!BodyInOrder, Body!Unread
  <2>6. Body!From(pFile \o s, pOff) = Body!From(pFile, pOff) \o s
    BY ONLY <1>0, <1>s, FromGrows
  <2>7. Body!Unread' = Body!From(pFile \o s, pOff)
    BY <1>1, <1>4, <2>1 DEF Body!Unread, Body!From
  <2>8. Body!BodyInOrder'
    BY <1>1, <2>5, <2>6, <2>7 DEF Body!BodyInOrder
  <2> QED BY <1>2, <1>3, <2>3, <2>4, <2>8 DEF StoreInv
<1>5. CASE bodyMode = "temp"
  <2>1. bodyMode' = "temp" /\ Body!tempWrite(s) /\ pFile' = pFile /\ pOff' = pOff
    BY <1>1, <1>5
  <2>2. CASE fMode = "buffer" /\ Len(fBuf) + Len(s) <= kMemoryLimit
    <3>1. fBuf' = fBuf \o s /\ UNCHANGED <<fMode, tmp, tmpOff>>
      BY <1>0, <1>k, <1>s, <2>1, <2>2 DEF Body!tempWrite
    <3>2. fBuf \o s \in Seq(ByteSet) /\ Len(fBuf \o s) = Len(fBuf) + Len(s)
      BY <1>0, <1>s, ConcatProperties
    <3>3. BodyTypes'
      BY <1>0, <1>1, <1>s, <2>1, <2>2, <3>1, <3>2 DEF BodyTypes
    <3>4. FileRead' /\ Body!SpillEmpties'
      BY <1>2, <2>2, <3>1 DEF StoreInv, FileRead, Body!SpillEmpties
    <3>5. Body!BodyInOrder'
      <4>1. Body!Unread = fBuf /\ Body!Unread' = fBuf'
        BY <1>5, <2>1, <2>2, <3>1 DEF Body!Unread
      <4> QED BY <1>1, <1>2, <1>5, <2>1, <3>1, <4>1 DEF StoreInv, Body!BodyInOrder
    <3> QED BY <1>2, <1>3, <3>3, <3>4, <3>5 DEF StoreInv
  <2>3. CASE fMode = "buffer" /\ ~(Len(fBuf) + Len(s) <= kMemoryLimit)
    <3>1. Body!dumpToFile(s)
      BY <1>0, <1>k, <1>s, <2>1, <2>3 DEF Body!tempWrite
    <3>2. tmp' = (tmp \o fBuf) \o s /\ fBuf' = <<>> /\ fMode' = "file" /\ tmpOff' = tmpOff
      BY <3>1 DEF Body!dumpToFile
    <3>3. tmp' \in Seq(ByteSet) /\ tmpOff' \in 0 .. Len(tmp')
      <4>1. tmp \o fBuf \in Seq(ByteSet) /\ Len(tmp \o fBuf) = Len(tmp) + Len(fBuf)
        BY <1>0, ConcatProperties
      <4>2. tmp' \in Seq(ByteSet) /\ Len(tmp') = Len(tmp \o fBuf) + Len(s)
        BY <1>s, <3>2, <4>1, ConcatProperties
      <4> QED BY <1>0, <1>s, <3>2, <4>1, <4>2
    <3>4. BodyTypes'
      <4>1. <<>> \in Seq(ByteSet) /\ Len(<<>>) = 0
        OBVIOUS
      <4> QED BY <1>0, <1>1, <1>k, <1>s, <2>1, <3>2, <3>3, <4>1 DEF BodyTypes
    <3>5. FileRead' /\ Body!SpillEmpties'
      BY <3>2 DEF FileRead, Body!SpillEmpties
    <3>6. Body!BodyInOrder'
      <4>1. SUFFICES ASSUME ~mixed PROVE Body!Unread' = expect_bo'
        BY <1>2, <2>1 DEF Body!BodyInOrder
      <4>2. Body!From(tmp', tmpOff') = Body!Unread \o s
        BY <1>5, <1>s, <3>1, <4>1, Spilt
      <4>3. Body!Unread = expect_bo
        BY <4>1 DEF StoreInv, Body!BodyInOrder
      <4>4. Body!Unread' = Body!From(tmp', tmpOff')
        BY <2>1, <3>2 DEF Body!Unread, Body!From
      <4> QED BY <1>1, <4>2, <4>3, <4>4
    <3> QED BY <1>2, <1>3, <3>4, <3>5, <3>6 DEF StoreInv
  <2>4. CASE fMode = "file"
    <3>1. tmp' = tmp \o s /\ UNCHANGED <<fMode, fBuf, tmpOff>>
      BY <2>1, <2>4 DEF Body!tempWrite
    <3>2. tmp \o s \in Seq(ByteSet) /\ Len(tmp \o s) = Len(tmp) + Len(s)
      BY <1>0, <1>s, ConcatProperties
    <3>3. BodyTypes'
      BY <1>0, <1>1, <1>s, <1>b, <2>1, <3>1, <3>2 DEF BodyTypes
    <3>4. FileRead' /\ Body!SpillEmpties'
      BY <2>4, <3>1 DEF StoreInv, FileRead, Body!SpillEmpties
    <3>5. Body!BodyInOrder'
      <4>1. Body!Unread = Body!From(tmp, tmpOff) /\ Body!Unread' = Body!From(tmp \o s, tmpOff)
        BY <1>5, <2>1, <2>4, <3>1 DEF Body!Unread, Body!From
      <4>2. Body!From(tmp \o s, tmpOff) = Body!From(tmp, tmpOff) \o s
        BY ONLY <1>0, <1>s, FromGrows
      <4> QED BY <1>1, <1>2, <1>5, <2>1, <4>1, <4>2 DEF StoreInv, Body!BodyInOrder
    <3> QED BY <1>2, <1>3, <3>3, <3>4, <3>5 DEF StoreInv
  <2> QED BY <1>0, <2>2, <2>3, <2>4
<1> QED BY <1>0, <1>4, <1>5

\* All of the body is read, or a part of it: read(), dumpAsFile(), the sends of a file.
LEMMA BodyReads ==
    ASSUME BodyInv, \/ \E n \in BodyLens : Body!read(n)
                    \/ Body!dumpAsFile \/ \E k \in 0 .. MaxFile : Body!sendFails(k)
    PROVE  BodyInv'
<1>i. StoreInv /\ mixed \in BOOLEAN /\ BodyFlags /\ Body!SentWhole
  BY DEF BodyInv, StoreInv, BodyFlags
<1> DEFINE m == Len(Body!Unread)
<1>0. m \in Nat /\ Body!Unread \in Seq(ByteSet)
  BY <1>i, UnreadIs DEF StoreInv
<1>1. bodyMode' = bodyMode /\ next_bo' = next_bo
  BY DEF Body!read, Body!dumpAsFile, Body!sendFails
<1>2. whole' = whole /\ mixed' = mixed /\ stalled' = stalled
  BY Zenon DEF Body!read, Body!dumpAsFile, Body!sendFails
<1>3. \/ \E n \in 0 .. m : Body!Consume(n) /\ (\/ expect_bo' = Body!From(expect_bo, n)
                                               \/ n = m /\ expect_bo' = <<>>)
      \/ UNCHANGED <<fMode, fBuf, tmp, tmpOff, pFile, pOff, expect_bo>> /\ linked' = linked
  <2>1. CASE \E n \in BodyLens : Body!read(n)
    <3>1. PICK n \in BodyLens : Body!read(n)
      BY <2>1
    <3>2. n \in Nat
      BY DataAssumption DEF Body!BodyAssumption
    <3>3. Body!Smaller(n, m) \in 0 .. m
      BY <1>0, <3>2 DEF Body!Smaller
    <3>4. Body!Consume(Body!Smaller(n, m)) /\ expect_bo' = Body!From(expect_bo, Body!Smaller(n, m))
      BY <3>1 DEF Body!read
    <3> QED BY <3>3, <3>4
  <2>2. CASE Body!dumpAsFile
    BY <1>0, <2>2 DEF Body!dumpAsFile
  <2>3. CASE \E k \in 0 .. MaxFile : Body!sendFails(k)
    <3>1. PICK k \in 0 .. MaxFile : Body!sendFails(k)
      BY <2>3
    <3> DEFINE n == Body!Smaller(Chunk * (1 + k \div Chunk), m)
    <3>2. n \in 0 .. m
      <4>1. Chunk \in Nat \ {0} /\ k \in Nat /\ k \div Chunk \in Nat
        BY DataAssumption, SMTT(30) DEF Body!BodyAssumption
      <4>2. Chunk * (1 + k \div Chunk) \in Nat
        BY ONLY <4>1, SMTT(30)
      <4> QED BY <1>0, <4>2 DEF Body!Smaller
    <3>3. CASE bodyMode = "disk" \/ fMode = "file"
      <4>1. Body!Consume(n) /\ expect_bo' = Body!From(expect_bo, n)
        BY <3>1, <3>3 DEF Body!sendFails
      <4> QED BY <3>2, <4>1
    <3>4. CASE ~(bodyMode = "disk" \/ fMode = "file")
      BY <3>1, <3>4, Zenon DEF Body!sendFails, Body!tvars, Body!fvars
    <3> QED BY <3>3, <3>4
  <2> QED BY <2>1, <2>2, <2>3
<1>4. StoreInv' /\ linked' = linked
  <2>1. CASE \E n \in 0 .. m : Body!Consume(n) /\ (\/ expect_bo' = Body!From(expect_bo, n)
                                                   \/ n = m /\ expect_bo' = <<>>)
    <3>1. PICK n \in 0 .. m : Body!Consume(n) /\ (\/ expect_bo' = Body!From(expect_bo, n)
                                                  \/ n = m /\ expect_bo' = <<>>)
      BY <2>1
    <3>2. ASSUME ~mixed \/ bodyMode = "disk" PROVE expect_bo' = Body!From(expect_bo, n)
      <4>1. expect_bo = Body!Unread
        BY <1>i, <3>2 DEF StoreInv, Body!BodyInOrder
      <4>2. ASSUME n = m PROVE Body!From(Body!Unread, n) = <<>>
        <5>1. /\ Body!From(Body!Unread, n) \in Seq(ByteSet)
              /\ Len(Body!From(Body!Unread, n)) = m - n
          BY ONLY <1>0, <3>1, FromIs
        <5> QED BY <1>0, <4>2, <5>1
      <4> QED BY <3>1, <4>1, <4>2
    <3> QED BY <1>1, <1>2, <1>i, <3>1, <3>2, Consumed
  <2>2. CASE UNCHANGED <<fMode, fBuf, tmp, tmpOff, pFile, pOff, expect_bo>> /\ linked' = linked
    <3>1. UNCHANGED <<fMode, fBuf, tmp, tmpOff, pFile, pOff, expect_bo>>
      BY <2>2
    <3>2. Body!Unread' = Body!Unread
      BY <1>1, <3>1 DEF Body!Unread, Body!From
    <3>3. BodyTypes'
      BY <1>1, <1>i, <3>1 DEF StoreInv, BodyTypes
    <3>4. FileRead' /\ Body!SpillEmpties'
      BY <1>2, <1>i, <3>1 DEF StoreInv, FileRead, Body!SpillEmpties
    <3>5. Body!BodyInOrder'
      BY <1>1, <1>2, <1>i, <3>1, <3>2 DEF StoreInv, Body!BodyInOrder
    <3> QED BY <2>2, <3>3, <3>4, <3>5 DEF StoreInv
  <2> QED BY <1>3, <2>1, <2>2
<1>5. BodyFlags' /\ Body!SentWhole'
  BY <1>2, <1>4, <1>i, Zenon DEF BodyFlags, Body!SentWhole
<1> QED BY <1>4, <1>5 DEF StoreInv, BodyInv

\* A send that succeeds has sent the body.
LEMMA BodySendAll ==
    ASSUME BodyInv, Body!sendAll
    PROVE  BodyInv'
<1>i. StoreInv /\ mixed \in BOOLEAN /\ BodyFlags
  BY DEF BodyInv, StoreInv, BodyFlags
<1> DEFINE m == Len(Body!Unread)
<1>0. m \in Nat /\ Body!Unread \in Seq(ByteSet)
  BY <1>i, UnreadIs DEF StoreInv
<1>1. bodyMode' = bodyMode /\ next_bo' = next_bo
  BY DEF Body!sendAll
<1>2. mixed' = mixed
  BY Zenon DEF Body!sendAll
<1>3. StoreInv' /\ linked' = linked
  <2>1. CASE Body!length > 0 /\ (bodyMode = "disk" \/ fMode = "file")
    <3>1. Body!Consume(m) /\ expect_bo' = <<>>
      BY <2>1 DEF Body!sendAll
    <3>2. ASSUME ~mixed \/ bodyMode = "disk" PROVE expect_bo' = Body!From(expect_bo, m)
      <4>1. expect_bo = Body!Unread
        BY <1>i, <3>2 DEF StoreInv, Body!BodyInOrder
      <4>2. Body!From(Body!Unread, m) = <<>>
        <5>1. m \in 0 .. Len(Body!Unread)
          BY <1>0
        <5>2. /\ Body!From(Body!Unread, m) \in Seq(ByteSet)
              /\ Len(Body!From(Body!Unread, m)) = Len(Body!Unread) - m
          BY ONLY <1>0, <5>1, FromIs
        <5> QED BY <1>0, <5>2
      <4> QED BY <3>1, <4>1, <4>2
    <3>3. m \in 0 .. Len(Body!Unread)
      BY <1>0
    <3> QED BY <1>1, <1>2, <1>i, <3>1, <3>2, <3>3, Consumed
  <2>2. CASE ~(Body!length > 0 /\ (bodyMode = "disk" \/ fMode = "file"))
    <3>1. UNCHANGED <<fMode, fBuf, tmp, tmpOff, pFile, pOff, expect_bo>>
      BY <2>2 DEF Body!sendAll, Body!tvars, Body!fvars
    <3>0. linked' = linked
      BY <2>2, Zenon DEF Body!sendAll, Body!tvars
    <3>2. Body!Unread' = Body!Unread
      BY <1>1, <3>1 DEF Body!Unread, Body!From
    <3>3. BodyTypes'
      BY <1>1, <1>i, <3>1 DEF StoreInv, BodyTypes
    <3>4. FileRead' /\ Body!SpillEmpties'
      BY <1>2, <1>i, <3>1 DEF StoreInv, FileRead, Body!SpillEmpties
    <3>5. Body!BodyInOrder'
      BY <1>1, <1>2, <1>i, <3>1, <3>2 DEF StoreInv, Body!BodyInOrder
    <3> QED BY <3>0, <3>3, <3>4, <3>5 DEF StoreInv
  <2> QED BY <2>1, <2>2
<1>4. whole' \in BOOLEAN /\ stalled' = FALSE
  BY DEF Body!sendAll
<1>5. ASSUME linked, ~mixed PROVE whole'
  <2>1. Body!Unread = expect_bo
    BY <1>5, <1>i DEF StoreInv, Body!BodyInOrder
  <2>2. ASSUME Body!length = 0 PROVE expect_bo = <<>>
    <3>0. /\ fBuf \in Seq(ByteSet) /\ tmp \in Seq(ByteSet) /\ pFile \in Seq(ByteSet)
          /\ tmpOff \in 0 .. Len(tmp) /\ pOff \in 0 .. Len(pFile)
      BY <1>i DEF StoreInv, BodyTypes
    <3>1. /\ Len(Body!From(tmp, tmpOff)) = Len(tmp) - tmpOff
          /\ Len(Body!From(pFile, pOff)) = Len(pFile) - pOff
      BY ONLY <3>0, FromIs
    <3>2. Len(Body!Unread) = 0
      BY <1>5, <2>2, <3>0, <3>1 DEF Body!length, Body!Unread
    <3> QED BY <1>0, <2>1, <3>2
  <2>3. whole' = (IF Body!length = 0 THEN expect_bo = <<>> ELSE Body!Unread = expect_bo)
    BY DEF Body!sendAll
  <2> QED BY <2>1, <2>2, <2>3
<1>6. BodyFlags' /\ Body!SentWhole'
  BY <1>2, <1>3, <1>4, <1>5, <1>i, Zenon DEF BodyFlags, Body!SentWhole
<1> QED BY <1>3, <1>6 DEF StoreInv, BodyInv

\* A send from the buffer that the peer took nothing of: only the flags change.
LEMMA BodyStalls ==
    ASSUME BodyInv, NEW k \in 0 .. MaxFile, Body!sendStalls(k)
    PROVE  BodyInv'
<1>i. StoreInv /\ BodyFlags
  BY DEF BodyInv, StoreInv
<1>1. UNCHANGED <<bodyMode, fMode, fBuf, tmp, tmpOff, pFile, pOff, next_bo, expect_bo>>
  BY DEF Body!sendStalls, Body!tvars, Body!fvars
<1>2. mixed' = mixed /\ linked' = linked /\ stalled' = TRUE
  BY Zenon DEF Body!sendStalls, Body!tvars
<1>3. whole' \in BOOLEAN
  BY DEF Body!sendStalls
<1>4. BodyTypes'
  BY <1>1, <1>i DEF StoreInv, BodyTypes
<1>5. FileRead' /\ Body!SpillEmpties'
  BY <1>1, <1>2, <1>i DEF StoreInv, FileRead, Body!SpillEmpties
<1>6. Body!Unread' = Body!Unread
  BY <1>1 DEF Body!Unread, Body!From
<1>7. Body!BodyInOrder'
  BY <1>1, <1>2, <1>6, <1>i DEF StoreInv, Body!BodyInOrder
<1>8. BodyFlags' /\ Body!SentWhole'
  BY <1>2, <1>3, <1>i, Zenon DEF BodyFlags, Body!SentWhole
<1> QED BY <1>4, <1>5, <1>7, <1>8 DEF BodyInv

\* The body goes to the file as it is.
LEMMA BodySetDisk ==
    ASSUME BodyInv, Body!setDiskMode
    PROVE  BodyInv'
<1>i. StoreInv /\ mixed \in BOOLEAN /\ BodyFlags /\ Body!SentWhole
  BY DEF BodyInv, StoreInv, BodyFlags
<1>0. /\ fBuf \in Seq(ByteSet) /\ tmp \in Seq(ByteSet) /\ tmpOff \in 0 .. Len(tmp)
      /\ Len(tmp) \in Nat /\ Len(fBuf) \in Nat /\ kMemoryLimit \in Nat
      /\ <<>> \in Seq(ByteSet) /\ Len(<<>>) = 0
  BY <1>i, DataAssumption DEF StoreInv, BodyTypes, Body!BodyAssumption
<1>1. /\ bodyMode = "temp" /\ bodyMode' = "temp" /\ Body!dumpToFile(<<>>)
      /\ UNCHANGED <<pFile, pOff, next_bo, expect_bo>>
  BY DEF Body!setDiskMode, Body!fvars
<1>2. tmp' = (tmp \o fBuf) \o <<>> /\ fBuf' = <<>> /\ fMode' = "file" /\ tmpOff' = tmpOff
  BY <1>1 DEF Body!dumpToFile
<1>3. whole' = whole /\ mixed' = mixed /\ linked' = linked /\ stalled' = stalled
  BY Zenon DEF Body!setDiskMode, Body!dumpToFile
<1>4. tmp' \in Seq(ByteSet) /\ tmpOff' \in 0 .. Len(tmp')
  <2>1. tmp \o fBuf \in Seq(ByteSet) /\ Len(tmp \o fBuf) = Len(tmp) + Len(fBuf)
    BY <1>0, ConcatProperties
  <2>2. (tmp \o fBuf) \o <<>> = tmp \o fBuf
    BY <2>1
  <2> QED BY <1>0, <1>2, <2>1, <2>2
<1>5. BodyTypes'
  BY <1>0, <1>1, <1>2, <1>4, <1>i DEF StoreInv, BodyTypes
<1>6. FileRead' /\ Body!SpillEmpties'
  BY <1>2 DEF FileRead, Body!SpillEmpties
<1>7. Body!BodyInOrder'
  <2>1. SUFFICES ASSUME ~mixed PROVE Body!Unread' = expect_bo'
    BY <1>1, <1>3 DEF Body!BodyInOrder
  <2>2. Body!From(tmp', tmpOff') = Body!Unread \o <<>>
    BY <1>0, <1>1, <1>i, <2>1, Spilt
  <2>3. Body!Unread \o <<>> = Body!Unread
    BY <1>i, UnreadIs DEF StoreInv
  <2>4. Body!Unread = expect_bo
    BY <1>i, <2>1 DEF StoreInv, Body!BodyInOrder
  <2>5. Body!Unread' = Body!From(tmp', tmpOff')
    BY <1>1, <1>2 DEF Body!Unread, Body!From
  <2> QED BY <1>1, <2>2, <2>3, <2>4, <2>5
<1>8. BodyFlags' /\ Body!SentWhole'
  BY <1>3, <1>i, Zenon DEF BodyFlags, Body!SentWhole
<1> QED BY <1>5, <1>6, <1>7, <1>8 DEF BodyInv

\* The steps that start a body afresh or look at another place.
LEMMA BodySwitches ==
    ASSUME BodyInv, \/ Body!setMemoryMode \/ Body!useFile \/ Body!reset \/ UNCHANGED bodyVars
    PROVE  BodyInv'
<1>i. StoreInv /\ mixed \in BOOLEAN /\ BodyFlags /\ Body!SentWhole
  BY DEF BodyInv, StoreInv, BodyFlags
<1>0. /\ fBuf \in Seq(ByteSet) /\ tmp \in Seq(ByteSet) /\ pFile \in Seq(ByteSet)
      /\ tmpOff \in 0 .. Len(tmp) /\ Len(tmp) \in Nat /\ Len(pFile) \in Nat
      /\ kMemoryLimit \in Nat /\ <<>> \in Seq(ByteSet) /\ Len(<<>>) = 0
  BY <1>i, DataAssumption DEF StoreInv, BodyTypes, Body!BodyAssumption
<1>1. CASE Body!setMemoryMode
  <2>1. /\ bodyMode = "temp" /\ bodyMode' = "temp" /\ fMode' = "buffer" /\ expect_bo' = fBuf
        /\ UNCHANGED <<fBuf, tmp, tmpOff, pFile, pOff, next_bo>>
    BY <1>1 DEF Body!setMemoryMode, Body!fvars
  <2>2. linked' = linked /\ whole' = whole /\ stalled' = stalled
    BY <1>1, Zenon DEF Body!setMemoryMode
  <2>3. mixed' = (mixed \/ tmpOff < Len(tmp))
    BY <1>1 DEF Body!setMemoryMode
  <2>4. mixed' \in BOOLEAN /\ (mixed => mixed') /\ (~mixed' => tmpOff = Len(tmp))
    <3>1. mixed' \in BOOLEAN /\ (mixed => mixed') /\ (~mixed' => ~(tmpOff < Len(tmp)))
      BY <2>3, Zenon
    <3>2. ~(tmpOff < Len(tmp)) => tmpOff = Len(tmp)
      BY <1>0
    <3> QED BY <3>1, <3>2
  <2>5. BodyTypes'
    BY <1>i, <2>1 DEF StoreInv, BodyTypes
  <2>6. FileRead' /\ Body!SpillEmpties'
    BY <2>1, <2>4 DEF FileRead, Body!SpillEmpties
  <2>7. Body!BodyInOrder'
    BY <2>1 DEF Body!BodyInOrder, Body!Unread
  <2>8. BodyFlags' /\ Body!SentWhole'
    BY <1>i, <2>2, <2>4, Zenon DEF BodyFlags, Body!SentWhole
  <2> QED BY <2>5, <2>6, <2>7, <2>8 DEF BodyInv
<1>2. CASE Body!useFile
  <2>1. /\ bodyMode' = "disk" /\ pOff' = 0 /\ expect_bo' = pFile
        /\ UNCHANGED <<fMode, fBuf, tmp, tmpOff, pFile, next_bo>>
    BY <1>2 DEF Body!useFile, Body!tvars
  <2>2. linked' = linked /\ whole' = whole /\ mixed' = mixed /\ stalled' = stalled
    BY <1>2, Zenon DEF Body!useFile, Body!tvars
  <2>3. BodyTypes'
    BY <1>0, <1>i, <2>1 DEF StoreInv, BodyTypes
  <2>4. FileRead' /\ Body!SpillEmpties'
    BY <1>i, <2>1, <2>2 DEF StoreInv, FileRead, Body!SpillEmpties
  <2>5. Body!BodyInOrder'
    <3>1. Body!Unread' = SubSeq(pFile, 1, Len(pFile))
      BY <2>1 DEF Body!Unread, Body!From
    <3>2. SubSeq(pFile, 1, Len(pFile)) = pFile
      BY <1>0
    <3> QED BY <2>1, <3>1, <3>2 DEF Body!BodyInOrder
  <2>6. BodyFlags' /\ Body!SentWhole'
    BY <1>i, <2>2, Zenon DEF BodyFlags, Body!SentWhole
  <2> QED BY <2>3, <2>4, <2>5, <2>6 DEF BodyInv
<1>3. CASE Body!reset
  <2>1. /\ bodyMode' = "temp" /\ fMode' = "buffer" /\ fBuf' = <<>> /\ expect_bo' = <<>>
        /\ UNCHANGED <<tmp, tmpOff, pFile, pOff, next_bo>>
    BY <1>3 DEF Body!reset, Body!fvars
  <2>2. linked' = FALSE /\ whole' = whole /\ stalled' = stalled
    BY <1>3, Zenon DEF Body!reset
  <2>3. mixed' = (mixed \/ tmpOff < Len(tmp))
    BY <1>3 DEF Body!reset
  <2>4. mixed' \in BOOLEAN /\ (~mixed' => tmpOff = Len(tmp))
    <3>1. mixed' \in BOOLEAN /\ (~mixed' => ~(tmpOff < Len(tmp)))
      BY <2>3, Zenon
    <3>2. ~(tmpOff < Len(tmp)) => tmpOff = Len(tmp)
      BY <1>0
    <3> QED BY <3>1, <3>2
  <2>5. BodyTypes'
    BY <1>0, <1>i, <2>1 DEF StoreInv, BodyTypes
  <2>6. FileRead' /\ Body!SpillEmpties'
    BY <2>1, <2>4 DEF FileRead, Body!SpillEmpties
  <2>7. Body!BodyInOrder'
    BY <2>1 DEF Body!BodyInOrder, Body!Unread
  <2>8. BodyFlags' /\ Body!SentWhole'
    BY <1>i, <2>2, <2>4, Zenon DEF BodyFlags, Body!SentWhole
  <2> QED BY <2>5, <2>6, <2>7, <2>8 DEF BodyInv
<1>4. CASE UNCHANGED bodyVars
  <2>1. UNCHANGED <<bodyMode, fMode, fBuf, tmp, tmpOff, pFile, pOff, next_bo, expect_bo>>
    BY <1>4 DEF bodyVars
  <2>2. linked' = linked /\ whole' = whole /\ mixed' = mixed /\ stalled' = stalled
    BY <1>4, Zenon DEF bodyVars
  <2>3. BodyTypes'
    BY <1>i, <2>1 DEF StoreInv, BodyTypes
  <2>4. FileRead' /\ Body!SpillEmpties'
    BY <1>i, <2>1, <2>2 DEF StoreInv, FileRead, Body!SpillEmpties
  <2>5. Body!Unread' = Body!Unread
    BY <2>1 DEF Body!Unread, Body!From
  <2>6. Body!BodyInOrder'
    BY <1>i, <2>1, <2>2, <2>5 DEF StoreInv, Body!BodyInOrder
  <2>7. BodyFlags' /\ Body!SentWhole'
    BY <1>i, <2>2, Zenon DEF BodyFlags, Body!SentWhole
  <2> QED BY <2>3, <2>4, <2>6, <2>7 DEF BodyInv
<1> QED BY <1>1, <1>2, <1>3, <1>4

\* Every step keeps BodyInv.
LEMMA BodyNext == BodyInv /\ [Body!Next]_bodyVars => BodyInv'
<1> SUFFICES ASSUME BodyInv, [Body!Next]_bodyVars PROVE BodyInv'
  OBVIOUS
<1>1. ASSUME NEW n \in BodyLens, Body!write(n) PROVE BodyInv'
  <2>0. StoreInv /\ mixed \in BOOLEAN /\ BodyFlags /\ Body!SentWhole
    BY DEF BodyInv, StoreInv, BodyFlags
  <2>1. n \in Nat
    BY DataAssumption DEF Body!BodyAssumption
  <2>2. /\ StoreInv' /\ linked' = linked /\ whole' = whole /\ mixed' = mixed
        /\ stalled' = stalled
    BY <1>1, <2>0, <2>1, BodyWrite
  <2>3. BodyFlags' /\ Body!SentWhole'
    BY <2>0, <2>2, Zenon DEF BodyFlags, Body!SentWhole
  <2> QED BY <2>2, <2>3 DEF StoreInv, BodyInv
<1> QED BY <1>1, BodyReads, BodySendAll, BodyStalls, BodySetDisk, BodySwitches DEF Body!Next

\* An empty body in memory.
LEMMA BodyInit == Body!Init => BodyInv
<1> SUFFICES ASSUME Body!Init PROVE BodyInv
  OBVIOUS
<1>0. kMemoryLimit \in Nat /\ Bytes \in Nat \ {0}
  BY DataAssumption DEF Body!BodyAssumption
<1>1. BodyTypes
  BY <1>0 DEF Body!Init, BodyTypes, ByteSet
<1>2. BodyFlags /\ Body!SentWhole
  BY Zenon DEF Body!Init, BodyFlags, Body!SentWhole
<1>3. FileRead /\ Body!BodyInOrder /\ Body!SpillEmpties
  BY DEF Body!Init, FileRead, Body!BodyInOrder, Body!SpillEmpties, Body!Unread
<1> QED BY <1>1, <1>2, <1>3 DEF BodyInv

\* What BodyInv says of the types of BodyStore.
LEMMA BodyTyped == ASSUME BodyInv PROVE Body!BodyTypeOK
<1>1. linked \in BOOLEAN /\ whole \in BOOLEAN /\ mixed \in BOOLEAN /\ stalled \in BOOLEAN
  BY Zenon DEF BodyInv, BodyFlags
<1> QED BY <1>1 DEF BodyInv, BodyTypes, ByteSet, Body!BodyTypeOK

-----------------------------------------------------------------------------
\* A buffer of the vector d and the indices r and w.  The indices are in order; until it has
\* been made smaller (flag s) the bytes e are between them, and the write index is not past
\* the capacity, which leaves a prefix out: this keeps right() from wrapping.
Rec(d, r, w, s) == [fData |-> d, fReadIdx |-> r, fWriteIdx |-> w, shrunk |-> s]

Vec(d, r, w, m) ==
    /\ m \in Nat /\ d \in [0 .. m - 1 -> ByteSet] /\ r \in Nat /\ w \in Nat
    /\ kBufferPrefixed <= r /\ r <= w

Holds(d, r, w, m, e) ==
    /\ m >= 2 * kBufferPrefixed /\ w <= m - kBufferPrefixed /\ Len(e) = w - r
    /\ \A i \in 1 .. Len(e) : e[i] = d[r + i - 1]

IsBuf(b, m, e) ==
    \E d, r, w, s : /\ b = Rec(d, r, w, s) /\ Vec(d, r, w, m) /\ e \in Seq(ByteSet)
                    /\ Len(e) = w - r /\ s \in BOOLEAN /\ (~s => Holds(d, r, w, m, e))

BufInv ==
    /\ \E m \in 0 .. MaxSize : IsBuf(buf_bu, m, expect_bu)
    /\ buf_bu.fWriteIdx <= 2 * MaxSize /\ next_bu \in ByteSet

\* The constants.
LEMMA BufNumbers ==
    /\ kBufferPrefixed \in Nat /\ kBufferPrefixed > 0 /\ Word \in Nat /\ MaxSize \in Nat
    /\ MaxTurns \in Nat /\ Bytes \in Nat /\ Bytes > 0 /\ 4 * MaxSize < Word
    /\ BufLens \subseteq 0 .. MaxSize /\ 0 \in ByteSet /\ Bytes - 1 \in ByteSet
    /\ SizeofInt \in 1 .. MaxSize /\ SizeofLong \in SizeofInt + 1 .. MaxSize
BY DataAssumption DEF Buf!BufferAssumption, ByteSet

\* A size_t difference.
LEMMA Wraps ==
    ASSUME NEW x \in (1 - Word) .. (Word - 1)
    PROVE  x % Word = IF x >= 0 THEN x ELSE x + Word
<1>1. Word \in Nat
  BY BufNumbers
<1>2. CASE x >= 0
  BY ONLY <1>1, <1>2, x \in (1 - Word) .. (Word - 1), SMTT(30)
<1>3. CASE ~(x >= 0)
  <2> DEFINE y == x + Word
  <2>1. y \in 1 .. Word - 1 /\ x = y - Word
    BY <1>1, <1>3
  <2>2. x % Word = y
    BY ONLY <1>1, <2>1, SMTT(30)
  <2> QED BY <1>3, <2>2
<1> QED BY <1>2, <1>3

\* The members of a buffer.
LEMMA RecIs ==
    ASSUME NEW d, NEW r, NEW w, NEW s
    PROVE  /\ Rec(d, r, w, s).fData = d /\ Rec(d, r, w, s).fReadIdx = r
           /\ Rec(d, r, w, s).fWriteIdx = w /\ Rec(d, r, w, s).shrunk = s
BY DEF Rec

\* The size of the vector.
LEMMA VectorSize ==
    ASSUME NEW d, NEW r, NEW w, NEW s, NEW m, Vec(d, r, w, m)
    PROVE  Buf!Size(Rec(d, r, w, s)) = m
<1>1. m \in Nat /\ DOMAIN Rec(d, r, w, s).fData = 0 .. m - 1
  BY RecIs DEF Vec
<1>2. Buf!Cardinality(0 .. m - 1) = Cardinality(0 .. m - 1)
  BY DEF Buf!Cardinality, Cardinality
<1>3. Cardinality(0 .. m - 1) = m
  <2>1. 0 \in Int /\ m - 1 \in Int
    BY <1>1
  <2>2. Cardinality(0 .. m - 1) = IF 0 > m - 1 THEN 0 ELSE m - 1 - 0 + 1
    BY ONLY <2>1, FS_Interval
  <2> QED BY <1>1, <2>2
<1> QED BY <1>1, <1>2, <1>3 DEF Buf!Size

\* What the members of a buffer say.
LEMMA BufReads ==
    ASSUME NEW d, NEW r, NEW w, NEW s, NEW m, Vec(d, r, w, m), m < Word, w <= 2 * MaxSize
    PROVE  LET b == Rec(d, r, w, s)
           IN  /\ Buf!length(b) = w - r /\ Buf!left(b) = r - kBufferPrefixed
               /\ Buf!capacity(b) \in 0 .. Word - 1 /\ Buf!right(b) \in 0 .. Word - 1
               /\ m >= kBufferPrefixed /\ w <= m - kBufferPrefixed =>
                      /\ Buf!capacity(b) = m - kBufferPrefixed
                      /\ Buf!right(b) = m - kBufferPrefixed - w
<1> DEFINE b == Rec(d, r, w, s)
<1>0. /\ m \in Nat /\ r \in Nat /\ w \in Nat /\ kBufferPrefixed <= r /\ r <= w
      /\ kBufferPrefixed \in Nat /\ Word \in Nat /\ MaxSize \in Nat /\ 4 * MaxSize < Word
  BY BufNumbers DEF Vec
<1>1. Buf!Size(b) = m /\ b.fReadIdx = r /\ b.fWriteIdx = w
  BY VectorSize, RecIs
<1> HIDE DEF b
<1>3. Buf!length(b) = w - r
  <2>1. w - r \in (1 - Word) .. (Word - 1) /\ w - r >= 0
    BY <1>0
  <2>2. (w - r) % Word = w - r
    BY ONLY <2>1, Wraps
  <2> QED BY <1>1, <2>2 DEF Buf!length
<1>4. \A x \in Int : x % Word \in 0 .. Word - 1
  BY <1>0
<1>5. Buf!capacity(b) \in 0 .. Word - 1
  BY <1>0, <1>1, <1>4 DEF Buf!capacity
<1>6. Buf!right(b) \in 0 .. Word - 1
  <2>1. Buf!capacity(b) - w \in Int
    BY <1>0, <1>5
  <2> QED BY <1>1, <1>4, <2>1 DEF Buf!right
<1>7. ASSUME m >= kBufferPrefixed, w <= m - kBufferPrefixed
      PROVE  Buf!capacity(b) = m - kBufferPrefixed /\ Buf!right(b) = m - kBufferPrefixed - w
  <2>1. m - kBufferPrefixed \in (1 - Word) .. (Word - 1) /\ m - kBufferPrefixed >= 0
    BY <1>0, <1>7
  <2>2. (m - kBufferPrefixed) % Word = m - kBufferPrefixed
    BY ONLY <2>1, Wraps
  <2>3. Buf!capacity(b) = m - kBufferPrefixed
    BY <1>1, <2>2 DEF Buf!capacity
  <2>4. m - kBufferPrefixed - w \in (1 - Word) .. (Word - 1) /\ m - kBufferPrefixed - w >= 0
    BY <1>0, <1>7
  <2>5. (m - kBufferPrefixed - w) % Word = m - kBufferPrefixed - w
    BY ONLY <2>4, Wraps
  <2> QED BY <1>1, <2>3, <2>5 DEF Buf!right
<1>8. Buf!left(b) = r - kBufferPrefixed
  BY <1>1 DEF Buf!left
<1>9. QED BY <1>3, <1>5, <1>6, <1>7, <1>8 DEF b

\* Where right() is small it has not wrapped, and the write index is inside the vector.
LEMMA SmallRight ==
    ASSUME NEW d, NEW r, NEW w, NEW s, NEW m, Vec(d, r, w, m), m < Word, w <= MaxSize,
           Buf!right(Rec(d, r, w, s)) <= MaxSize
    PROVE  w <= m
<1> DEFINE b == Rec(d, r, w, s)
<1>0. /\ m \in Nat /\ r \in Nat /\ w \in Nat /\ kBufferPrefixed <= r /\ r <= w
      /\ kBufferPrefixed \in Nat /\ Word \in Nat /\ MaxSize \in Nat /\ 4 * MaxSize < Word
      /\ kBufferPrefixed > 0
  BY BufNumbers DEF Vec
<1> SUFFICES ASSUME w > m PROVE FALSE
  BY <1>0
<1>1. Buf!Size(b) = m /\ b.fReadIdx = r /\ b.fWriteIdx = w
  BY VectorSize, RecIs
<1> DEFINE x == m - kBufferPrefixed
           c == x % Word
           y == c - w
<1>3. x \in (1 - Word) .. (Word - 1)
  BY <1>0
<1>4. c = IF x >= 0 THEN x ELSE x + Word
  BY ONLY <1>3, Wraps
<1>5. y \in (1 - Word) .. (Word - 1)
  BY <1>0, <1>3, <1>4
<1>6. y % Word = IF y >= 0 THEN y ELSE y + Word
  BY ONLY <1>5, Wraps
<1>7. Buf!right(b) = y % Word
  BY <1>1 DEF Buf!right, Buf!capacity
<1>8. y = c - w /\ x = m - kBufferPrefixed
  OBVIOUS
<1> HIDE DEF x, c, y
<1>9. CASE x >= 0
  BY <1>0, <1>3, <1>4, <1>5, <1>6, <1>7, <1>8, <1>9
<1>10. CASE ~(x >= 0)
  BY <1>0, <1>3, <1>4, <1>5, <1>6, <1>7, <1>8, <1>10
<1> QED BY <1>9, <1>10

\* A vector made larger or smaller.
LEMMA ResizeIs ==
    ASSUME NEW d, NEW r, NEW w, NEW s, NEW m, Vec(d, r, w, m), NEW n
    PROVE  Buf!resize(Rec(d, r, w, s), n) = Rec(Buf!Vector(n, d), r, w, s \/ n < m)
<1> DEFINE b == Rec(d, r, w, s)
           z == b.shrunk \/ n < Buf!Size(b)
           x == Buf!Vector(n, b.fData)
<1>1. Buf!resize(b, n) = [b EXCEPT !.fData = x, !.shrunk = z]
  BY DEF Buf!resize
<1>2. x = Buf!Vector(n, d) /\ z = (s \/ n < m)
  BY RecIs, VectorSize
<1> HIDE DEF z, x
<1>3. [b EXCEPT !.fData = x] = Rec(x, r, w, s)
  BY DEF Rec
<1>4. [Rec(x, r, w, s) EXCEPT !.shrunk = z] = Rec(x, r, w, z)
  <2>1. \A q : [Rec(x, r, w, s) EXCEPT !.shrunk = q] = Rec(x, r, w, q)
    BY DEF Rec
  <2> QED BY ONLY <2>1, Zenon
<1> HIDE DEF b
<1>5. [b EXCEPT !.fData = x, !.shrunk = z] = Rec(x, r, w, z)
  BY ONLY <1>3, <1>4
<1> QED BY <1>1, <1>2, <1>5 DEF b

\* It keeps the bytes unless it is smaller.
LEMMA VectorKeeps ==
    ASSUME NEW d, NEW r, NEW w, NEW m, NEW e, NEW n, Vec(d, r, w, m), n \in Nat
    PROVE  /\ Vec(Buf!Vector(n, d), r, w, n)
           /\ n >= m /\ Holds(d, r, w, m, e) => Holds(Buf!Vector(n, d), r, w, n, e)
<1> DEFINE x == Buf!Vector(n, d)
<1>0. /\ m \in Nat /\ r \in Nat /\ w \in Nat /\ kBufferPrefixed <= r /\ r <= w
      /\ kBufferPrefixed \in Nat /\ d \in [0 .. m - 1 -> ByteSet] /\ 0 \in ByteSet
  BY BufNumbers DEF Vec
<1>1. /\ x \in [0 .. n - 1 -> ByteSet]
      /\ \A i \in 0 .. n - 1 : i < m => x[i] = d[i]
  BY <1>0 DEF Buf!Vector
<1> HIDE DEF x
<1>2. Vec(x, r, w, n)
  BY <1>0, <1>1 DEF Vec
<1>3. ASSUME n >= m, Holds(d, r, w, m, e) PROVE Holds(x, r, w, n, e)
  <2>1. /\ m >= 2 * kBufferPrefixed /\ w <= m - kBufferPrefixed /\ Len(e) = w - r
        /\ \A i \in 1 .. Len(e) : e[i] = d[r + i - 1]
    BY <1>3 DEF Holds
  <2>2. ASSUME NEW i \in 1 .. Len(e) PROVE e[i] = x[r + i - 1]
    <3>1. r + i - 1 \in 0 .. n - 1 /\ r + i - 1 < m
      BY <1>0, <1>3, <2>1
    <3> QED BY <1>1, <2>1, <3>1
  <2>3. n >= 2 * kBufferPrefixed /\ w <= n - kBufferPrefixed
    BY <1>0, <1>3, <2>1
  <2> QED BY <2>1, <2>2, <2>3 DEF Holds
<1> QED BY <1>2, <1>3 DEF x

\* resize() keeps the bytes, or the buffer counts as shrunk from then on.
LEMMA BufResize ==
    ASSUME NEW b, NEW m, NEW e, IsBuf(b, m, e), NEW n \in Nat
    PROVE  IsBuf(Buf!resize(b, n), n, e) /\ Buf!resize(b, n).fWriteIdx = b.fWriteIdx
<1>1. PICK d, r, w, s : /\ b = Rec(d, r, w, s) /\ Vec(d, r, w, m) /\ e \in Seq(ByteSet)
                        /\ Len(e) = w - r /\ s \in BOOLEAN /\ (~s => Holds(d, r, w, m, e))
  BY DEF IsBuf
<1> DEFINE x == Buf!Vector(n, d)
           z == s \/ n < m
<1>2. Buf!resize(b, n) = Rec(x, r, w, z)
  BY <1>1, ResizeIs
<1>3. Vec(x, r, w, n) /\ (n >= m /\ Holds(d, r, w, m, e) => Holds(x, r, w, n, e))
  BY <1>1, VectorKeeps
<1>4. z \in BOOLEAN /\ (~z => ~s /\ ~(n < m))
  BY Zenon
<1>5. ~(n < m) => n >= m
  BY <1>1 DEF Vec
<1> HIDE DEF x, z
<1>6. ~z => Holds(x, r, w, n, e)
  BY <1>1, <1>3, <1>4, <1>5, Zenon
<1>7. IsBuf(Rec(x, r, w, z), n, e)
  BY <1>1, <1>3, <1>4, <1>6, Zenon DEF IsBuf
<1> QED BY <1>1, <1>2, <1>7, RecIs

\* The bytes moved to the front.
Moved(d, r, w) ==
    [i \in DOMAIN d |-> IF i \in kBufferPrefixed .. kBufferPrefixed + (w - r) - 1
                        THEN d[r + i - kBufferPrefixed] ELSE d[i]]

\* arrange() moves the unread bytes down to the prefix.
LEMMA ArrangeIs ==
    ASSUME NEW d, NEW r, NEW w, NEW s, NEW m, Vec(d, r, w, m), m < Word, w <= 2 * MaxSize
    PROVE  Buf!arrange(Rec(d, r, w, s)) =
               Rec(Moved(d, r, w), kBufferPrefixed, kBufferPrefixed + (w - r), s)
<1> DEFINE b == Rec(d, r, w, s)
           x == [i \in DOMAIN b.fData |->
                    IF i \in kBufferPrefixed .. kBufferPrefixed + Buf!length(b) - 1
                    THEN b.fData[b.fReadIdx + i - kBufferPrefixed] ELSE b.fData[i]]
           y == kBufferPrefixed + Buf!length(b)
<1>1. Buf!arrange(b) = [b EXCEPT !.fData = x, !.fReadIdx = kBufferPrefixed, !.fWriteIdx = y]
  BY DEF Buf!arrange
<1>2. b.fData = d /\ b.fReadIdx = r /\ Buf!length(b) = w - r
  BY RecIs, BufReads
<1>3. x = Moved(d, r, w) /\ y = kBufferPrefixed + (w - r)
  BY <1>2 DEF Moved
<1> HIDE DEF x, y
<1>4. [b EXCEPT !.fData = x] = Rec(x, r, w, s)
  BY DEF Rec
<1>5. [Rec(x, r, w, s) EXCEPT !.fReadIdx = kBufferPrefixed] = Rec(x, kBufferPrefixed, w, s)
  BY DEF Rec
<1>6. [Rec(x, kBufferPrefixed, w, s) EXCEPT !.fWriteIdx = y] = Rec(x, kBufferPrefixed, y, s)
  BY DEF Rec
<1> HIDE DEF b
<1>7. [b EXCEPT !.fData = x, !.fReadIdx = kBufferPrefixed, !.fWriteIdx = y]
          = Rec(x, kBufferPrefixed, y, s)
  BY ONLY <1>4, <1>5, <1>6
<1> QED BY <1>1, <1>3, <1>7 DEF b

\* The bytes moved down are the bytes that were unread, in their order.
LEMMA MovedKeeps ==
    ASSUME NEW d, NEW r, NEW w, NEW m, NEW e, Vec(d, r, w, m), w <= m
    PROVE  LET p == kBufferPrefixed
           IN  /\ Vec(Moved(d, r, w), p, p + (w - r), m) /\ p + (w - r) <= w
               /\ Holds(d, r, w, m, e) => Holds(Moved(d, r, w), p, p + (w - r), m, e)
<1> DEFINE p == kBufferPrefixed
           x == Moved(d, r, w)
           l == w - r
<1>0. /\ m \in Nat /\ r \in Nat /\ w \in Nat /\ p <= r /\ r <= w /\ p \in Nat
      /\ d \in [0 .. m - 1 -> ByteSet]
  BY BufNumbers DEF Vec
<1>1. x = [i \in 0 .. m - 1 |-> IF i \in p .. p + l - 1 THEN d[r + i - p] ELSE d[i]]
  BY <1>0 DEF Moved
<1>2. l \in Nat /\ p + l <= w /\ r + l = w
  BY <1>0
<1> HIDE DEF x, p, l
<1>3. x \in [0 .. m - 1 -> ByteSet]
  <2>1. \A i \in p .. p + l - 1 : r + i - p \in 0 .. m - 1
    BY <1>0, <1>2
  <2> QED BY <1>0, <1>1, <2>1
<1>4. Vec(x, p, p + l, m)
  BY <1>0, <1>2, <1>3 DEF Vec, p
<1>5. ASSUME Holds(d, r, w, m, e) PROVE Holds(x, p, p + l, m, e)
  <2>1. m >= 2 * p /\ w <= m - p /\ Len(e) = l /\ \A i \in 1 .. Len(e) : e[i] = d[r + i - 1]
    BY <1>5 DEF Holds, p, l
  <2>2. ASSUME NEW i \in 1 .. Len(e) PROVE e[i] = x[p + i - 1]
    <3>1. p + i - 1 \in p .. p + l - 1 /\ p + i - 1 \in 0 .. m - 1
          /\ r + (p + i - 1) - p = r + i - 1
      BY <1>0, <1>2, <2>1
    <3>2. x[p + i - 1] = d[r + i - 1]
      BY <1>1, <3>1
    <3> QED BY <2>1, <3>2
  <2>3. p + l <= m - p /\ Len(e) = (p + l) - p
    BY <1>0, <1>2, <2>1
  <2> QED BY <2>1, <2>2, <2>3 DEF Holds, p
<1> QED BY <1>2, <1>4, <1>5 DEF x, p, l

\* arrange() keeps the content, and the write index does not grow.
LEMMA BufArrange ==
    ASSUME NEW b, NEW m, NEW e, IsBuf(b, m, e), m < Word, b.fWriteIdx <= 2 * MaxSize,
           b.fWriteIdx <= m
    PROVE  IsBuf(Buf!arrange(b), m, e) /\ Buf!arrange(b).fWriteIdx <= b.fWriteIdx
<1>1. PICK d, r, w, s : /\ b = Rec(d, r, w, s) /\ Vec(d, r, w, m) /\ e \in Seq(ByteSet)
                        /\ Len(e) = w - r /\ s \in BOOLEAN /\ (~s => Holds(d, r, w, m, e))
  BY DEF IsBuf
<1> DEFINE x == Moved(d, r, w)
           y == kBufferPrefixed + (w - r)
<1>2. b.fWriteIdx = w
  BY <1>1, RecIs
<1>3. Buf!arrange(b) = Rec(x, kBufferPrefixed, y, s)
  BY <1>1, <1>2, ArrangeIs
<1>4. /\ Vec(x, kBufferPrefixed, y, m) /\ y <= w
      /\ Holds(d, r, w, m, e) => Holds(x, kBufferPrefixed, y, m, e)
  BY <1>1, <1>2, MovedKeeps
<1>5. Len(e) = y - kBufferPrefixed
  BY <1>1, BufNumbers DEF Vec
<1> HIDE DEF x, y
<1>6. IsBuf(Rec(x, kBufferPrefixed, y, s), m, e)
  BY <1>1, <1>4, <1>5, Zenon DEF IsBuf
<1> QED BY <1>2, <1>3, <1>4, <1>6, RecIs

\* n bytes leave at the front.
LEMMA BufAdvance ==
    ASSUME NEW b, NEW m, NEW e, IsBuf(b, m, e), NEW n \in 0 .. (b.fWriteIdx - b.fReadIdx),
           NEW f, f = Body!From(e, n)
    PROVE  /\ IsBuf([b EXCEPT !.fReadIdx = @ + n], m, f)
           /\ [b EXCEPT !.fReadIdx = @ + n].fWriteIdx = b.fWriteIdx
           /\ [b EXCEPT !.fReadIdx = @ + n].shrunk = b.shrunk
<1>1. PICK d, r, w, s : /\ b = Rec(d, r, w, s) /\ Vec(d, r, w, m) /\ e \in Seq(ByteSet)
                        /\ Len(e) = w - r /\ s \in BOOLEAN /\ (~s => Holds(d, r, w, m, e))
  BY DEF IsBuf
<1>2. b.fReadIdx = r /\ b.fWriteIdx = w /\ b.shrunk = s
  BY <1>1, RecIs
<1>3. [b EXCEPT !.fReadIdx = @ + n] = Rec(d, r + n, w, s)
  <2>1. \A q : [Rec(d, r, w, s) EXCEPT !.fReadIdx = q] = Rec(d, q, w, s)
    BY DEF Rec
  <2> QED BY <1>1, <1>2, <2>1
<1>4. Vec(d, r + n, w, m)
  BY <1>1, <1>2, BufNumbers DEF Vec
<1>5. n \in 0 .. Len(e) /\ Len(e) \in Nat /\ r \in Nat /\ w \in Nat
  BY <1>1, <1>2 DEF Vec
<1>6. f \in Seq(ByteSet) /\ Len(f) = Len(e) - n /\ \A i \in 1 .. Len(e) - n : f[i] = e[n + i]
  <2>1. e \in Seq(ByteSet)
    BY <1>1
  <2>2. /\ Body!From(e, n) \in Seq(ByteSet) /\ Len(Body!From(e, n)) = Len(e) - n
        /\ \A i \in 1 .. Len(e) - n : Body!From(e, n)[i] = e[n + i]
    BY ONLY <1>5, <2>1, FromIs
  <2> QED BY ONLY <2>2, f = Body!From(e, n)
<1>7. Len(f) = w - (r + n)
  BY <1>1, <1>5, <1>6
<1>8. ASSUME Holds(d, r, w, m, e) PROVE Holds(d, r + n, w, m, f)
  <2>1. /\ m >= 2 * kBufferPrefixed /\ w <= m - kBufferPrefixed /\ Len(e) = w - r
        /\ \A i \in 1 .. Len(e) : e[i] = d[r + i - 1]
    BY <1>8 DEF Holds
  <2>2. ASSUME NEW i \in 1 .. Len(f) PROVE f[i] = d[(r + n) + i - 1]
    <3>1. n \in Nat /\ i \in 1 .. Len(e) - n
      BY <1>5, <1>6
    <3>2. n + i \in 1 .. Len(e) /\ r + (n + i) - 1 = (r + n) + i - 1
      BY <1>5, <3>1
    <3> QED BY <1>6, <2>1, <3>1, <3>2
  <2> QED BY <1>7, <2>1, <2>2 DEF Holds
<1>9. IsBuf(Rec(d, r + n, w, s), m, f)
  <2> DEFINE q == r + n
  <2> HIDE DEF q
  <2>1. Vec(d, q, w, m) /\ (~s => Holds(d, q, w, m, f)) /\ Len(f) = w - q
    BY <1>1, <1>4, <1>7, <1>8, Zenon DEF q
  <2>2. IsBuf(Rec(d, q, w, s), m, f)
    BY <1>1, <1>6, <2>1, Zenon DEF IsBuf
  <2> QED BY <2>2 DEF q
<1> QED BY <1>2, <1>3, <1>9, RecIs

\* Nothing or an arrange.
LEMMA BufTry ==
    ASSUME NEW b, NEW m, NEW e, IsBuf(b, m, e), m < Word, b.fWriteIdx <= 2 * MaxSize,
           b.fWriteIdx <= m
    PROVE  IsBuf(Buf!tryArrange(b), m, e) /\ Buf!tryArrange(b).fWriteIdx <= b.fWriteIdx
<1>1. PICK d, r, w, s : /\ b = Rec(d, r, w, s) /\ Vec(d, r, w, m) /\ e \in Seq(ByteSet)
                        /\ Len(e) = w - r /\ s \in BOOLEAN /\ (~s => Holds(d, r, w, m, e))
  BY DEF IsBuf
<1>2. b.fReadIdx = r /\ b.fWriteIdx = w /\ w \in Nat /\ kBufferPrefixed \in Nat
      /\ kBufferPrefixed <= r /\ r <= w /\ m \in Nat /\ r \in Nat
  BY <1>1, RecIs, BufNumbers DEF Vec
<1>3. CASE r = w
  <2> DEFINE c == Rec(d, kBufferPrefixed, kBufferPrefixed, s)
  <2>1. Buf!tryArrange(b) = c
    <3>1. [b EXCEPT !.fReadIdx = kBufferPrefixed] = Rec(d, kBufferPrefixed, w, s)
      BY <1>1 DEF Rec
    <3>2. [Rec(d, kBufferPrefixed, w, s) EXCEPT !.fWriteIdx = kBufferPrefixed] = c
      BY DEF Rec
    <3>3. Buf!tryArrange(b) = [b EXCEPT !.fReadIdx = kBufferPrefixed, !.fWriteIdx = kBufferPrefixed]
      BY <1>2, <1>3 DEF Buf!tryArrange
    <3> HIDE DEF c
    <3> QED BY ONLY <3>1, <3>2, <3>3
  <2>2. Vec(d, kBufferPrefixed, kBufferPrefixed, m)
    BY <1>1, <1>2 DEF Vec
  <2>3. ASSUME Holds(d, r, w, m, e) PROVE Holds(d, kBufferPrefixed, kBufferPrefixed, m, e)
    <3>1. m >= 2 * kBufferPrefixed /\ Len(e) = 0
      BY <1>2, <1>3, <2>3 DEF Holds
    <3> QED BY <1>2, <3>1 DEF Holds
  <2>4. Len(e) = kBufferPrefixed - kBufferPrefixed
    BY <1>1, <1>2, <1>3
  <2>5. IsBuf(c, m, e)
    BY <1>1, <2>2, <2>3, <2>4, Zenon DEF IsBuf
  <2> QED BY <1>2, <2>1, <2>5, RecIs
<1>4. CASE r # w
  <2>1. Buf!tryArrange(b) = Buf!arrange(b) \/ Buf!tryArrange(b) = b
    BY <1>2, <1>4 DEF Buf!tryArrange
  <2> QED BY <1>2, <2>1, BufArrange
<1> QED BY <1>3, <1>4

\* read() and shrink().
LEMMA BufDrop ==
    ASSUME NEW b, NEW m, NEW e, IsBuf(b, m, e), m < Word, b.fWriteIdx <= 2 * MaxSize,
           b.fWriteIdx <= m, NEW n \in 0 .. (b.fWriteIdx - b.fReadIdx),
           NEW f, f = Body!From(e, n)
    PROVE  IsBuf(Buf!Drop(b, n), m, f) /\ Buf!Drop(b, n).fWriteIdx <= b.fWriteIdx
<1> DEFINE c == [b EXCEPT !.fReadIdx = @ + n]
<1>1. IsBuf(c, m, f) /\ c.fWriteIdx = b.fWriteIdx
  BY BufAdvance
<1>2. Buf!Drop(b, n) = Buf!tryArrange(c)
  BY DEF Buf!Drop
<1> HIDE DEF c
<1>3. IsBuf(Buf!tryArrange(c), m, f) /\ Buf!tryArrange(c).fWriteIdx <= c.fWriteIdx
  <2>1. c.fWriteIdx <= 2 * MaxSize /\ c.fWriteIdx <= m
    BY <1>1
  <2> QED BY <1>1, <2>1, BufTry
<1> QED BY <1>1, <1>2, <1>3

-----------------------------------------------------------------------------
\* The inner loop of makeSpace stays a size_t.
LEMMA DoubledIs ==
    ASSUME NEW b, NEW len, Buf!capacity(b) \in 0 .. Word - 1
    PROVE  Buf!Doubled(b, len) \in 0 .. Word - 1
<1> DEFINE X == 0 .. Word - 1
           cap == Buf!capacity(b)
           double(y) == IF Buf!Fits(b, y, len) THEN y ELSE (2 * y) % Word
           step == [n \in 1 .. MaxTurns |-> [y \in X |-> double(y)]]
           IsRz(f) == f = [n \in 0 .. MaxTurns |-> IF n = 0 THEN cap ELSE double(f[n - 1])]
           rz == CHOOSE f : IsRz(f)
<1>1. MaxTurns \in Nat /\ Word \in Nat /\ cap \in X
  BY BufNumbers
<1>2. \A y \in X : double(y) \in X
  <2>1. \A y \in X : (2 * y) % Word \in X
    BY <1>1
  <2> QED BY <2>1
<1>3. Buf!Doubled(b, len) = rz[MaxTurns]
  BY DEF Buf!Doubled
<1> HIDE DEF X, double, cap
<1>4. PICK f \in [0 .. MaxTurns -> X] : IsLoop(f, MaxTurns, cap, step)
  <2>1. step \in [1 .. MaxTurns -> [X -> X]]
    BY <1>2
  <2> HIDE DEF step
  <2> QED BY <1>1, <2>1, LoopExists
<1>5. IsRz(f)
  <2>1. f = [n \in 0 .. MaxTurns |-> IF n = 0 THEN cap ELSE step[n][f[n - 1]]]
    BY <1>4 DEF IsLoop
  <2>2. \A n \in 0 .. MaxTurns : n # 0 => f[n - 1] \in X /\ n \in 1 .. MaxTurns
    BY <1>1, <1>4
  <2> QED BY <2>1, <2>2
<1>6. IsRz(rz)
  BY <1>5, Zenon
<1> HIDE DEF rz
<1>7. Stays(rz, MaxTurns, X)
  <2>1. \A n \in 0 .. MaxTurns - 1 : rz[n + 1] = double(rz[n])
    BY <1>1, <1>6
  <2> QED BY <1>1, <1>2, <1>6, <2>1 DEF Stays
<1>8. rz[MaxTurns] \in X
  BY <1>1, <1>7, LoopStays
<1> QED BY <1>3, <1>8 DEF X

\* What the turns of makeSpace keep.
InLoop(b, e) == b.fWriteIdx <= MaxSize /\ \E m \in 0 .. Word - 1 : IsBuf(b, m, e)

\* One turn of the loop of makeSpace() keeps the content.
LEMMA BufTurn ==
    ASSUME NEW b, NEW e, InLoop(b, e), NEW len \in 0 .. MaxSize
    PROVE  InLoop(Buf!Turn(b, len), e)
<1>0. Word \in Nat /\ MaxSize \in Nat /\ 4 * MaxSize < Word
  BY BufNumbers
<1>1. PICK m \in 0 .. Word - 1 : IsBuf(b, m, e)
  BY DEF InLoop
<1>2. PICK d, r, w, s : b = Rec(d, r, w, s) /\ Vec(d, r, w, m)
  BY <1>1 DEF IsBuf
<1>3. b.fWriteIdx = w /\ w \in Nat /\ w <= MaxSize /\ w <= 2 * MaxSize /\ m < Word
  BY <1>0, <1>1, <1>2, RecIs DEF Vec, InLoop
<1>4. Buf!capacity(b) \in 0 .. Word - 1 /\ Buf!right(b) \in 0 .. Word - 1
  BY <1>2, <1>3, BufReads
<1>5. CASE Buf!Turn(b, len) = b
  BY <1>5
<1>6. CASE ~(Buf!right(b) > len) /\ Buf!Turn(b, len) = Buf!arrange(b)
  <2>1. Buf!right(b) <= MaxSize
    BY <1>0, <1>4, <1>6
  <2>2. w <= m
    BY <1>2, <1>3, <2>1, SmallRight
  <2>3. IsBuf(Buf!arrange(b), m, e) /\ Buf!arrange(b).fWriteIdx <= b.fWriteIdx
    BY <1>1, <1>3, <2>2, BufArrange
  <2>4. Buf!arrange(b).fWriteIdx \in Nat
    <3>1. PICK d2, r2, w2, s2 : Buf!arrange(b) = Rec(d2, r2, w2, s2) /\ Vec(d2, r2, w2, m)
      BY <2>3 DEF IsBuf
    <3> QED BY <3>1, RecIs DEF Vec
  <2>5. Buf!arrange(b).fWriteIdx <= MaxSize
    BY <1>0, <1>3, <2>3, <2>4
  <2> QED BY <1>6, <2>3, <2>5 DEF InLoop
<1>7. CASE Buf!Turn(b, len) = Buf!resize(b, Buf!Doubled(b, len))
  <2> DEFINE n == Buf!Doubled(b, len)
  <2>1. n \in 0 .. Word - 1
    BY <1>4, DoubledIs
  <2> HIDE DEF n
  <2>2. n \in Nat
    BY <1>0, <2>1
  <2>3. IsBuf(Buf!resize(b, n), n, e) /\ Buf!resize(b, n).fWriteIdx = b.fWriteIdx
    BY <1>1, <2>2, BufResize
  <2> QED BY <1>3, <1>7, <2>1, <2>3 DEF InLoop, n
<1> QED BY <1>5, <1>6, <1>7 DEF Buf!Turn

\* The buffers, as a set.
Vectors == UNION {[0 .. m - 1 -> ByteSet] : m \in Nat}
AllBufs == {Rec(d, r, w, s) : d \in Vectors, r \in Nat, w \in Nat, s \in BOOLEAN}

\* Whatever a turn keeps is a buffer of the set.
LEMMA InAllBufs ==
    ASSUME NEW b, NEW e, InLoop(b, e)
    PROVE  b \in AllBufs
<1>1. PICK m \in 0 .. Word - 1 : IsBuf(b, m, e)
  BY DEF InLoop
<1>2. PICK d, r, w, s : b = Rec(d, r, w, s) /\ Vec(d, r, w, m) /\ s \in BOOLEAN
  BY <1>1 DEF IsBuf
<1>3. d \in Vectors /\ r \in Nat /\ w \in Nat
  BY <1>2 DEF Vec, Vectors
<1>4. Rec(d, r, w, s) \in AllBufs
  BY ONLY <1>2, <1>3 DEF AllBufs
<1> QED BY <1>2, <1>4

\* makeSpace loses no byte.
LEMMA BufSpace ==
    ASSUME NEW b, NEW e, InLoop(b, e), NEW len \in 0 .. MaxSize
    PROVE  InLoop(Buf!makeSpace(b, len), e)
<1> DEFINE X == {c \in AllBufs : InLoop(c, e)}
           step == [n \in 1 .. MaxTurns |-> [c \in X |-> Buf!Turn(c, len)]]
           IsTurns(f) == f = [n \in 0 .. MaxTurns |-> IF n = 0 THEN b ELSE
                                 Buf!Turn(f[n - 1], len)]
           turn == CHOOSE f : IsTurns(f)
<1>1. MaxTurns \in Nat /\ b \in X
  BY BufNumbers, InAllBufs
<1>2. ASSUME NEW c \in X PROVE Buf!Turn(c, len) \in X
  BY BufTurn, InAllBufs
<1>3. \A c \in X : InLoop(c, e)
  OBVIOUS
<1> HIDE DEF X
<1>4. PICK f \in [0 .. MaxTurns -> X] : IsLoop(f, MaxTurns, b, step)
  <2>1. step \in [1 .. MaxTurns -> [X -> X]]
    BY <1>2
  <2> HIDE DEF step
  <2> QED BY <1>1, <2>1, LoopExists
<1>5. IsTurns(f)
  <2>1. f = [n \in 0 .. MaxTurns |-> IF n = 0 THEN b ELSE step[n][f[n - 1]]]
    BY <1>4 DEF IsLoop
  <2>2. \A n \in 0 .. MaxTurns : n # 0 => f[n - 1] \in X /\ n \in 1 .. MaxTurns
    BY <1>1, <1>4
  <2> QED BY <2>1, <2>2
<1>6. Buf!makeSpace(b, len) = turn[MaxTurns]
  BY DEF Buf!makeSpace
<1>7. IsTurns(turn)
  BY <1>5, Zenon
<1> HIDE DEF turn
<1>8. Stays(turn, MaxTurns, X)
  <2>1. \A n \in 0 .. MaxTurns - 1 : turn[n + 1] = Buf!Turn(turn[n], len)
    BY <1>1, <1>7
  <2> QED BY <1>1, <1>2, <1>7, <2>1 DEF Stays
<1>9. turn[MaxTurns] \in X
  BY <1>1, <1>8, LoopStays
<1> QED BY <1>3, <1>6, <1>9

-----------------------------------------------------------------------------
\* Bytes stored at the write index, where there is room for them.
Put(d, w, t) == [i \in DOMAIN d |-> IF i \in w .. w + Len(t) - 1 THEN t[i - w + 1] ELSE d[i]]

\* Bytes stored at the write index follow the ones that were unread.
LEMMA PutKeeps ==
    ASSUME NEW d, NEW r, NEW w, NEW m, NEW e, Vec(d, r, w, m), e \in Seq(ByteSet),
           NEW t \in Seq(ByteSet)
    PROVE  /\ Vec(Put(d, w, t), r, w + Len(t), m)
           /\ Holds(d, r, w, m, e) /\ w + Len(t) <= m - kBufferPrefixed
                  => Holds(Put(d, w, t), r, w + Len(t), m, e \o t)
<1> DEFINE x == Put(d, w, t)
           l == Len(t)
           u == e \o t
<1>0. /\ m \in Nat /\ r \in Nat /\ w \in Nat /\ kBufferPrefixed <= r /\ r <= w
      /\ kBufferPrefixed \in Nat /\ d \in [0 .. m - 1 -> ByteSet] /\ l \in Nat
      /\ \A i \in 1 .. l : t[i] \in ByteSet
  BY BufNumbers DEF Vec
<1>1. x = [i \in 0 .. m - 1 |-> IF i \in w .. w + l - 1 THEN t[i - w + 1] ELSE d[i]]
  BY <1>0 DEF Put
<1>2. /\ Len(e) \in Nat /\ Len(u) = Len(e) + l
      /\ \A i \in 1 .. Len(e) + l : u[i] = IF i <= Len(e) THEN e[i] ELSE t[i - Len(e)]
  BY ConcatProperties
<1> HIDE DEF x, l, u
<1>3. x \in [0 .. m - 1 -> ByteSet]
  <2>1. \A i \in w .. w + l - 1 : i - w + 1 \in 1 .. l
    BY <1>0
  <2> QED BY <1>0, <1>1, <2>1
<1>4. Vec(x, r, w + l, m)
  BY <1>0, <1>3 DEF Vec
<1>5. ASSUME Holds(d, r, w, m, e), w + l <= m - kBufferPrefixed
      PROVE  Holds(x, r, w + l, m, u)
  <2>1. /\ m >= 2 * kBufferPrefixed /\ w <= m - kBufferPrefixed /\ Len(e) = w - r
        /\ \A i \in 1 .. Len(e) : e[i] = d[r + i - 1]
    BY <1>5 DEF Holds
  <2>2. ASSUME NEW i \in 1 .. Len(u) PROVE u[i] = x[r + i - 1]
    <3>1. i \in 1 .. Len(e) + l
      BY <1>2
    <3>2. CASE i <= Len(e)
      <4>1. r + i - 1 \in 0 .. m - 1 /\ ~(r + i - 1 \in w .. w + l - 1) /\ i \in 1 .. Len(e)
        BY <1>0, <1>2, <2>1, <3>1, <3>2
      <4>2. x[r + i - 1] = d[r + i - 1]
        BY <1>1, <4>1
      <4> QED BY <1>2, <2>1, <3>1, <3>2, <4>1, <4>2
    <3>3. CASE ~(i <= Len(e))
      <4>1. r + i - 1 \in 0 .. m - 1 /\ r + i - 1 \in w .. w + l - 1
            /\ (r + i - 1) - w + 1 = i - Len(e)
        BY <1>0, <1>2, <1>5, <2>1, <3>1, <3>3
      <4>2. x[r + i - 1] = t[(r + i - 1) - w + 1]
        BY <1>1, <4>1
      <4> QED BY <1>2, <3>1, <3>3, <4>1, <4>2
    <3> QED BY <3>2, <3>3
  <2>3. Len(u) = (w + l) - r
    BY <1>0, <1>2, <2>1
  <2> QED BY <1>5, <2>1, <2>2, <2>3 DEF Holds
<1> QED BY <1>4, <1>5 DEF x, l, u

\* A store where there is room adds its bytes to the content.
LEMMA BufStore ==
    ASSUME NEW b, NEW m, NEW e, IsBuf(b, m, e), NEW t \in Seq(ByteSet),
           ~b.shrunk => b.fWriteIdx + Len(t) <= m - kBufferPrefixed
    PROVE  /\ IsBuf(Buf!Store(b, t), m, e \o t)
           /\ Buf!Store(b, t).fWriteIdx = b.fWriteIdx + Len(t)
<1>1. PICK d, r, w, s : /\ b = Rec(d, r, w, s) /\ Vec(d, r, w, m) /\ e \in Seq(ByteSet)
                        /\ Len(e) = w - r /\ s \in BOOLEAN /\ (~s => Holds(d, r, w, m, e))
  BY DEF IsBuf
<1>2. b.fData = d /\ b.fWriteIdx = w /\ b.shrunk = s
  BY <1>1, RecIs
<1> DEFINE x == Put(d, w, t)
           y == w + Len(t)
<1>3. Buf!Store(b, t) = Rec(x, r, y, s)
  <2> DEFINE z == [i \in DOMAIN b.fData |->
                      IF i \in b.fWriteIdx .. b.fWriteIdx + Len(t) - 1
                      THEN t[i - b.fWriteIdx + 1] ELSE b.fData[i]]
             v == b.fWriteIdx + Len(t)
  <2>1. Buf!Store(b, t) = [b EXCEPT !.fData = z, !.fWriteIdx = v]
    BY DEF Buf!Store
  <2>2. z = x /\ v = y
    BY <1>2 DEF Put
  <2> HIDE DEF z, v, x, y
  <2>3. [b EXCEPT !.fData = z] = Rec(z, r, w, s)
    BY <1>1 DEF Rec
  <2>4. [Rec(z, r, w, s) EXCEPT !.fWriteIdx = v] = Rec(z, r, v, s)
    BY DEF Rec
  <2>5. [b EXCEPT !.fData = z, !.fWriteIdx = v] = Rec(z, r, v, s)
    BY ONLY <2>3, <2>4
  <2> QED BY <2>1, <2>2, <2>5
<1>4. /\ Vec(x, r, y, m)
      /\ Holds(d, r, w, m, e) /\ y <= m - kBufferPrefixed => Holds(x, r, y, m, e \o t)
  BY <1>1, PutKeeps
<1>5. e \o t \in Seq(ByteSet) /\ Len(e \o t) = y - r
  <2>1. e \o t \in Seq(ByteSet) /\ Len(e \o t) = Len(e) + Len(t) /\ Len(t) \in Nat
    <3>1. e \in Seq(ByteSet) /\ t \in Seq(ByteSet)
      BY <1>1
    <3> QED BY ONLY <3>1, ConcatProperties, LenProperties
  <2> QED BY <1>1, <2>1 DEF Vec
<1>6. ~s => y <= m - kBufferPrefixed
  BY <1>2
<1> DEFINE u == e \o t
<1> HIDE DEF x, y, u
<1>7. ~s => Holds(x, r, y, m, u)
  BY <1>1, <1>4, <1>6, Zenon DEF u
<1>8. Vec(x, r, y, m) /\ u \in Seq(ByteSet) /\ Len(u) = y - r
  BY <1>4, <1>5 DEF u
<1>9. IsBuf(Rec(x, r, y, s), m, u)
  BY <1>1, <1>7, <1>8, Zenon DEF IsBuf
<1>10. Rec(x, r, y, s).fWriteIdx = y
  BY RecIs
<1> QED BY <1>2, <1>3, <1>9, <1>10 DEF y, u

\* What the buffer becomes.
LEMMA BufBecomes ==
    ASSUME NEW b, NEW m, NEW e, IsBuf(b, m, e), Buf!Becomes(b)
    PROVE  IsBuf(buf_bu', m, e) /\ m \in 0 .. MaxSize /\ buf_bu'.fWriteIdx = b.fWriteIdx
<1>1. PICK d, r, w, s : /\ b = Rec(d, r, w, s) /\ Vec(d, r, w, m) /\ e \in Seq(ByteSet)
                        /\ Len(e) = w - r /\ s \in BOOLEAN /\ (~s => Holds(d, r, w, m, e))
  BY DEF IsBuf
<1>2. b.fData = d /\ b.fReadIdx = r /\ b.fWriteIdx = w /\ Buf!Size(b) = m
  BY <1>1, RecIs, VectorSize
<1>3. m \in 0 .. MaxSize
  BY <1>1, <1>2, BufNumbers DEF Buf!Becomes, Vec
<1> DEFINE x == [i \in DOMAIN d |-> IF r <= i /\ i < w THEN d[i] ELSE 0]
<1>4. buf_bu' = Rec(x, r, w, s)
  <2> DEFINE z == [i \in DOMAIN b.fData |->
                      IF b.fReadIdx <= i /\ i < b.fWriteIdx THEN b.fData[i] ELSE 0]
  <2>1. buf_bu' = [b EXCEPT !.fData = z]
    BY DEF Buf!Becomes
  <2>2. z = x
    BY <1>2
  <2> HIDE DEF z, x
  <2>3. [b EXCEPT !.fData = z] = Rec(z, r, w, s)
    BY <1>1 DEF Rec
  <2> QED BY <2>1, <2>2, <2>3
<1>5. /\ m \in Nat /\ r \in Nat /\ w \in Nat /\ kBufferPrefixed <= r /\ r <= w
      /\ kBufferPrefixed \in Nat /\ d \in [0 .. m - 1 -> ByteSet] /\ 0 \in ByteSet
  BY <1>1, BufNumbers DEF Vec
<1>6. x = [i \in 0 .. m - 1 |-> IF r <= i /\ i < w THEN d[i] ELSE 0]
  BY <1>5
<1> HIDE DEF x
<1>7. Vec(x, r, w, m)
  <2>1. x \in [0 .. m - 1 -> ByteSet]
    BY <1>5, <1>6
  <2> QED BY <1>5, <2>1 DEF Vec
<1>8. ASSUME Holds(d, r, w, m, e) PROVE Holds(x, r, w, m, e)
  <2>1. /\ m >= 2 * kBufferPrefixed /\ w <= m - kBufferPrefixed /\ Len(e) = w - r
        /\ \A i \in 1 .. Len(e) : e[i] = d[r + i - 1]
    BY <1>8 DEF Holds
  <2>2. ASSUME NEW i \in 1 .. Len(e) PROVE e[i] = x[r + i - 1]
    <3>1. r + i - 1 \in 0 .. m - 1 /\ r <= r + i - 1 /\ r + i - 1 < w
      BY <1>5, <2>1
    <3> QED BY <1>6, <2>1, <3>1
  <2> QED BY <2>1, <2>2 DEF Holds
<1>9. IsBuf(Rec(x, r, w, s), m, e)
  BY <1>1, <1>7, <1>8, Zenon DEF IsBuf
<1> QED BY <1>2, <1>3, <1>4, <1>9, RecIs

-----------------------------------------------------------------------------
\* The buffer before an operation.
Ready(m) ==
    /\ IsBuf(buf_bu, m, expect_bu) /\ m < Word /\ InLoop(buf_bu, expect_bu)
    /\ buf_bu.fReadIdx \in Nat /\ buf_bu.fWriteIdx \in Nat
    /\ buf_bu.fReadIdx <= buf_bu.fWriteIdx /\ buf_bu.fWriteIdx <= m
    /\ buf_bu.fWriteIdx <= MaxSize /\ buf_bu.fWriteIdx <= 2 * MaxSize
    /\ Buf!length(buf_bu) = buf_bu.fWriteIdx - buf_bu.fReadIdx
    /\ Buf!right(buf_bu) \in 0 .. Word - 1 /\ Buf!Size(buf_bu) = m

\* Between operations the indices are within the numbers of the word.
LEMMA BufNow == ASSUME BufInv, Buf!InVector PROVE \E m \in 0 .. MaxSize : Ready(m)
<1>1. PICK m \in 0 .. MaxSize : IsBuf(buf_bu, m, expect_bu)
  BY DEF BufInv
<1>2. PICK d, r, w, s : buf_bu = Rec(d, r, w, s) /\ Vec(d, r, w, m)
  BY <1>1 DEF IsBuf
<1>3. buf_bu.fWriteIdx = w /\ buf_bu.fReadIdx = r
  BY <1>2, RecIs
<1>4. w \in Nat /\ r \in Nat /\ r <= w
  BY <1>2 DEF Vec
<1>5. Buf!Size(buf_bu) = m
  BY <1>2, VectorSize
<1>6. w <= m
  BY <1>3, <1>5 DEF Buf!InVector
<1>7. m \in Nat /\ m <= MaxSize /\ MaxSize \in Nat /\ Word \in Nat /\ 4 * MaxSize < Word
  BY <1>1, BufNumbers
<1>8. w <= MaxSize /\ w <= 2 * MaxSize /\ m < Word /\ m \in 0 .. Word - 1
  BY <1>4, <1>6, <1>7
<1>9. Buf!length(buf_bu) = w - r /\ Buf!right(buf_bu) \in 0 .. Word - 1
  BY <1>2, <1>8, BufReads
<1>10. InLoop(buf_bu, expect_bu)
  BY <1>1, <1>3, <1>8 DEF InLoop
<1> QED BY <1>1, <1>3, <1>4, <1>5, <1>6, <1>8, <1>9, <1>10 DEF Ready

\* Room for len bytes, from what right() says.
LEMMA RightRoom ==
    ASSUME NEW b, NEW m, NEW e, IsBuf(b, m, e), m < Word, b.fWriteIdx <= 2 * MaxSize,
           NEW len \in Nat, Buf!right(b) >= len
    PROVE  ~b.shrunk => b.fWriteIdx + len <= m - kBufferPrefixed
<1>1. PICK d, r, w, s : /\ b = Rec(d, r, w, s) /\ Vec(d, r, w, m)
                        /\ (~s => Holds(d, r, w, m, e))
  BY DEF IsBuf
<1>2. b.fWriteIdx = w /\ b.shrunk = s
  BY <1>1, RecIs
<1>3. ASSUME Holds(d, r, w, m, e) PROVE w + len <= m - kBufferPrefixed
  <2>1. /\ m >= 2 * kBufferPrefixed /\ w <= m - kBufferPrefixed /\ kBufferPrefixed \in Nat
        /\ m \in Nat /\ w \in Nat
    BY <1>1, <1>3, BufNumbers DEF Holds, Vec
  <2>2. m >= kBufferPrefixed
    BY <2>1
  <2>3. Buf!right(b) = m - kBufferPrefixed - w
    BY <1>1, <1>2, <2>1, <2>2, BufReads
  <2> QED BY <2>1, <2>3
<1> QED BY <1>1, <1>2, <1>3

\* Bytes written behind makeSpace.
LEMMA BufWrites ==
    ASSUME NEW b, NEW e, InLoop(b, e), NEW len \in 0 .. MaxSize, NEW t \in Seq(ByteSet),
           Len(t) = len, Buf!Spacious(b, len), Buf!Becomes(Buf!Store(Buf!makeSpace(b, len), t))
    PROVE  /\ \E m \in 0 .. MaxSize : IsBuf(buf_bu', m, e \o t)
           /\ buf_bu'.fWriteIdx <= 2 * MaxSize
<1> DEFINE c == Buf!makeSpace(b, len)
<1>0. MaxSize \in Nat /\ Word \in Nat
  BY BufNumbers
<1>1. InLoop(c, e) /\ Buf!right(c) > len
  BY BufSpace DEF Buf!Spacious
<1>2. Buf!Becomes(Buf!Store(c, t))
  OBVIOUS
<1> HIDE DEF c
<1>3. PICK m \in 0 .. Word - 1 : IsBuf(c, m, e)
  BY <1>1 DEF InLoop
<1>4. PICK d, r, w, s : c = Rec(d, r, w, s) /\ Vec(d, r, w, m)
  BY <1>3 DEF IsBuf
<1>5. c.fWriteIdx = w /\ w \in Nat /\ w <= MaxSize /\ w <= 2 * MaxSize /\ m < Word
  BY <1>0, <1>1, <1>3, <1>4, RecIs DEF InLoop, Vec
<1>6. Buf!right(c) >= len
  <2>1. Buf!right(c) \in 0 .. Word - 1
    BY <1>4, <1>5, BufReads
  <2> QED BY <1>0, <1>1, <2>1
<1>7. ~c.shrunk => c.fWriteIdx + len <= m - kBufferPrefixed
  BY <1>3, <1>5, <1>6, RightRoom
<1>8. IsBuf(Buf!Store(c, t), m, e \o t) /\ Buf!Store(c, t).fWriteIdx = w + len
  BY <1>3, <1>5, <1>7, BufStore
<1>9. IsBuf(buf_bu', m, e \o t) /\ m \in 0 .. MaxSize /\ buf_bu'.fWriteIdx = w + len
  BY <1>2, <1>8, BufBecomes
<1> QED BY <1>0, <1>5, <1>9

\* The bytes of a write.
LEMMA BufFresh ==
    ASSUME BufInv, NEW n \in Nat
    PROVE  /\ Buf!Fresh(n) \in Seq(ByteSet) /\ Len(Buf!Fresh(n)) = n
           /\ (next_bu + n) % Bytes \in ByteSet
<1>1. Bytes \in Nat \ {0} /\ next_bu \in Nat
  BY BufNumbers DEF BufInv, ByteSet
<1>2. \A k \in Nat : k % Bytes \in ByteSet
  BY <1>1, SMTT(30) DEF ByteSet
<1>3. \A i \in 1 .. n : next_bu + i - 1 \in Nat
  BY <1>1
<1>4. Buf!Fresh(n) \in Seq(ByteSet) /\ Len(Buf!Fresh(n)) = n
  <2>1. \A i \in 1 .. n : (next_bu + i - 1) % Bytes \in ByteSet
    BY <1>2, <1>3
  <2> QED BY <2>1 DEF Buf!Fresh
<1>5. (next_bu + n) % Bytes \in ByteSet
  BY <1>1, <1>2
<1> QED BY <1>4, <1>5

\* write(): makeSpace(), then the bytes at the write index.
LEMMA BufWrite ==
    ASSUME BufInv, Buf!InVector, NEW len \in BufLens, Buf!write(len)
    PROVE  BufInv'
<1>1. len \in 0 .. MaxSize /\ len \in Nat
  BY BufNumbers
<1>2. InLoop(buf_bu, expect_bu)
  BY BufNow DEF Ready
<1>3. /\ Buf!Spacious(buf_bu, len) /\ expect_bu' = expect_bu \o Buf!Fresh(len)
      /\ Buf!Becomes(Buf!Store(Buf!makeSpace(buf_bu, len), Buf!Fresh(len)))
      /\ next_bu' = (next_bu + len) % Bytes
  BY DEF Buf!write
<1>4. /\ Buf!Fresh(len) \in Seq(ByteSet) /\ Len(Buf!Fresh(len)) = len /\ next_bu' \in ByteSet
  BY <1>1, <1>3, BufFresh
<1>5. /\ \E m \in 0 .. MaxSize : IsBuf(buf_bu', m, expect_bu')
      /\ buf_bu'.fWriteIdx <= 2 * MaxSize
  BY <1>1, <1>2, <1>3, <1>4, BufWrites
<1> QED BY <1>4, <1>5 DEF BufInv

\* read(): the oldest bytes, as many as there are.
LEMMA BufRead ==
    ASSUME BufInv, Buf!InVector, NEW len \in BufLens, Buf!read(len)
    PROVE  BufInv'
<1> DEFINE n == Buf!Smaller(len, Buf!length(buf_bu))
           f == Body!From(expect_bu, n)
<1>0. len \in Nat /\ MaxSize \in Nat
  BY BufNumbers
<1> DEFINE w == buf_bu.fWriteIdx
<1>1. PICK m \in 0 .. MaxSize : Ready(m)
  BY BufNow
<1> USE <1>1 DEF Ready
<1>4. n \in 0 .. (buf_bu.fWriteIdx - buf_bu.fReadIdx)
  BY <1>0 DEF Buf!Smaller
<1>5. Buf!Becomes(Buf!Drop(buf_bu, n)) /\ expect_bu' = f /\ next_bu' = next_bu
  BY DEF Buf!read, Body!From
<1> HIDE DEF n, f
<1>6. IsBuf(Buf!Drop(buf_bu, n), m, f) /\ Buf!Drop(buf_bu, n).fWriteIdx <= w
  BY <1>4, BufDrop DEF f
<1>7. /\ IsBuf(buf_bu', m, f) /\ buf_bu'.fWriteIdx = Buf!Drop(buf_bu, n).fWriteIdx
  BY <1>5, <1>6, BufBecomes
<1>8. buf_bu'.fWriteIdx \in Nat
  <2>1. PICK d2, r2, w2, s2 : buf_bu' = Rec(d2, r2, w2, s2) /\ Vec(d2, r2, w2, m)
    BY <1>7 DEF IsBuf
  <2> QED BY <2>1, RecIs DEF Vec
<1>9. buf_bu'.fWriteIdx <= 2 * MaxSize
  BY <1>0, <1>6, <1>7, <1>8
<1> QED BY <1>1, <1>5, <1>7, <1>9 DEF BufInv

\* recv(): bytes that arrived in the room on the right.
LEMMA BufRecv ==
    ASSUME BufInv, Buf!InVector, NEW n \in BufLens, Buf!recv(n)
    PROVE  BufInv'
<1>0. n \in 0 .. MaxSize /\ n \in Nat /\ MaxSize \in Nat /\ Word \in Nat
  BY BufNumbers
<1> DEFINE w == buf_bu.fWriteIdx
<1>1. PICK m \in 0 .. MaxSize : Ready(m)
  BY BufNow
<1> USE <1>1 DEF Ready
<1>3. /\ n <= Buf!right(buf_bu) /\ expect_bu' = expect_bu \o Buf!Fresh(n)
      /\ Buf!Becomes(Buf!Store(buf_bu, Buf!Fresh(n))) /\ next_bu' = (next_bu + n) % Bytes
  BY DEF Buf!recv
<1>5. Buf!right(buf_bu) >= n
  BY <1>0, <1>3
<1>6. ~buf_bu.shrunk => buf_bu.fWriteIdx + n <= m - kBufferPrefixed
  BY <1>0, <1>1, <1>5, RightRoom
<1>7. Buf!Fresh(n) \in Seq(ByteSet) /\ Len(Buf!Fresh(n)) = n /\ next_bu' \in ByteSet
  BY <1>0, <1>3, BufFresh
<1>8. /\ IsBuf(Buf!Store(buf_bu, Buf!Fresh(n)), m, expect_bu')
      /\ Buf!Store(buf_bu, Buf!Fresh(n)).fWriteIdx = w + n
  BY <1>3, <1>6, <1>7, BufStore
<1>9. IsBuf(buf_bu', m, expect_bu') /\ buf_bu'.fWriteIdx = w + n
  BY <1>3, <1>8, BufBecomes
<1>10. buf_bu'.fWriteIdx <= 2 * MaxSize
  BY <1>0, <1>9
<1> QED BY <1>1, <1>7, <1>9, <1>10 DEF BufInv

\* The value of a peek is bytes, whatever readLong() makes of it.
LEMMA PeekBytes ==
    ASSUME NEW len \in {1, SizeofInt, SizeofLong}, NEW v \in [1 .. len -> 0 .. Bytes - 1]
    PROVE  LET s == IF len = SizeofLong THEN Buf!readLong(v) ELSE v
           IN  /\ s \in Seq(ByteSet) /\ Len(s) = len
               /\ len \in Nat /\ len \in 0 .. MaxSize
<1>0. /\ SizeofInt \in Nat /\ SizeofLong \in Nat /\ SizeofInt < SizeofLong /\ SizeofInt >= 1
      /\ SizeofLong <= MaxSize /\ MaxSize \in Nat /\ 0 \in ByteSet /\ Bytes - 1 \in ByteSet
  BY BufNumbers
<1>1. len \in Nat /\ len \in 0 .. MaxSize
  BY <1>0
<1>2. v \in Seq(ByteSet) /\ Len(v) = len
  <2>1. v \in [1 .. len -> ByteSet]
    BY DEF ByteSet
  <2> QED BY <1>1, <2>1
<1>3. ASSUME len = SizeofLong
      PROVE  Buf!readLong(v) \in Seq(ByteSet) /\ Len(Buf!readLong(v)) = len
  <2>1. \A i \in 1 .. SizeofLong : v[i] \in ByteSet
    BY <1>3 DEF ByteSet
  <2>2. Buf!readLong(v) \in [1 .. SizeofLong -> ByteSet]
    BY <1>0, <2>1 DEF Buf!readLong
  <2> QED BY <1>0, <1>3, <2>2
<1> QED BY <1>1, <1>2, <1>3

\* The bytes are read and written back at the end.
LEMMA BufPeek ==
    ASSUME BufInv, Buf!InVector, NEW len \in {1, SizeofInt, SizeofLong}, Buf!peekData(len)
    PROVE  BufInv'
<1> DEFINE n == Buf!Smaller(len, Buf!length(buf_bu))
           f == Body!From(expect_bu, n)
           b == IF n = 0 THEN buf_bu ELSE Buf!Drop(buf_bu, n)
<1>1. PICK m \in 0 .. MaxSize : Ready(m)
  BY BufNow
<1>2. PICK v \in [1 .. len -> 0 .. Bytes - 1] :
          LET s == IF len = SizeofLong THEN Buf!readLong(v) ELSE v
          IN  /\ Buf!Becomes(Buf!Store(Buf!makeSpace(b, len), s))
              /\ expect_bu' = f \o s
  BY DEF Buf!peekData, Body!From
<1> DEFINE t == IF len = SizeofLong THEN Buf!readLong(v) ELSE v
<1>3. /\ Buf!Spacious(b, len) /\ Buf!Becomes(Buf!Store(Buf!makeSpace(b, len), t))
      /\ expect_bu' = f \o t /\ next_bu' = next_bu
  BY <1>2 DEF Buf!peekData
<1>4. t \in Seq(ByteSet) /\ Len(t) = len /\ len \in Nat /\ len \in 0 .. MaxSize
  BY PeekBytes
<1>0. MaxSize \in Nat /\ Word \in Nat /\ 4 * MaxSize < Word
  BY BufNumbers
<1>5. expect_bu \in Seq(ByteSet) /\ Len(expect_bu) = buf_bu.fWriteIdx - buf_bu.fReadIdx
  <2>1. PICK d, r, w, s : /\ buf_bu = Rec(d, r, w, s) /\ expect_bu \in Seq(ByteSet)
                          /\ Len(expect_bu) = w - r
    BY <1>1 DEF Ready, IsBuf
  <2>2. buf_bu.fReadIdx = r /\ buf_bu.fWriteIdx = w
    BY <2>1, RecIs
  <2> QED BY <2>1, <2>2
<1>6. n \in 0 .. (buf_bu.fWriteIdx - buf_bu.fReadIdx)
  BY <1>1, <1>4 DEF Ready, Buf!Smaller
<1> HIDE DEF n, t
<1>7. IsBuf(b, m, f) /\ b.fWriteIdx <= buf_bu.fWriteIdx
  <2>1. CASE n = 0
    <3>1. f = expect_bu
      BY <1>5, <2>1 DEF Body!From
    <3> QED BY <1>1, <2>1, <3>1 DEF Ready
  <2>2. CASE n # 0
    BY <1>1, <1>6, <2>2, BufDrop DEF Ready
  <2> QED BY <2>1, <2>2
<1> HIDE DEF f, b
<1>8. InLoop(b, f)
  <2>1. PICK d, r, w, s : b = Rec(d, r, w, s) /\ Vec(d, r, w, m)
    BY <1>7 DEF IsBuf
  <2>2. b.fWriteIdx \in Nat
    BY <2>1, RecIs DEF Vec
  <2>3. b.fWriteIdx <= MaxSize /\ m \in 0 .. Word - 1
    BY <1>0, <1>1, <1>7, <2>2 DEF Ready
  <2> QED BY <1>7, <2>3 DEF InLoop
<1>9. /\ \E k \in 0 .. MaxSize : IsBuf(buf_bu', k, expect_bu')
      /\ buf_bu'.fWriteIdx <= 2 * MaxSize
  BY <1>3, <1>4, <1>8, BufWrites
<1>10. next_bu' \in ByteSet
  BY <1>3 DEF BufInv
<1> QED BY <1>9, <1>10 DEF BufInv

\* clear(): both indices back at the prefix.
LEMMA BufClear == ASSUME BufInv, Buf!InVector, Buf!clear PROVE BufInv'
<1>0. MaxSize \in Nat /\ kBufferPrefixed \in Nat
  BY BufNumbers
<1>1. PICK m \in 0 .. MaxSize : Ready(m)
  BY BufNow
<1>2. PICK d, r, w, s : /\ buf_bu = Rec(d, r, w, s) /\ Vec(d, r, w, m)
                        /\ s \in BOOLEAN /\ (~s => Holds(d, r, w, m, expect_bu))
  BY <1>1 DEF Ready, IsBuf
<1> DEFINE p == kBufferPrefixed
           b == [buf_bu EXCEPT !.fReadIdx = kBufferPrefixed, !.fWriteIdx = kBufferPrefixed]
<1>3. b = Rec(d, p, p, s)
  <2>1. [buf_bu EXCEPT !.fReadIdx = p] = Rec(d, p, w, s)
    BY <1>2 DEF Rec
  <2>2. [Rec(d, p, w, s) EXCEPT !.fWriteIdx = p] = Rec(d, p, p, s)
    BY DEF Rec
  <2> QED BY ONLY <2>1, <2>2
<1>4. Buf!Becomes(b) /\ expect_bu' = <<>> /\ next_bu' = next_bu
  BY DEF Buf!clear
<1> HIDE DEF b, p
<1>5. Vec(d, p, p, m)
  BY <1>0, <1>2 DEF Vec, p
<1>6. <<>> \in Seq(ByteSet) /\ Len(<<>>) = p - p
  BY <1>0 DEF p
<1>7. ASSUME Holds(d, r, w, m, expect_bu) PROVE Holds(d, p, p, m, <<>>)
  <2>1. m >= 2 * p /\ p <= m - p
    BY <1>0, <1>1, <1>7 DEF Holds, p
  <2> QED BY <1>6, <2>1 DEF Holds, p
<1> DEFINE e == <<>>
<1> HIDE DEF e
<1>8. e \in Seq(ByteSet) /\ Len(e) = p - p /\ (~s => Holds(d, p, p, m, e))
  BY <1>2, <1>6, <1>7 DEF e
<1>9. IsBuf(b, m, e)
  BY <1>2, <1>3, <1>5, <1>8, Zenon DEF IsBuf
<1>10. b.fWriteIdx = p /\ p <= 2 * MaxSize
  BY <1>0, <1>1, <1>2, <1>3, RecIs DEF Ready, Vec, p
<1>11. IsBuf(buf_bu', m, expect_bu') /\ buf_bu'.fWriteIdx <= 2 * MaxSize
  BY <1>4, <1>9, <1>10, BufBecomes DEF e
<1> QED BY <1>4, <1>11 DEF BufInv

\* expand(): twice the vector, the same content.
LEMMA BufExpand == ASSUME BufInv, Buf!InVector, Buf!expand PROVE BufInv'
<1>1. PICK m \in 0 .. MaxSize : Ready(m)
  BY BufNow
<1> DEFINE b == Buf!resize(buf_bu, 2 * m)
<1>2. Buf!Becomes(b) /\ expect_bu' = expect_bu /\ next_bu' = next_bu
  BY <1>1 DEF Buf!expand, Ready
<1>3. 2 * m \in Nat
  BY BufNumbers
<1>4. IsBuf(b, 2 * m, expect_bu) /\ b.fWriteIdx = buf_bu.fWriteIdx
  BY <1>1, <1>3, BufResize DEF Ready
<1> HIDE DEF b
<1>5. /\ IsBuf(buf_bu', 2 * m, expect_bu) /\ 2 * m \in 0 .. MaxSize
      /\ buf_bu'.fWriteIdx = buf_bu.fWriteIdx
  BY <1>2, <1>4, BufBecomes
<1> QED BY <1>1, <1>2, <1>5 DEF BufInv, Ready

\* The same byte, inserted len times at the write index.
Inserted(d, w, m, len, c) ==
    [i \in 0 .. m + len - 1 |->
        IF i < w THEN d[i] ELSE IF i < w + len THEN c ELSE d[i - len]]

\* Characters inserted at the write index follow the ones that were unread.
LEMMA InsertKeeps ==
    ASSUME NEW d, NEW r, NEW w, NEW m, NEW e, Vec(d, r, w, m), e \in Seq(ByteSet), w <= m,
           NEW len \in Nat, NEW c \in ByteSet, NEW t \in Seq(ByteSet), Len(t) = len,
           \A i \in 1 .. len : t[i] = c
    PROVE  /\ Vec(Inserted(d, w, m, len, c), r, w + len, m + len)
           /\ Holds(d, r, w, m, e)
                  => Holds(Inserted(d, w, m, len, c), r, w + len, m + len, e \o t)
<1> DEFINE x == Inserted(d, w, m, len, c)
           u == e \o t
<1>0. /\ m \in Nat /\ r \in Nat /\ w \in Nat /\ kBufferPrefixed <= r /\ r <= w
      /\ kBufferPrefixed \in Nat /\ d \in [0 .. m - 1 -> ByteSet]
  BY BufNumbers DEF Vec
<1>1. x = [i \in 0 .. m + len - 1 |->
              IF i < w THEN d[i] ELSE IF i < w + len THEN c ELSE d[i - len]]
  BY DEF Inserted
<1>2. /\ Len(e) \in Nat /\ Len(u) = Len(e) + len
      /\ \A i \in 1 .. Len(e) + len : u[i] = IF i <= Len(e) THEN e[i] ELSE t[i - Len(e)]
  <2>1. e \in Seq(ByteSet) /\ t \in Seq(ByteSet)
    OBVIOUS
  <2>2. /\ Len(e) \in Nat /\ Len(u) = Len(e) + Len(t)
        /\ \A i \in 1 .. Len(e) + Len(t) : u[i] = IF i <= Len(e) THEN e[i] ELSE t[i - Len(e)]
    BY ONLY <2>1, ConcatProperties, LenProperties
  <2> QED BY ONLY <2>2, Len(t) = len
<1> HIDE DEF x, u
<1>3. x \in [0 .. m + len - 1 -> ByteSet]
  <2>1. ASSUME NEW i \in 0 .. m + len - 1 PROVE x[i] \in ByteSet
    <3>1. CASE i < w
      BY <1>0, <1>1, <3>1
    <3>2. CASE ~(i < w) /\ i < w + len
      BY <1>0, <1>1, <3>2
    <3>3. CASE ~(i < w) /\ ~(i < w + len)
      <4>1. i - len \in 0 .. m - 1
        BY <1>0, <3>3
      <4>2. x[i] = d[i - len]
        BY <1>1, <3>3
      <4> QED BY <1>0, <4>1, <4>2
    <3> QED BY <3>1, <3>2, <3>3
  <2> QED BY <1>1, <2>1
<1>4. Vec(x, r, w + len, m + len)
  BY <1>0, <1>3 DEF Vec
<1>5. ASSUME Holds(d, r, w, m, e) PROVE Holds(x, r, w + len, m + len, u)
  <2>1. /\ m >= 2 * kBufferPrefixed /\ w <= m - kBufferPrefixed /\ Len(e) = w - r
        /\ \A i \in 1 .. Len(e) : e[i] = d[r + i - 1]
    BY <1>5 DEF Holds
  <2>2. ASSUME NEW i \in 1 .. Len(u) PROVE u[i] = x[r + i - 1]
    <3>0. /\ m \in Nat /\ r \in Nat /\ w \in Nat /\ len \in Nat /\ kBufferPrefixed \in Nat
          /\ w <= m - kBufferPrefixed /\ Len(e) \in Nat /\ Len(e) = w - r
      BY <1>0, <1>2, <2>1
    <3>1. i \in 1 .. Len(e) + len
      BY <1>2
    <3>2. CASE i <= Len(e)
      <4>1. r + i - 1 \in 0 .. m + len - 1 /\ r + i - 1 < w /\ i \in 1 .. Len(e)
        BY ONLY <3>0, <3>1, <3>2
      <4>2. x[r + i - 1] = d[r + i - 1]
        BY <1>1, <4>1
      <4> QED BY <1>2, <2>1, <3>1, <3>2, <4>1, <4>2
    <3>3. CASE ~(i <= Len(e))
      <4>1. /\ r + i - 1 \in 0 .. m + len - 1 /\ ~(r + i - 1 < w) /\ r + i - 1 < w + len
            /\ i - Len(e) \in 1 .. len
        BY ONLY <3>0, <3>1, <3>3
      <4>2. x[r + i - 1] = c
        BY <1>1, <4>1
      <4> QED BY <1>2, <3>1, <3>3, <4>1, <4>2
    <3> QED BY <3>2, <3>3
  <2>3. Len(u) = (w + len) - r /\ m + len >= 2 * kBufferPrefixed
        /\ w + len <= (m + len) - kBufferPrefixed
    BY <1>0, <1>2, <2>1
  <2> QED BY <2>2, <2>3 DEF Holds
<1> QED BY <1>4, <1>5 DEF x, u

\* fillChar(): resize() to length + len when the room is too small, then insert.
LEMMA BufFill ==
    ASSUME BufInv, Buf!InVector, NEW len \in BufLens, Buf!fillChar(len)
    PROVE  BufInv'
<1> DEFINE b == IF Buf!right(buf_bu) < len THEN Buf!resize(buf_bu, Buf!length(buf_bu) + len)
                ELSE buf_bu
           t == [i \in 1 .. len |-> next_bu]
<1>0. len \in 0 .. MaxSize /\ len \in Nat /\ MaxSize \in Nat /\ next_bu \in ByteSet
  BY BufNumbers DEF BufInv
<1>1. PICK k \in 0 .. MaxSize : Ready(k)
  BY BufNow
<1>2. \E m : IsBuf(b, m, expect_bu) /\ b.fWriteIdx = buf_bu.fWriteIdx
  <2>1. CASE Buf!right(buf_bu) < len
    <3>1. Buf!length(buf_bu) + len \in Nat
      BY <1>0, <1>1 DEF Ready
    <3>2. IsBuf(buf_bu, k, expect_bu)
      BY <1>1 DEF Ready
    <3> QED BY <2>1, <3>1, <3>2, BufResize
  <2>2. CASE ~(Buf!right(buf_bu) < len)
    <3>1. IsBuf(buf_bu, k, expect_bu)
      BY <1>1 DEF Ready
    <3> QED BY <2>2, <3>1
  <2> QED BY <2>1, <2>2
<1> DEFINE f == [i \in 0 .. Buf!Size(b) + len - 1 |->
                    IF i < b.fWriteIdx THEN b.fData[i]
                    ELSE IF i < b.fWriteIdx + len THEN next_bu ELSE b.fData[i - len]]
           v == b.fWriteIdx + len
<1>3. /\ b.fWriteIdx <= Buf!Size(b) /\ expect_bu' = expect_bu \o t /\ next_bu' = next_bu
      /\ Buf!Becomes([b EXCEPT !.fData = f, !.fWriteIdx = v])
  BY DEF Buf!fillChar
<1> HIDE DEF b
<1>4. PICK m : IsBuf(b, m, expect_bu) /\ b.fWriteIdx = buf_bu.fWriteIdx
  BY <1>2
<1>5. PICK d, r, w, s : /\ b = Rec(d, r, w, s) /\ Vec(d, r, w, m) /\ expect_bu \in Seq(ByteSet)
                        /\ Len(expect_bu) = w - r /\ s \in BOOLEAN
                        /\ (~s => Holds(d, r, w, m, expect_bu))
  BY <1>4 DEF IsBuf
<1>6. b.fData = d /\ b.fReadIdx = r /\ b.fWriteIdx = w /\ Buf!Size(b) = m
  BY <1>5, RecIs, VectorSize
<1> DEFINE x == Inserted(d, w, m, len, next_bu)
           u == expect_bu \o t
           y == w + len
           c == Rec(x, r, y, s)
<1>7. [b EXCEPT !.fData = f, !.fWriteIdx = v] = c
  <2>1. f = x /\ v = y
    BY <1>6 DEF Inserted
  <2> HIDE DEF f, v, x, y
  <2>2. [b EXCEPT !.fData = f] = Rec(f, r, w, s)
    BY <1>5 DEF Rec
  <2>3. [Rec(f, r, w, s) EXCEPT !.fWriteIdx = v] = Rec(f, r, v, s)
    BY DEF Rec
  <2>4. [b EXCEPT !.fData = f, !.fWriteIdx = v] = Rec(f, r, v, s)
    BY ONLY <2>2, <2>3
  <2> QED BY <2>1, <2>4
<1>8. t \in Seq(ByteSet) /\ Len(t) = len /\ \A i \in 1 .. len : t[i] = next_bu
  BY <1>0
<1> HIDE DEF t, f, v
<1>9. /\ Vec(x, r, y, m + len)
      /\ Holds(d, r, w, m, expect_bu) => Holds(x, r, y, m + len, u)
  <2>1. w <= m
    BY <1>3, <1>6
  <2> QED BY <1>0, <1>5, <1>8, <2>1, InsertKeeps
<1>10. u \in Seq(ByteSet) /\ Len(u) = y - r
  <2>1. expect_bu \in Seq(ByteSet) /\ t \in Seq(ByteSet)
    BY <1>5, <1>8
  <2>2. u \in Seq(ByteSet) /\ Len(u) = Len(expect_bu) + Len(t)
    BY ONLY <2>1, ConcatProperties
  <2> QED BY <1>0, <1>5, <1>8, <2>2 DEF Vec
<1> DEFINE n == m + len
<1> HIDE DEF x, u, y, n
<1>11. IsBuf(c, n, u)
  <2>1. Vec(x, r, y, n) /\ (~s => Holds(x, r, y, n, u))
    BY <1>5, <1>9, Zenon DEF n
  <2> QED BY <1>5, <1>10, <2>1, Zenon DEF IsBuf
<1>12. c.fWriteIdx = y
  BY RecIs
<1> HIDE DEF c
<1>13. IsBuf(buf_bu', n, u) /\ n \in 0 .. MaxSize /\ buf_bu'.fWriteIdx = y
  BY <1>3, <1>7, <1>11, <1>12, BufBecomes
<1>14. y <= 2 * MaxSize
  BY <1>0, <1>1, <1>4, <1>6 DEF Ready, y
<1> QED BY <1>0, <1>3, <1>13, <1>14 DEF BufInv, u

\* Every operation keeps BufInv.
LEMMA BufNext == BufInv /\ [Buf!Next]_bufferVars => BufInv'
<1>1. ASSUME BufInv, UNCHANGED bufferVars PROVE BufInv'
  <2>1. buf_bu' = buf_bu /\ expect_bu' = expect_bu /\ next_bu' = next_bu
    BY <1>1 DEF bufferVars
  <2> QED BY <1>1, <2>1 DEF BufInv
<1> QED BY <1>1, BufWrite, BufRead, BufRecv, BufFill, BufPeek, BufClear, BufExpand
        DEF Buf!Next, Buf!Step

\* A new buffer is empty.
LEMMA BufInit == Buf!Init => BufInv
<1> SUFFICES ASSUME Buf!Init PROVE BufInv
  OBVIOUS
<1>0. /\ MaxSize \in Nat /\ kBufferPrefixed \in Nat /\ 0 \in ByteSet
  BY BufNumbers
<1> DEFINE p == kBufferPrefixed
<1>1. PICK n \in InitSizes :
          buf_bu = [fData |-> Buf!Vector(n, <<>>), fReadIdx |-> kBufferPrefixed,
                    fWriteIdx |-> kBufferPrefixed, shrunk |-> n < 2 * kBufferPrefixed]
  BY DEF Buf!Init
<1>2. n \in Nat /\ n > p /\ n <= MaxSize
  BY <1>0, DataAssumption DEF Buf!BufferAssumption
<1> DEFINE x == Buf!Vector(n, <<>>)
           z == n < 2 * p
<1>3. buf_bu = Rec(x, p, p, z)
  BY <1>1 DEF Rec
<1>4. x \in [0 .. n - 1 -> ByteSet]
  BY <1>0, <1>2 DEF Buf!Vector
<1> HIDE DEF x
<1>5. Vec(x, p, p, n)
  BY <1>0, <1>2, <1>4 DEF Vec
<1>6. expect_bu \in Seq(ByteSet) /\ Len(expect_bu) = p - p /\ next_bu \in ByteSet
  BY <1>0 DEF Buf!Init
<1>7. z \in BOOLEAN
  BY <1>0, <1>2
<1>8. ~z => Holds(x, p, p, n, expect_bu)
  BY <1>0, <1>2, <1>6 DEF Holds
<1> HIDE DEF z, p
<1>9. IsBuf(buf_bu, n, expect_bu)
  BY <1>3, <1>5, <1>6, <1>7, <1>8, Zenon DEF IsBuf
<1>10. buf_bu.fWriteIdx = p /\ p <= 2 * MaxSize /\ n \in 0 .. MaxSize
  BY <1>0, <1>2, <1>3, RecIs DEF p
<1> QED BY <1>6, <1>9, <1>10 DEF BufInv

\* What BufInv says of the properties of Buffer.
LEMMA BufRight ==
    ASSUME BufInv
    PROVE  Buf!BufferTypeOK /\ Buf!ByteQueue /\ Buf!RoomUntilShrunk
<1>0. /\ MaxSize \in Nat /\ kBufferPrefixed \in Nat /\ Word \in Nat /\ 4 * MaxSize < Word
  BY BufNumbers
<1>1. PICK m \in 0 .. MaxSize : IsBuf(buf_bu, m, expect_bu)
  BY DEF BufInv
<1>2. PICK d, r, w, s :
          /\ buf_bu = Rec(d, r, w, s) /\ Vec(d, r, w, m) /\ expect_bu \in Seq(ByteSet)
          /\ Len(expect_bu) = w - r /\ s \in BOOLEAN /\ (~s => Holds(d, r, w, m, expect_bu))
  BY <1>1 DEF IsBuf
<1>3. buf_bu.fData = d /\ buf_bu.fReadIdx = r /\ buf_bu.fWriteIdx = w /\ buf_bu.shrunk = s
  BY <1>2, RecIs
<1>4. /\ d \in [0 .. m - 1 -> ByteSet] /\ r \in Nat /\ w \in Nat /\ kBufferPrefixed <= r /\ r <= w
      /\ m \in Nat /\ m < Word /\ w <= 2 * MaxSize /\ w < Word
  BY <1>0, <1>2, <1>3 DEF Vec, BufInv
<1>5. Buf!BufferTypeOK
  <2>1. buf_bu.shrunk \in BOOLEAN
    BY <1>2, <1>3, Zenon
  <2> QED BY <1>0, <1>2, <1>3, <1>4, <2>1 DEF Buf!BufferTypeOK, BufInv, ByteSet
<1>6. Buf!Size(buf_bu) = m
  BY <1>2, VectorSize
<1>7. Buf!length(buf_bu) = w - r
  BY <1>2, <1>4, BufReads
<1>8. ASSUME Holds(d, r, w, m, expect_bu)
      PROVE  /\ Buf!InVector /\ Buf!Contents(buf_bu) = expect_bu
             /\ buf_bu.fWriteIdx + Buf!right(buf_bu) <= Buf!Size(buf_bu)
  <2>1. m >= kBufferPrefixed /\ w <= m - kBufferPrefixed /\ w <= m
    BY <1>0, <1>4, <1>8 DEF Holds
  <2>2. Buf!right(buf_bu) = m - kBufferPrefixed - w
    BY <1>2, <1>4, <2>1, BufReads
  <2>3. Buf!InVector
    BY <1>3, <1>4, <1>6, <2>1 DEF Buf!InVector
  <2>4. \A i \in 1 .. w - r : expect_bu[i] = d[r + i - 1]
    BY <1>2, <1>8 DEF Holds
  <2>5. Buf!Contents(buf_bu) = [i \in 1 .. w - r |-> d[r + i - 1]]
    BY <1>3, <1>7 DEF Buf!Contents
  <2>6. expect_bu = [i \in 1 .. w - r |-> expect_bu[i]]
    BY <1>2
  <2>7. Buf!Contents(buf_bu) = expect_bu
    BY ONLY <2>4, <2>5, <2>6
  <2>8. buf_bu.fWriteIdx + Buf!right(buf_bu) <= Buf!Size(buf_bu)
    BY <1>0, <1>3, <1>4, <1>6, <2>1, <2>2
  <2> QED BY <2>3, <2>7, <2>8
<1>9. ~buf_bu.shrunk => Holds(d, r, w, m, expect_bu)
  BY <1>2, <1>3
<1>10. Buf!ByteQueue /\ Buf!RoomUntilShrunk
  BY <1>8, <1>9 DEF Buf!ByteQueue, Buf!RoomUntilShrunk
<1> QED BY <1>5, <1>10

-----------------------------------------------------------------------------
\* The heap of identifiers.  Index i of the array is element i + 1 of the list h, and Up(i)
\* is its parent.
Up(i) == Ids!parent(i)

\* The tree of the indices.
LEMMA UpIs ==
    /\ \A i \in Nat \ {0} : /\ Up(i) \in Nat /\ Up(i) < i
                            /\ i = 2 * Up(i) + 1 \/ i = 2 * Up(i) + 2
    /\ \A i, k \in Nat : i < k => Up(i) <= Up(k)
    /\ Up(0) = 0
BY DEF Up, Ids!parent

\* The children of an index.
LEMMA KidsIs ==
    ASSUME NEW root \in Nat, NEW i \in Nat \ {0}
    PROVE  Up(i) = root <=> i \in {2 * root + 1, 2 * root + 2}
BY UpIs

\* A list over a set of numbers, with what a swap keeps of it.
Numbers(S, h) == S \subseteq Nat /\ h \in Seq(S) /\ Len(h) > 0

Alike(S, h, g) ==
    /\ Numbers(S, g) /\ Len(g) = Len(h) /\ ToSet(g) = ToSet(h)
    /\ WellLinked(h) => WellLinked(g)

\* A swap of two elements exchanges exactly these, and keeps the numbers.
LEMMA SwapIs ==
    ASSUME NEW S, NEW h, Numbers(S, h), NEW l \in 0 .. Len(h) - 1, NEW r \in 0 .. Len(h) - 1
    PROVE  /\ Alike(S, h, Ids!Swap(h, l, r))
           /\ \A i \in 0 .. Len(h) - 1 :
                Ids!Swap(h, l, r)[i + 1] = IF i = r THEN h[l + 1]
                                           ELSE IF i = l THEN h[r + 1] ELSE h[i + 1]
<1> DEFINE g == Ids!Swap(h, l, r)
           N == Len(h)
<1>1. N \in Nat /\ h \in [1 .. N -> S] /\ S \subseteq Nat /\ h \in Seq(S)
  BY DEF Numbers
<1>2. l + 1 \in 1 .. N /\ r + 1 \in 1 .. N
  BY <1>1
<1>3. /\ g \in [1 .. N -> S]
      /\ \A k \in 1 .. N : g[k] = IF k = r + 1 THEN h[l + 1]
                                  ELSE IF k = l + 1 THEN h[r + 1] ELSE h[k]
  BY <1>1, <1>2 DEF Ids!Swap
<1> HIDE DEF g, N
<1>4. g \in Seq(S) /\ Len(g) = N
  BY <1>1, <1>3
<1>5. \A i \in 0 .. N - 1 : g[i + 1] = IF i = r THEN h[l + 1]
                                       ELSE IF i = l THEN h[r + 1] ELSE h[i + 1]
  BY <1>1, <1>2, <1>3 DEF N
<1>6. ToSet(g) = ToSet(h)
  <2>1. DOMAIN g = 1 .. N /\ DOMAIN h = 1 .. N
    BY <1>1, <1>3
  <2>2. ASSUME NEW k \in 1 .. N PROVE \E j \in 1 .. N : h[j] = g[k]
    BY <1>2, <1>3
  <2>3. ASSUME NEW k \in 1 .. N PROVE \E j \in 1 .. N : g[j] = h[k]
    <3>1. CASE k = l + 1
      BY <1>2, <1>3, <3>1
    <3>2. CASE k = r + 1 /\ k # l + 1
      BY <1>2, <1>3, <3>2
    <3>3. CASE k # r + 1 /\ k # l + 1
      BY <1>3, <3>3
    <3> QED BY <3>1, <3>2, <3>3
  <2>4. ToSet(g) \subseteq ToSet(h)
    BY <2>1, <2>2 DEF ToSet
  <2>5. ToSet(h) \subseteq ToSet(g)
    BY <2>1, <2>3 DEF ToSet
  <2> QED BY <2>4, <2>5
<1>7. ASSUME WellLinked(h) PROVE WellLinked(g)
  <2>1. \A i, j \in 1 .. N : h[i] = h[j] => i = j
    BY <1>1, <1>7 DEF WellLinked, IsInjective
  <2>2. ASSUME NEW i \in 1 .. N, NEW j \in 1 .. N, g[i] = g[j] PROVE i = j
    BY <1>2, <1>3, <2>1, <2>2
  <2> QED BY <1>3, <2>2 DEF WellLinked, IsInjective
<1> QED BY <1>1, <1>4, <1>5, <1>6, <1>7 DEF g, N, Alike, Numbers

\* What heapify() looks for.
LEMMA LeastIs ==
    ASSUME NEW S, NEW h, Numbers(S, h), NEW root \in 0 .. Len(h) - 1
    PROVE  LET m == Ids!Least(h, root)
           IN  /\ m \in 0 .. Len(h) - 1
               /\ \/ m = root
                  \/ m # 0 /\ Up(m) = root /\ h[m + 1] < h[root + 1]
               /\ \A i \in 1 .. Len(h) - 1 : Up(i) = root => h[m + 1] <= h[i + 1]
<1> DEFINE kids == {k \in {2 * root + 1, 2 * root + 2} :
                        k < Len(h) /\ h[k + 1] < h[root + 1]}
           Best(k) == \A j \in kids : h[k + 1] < h[j + 1] \/ (h[k + 1] = h[j + 1] /\ k <= j)
           m == Ids!Least(h, root)
<1>1. /\ Len(h) \in Nat /\ \A i \in 0 .. Len(h) - 1 : h[i + 1] \in Nat
      /\ root \in Nat
  <2>1. Len(h) \in Nat /\ h \in [1 .. Len(h) -> S] /\ S \subseteq Nat
    BY DEF Numbers
  <2>2. ASSUME NEW i \in 0 .. Len(h) - 1 PROVE h[i + 1] \in Nat
    <3>1. i + 1 \in 1 .. Len(h)
      BY <2>1
    <3> QED BY <2>1, <3>1
  <2>3. root \in Nat
    BY <2>1
  <2> QED BY <2>1, <2>2, <2>3
<1>2. m = IF kids = {} THEN root ELSE CHOOSE k \in kids : Best(k)
  BY DEF Ids!Least
<1> HIDE DEF m
<1>3. ASSUME NEW i \in 1 .. Len(h) - 1, Up(i) = root
      PROVE  i \in {2 * root + 1, 2 * root + 2} /\ i < Len(h) /\ h[i + 1] \in Nat
  BY <1>1, <1>3, KidsIs
<1>4. CASE kids = {}
  <2>1. m = root
    BY <1>2, <1>4
  <2>2. ASSUME NEW i \in 1 .. Len(h) - 1, Up(i) = root PROVE h[m + 1] <= h[i + 1]
    <3>1. i \notin kids
      BY <1>4
    <3>2. ~(h[i + 1] < h[root + 1])
      BY <1>3, <2>2, <3>1
    <3>3. h[i + 1] \in Nat /\ h[root + 1] \in Nat
      BY <1>1, <1>3, <2>2
    <3> QED BY <2>1, <3>2, <3>3
  <2> QED BY <2>1, <2>2 DEF m
<1>5. CASE kids # {}
  <2>0. \A k \in kids : /\ k \in 1 .. Len(h) - 1 /\ h[k + 1] \in Nat /\ Up(k) = root /\ k \in Nat
                        /\ h[k + 1] < h[root + 1] /\ (k = 2 * root + 1 \/ k = 2 * root + 2)
    BY <1>1, KidsIs
  <2>1. \E k \in kids : Best(k)
    <3> DEFINE a == 2 * root + 1
               c == 2 * root + 2
    <3>1. \A k \in kids : k = a \/ k = c
      OBVIOUS
    <3>2. a \in Nat /\ c \in Nat /\ a < c
      BY <1>1
    <3>3. \A k \in kids : h[k + 1] \in Nat
      BY <2>0
    <3> HIDE DEF kids, a, c
    <3>4. CASE a \in kids /\ c \in kids /\ h[c + 1] < h[a + 1]
      <4>1. ASSUME NEW j \in kids
            PROVE  h[c + 1] < h[j + 1] \/ (h[c + 1] = h[j + 1] /\ c <= j)
        <5>1. j = a \/ j = c
          BY <3>1
        <5>2. h[j + 1] \in Nat /\ h[c + 1] \in Nat
          BY <3>3, <3>4
        <5>3. CASE j = a
          BY <3>4, <5>3
        <5>4. CASE j = c
          BY <3>2, <5>2, <5>4
        <5> QED BY <5>1, <5>3, <5>4
      <4> QED BY <3>4, <4>1
    <3>5. CASE a \in kids /\ (c \notin kids \/ ~(h[c + 1] < h[a + 1]))
      <4>1. ASSUME NEW j \in kids
            PROVE  h[a + 1] < h[j + 1] \/ (h[a + 1] = h[j + 1] /\ a <= j)
        <5>1. j = a \/ j = c
          BY <3>1
        <5>2. h[j + 1] \in Nat /\ h[a + 1] \in Nat
          BY <3>3, <3>5
        <5>3. CASE j = a
          BY <3>2, <5>2, <5>3
        <5>4. CASE j = c /\ j # a
          <6>1. ~(h[j + 1] < h[a + 1])
            BY <3>5, <5>4
          <6>2. h[a + 1] <= h[j + 1]
            BY ONLY <5>2, <6>1
          <6> QED BY <3>2, <5>2, <5>4, <6>2
        <5> QED BY <5>1, <5>3, <5>4
      <4> QED BY <3>5, <4>1
    <3>6. CASE a \notin kids
      <4>1. c \in kids
        BY <1>5, <3>1, <3>6
      <4>2. Best(c)
        BY <3>1, <3>2, <3>3, <3>6, <4>1
      <4> QED BY <4>1, <4>2
    <3> QED BY <3>4, <3>5, <3>6
  <2>2. m \in kids /\ Best(m)
    BY <1>2, <1>5, <2>1
  <2>3. m \in 1 .. Len(h) - 1 /\ Up(m) = root /\ h[m + 1] < h[root + 1] /\ h[m + 1] \in Nat
    BY <2>0, <2>2
  <2>4. ASSUME NEW i \in 1 .. Len(h) - 1, Up(i) = root PROVE h[m + 1] <= h[i + 1]
    <3>1. h[i + 1] \in Nat /\ h[root + 1] \in Nat
      BY <1>1, <1>3, <2>4
    <3>2. CASE i \in kids
      BY <2>2, <2>3, <3>1, <3>2
    <3>3. CASE i \notin kids
      <4>1. ~(h[i + 1] < h[root + 1])
        BY <1>3, <2>4, <3>3
      <4> QED BY <2>3, <3>1, <4>1
    <3> QED BY <3>2, <3>3
  <2>5. m \in 0 .. Len(h) - 1 /\ m # 0
    BY <1>1, <2>3
  <2> QED BY <2>3, <2>4, <2>5 DEF m
<1> QED BY <1>4, <1>5

\* Element i of the array.
At(h, i) == h[i + 1]

\* The elements are numbers, and every element but the first has a parent before it.
LEMMA AtIs ==
    ASSUME NEW S, NEW h, Numbers(S, h)
    PROVE  /\ Len(h) \in Nat /\ Len(h) > 0
           /\ \A i \in 0 .. Len(h) - 1 : At(h, i) \in Nat /\ At(h, i) \in S
           /\ \A i \in 1 .. Len(h) - 1 : i \in 0 .. Len(h) - 1 /\ Up(i) \in 0 .. Len(h) - 1 /\ Up(i) < i
<1>1. Len(h) \in Nat /\ Len(h) > 0 /\ h \in [1 .. Len(h) -> S] /\ S \subseteq Nat
  BY DEF Numbers
<1>2. ASSUME NEW i \in 0 .. Len(h) - 1 PROVE At(h, i) \in Nat /\ At(h, i) \in S
  <2>1. i + 1 \in 1 .. Len(h)
    BY <1>1
  <2> QED BY <1>1, <2>1 DEF At
<1>3. ASSUME NEW i \in 1 .. Len(h) - 1
      PROVE  i \in 0 .. Len(h) - 1 /\ Up(i) \in 0 .. Len(h) - 1 /\ Up(i) < i
  <2>1. i \in Nat \ {0} /\ i \in 0 .. Len(h) - 1
    BY <1>1
  <2>2. Up(i) \in Nat /\ Up(i) < i
    BY <2>1, UpIs
  <2> QED BY <1>1, <2>1, <2>2
<1> QED BY <1>1, <1>2, <1>3

\* Two steps that keep the numbers keep them together.
LEMMA AlikeTwice ==
    ASSUME NEW S, NEW h, NEW g, NEW k, Alike(S, h, g), Alike(S, g, k)
    PROVE  Alike(S, h, k)
BY DEF Alike

\* What heapify() does at root: it swaps with m, the root itself or its least child.
Heapified(h, g, root, m) ==
    /\ m \in 0 .. Len(h) - 1
    /\ \A i \in 0 .. Len(h) - 1 :
         At(g, i) = IF i = root THEN At(h, m) ELSE IF i = m THEN At(h, root) ELSE At(h, i)
    /\ m = root \/ (m # 0 /\ Up(m) = root /\ At(h, m) < At(h, root))
    /\ \A i \in 1 .. Len(h) - 1 : Up(i) = root => At(h, m) <= At(h, i)

\* heapify() keeps the numbers and puts the least of the three at the root.
LEMMA HeapifyIs ==
    ASSUME NEW S, NEW h, Numbers(S, h), NEW root \in 0 .. Len(h) - 1
    PROVE  /\ Alike(S, h, Ids!heapify(h, root))
           /\ Heapified(h, Ids!heapify(h, root), root, Ids!Least(h, root))
<1> DEFINE m == Ids!Least(h, root)
<1>1. /\ m \in 0 .. Len(h) - 1
      /\ m = root \/ (m # 0 /\ Up(m) = root /\ h[m + 1] < h[root + 1])
      /\ \A i \in 1 .. Len(h) - 1 : Up(i) = root => h[m + 1] <= h[i + 1]
  BY LeastIs
<1>2. Ids!heapify(h, root) = Ids!Swap(h, m, root)
  BY DEF Ids!heapify
<1> HIDE DEF m
<1>3. /\ Alike(S, h, Ids!Swap(h, m, root))
      /\ \A i \in 0 .. Len(h) - 1 :
            Ids!Swap(h, m, root)[i + 1] = IF i = root THEN h[m + 1]
                                          ELSE IF i = m THEN h[root + 1] ELSE h[i + 1]
  BY <1>1, SwapIs
<1> QED BY <1>1, <1>2, <1>3 DEF Heapified, At, m

\* The order of a heap: no element is smaller than its parent.
IsHeap(h) == \A i \in 1 .. Len(h) - 1 : At(h, Up(i)) <= At(h, i)

\* Then the first element is the smallest.
LEMMA HeapFirst ==
    ASSUME NEW S, NEW h, Numbers(S, h), IsHeap(h), NEW j \in 0 .. Len(h) - 1
    PROVE  At(h, 0) <= At(h, j)
<1> DEFINE T == {i \in 0 .. Len(h) - 1 : ~(At(h, 0) <= At(h, i))}
<1> SUFFICES ASSUME T # {} PROVE FALSE
  OBVIOUS
<1>1. T \in SUBSET Nat /\ Len(h) \in Nat
  BY AtIs
<1> HIDE DEF T
<1>2. PICK m \in T : \A k \in T : m <= k
  BY <1>1, LeastNumber
<1>3. m \in 0 .. Len(h) - 1 /\ ~(At(h, 0) <= At(h, m))
  BY <1>2 DEF T
<1>4. 0 \in 0 .. Len(h) - 1 /\ At(h, 0) \in Nat /\ At(h, m) \in Nat
  BY <1>1, <1>3, AtIs
<1>5. m \in 1 .. Len(h) - 1
  BY <1>1, <1>3, <1>4
<1>6. Up(m) \in 0 .. Len(h) - 1 /\ Up(m) < m /\ At(h, Up(m)) \in Nat
  BY <1>5, AtIs
<1>7. Up(m) \notin T
  BY <1>1, <1>2, <1>5, <1>6
<1>8. At(h, 0) <= At(h, Up(m))
  BY <1>6, <1>7 DEF T
<1>9. At(h, Up(m)) <= At(h, m)
  BY <1>5 DEF IsHeap
<1> QED BY <1>3, <1>4, <1>6, <1>8, <1>9

\* The sweep of heap_push: one element, q, may be smaller than its parent, which the sweep
\* has yet to reach; what is below q is no smaller than that parent.
UpAt(h, q) ==
    /\ q \in 0 .. Len(h) - 1
    /\ \A i \in 1 .. Len(h) - 1 : i # q => At(h, Up(i)) <= At(h, i)
    /\ q # 0 => \A i \in 1 .. Len(h) - 1 : Up(i) = q => At(h, Up(q)) <= At(h, i)

UpStage(h, s) == \E q : UpAt(h, q) /\ (q = 0 \/ Up(q) < s)

\* heapify() at s takes it one up.
LEMMA UpStep ==
    ASSUME NEW S, NEW h, Numbers(S, h), NEW s \in 0 .. Len(h) - 1, UpStage(h, s + 1)
    PROVE  UpStage(Ids!heapify(h, s), s)
<1> DEFINE g == Ids!heapify(h, s)
           m == Ids!Least(h, s)
<1>1. Heapified(h, g, s, m) /\ Alike(S, h, g)
  BY HeapifyIs
<1> HIDE DEF g, m
<1>2. Numbers(S, g) /\ Len(g) = Len(h) /\ Len(h) \in Nat /\ s \in Nat
  BY <1>1, AtIs DEF Alike
<1>3. \A i \in 0 .. Len(h) - 1 : At(h, i) \in Nat /\ At(g, i) \in Nat
  BY <1>2, AtIs
<1>4. \A i \in 1 .. Len(h) - 1 : i \in 0 .. Len(h) - 1 /\ Up(i) \in 0 .. Len(h) - 1 /\ Up(i) < i
  BY AtIs
<1>5. PICK q : UpAt(h, q) /\ (q = 0 \/ Up(q) < s + 1)
  BY DEF UpStage
<1>6. q \in 0 .. Len(h) - 1 /\ q \in Nat /\ Up(q) \in Nat
  BY <1>2, <1>5, UpIs DEF UpAt
<1>7. CASE m = s
  <2>1. \A i \in 0 .. Len(h) - 1 : At(g, i) = At(h, i)
    BY <1>1, <1>7 DEF Heapified
  <2>2. CASE q = 0 \/ Up(q) < s
    <3>1. ASSUME NEW i \in 1 .. Len(g) - 1, i # q PROVE At(g, Up(i)) <= At(g, i)
      <4>1. At(h, Up(i)) <= At(h, i)
        BY <1>2, <1>5, <3>1 DEF UpAt
      <4> QED BY <1>2, <1>4, <2>1, <4>1
    <3>2. ASSUME q # 0, NEW i \in 1 .. Len(g) - 1, Up(i) = q PROVE At(g, Up(q)) <= At(g, i)
      <4>1. At(h, Up(q)) <= At(h, i)
        BY <1>2, <1>5, <3>2 DEF UpAt
      <4>2. q \in 1 .. Len(h) - 1
        BY <1>2, <1>6, <3>2
      <4> QED BY <1>2, <1>4, <2>1, <4>1, <4>2
    <3>3. UpAt(g, q)
      BY <1>2, <1>6, <3>1, <3>2 DEF UpAt
    <3> QED BY <2>2, <3>3 DEF UpStage, g
  <2>3. CASE q # 0 /\ Up(q) = s
    <3>1. ASSUME NEW i \in 1 .. Len(h) - 1 PROVE At(g, Up(i)) <= At(g, i)
      <4>1. At(h, Up(i)) <= At(h, i)
        BY <1>1, <1>5, <1>7, <2>3 DEF UpAt, Heapified
      <4> QED BY <1>4, <2>1, <4>1
    <3>2. UpAt(g, 0)
      BY <1>2, <1>6, <3>1 DEF UpAt
    <3> QED BY <3>2 DEF UpStage, g
  <2> QED BY <1>2, <1>5, <1>6, <2>2, <2>3
<1>8. CASE m # s
  <2>1. m # 0 /\ Up(m) = s /\ At(h, m) < At(h, s) /\ m \in 0 .. Len(h) - 1
    BY <1>1, <1>8 DEF Heapified
  <2>2. m \in 1 .. Len(h) - 1 /\ s < m
    BY <1>2, <1>4, <2>1
  <2>3. m = q
    BY <1>3, <1>5, <2>1, <2>2 DEF UpAt
  <2>4. /\ \A i \in 0 .. Len(h) - 1 : i # s /\ i # m => At(g, i) = At(h, i)
        /\ At(g, s) = At(h, m) /\ At(g, m) = At(h, s)
    BY <1>1, <1>8, <2>1 DEF Heapified
  <2>5. ASSUME NEW i \in 1 .. Len(h) - 1, i # s PROVE At(g, Up(i)) <= At(g, i)
    <3>0. i \in 0 .. Len(h) - 1 /\ Up(i) \in 0 .. Len(h) - 1 /\ Up(i) < i /\ i \in Nat /\ Up(i) \in Nat
      BY <1>2, <1>4
    <3>1. CASE i = m
      BY <1>3, <2>1, <2>4, <3>1
    <3>2. CASE Up(i) = s /\ i # m
      <4>1. At(h, m) <= At(h, i)
        BY <1>1, <3>2 DEF Heapified
      <4> QED BY <2>4, <2>5, <3>0, <3>2, <4>1
    <3>3. CASE Up(i) = m
      <4>1. At(h, Up(m)) <= At(h, i)
        BY <1>5, <2>1, <2>3, <3>3 DEF UpAt
      <4>2. At(g, i) = At(h, i)
        BY <1>2, <2>2, <2>4, <2>5, <3>0, <3>3
      <4> QED BY <2>1, <2>4, <3>3, <4>1, <4>2
    <3>4. CASE Up(i) # s /\ Up(i) # m /\ i # m
      <4>1. At(h, Up(i)) <= At(h, i)
        BY <1>5, <2>3, <3>4 DEF UpAt
      <4> QED BY <2>4, <2>5, <3>0, <3>4, <4>1
    <3> QED BY <3>1, <3>2, <3>3, <3>4
  <2>6. ASSUME s # 0, NEW i \in 1 .. Len(h) - 1, Up(i) = s PROVE At(g, Up(s)) <= At(g, i)
    <3>1. s \in 1 .. Len(h) - 1
      BY <1>2, <2>6
    <3>2. Up(s) \in 0 .. Len(h) - 1 /\ Up(s) < s /\ Up(s) # m /\ Up(s) # s /\ i # s
      BY <1>2, <1>4, <2>2, <2>6, <3>1
    <3>3. At(g, Up(s)) = At(h, Up(s))
      BY <2>4, <3>2
    <3>4. At(h, Up(s)) <= At(h, s)
      BY <1>5, <2>2, <2>3, <3>1, <1>8 DEF UpAt
    <3>5. CASE i = m
      BY <2>4, <3>3, <3>4, <3>5
    <3>6. CASE i # m
      <4>1. At(h, s) <= At(h, i) /\ At(g, i) = At(h, i)
        BY <1>4, <1>5, <2>3, <2>4, <2>6, <3>2, <3>6 DEF UpAt
      <4>2. At(h, s) \in Nat /\ At(h, i) \in Nat /\ At(h, Up(s)) \in Nat
        BY <1>3, <1>4, <3>2
      <4> QED BY <3>3, <3>4, <4>1, <4>2
    <3> QED BY <3>5, <3>6
  <2>7. UpAt(g, s)
    BY <1>2, <2>5, <2>6 DEF UpAt
  <2>8. s = 0 \/ Up(s) < s
    BY <1>2, UpIs
  <2> QED BY <2>7, <2>8 DEF UpStage, g
<1> QED BY <1>7, <1>8

\* The order of heap_push after the whole sweep.
LEMMA UpEnds ==
    ASSUME NEW S, NEW h, Numbers(S, h), UpStage(h, 0)
    PROVE  IsHeap(h)
<1>1. PICK q : UpAt(h, q) /\ (q = 0 \/ Up(q) < 0)
  BY DEF UpStage
<1>2. q \in Nat /\ Up(q) \in Nat
  BY <1>1, AtIs, UpIs DEF UpAt
<1>3. q = 0
  BY <1>1, <1>2
<1>4. \A i \in 1 .. Len(h) - 1 : i # 0
  OBVIOUS
<1> QED BY <1>1, <1>3, <1>4 DEF UpAt, IsHeap

\* heapify() at every parent from the last one to the first.
LEMMA FixupIs ==
    ASSUME NEW S, NEW h, Numbers(S, h), UpStage(h, Up(Len(h) - 1) + 1)
    PROVE  IsHeap(Ids!heap_fixup(h)) /\ Alike(S, h, Ids!heap_fixup(h))
<1> DEFINE last == Up(Len(h) - 1)
           X == {g \in Seq(S) : Alike(S, h, g)}
           step == [n \in 1 .. last + 1 |-> [g \in X |-> Ids!heapify(g, last + 1 - n)]]
           IsFix(f) == f = [n \in 0 .. last + 1 |-> IF n = 0 THEN h ELSE
                                Ids!heapify(f[n - 1], last + 1 - n)]
           fix == CHOOSE f : IsFix(f)
<1>1. last \in Nat /\ last \in 0 .. Len(h) - 1 /\ Len(h) \in Nat
  <2>1. Len(h) - 1 \in Nat /\ Len(h) \in Nat
    BY AtIs
  <2>2. CASE Len(h) - 1 = 0
    BY <2>1, <2>2, UpIs
  <2>3. CASE Len(h) - 1 # 0
    <3>1. Len(h) - 1 \in 1 .. Len(h) - 1
      <4>1. \A n \in Nat : n - 1 # 0 /\ n - 1 \in Nat => n - 1 \in 1 .. n - 1
        OBVIOUS
      <4> QED BY <2>1, <2>3, <4>1
    <3>2. Up(Len(h) - 1) \in 0 .. Len(h) - 1
      BY <3>1, AtIs
    <3> QED BY <2>1, <3>2
  <2> QED BY <2>2, <2>3
<1>2. Ids!heap_fixup(h) = fix[last + 1]
  BY DEF Ids!heap_fixup, Up
<1> HIDE DEF last
<1>3. \A g \in X : Alike(S, h, g) /\ Numbers(S, g) /\ Len(g) = Len(h)
  BY DEF Alike
<1>4. \A n \in 1 .. last + 1 : last + 1 - n \in 0 .. Len(h) - 1
  BY <1>1
<1>5. ASSUME NEW g \in X, NEW n \in 1 .. last + 1 PROVE Ids!heapify(g, last + 1 - n) \in X
  <2>1. Alike(S, g, Ids!heapify(g, last + 1 - n))
    BY <1>3, <1>4, HeapifyIs
  <2>2. Alike(S, h, Ids!heapify(g, last + 1 - n))
    BY <1>3, <2>1, AlikeTwice
  <2> QED BY <2>2 DEF Alike, Numbers
<1>6. h \in X
  BY DEF Alike, Numbers
<1> HIDE DEF X
<1>7. PICK f \in [0 .. last + 1 -> X] : IsLoop(f, last + 1, h, step)
  <2>1. step \in [1 .. last + 1 -> [X -> X]]
    BY <1>5
  <2>2. last + 1 \in Nat
    BY <1>1
  <2> HIDE DEF step
  <2> QED BY <1>6, <2>1, <2>2, LoopExists
<1>8. IsFix(f)
  <2>1. f = [n \in 0 .. last + 1 |-> IF n = 0 THEN h ELSE step[n][f[n - 1]]]
    BY <1>7 DEF IsLoop
  <2>2. \A n \in 0 .. last + 1 : n # 0 => f[n - 1] \in X /\ n \in 1 .. last + 1
    BY <1>1, <1>7
  <2> QED BY <2>1, <2>2
<1>9. IsFix(fix)
  BY <1>8, Zenon
<1> HIDE DEF fix
<1> DEFINE T == {n \in Nat : fix[n] \in X /\ UpStage(fix[n], last + 1 - n)}
<1>10. 0 \in T
  <2>1. fix[0] = h /\ last + 1 - 0 = last + 1
    BY <1>1, <1>9
  <2> QED BY <1>6, <2>1 DEF last
<1>11. ASSUME NEW n \in 0 .. last, n \in T PROVE n + 1 \in T
  <2>1. fix[n + 1] = Ids!heapify(fix[n], last + 1 - (n + 1)) /\ n + 1 \in 1 .. last + 1 /\ n + 1 \in Nat
    BY <1>1, <1>9
  <2> DEFINE s == last + 1 - (n + 1)
  <2>2. s + 1 = last + 1 - n /\ s \in 0 .. Len(h) - 1
    BY <1>1
  <2>3. fix[n] \in X /\ UpStage(fix[n], s + 1)
    BY <1>11, <2>2
  <2>4. fix[n + 1] \in X
    BY <1>5, <2>1, <2>3
  <2> HIDE DEF s
  <2>5. UpStage(Ids!heapify(fix[n], s), s)
    BY <1>3, <2>2, <2>3, UpStep
  <2> QED BY <2>1, <2>4, <2>5 DEF s
<1> HIDE DEF T
<1>12. last + 1 \in T
  <2>1. last + 1 \in Nat /\ (last + 1) - 1 = last /\ last + 1 \in 0 .. last + 1
    BY <1>1
  <2>2. 0 .. last + 1 \subseteq T
    BY <1>10, <1>11, <2>1, UpTo
  <2> QED BY <2>1, <2>2
<1>13. fix[last + 1] \in X /\ UpStage(fix[last + 1], 0)
  BY <1>1, <1>12 DEF T
<1>14. Numbers(S, fix[last + 1]) /\ Alike(S, h, fix[last + 1])
  BY <1>3, <1>13
<1> QED BY <1>2, <1>13, <1>14, UpEnds

\* The walk of heap_pop: only the element p, where the walk is, may be greater than its
\* children, and those are no smaller than the parent of p.
DownAt(h, p) ==
    /\ p \in 0 .. Len(h) - 1
    /\ \A i \in 1 .. Len(h) - 1 : Up(i) # p => At(h, Up(i)) <= At(h, i)
    /\ p # 0 => \A i \in 1 .. Len(h) - 1 : Up(i) = p => At(h, Up(p)) <= At(h, i)

\* A round of it: the walk goes to the least child, or the array is a heap.
LEMMA DownStep ==
    ASSUME NEW S, NEW h, Numbers(S, h), NEW p, DownAt(h, p)
    PROVE  /\ Ids!Least(h, p) \in 0 .. Len(h) - 1
           /\ Ids!Least(h, p) = p \/ p > Up(Len(h) - 1) => IsHeap(h)
           /\ Ids!Least(h, p) # p => /\ DownAt(Ids!heapify(h, p), Ids!Least(h, p))
                                     /\ Ids!Least(h, p) > p
<1> DEFINE g == Ids!heapify(h, p)
           m == Ids!Least(h, p)
<1>0. p \in 0 .. Len(h) - 1
  BY DEF DownAt
<1>1. Heapified(h, g, p, m) /\ Alike(S, h, g)
  BY <1>0, HeapifyIs
<1> HIDE DEF g, m
<1>2. Numbers(S, g) /\ Len(g) = Len(h) /\ Len(h) \in Nat /\ p \in Nat
  BY <1>0, <1>1, AtIs DEF Alike
<1>3. \A i \in 0 .. Len(h) - 1 : At(h, i) \in Nat /\ At(g, i) \in Nat
  BY <1>2, AtIs
<1>4. \A i \in 1 .. Len(h) - 1 : i \in 0 .. Len(h) - 1 /\ Up(i) \in 0 .. Len(h) - 1 /\ Up(i) < i
  BY AtIs
<1>5. ASSUME m = p PROVE IsHeap(h)
  BY <1>1, <1>5 DEF Heapified, DownAt, IsHeap
<1>6. ASSUME p > Up(Len(h) - 1) PROVE IsHeap(h)
  <2>1. ASSUME NEW i \in 1 .. Len(h) - 1 PROVE Up(i) # p
    <3>1. i \in Nat /\ Len(h) - 1 \in Nat /\ (i < Len(h) - 1 \/ i = Len(h) - 1)
      BY <1>2
    <3>2. Up(i) \in Nat /\ Up(Len(h) - 1) \in Nat /\ Up(i) <= Up(Len(h) - 1)
      BY <3>1, UpIs
    <3> QED BY <1>2, <1>6, <3>2
  <2> QED BY <2>1 DEF DownAt, IsHeap
<1>7. ASSUME m # p PROVE DownAt(g, m) /\ m > p
  <2>1. m # 0 /\ Up(m) = p /\ At(h, m) < At(h, p) /\ m \in 0 .. Len(h) - 1
    BY <1>1, <1>7 DEF Heapified
  <2>2. m \in 1 .. Len(h) - 1 /\ p < m /\ m \in Nat
    BY <1>2, <1>4, <2>1
  <2>4. /\ \A i \in 0 .. Len(h) - 1 : i # p /\ i # m => At(g, i) = At(h, i)
        /\ At(g, p) = At(h, m) /\ At(g, m) = At(h, p)
    BY <1>0, <1>1, <1>7, <2>1 DEF Heapified
  <2>5. ASSUME NEW i \in 1 .. Len(h) - 1, Up(i) # m PROVE At(g, Up(i)) <= At(g, i)
    <3>0. i \in 0 .. Len(h) - 1 /\ Up(i) \in 0 .. Len(h) - 1 /\ Up(i) < i /\ i \in Nat /\ Up(i) \in Nat
      BY <1>2, <1>4
    <3>1. CASE i = m
      <4>1. At(h, m) \in Nat /\ At(h, p) \in Nat
        BY <1>0, <1>3, <2>1
      <4> QED BY <2>1, <2>4, <3>1, <4>1
    <3>2. CASE Up(i) = p /\ i # m
      <4>1. At(h, m) <= At(h, i)
        BY <1>1, <3>2 DEF Heapified
      <4>2. i # p
        BY <1>2, <3>0, <3>2
      <4> QED BY <2>4, <3>0, <3>2, <4>1, <4>2
    <3>3. CASE i = p
      <4>1. At(h, Up(p)) <= At(h, m)
        BY <1>2, <2>1, <2>2, <3>3 DEF DownAt
      <4>2. Up(p) # p /\ Up(p) # m /\ Up(p) \in 0 .. Len(h) - 1
        BY <1>2, <2>2, <3>0, <3>3
      <4> QED BY <2>4, <3>3, <4>1, <4>2
    <3>4. CASE Up(i) # p /\ i # m /\ i # p
      <4>1. At(h, Up(i)) <= At(h, i)
        BY <3>4 DEF DownAt
      <4> QED BY <2>4, <2>5, <3>0, <3>4, <4>1
    <3> QED BY <3>1, <3>2, <3>3, <3>4
  <2>6. ASSUME NEW i \in 1 .. Len(h) - 1, Up(i) = m PROVE At(g, Up(m)) <= At(g, i)
    <3>1. i \in 0 .. Len(h) - 1 /\ i # m /\ i # p
      BY <1>2, <1>4, <2>2, <2>6
    <3>2. At(h, m) <= At(h, i)
      BY <1>7, <2>6 DEF DownAt
    <3> QED BY <2>1, <2>4, <3>1, <3>2
  <2> QED BY <1>2, <2>1, <2>2, <2>5, <2>6 DEF DownAt
<1>8. m \in 0 .. Len(h) - 1
  BY <1>1 DEF Heapified
<1> QED BY <1>5, <1>6, <1>7, <1>8 DEF g, m

\* In a heap the walk stays where it is.
LEMMA HeapStays ==
    ASSUME NEW S, NEW h, Numbers(S, h), IsHeap(h), NEW p \in 0 .. Len(h) - 1
    PROVE  Ids!Least(h, p) = p
<1> DEFINE m == Ids!Least(h, p)
<1>1. Heapified(h, Ids!heapify(h, p), p, m)
  BY HeapifyIs
<1> HIDE DEF m
<1>2. SUFFICES ASSUME m # p PROVE FALSE
  BY DEF m
<1>3. m # 0 /\ Up(m) = p /\ At(h, m) < At(h, p) /\ m \in 0 .. Len(h) - 1
  BY <1>1, <1>2 DEF Heapified
<1>4. m \in 1 .. Len(h) - 1 /\ At(h, m) \in Nat /\ At(h, p) \in Nat
  BY <1>3, AtIs
<1>5. At(h, p) <= At(h, m)
  BY <1>3, <1>4 DEF IsHeap
<1> QED BY <1>3, <1>4, <1>5

\* heapify() down from the root.
LEMMA FixdownIs ==
    ASSUME NEW S, NEW h, Numbers(S, h), DownAt(h, 0)
    PROVE  IsHeap(Ids!heap_fixdown(h)) /\ Alike(S, h, Ids!heap_fixdown(h))
<1> DEFINE N == Len(h)
           X == {c \in [heap : Seq(S), root : 0 .. N - 1] : Alike(S, h, c.heap)}
           Round(c) == IF c.root > Ids!parent(N - 1) \/ Ids!Least(c.heap, c.root) = c.root
                       THEN c
                       ELSE [heap |-> Ids!heapify(c.heap, c.root),
                             root |-> Ids!Least(c.heap, c.root)]
           first == [heap |-> h, root |-> 0]
           step == [n \in 1 .. N |-> [c \in X |-> Round(c)]]
           IsDown(f) == f = [n \in 0 .. N |-> IF n = 0 THEN first ELSE Round(f[n - 1])]
           down == CHOOSE f : IsDown(f)
<1>1. N \in Nat /\ N > 0
  BY AtIs
<1>2. Ids!heap_fixdown(h) = down[N].heap
  BY DEF Ids!heap_fixdown
<1>3. \A c \in X : /\ Alike(S, h, c.heap) /\ Numbers(S, c.heap) /\ Len(c.heap) = N
                   /\ c.root \in 0 .. N - 1
  BY DEF Alike
<1>4. ASSUME NEW c \in X PROVE Round(c) \in X
  <2>1. CASE Round(c) = c
    BY <2>1
  <2>2. CASE Round(c) = [heap |-> Ids!heapify(c.heap, c.root),
                         root |-> Ids!Least(c.heap, c.root)]
    <3> DEFINE g == Ids!heapify(c.heap, c.root)
               m == Ids!Least(c.heap, c.root)
    <3>1. Alike(S, c.heap, g) /\ Heapified(c.heap, g, c.root, m)
      BY <1>3, HeapifyIs
    <3>2. Alike(S, h, g)
      BY <1>3, <3>1, AlikeTwice
    <3>3. m \in 0 .. N - 1 /\ g \in Seq(S)
      BY <1>3, <3>1, <3>2 DEF Heapified, Alike, Numbers
    <3> HIDE DEF g, m
    <3>4. [heap |-> g, root |-> m] \in X
      BY <3>2, <3>3
    <3> QED BY <2>2, <3>4 DEF g, m
  <2> QED BY <2>1, <2>2
<1>5. first \in X
  BY <1>1 DEF Alike, Numbers
<1>6. first.heap = h /\ first.root = 0
  OBVIOUS
<1> HIDE DEF X, Round, first, N
<1>7. PICK f \in [0 .. N -> X] : IsLoop(f, N, first, step)
  <2>1. step \in [1 .. N -> [X -> X]]
    BY <1>4
  <2> HIDE DEF step
  <2> QED BY <1>1, <1>5, <2>1, LoopExists
<1>8. IsDown(f)
  <2>1. f = [n \in 0 .. N |-> IF n = 0 THEN first ELSE step[n][f[n - 1]]]
    BY <1>7 DEF IsLoop
  <2>2. \A n \in 0 .. N : n # 0 => f[n - 1] \in X /\ n \in 1 .. N
    BY <1>1, <1>7
  <2> QED BY <2>1, <2>2
<1>9. IsDown(down)
  BY <1>8, Zenon
<1> HIDE DEF down
<1> DEFINE Good(c, n) == IsHeap(c.heap) \/ (DownAt(c.heap, c.root) /\ c.root >= n)
           T == {n \in Nat : down[n] \in X /\ Good(down[n], n)}
<1>10. 0 \in T
  <2>1. down[0] = first
    BY <1>1, <1>9
  <2> QED BY <1>5, <1>6, <2>1
<1>11. ASSUME NEW n \in 0 .. N - 1, n \in T PROVE n + 1 \in T
  <2>1. down[n + 1] = Round(down[n]) /\ n + 1 \in Nat /\ n \in Nat
    BY <1>1, <1>9
  <2> DEFINE c == down[n]
  <2>2. c \in X /\ Good(c, n)
    BY <1>11
  <2> HIDE DEF c
  <2>3. Round(c) \in X
    BY <1>4, <2>2
  <2>4. Numbers(S, c.heap) /\ Len(c.heap) = N /\ c.root \in 0 .. N - 1 /\ c.root \in Nat
    BY <1>1, <1>3, <2>2
  <2>5. Good(Round(c), n + 1)
    <3>1. CASE IsHeap(c.heap)
      <4>1. Ids!Least(c.heap, c.root) = c.root
        BY <2>4, <3>1, HeapStays
      <4>2. Round(c) = c
        BY <4>1 DEF Round
      <4> QED BY <3>1, <4>2
    <3>2. CASE ~IsHeap(c.heap)
      <4>1. DownAt(c.heap, c.root) /\ c.root >= n
        BY <2>2, <3>2
      <4>2. /\ Ids!Least(c.heap, c.root) # c.root /\ ~(c.root > Up(N - 1))
            /\ DownAt(Ids!heapify(c.heap, c.root), Ids!Least(c.heap, c.root))
            /\ Ids!Least(c.heap, c.root) > c.root
            /\ Ids!Least(c.heap, c.root) \in 0 .. N - 1
        BY <2>4, <3>2, <4>1, DownStep
      <4>3. Round(c) = [heap |-> Ids!heapify(c.heap, c.root),
                        root |-> Ids!Least(c.heap, c.root)]
        BY <4>2 DEF Round, Up
      <4>4. Round(c).heap = Ids!heapify(c.heap, c.root) /\ Round(c).root = Ids!Least(c.heap, c.root)
        BY <4>3
      <4>5. Ids!Least(c.heap, c.root) \in Nat
        BY <1>1, <4>2
      <4>6. Ids!Least(c.heap, c.root) >= n + 1
        BY <2>1, <2>4, <4>1, <4>2, <4>5
      <4> QED BY <4>2, <4>4, <4>6
    <3> QED BY <3>1, <3>2
  <2> QED BY <2>1, <2>3, <2>5 DEF c
<1> HIDE DEF T
<1>12. N \in T
  <2>1. 0 .. N \subseteq T
    BY <1>1, <1>10, <1>11, UpTo
  <2> QED BY <1>1, <2>1
<1>13. down[N] \in X /\ Good(down[N], N)
  BY <1>12 DEF T
<1>14. down[N].root \in 0 .. N - 1 /\ Alike(S, h, down[N].heap)
  BY <1>3, <1>13
<1>15. IsHeap(down[N].heap)
  BY <1>1, <1>13, <1>14
<1> QED BY <1>2, <1>14, <1>15 DEF N

\* An identifier that is freed.
LEMMA PushIs ==
    ASSUME NEW S \in SUBSET Nat, NEW h \in Seq(S), NEW id \in S, IsHeap(h)
    PROVE  LET r == Ids!heap_push(h, id)
           IN  /\ r \in Seq(S) /\ Len(r) = Len(h) + 1 /\ IsHeap(r)
               /\ ToSet(r) = ToSet(h) \cup {id}
               /\ WellLinked(h) /\ id \notin ToSet(h) => WellLinked(r)
<1> DEFINE g == Append(h, id)
           N == Len(h)
<1>1. /\ g \in Seq(S) /\ Len(g) = N + 1 /\ N \in Nat
      /\ \A i \in 1 .. N : g[i] = h[i]
  OBVIOUS
<1>2. /\ ToSet(g) = ToSet(h) \cup {id}
      /\ WellLinked(h) /\ id \notin ToSet(h) => WellLinked(g)
  BY AddLast DEF list_add_before
<1> HIDE DEF g
<1>3. Numbers(S, g)
  BY <1>1 DEF Numbers
<1>4. ASSUME NEW i \in 1 .. N - 1 PROVE At(g, Up(i)) <= At(g, i)
  <2>1. i \in 1 .. Len(g) - 1 /\ i + 1 \in 1 .. N /\ i \in Nat
    BY <1>1
  <2>2. Up(i) \in 0 .. Len(g) - 1 /\ Up(i) < i
    BY <1>3, <2>1, AtIs
  <2>3. Up(i) + 1 \in 1 .. N
    BY <1>1, <2>2
  <2>4. At(h, Up(i)) <= At(h, i)
    BY DEF IsHeap
  <2> QED BY <1>1, <2>1, <2>3, <2>4 DEF At
<1>5. UpAt(g, N)
  <2>1. N \in 0 .. Len(g) - 1
    BY <1>1
  <2>2. \A i \in 1 .. Len(g) - 1 : i # N => i \in 1 .. N - 1
    BY <1>1
  <2>3. \A i \in 1 .. Len(g) - 1 : Up(i) # N
    <3>1. \A i \in 1 .. Len(g) - 1 : Up(i) \in 0 .. Len(g) - 1 /\ Up(i) < i
      BY <1>3, AtIs
    <3> QED BY <1>1, <3>1
  <2> QED BY <1>4, <2>1, <2>2, <2>3 DEF UpAt
<1>6. UpStage(g, Up(Len(g) - 1) + 1)
  <2>1. Len(g) - 1 = N /\ Up(N) \in Nat
    BY <1>1, UpIs
  <2>2. Up(N) < Up(N) + 1
    BY <2>1
  <2> QED BY <1>5, <2>1, <2>2 DEF UpStage
<1>7. Ids!heap_push(h, id) = Ids!heap_fixup(g)
  BY DEF Ids!heap_push, g
<1>8. IsHeap(Ids!heap_fixup(g)) /\ Alike(S, g, Ids!heap_fixup(g))
  BY <1>3, <1>6, FixupIs
<1> QED BY <1>1, <1>2, <1>7, <1>8 DEF Alike, Numbers

\* The smallest identifier that is taken out.
LEMMA PopIs ==
    ASSUME NEW S \in SUBSET Nat, NEW h \in Seq(S), h # <<>>, IsHeap(h)
    PROVE  LET r == Ids!heap_pop(h)
           IN  /\ r \in Seq(S) /\ Len(r) = Len(h) - 1 /\ IsHeap(r)
               /\ ToSet(r) \subseteq ToSet(h) /\ h[1] \in ToSet(h) /\ h[1] \in S
               /\ WellLinked(h) => WellLinked(r) /\ h[1] \notin ToSet(r)
<1> DEFINE N == Len(h)
           g == [SubSeq(h, 1, N - 1) EXCEPT ![1] = h[N]]
<1>1. N \in Nat /\ N > 0 /\ h \in [1 .. N -> S] /\ DOMAIN h = 1 .. N /\ Len(h) = N
  OBVIOUS
<1>2. h[1] \in ToSet(h) /\ h[1] \in S
  BY <1>1 DEF ToSet
<1>3. CASE N = 1
  <2>1. Ids!heap_pop(h) = <<>>
    BY <1>3 DEF Ids!heap_pop
  <2>2. /\ <<>> \in Seq(S) /\ Len(<<>>) = N - 1 /\ IsHeap(<<>>)
        /\ ToSet(<<>>) = {} /\ WellLinked(<<>>)
    BY <1>3 DEF IsHeap, ToSet, WellLinked, IsInjective
  <2> QED BY <1>2, <2>1, <2>2
<1>4. CASE N # 1
  <2>0. N - 1 \in Nat /\ N - 1 > 0 /\ 1 \in 1 .. N /\ N \in 1 .. N
    BY <1>1, <1>4
  <2>1. /\ g \in [1 .. N - 1 -> S]
        /\ \A i \in 1 .. N - 1 : g[i] = IF i = 1 THEN h[N] ELSE h[i]
    <3>1. /\ SubSeq(h, 1, N - 1) \in [1 .. N - 1 -> S]
          /\ \A i \in 1 .. N - 1 : SubSeq(h, 1, N - 1)[i] = h[i]
      <4> DEFINE q == SubSeq(h, 1, N - 1)
      <4> HIDE DEF N
      <4>1. \A i \in 1 .. N - 1 : h[i] \in S
        BY <1>1
      <4>2. /\ q \in Seq(S)
            /\ Len(q) = IF 1 <= N - 1 THEN N - 1 - 1 + 1 ELSE 0
            /\ \A i \in 1 .. N - 1 - 1 + 1 : q[i] = h[1 + i - 1]
        BY <1>1, <2>0, <4>1, SubSeqProperties
      <4>3. N - 1 - 1 + 1 = N - 1 /\ 1 <= N - 1 /\ \A i \in 1 .. N - 1 : 1 + i - 1 = i
        BY <1>1, <2>0
      <4>4. Len(q) = N - 1 /\ \A i \in 1 .. N - 1 : q[i] = h[i]
        BY <4>2, <4>3
      <4> HIDE DEF q
      <4>5. q \in [1 .. N - 1 -> S]
        BY <4>2, <4>4
      <4> QED BY <4>4, <4>5 DEF q
    <3> HIDE DEF N
    <3> QED BY <1>1, <2>0, <3>1
  <2>2. Ids!heap_pop(h) = Ids!heap_fixdown(g)
    BY <1>4 DEF Ids!heap_pop
  <2> HIDE DEF g, N
  <2>3. g \in Seq(S) /\ Len(g) = N - 1 /\ DOMAIN g = 1 .. N - 1
    BY <2>0, <2>1
  <2>4. Numbers(S, g)
    BY <2>0, <2>3 DEF Numbers
  <2>5. ASSUME NEW i \in 1 .. Len(g) - 1, Up(i) # 0 PROVE At(g, Up(i)) <= At(g, i)
    <3>1. Up(i) \in 0 .. Len(g) - 1 /\ Up(i) < i /\ i \in 0 .. Len(g) - 1
      BY <2>4, AtIs
    <3>2. /\ i + 1 \in 1 .. N - 1 /\ i + 1 # 1 /\ Up(i) + 1 \in 1 .. N - 1 /\ Up(i) + 1 # 1
          /\ i \in 1 .. N - 1
      BY <2>0, <2>3, <2>5, <3>1
    <3>3. At(h, Up(i)) <= At(h, i)
      BY <1>1, <3>2 DEF IsHeap
    <3> QED BY <2>1, <3>2, <3>3 DEF At
  <2>6. DownAt(g, 0)
    BY <2>0, <2>3, <2>5 DEF DownAt
  <2>7. IsHeap(Ids!heap_fixdown(g)) /\ Alike(S, g, Ids!heap_fixdown(g))
    BY <2>4, <2>6, FixdownIs
  <2>8. ToSet(g) \subseteq ToSet(h)
    BY <1>1, <2>0, <2>1, <2>3 DEF ToSet
  <2>9. ASSUME WellLinked(h) PROVE WellLinked(g) /\ h[1] \notin ToSet(g)
    <3>1. \A i, j \in 1 .. N : h[i] = h[j] => i = j
      BY <1>1, <2>9 DEF WellLinked, IsInjective
    <3>2. \A i \in 1 .. N - 1 : i \in 1 .. N /\ i # N
      BY <1>1
    <3>3. \A i, j \in 1 .. N - 1 : g[i] = g[j] => i = j
      BY <2>0, <2>1, <3>1, <3>2
    <3>4. \A i \in 1 .. N - 1 : g[i] # h[1]
      BY <1>4, <2>0, <2>1, <3>1, <3>2
    <3> QED BY <2>3, <3>3, <3>4 DEF ToSet, WellLinked, IsInjective
  <2>10. Len(h) - 1 = N - 1
    BY DEF N
  <2> QED BY <1>2, <2>2, <2>3, <2>7, <2>8, <2>9, <2>10 DEF Alike, Numbers
<1> QED BY <1>3, <1>4

\* What DataAssumption says of the constants of Cid.
LEMMA CidNumbers ==
    /\ IsFiniteSet(Tasks) /\ MaxId \in Nat /\ MaxId > 0
    /\ NoId # -1 /\ NoId \notin 0 .. MaxId - 1
    /\ \A T : Ids!Cardinality(T) = Cardinality(T)
<1>1. \A T : Ids!Cardinality(T) = Cardinality(T)
  BY DEF Ids!Cardinality, Cardinality
<1>2. Ids!IsFiniteSet(Tasks) => IsFiniteSet(Tasks)
  BY DEF Ids!IsFiniteSet, IsFiniteSet
<1>3. MaxId \in Nat \ {0} /\ NoId \notin -1 .. MaxId - 1 /\ Ids!IsFiniteSet(Tasks)
  BY DataAssumption DEF Ids!CidAssumption
<1>4. -1 \in -1 .. MaxId - 1 /\ 0 .. MaxId - 1 \subseteq -1 .. MaxId - 1
  BY <1>3
<1> QED BY <1>1, <1>2, <1>3, <1>4

\* An identifier that is freed is reduced to one that exists, the -1 of a failure too.
LEMMA ReducedIs ==
    /\ \A id \in 0 .. MaxId - 1 : Ids!Reduced(id) = id
    /\ Ids!Reduced(-1) \in 0 .. MaxId - 1
<1> DEFINE X == 0 .. MaxId - 1
           double(y) == (2 * y) % MaxId
           one == 1 % MaxId
           step == [n \in 1 .. 64 |-> [y \in X |-> double(y)]]
           IsPow(f) == f = [n \in 0 .. 64 |-> IF n = 0 THEN one ELSE double(f[n - 1])]
           pow == CHOOSE f : IsPow(f)
<1>1. MaxId \in Nat /\ MaxId > 0
  BY CidNumbers
<1>2. (\A y \in X : double(y) \in X) /\ one \in X
  BY <1>1
<1>3. \A id : Ids!Reduced(id) = IF id = -1 THEN (pow[64] + MaxId - 1) % MaxId ELSE id % MaxId
  BY DEF Ids!Reduced
<1> HIDE DEF X, double, one
<1>4. PICK f \in [0 .. 64 -> X] : IsLoop(f, 64, one, step)
  <2>1. step \in [1 .. 64 -> [X -> X]]
    BY <1>2
  <2>2. 64 \in Nat
    OBVIOUS
  <2> HIDE DEF step
  <2> QED BY <1>2, <2>1, <2>2, LoopExists
<1>5. IsPow(f)
  <2>1. f = [n \in 0 .. 64 |-> IF n = 0 THEN one ELSE step[n][f[n - 1]]]
    BY <1>4 DEF IsLoop
  <2>2. \A n \in 0 .. 64 : n # 0 => f[n - 1] \in X /\ n \in 1 .. 64
    BY <1>4
  <2> QED BY <2>1, <2>2
<1>6. IsPow(pow)
  BY <1>5, Zenon
<1> HIDE DEF pow
<1>7. Stays(pow, 64, X)
  <2>1. \A n \in 0 .. 64 - 1 : pow[n + 1] = double(pow[n])
    BY <1>6
  <2>2. pow[0] = one
    BY <1>6
  <2> QED BY <1>2, <2>1, <2>2 DEF Stays
<1>8. pow[64] \in X
  BY <1>7, LoopStays
<1>9. pow[64] \in Nat
  BY <1>1, <1>8 DEF X
<1>10. (pow[64] + MaxId - 1) % MaxId \in 0 .. MaxId - 1
  BY <1>1, <1>9
<1>11. ASSUME NEW id \in 0 .. MaxId - 1 PROVE id # -1 /\ id % MaxId = id
  BY <1>1
<1> QED BY <1>3, <1>10, <1>11

\* The tasks that exist, and those that have an identifier.
LiveTasks == {t \in Tasks : cid[t] # NoId}
Holders == {t \in LiveTasks : cid[t] # -1}

CidTypes ==
    /\ base \in Nat /\ recycle \in Seq(0 .. MaxId - 1) /\ IsHeap(recycle)
    /\ cid \in [Tasks -> {NoId, -1} \cup 0 .. MaxId - 1]
    /\ failed \in BOOLEAN

\* Until an allocation fails the identifiers below base are used once: by a task or in the heap.
CidUnique ==
    ~failed =>
        /\ \A t \in LiveTasks : cid[t] # -1 /\ cid[t] < base /\ cid[t] \notin ToSet(recycle)
        /\ \A s, t \in LiveTasks : cid[s] = cid[t] => s = t
        /\ WellLinked(recycle) /\ \A x \in ToSet(recycle) : x < base

\* How many there are.  After a failure there is one for every task at most: a task with none
\* that ends puts one in the heap, where it no longer counts itself.
CidCount ==
    /\ ~failed => Len(recycle) + Cardinality(LiveTasks) = base
    /\ failed => /\ base <= Len(recycle) + Cardinality(Holders) /\ base >= MaxId
                 /\ Len(recycle) + Cardinality(LiveTasks) <= Cardinality(Tasks)

CidInv == CidTypes /\ CidUnique /\ CidCount

\* A new generator has handed out nothing.
LEMMA CidInit == Ids!Init => CidInv
<1> SUFFICES ASSUME Ids!Init PROVE CidInv
  OBVIOUS
<1>1. base = 0 /\ recycle = <<>> /\ cid = [t \in Tasks |-> NoId] /\ failed = FALSE
  BY DEF Ids!Init
<1>2. LiveTasks = {}
  BY <1>1 DEF LiveTasks
<1>3. Cardinality(LiveTasks) = 0 /\ Len(recycle) = 0 /\ ~failed
  BY <1>1, <1>2, FS_EmptySet
<1>4. /\ recycle \in Seq(0 .. MaxId - 1) /\ IsHeap(recycle) /\ ToSet(recycle) = {}
      /\ WellLinked(recycle)
  BY <1>1 DEF IsHeap, ToSet, WellLinked, IsInjective
<1>5. CidTypes
  BY <1>1, <1>4 DEF CidTypes
<1>6. CidUnique
  BY <1>2, <1>4 DEF CidUnique
<1>7. CidCount
  BY <1>1, <1>3 DEF CidCount
<1> QED BY <1>5, <1>6, <1>7 DEF CidInv

\* The numbers of CidCount.
LEMMA CidFinite ==
    ASSUME CidTypes
    PROVE  /\ IsFiniteSet(LiveTasks) /\ IsFiniteSet(Holders)
           /\ Cardinality(LiveTasks) \in Nat /\ Cardinality(Holders) \in Nat
           /\ Cardinality(LiveTasks) <= Cardinality(Tasks)
           /\ Cardinality(Holders) <= Cardinality(LiveTasks)
           /\ Cardinality(Tasks) \in Nat /\ Len(recycle) \in Nat /\ base \in Nat /\ MaxId \in Nat
<1>1. IsFiniteSet(Tasks) /\ LiveTasks \subseteq Tasks /\ Holders \subseteq LiveTasks
  BY CidNumbers DEF LiveTasks, Holders
<1>2. IsFiniteSet(LiveTasks) /\ Cardinality(LiveTasks) <= Cardinality(Tasks)
  BY <1>1, FS_Subset
<1>3. IsFiniteSet(Holders) /\ Cardinality(Holders) <= Cardinality(LiveTasks)
  BY <1>1, <1>2, FS_Subset
<1> QED BY <1>1, <1>2, <1>3, FS_CardinalityType, CidNumbers DEF CidTypes

\* A task t gets the identifier, or the -1, called id.
LEMMA TaskBorn ==
    ASSUME CidTypes, NEW t \in Tasks, cid[t] = NoId, NEW id \in {-1} \cup 0 .. MaxId - 1,
           cid' = [cid EXCEPT ![t] = id]
    PROVE  /\ cid' \in [Tasks -> {NoId, -1} \cup 0 .. MaxId - 1]
           /\ LiveTasks' = LiveTasks \cup {t} /\ t \notin LiveTasks /\ cid'[t] = id
           /\ \A s \in LiveTasks : cid'[s] = cid[s] /\ s # t
           /\ Cardinality(LiveTasks') = Cardinality(LiveTasks) + 1
           /\ id = -1 => Holders' = Holders
           /\ id # -1 => Cardinality(Holders') = Cardinality(Holders) + 1
<1>1. NoId # -1 /\ NoId \notin 0 .. MaxId - 1 /\ cid \in [Tasks -> {NoId, -1} \cup 0 .. MaxId - 1]
  BY CidNumbers DEF CidTypes
<1>2. /\ cid' \in [Tasks -> {NoId, -1} \cup 0 .. MaxId - 1] /\ cid'[t] = id /\ id # NoId
      /\ \A s \in Tasks : s # t => cid'[s] = cid[s]
  BY <1>1
<1>3. LiveTasks' = LiveTasks \cup {t} /\ t \notin LiveTasks
  <2>1. \A s \in Tasks : s \in LiveTasks' <=> s \in LiveTasks \/ s = t
    BY <1>2 DEF LiveTasks
  <2>2. LiveTasks' \subseteq Tasks /\ LiveTasks \subseteq Tasks /\ t \notin LiveTasks
    BY DEF LiveTasks
  <2> QED BY <2>1, <2>2
<1>4. \A s \in LiveTasks : cid'[s] = cid[s] /\ s # t
  BY <1>2 DEF LiveTasks
<1>5. t \notin Holders
  BY <1>3 DEF Holders
<1>6. id = -1 => Holders' = Holders
  <2> SUFFICES ASSUME id = -1 PROVE Holders' = Holders
    OBVIOUS
  <2>1. Holders' \subseteq Holders
    BY <1>2, <1>3, <1>4 DEF Holders
  <2>2. Holders \subseteq Holders'
    BY <1>3, <1>4 DEF Holders
  <2> QED BY <2>1, <2>2
<1>7. id # -1 => Holders' = Holders \cup {t}
  <2> SUFFICES ASSUME id # -1 PROVE Holders' = Holders \cup {t}
    OBVIOUS
  <2>1. Holders' \subseteq Holders \cup {t}
    BY <1>3, <1>4 DEF Holders
  <2>2. Holders \cup {t} \subseteq Holders'
    BY <1>2, <1>3, <1>4 DEF Holders
  <2> QED BY <2>1, <2>2
<1>8. /\ Cardinality(LiveTasks \cup {t}) = Cardinality(LiveTasks) + 1
      /\ Cardinality(Holders \cup {t}) = Cardinality(Holders) + 1
  BY <1>3, <1>5, CidFinite, FS_AddElement
<1> QED BY <1>2, <1>3, <1>4, <1>6, <1>7, <1>8

\* A task t ends.
LEMMA TaskDied ==
    ASSUME CidTypes, NEW t \in Tasks, cid[t] # NoId, cid' = [cid EXCEPT ![t] = NoId]
    PROVE  /\ cid' \in [Tasks -> {NoId, -1} \cup 0 .. MaxId - 1]
           /\ LiveTasks' = LiveTasks \ {t} /\ t \in LiveTasks
           /\ \A s \in LiveTasks' : cid'[s] = cid[s] /\ s # t /\ s \in LiveTasks
           /\ Cardinality(LiveTasks') = Cardinality(LiveTasks) - 1
           /\ cid[t] = -1 => Holders' = Holders
           /\ cid[t] # -1 => Cardinality(Holders') = Cardinality(Holders) - 1
<1>1. cid \in [Tasks -> {NoId, -1} \cup 0 .. MaxId - 1]
  BY DEF CidTypes
<1>2. /\ cid' \in [Tasks -> {NoId, -1} \cup 0 .. MaxId - 1] /\ cid'[t] = NoId
      /\ \A s \in Tasks : s # t => cid'[s] = cid[s]
  BY <1>1
<1>3. LiveTasks' = LiveTasks \ {t} /\ t \in LiveTasks
  <2>1. \A s \in Tasks : s \in LiveTasks' <=> s \in LiveTasks /\ s # t
    BY <1>2 DEF LiveTasks
  <2>2. LiveTasks' \subseteq Tasks /\ LiveTasks \subseteq Tasks /\ t \in LiveTasks
    BY DEF LiveTasks
  <2> QED BY <2>1, <2>2
<1>4. \A s \in LiveTasks' : cid'[s] = cid[s] /\ s # t /\ s \in LiveTasks
  BY <1>2, <1>3 DEF LiveTasks
<1>5. Holders' = Holders \ {t}
  <2>1. Holders' \subseteq Holders \ {t}
    BY <1>4 DEF Holders
  <2>2. Holders \ {t} \subseteq Holders'
    BY <1>3, <1>4 DEF Holders
  <2> QED BY <2>1, <2>2
<1>6. cid[t] = -1 <=> t \notin Holders
  BY <1>3 DEF Holders
<1>7. /\ Cardinality(LiveTasks \ {t}) = Cardinality(LiveTasks) - 1
      /\ t \in Holders => Cardinality(Holders \ {t}) = Cardinality(Holders) - 1
  BY <1>3, CidFinite, FS_RemoveElement
<1>8. t \notin Holders => Holders \ {t} = Holders
  OBVIOUS
<1> QED BY <1>2, <1>3, <1>4, <1>5, <1>6, <1>7, <1>8

\* The elements of a list.
LEMMA InSet ==
    ASSUME NEW S, NEW list \in Seq(S)
    PROVE  ToSet(list) \subseteq S
<1>1. DOMAIN list = 1 .. Len(list) /\ \A i \in 1 .. Len(list) : list[i] \in S
  OBVIOUS
<1> QED BY <1>1 DEF ToSet

\* A task gets an identifier never used.
LEMMA CidNew ==
    ASSUME CidInv, NEW t \in Tasks, cid[t] = NoId, base < MaxId, base' = base + 1,
           cid' = [cid EXCEPT ![t] = base], UNCHANGED <<recycle, failed>>
    PROVE  CidInv'
<1>0. CidTypes /\ CidUnique /\ CidCount
  BY DEF CidInv
<1>1. base \in Nat /\ MaxId \in Nat /\ base \in 0 .. MaxId - 1 /\ base \in {-1} \cup 0 .. MaxId - 1
      /\ base # -1
  BY <1>0, CidFinite
<1>2. /\ cid' \in [Tasks -> {NoId, -1} \cup 0 .. MaxId - 1]
      /\ LiveTasks' = LiveTasks \cup {t} /\ cid'[t] = base
      /\ \A s \in LiveTasks : cid'[s] = cid[s] /\ s # t
      /\ Cardinality(LiveTasks') = Cardinality(LiveTasks) + 1
  BY <1>0, <1>1, TaskBorn
<1>3. failed' = failed
  OBVIOUS
<1>4. CidTypes'
  <2>1. base' \in Nat /\ recycle' \in Seq(0 .. MaxId - 1) /\ IsHeap(recycle')
    BY <1>0, <1>1 DEF CidTypes
  <2>2. failed' \in BOOLEAN
    BY <1>0, <1>3, Zenon DEF CidTypes
  <2> QED BY <1>2, <2>1, <2>2 DEF CidTypes, IsHeap
<1>5. ~failed
  BY <1>0, <1>1, CidFinite DEF CidCount
<1>6. \A s \in LiveTasks : cid[s] \in Nat
  BY <1>0, <1>5 DEF CidTypes, CidUnique, LiveTasks
<1>7. \A x \in ToSet(recycle) : x \in Nat /\ x < base
  <2>1. ToSet(recycle) \subseteq 0 .. MaxId - 1
    BY <1>0, InSet DEF CidTypes
  <2> QED BY <1>0, <1>1, <1>5, <2>1 DEF CidUnique
<1>8. CidUnique'
  <2>1. \A s \in LiveTasks : cid[s] # -1 /\ cid[s] < base /\ cid[s] \notin ToSet(recycle)
    BY <1>0, <1>5 DEF CidUnique
  <2>2. ASSUME NEW s \in LiveTasks'
        PROVE  cid'[s] # -1 /\ cid'[s] < base' /\ cid'[s] \notin ToSet(recycle')
    <3>1. CASE s = t
      <4>1. base \notin ToSet(recycle)
        BY <1>1, <1>7
      <4> QED BY <1>1, <1>2, <3>1, <4>1
    <3>2. CASE s \in LiveTasks
      BY <1>1, <1>2, <1>6, <2>1, <3>2
    <3> QED BY <1>2, <3>1, <3>2
  <2>3. ASSUME NEW s \in LiveTasks', NEW r \in LiveTasks', cid'[s] = cid'[r] PROVE s = r
    <3>1. \A q \in LiveTasks : cid[q] # base
      BY <1>1, <1>6, <2>1
    <3>2. \A p, q \in LiveTasks : cid[p] = cid[q] => p = q
      BY <1>0, <1>5 DEF CidUnique
    <3> QED BY <1>2, <2>3, <3>1, <3>2
  <2>4. WellLinked(recycle')
    BY <1>0, <1>5 DEF CidUnique
  <2>5. \A x \in ToSet(recycle') : x < base'
    BY <1>1, <1>7
  <2> QED BY <2>2, <2>3, <2>4, <2>5 DEF CidUnique
<1>9. CidCount'
  <2>1. Len(recycle') = Len(recycle) /\ ~failed'
    BY <1>3, <1>5
  <2>2. (Len(recycle) + Cardinality(LiveTasks')) = base'
    BY <1>0, <1>1, <1>2, <1>5, CidFinite DEF CidCount
  <2> QED BY <2>1, <2>2 DEF CidCount
<1> QED BY <1>4, <1>8, <1>9 DEF CidInv

\* A task gets the smallest identifier of the heap.
LEMMA CidAgain ==
    ASSUME CidInv, NEW t \in Tasks, cid[t] = NoId, recycle # <<>>,
           recycle' = Ids!heap_pop(recycle),
           cid' = [cid EXCEPT ![t] = recycle[1]], UNCHANGED <<base, failed>>
    PROVE  CidInv'
<1>0. CidTypes /\ CidUnique /\ CidCount
  BY DEF CidInv
<1> DEFINE id == recycle[1]
           S == 0 .. MaxId - 1
<1>a. S \in SUBSET Nat /\ recycle \in Seq(S) /\ IsHeap(recycle) /\ MaxId \in Nat
  BY <1>0, CidFinite DEF CidTypes
<1>1. /\ recycle' \in Seq(S) /\ Len(recycle') = Len(recycle) - 1 /\ IsHeap(recycle')
      /\ ToSet(recycle') \subseteq ToSet(recycle) /\ id \in ToSet(recycle) /\ id \in S
      /\ WellLinked(recycle) => WellLinked(recycle') /\ id \notin ToSet(recycle')
  BY <1>a, PopIs
<1>b. id \in {-1} \cup S /\ id # -1 /\ id \in Nat
  BY <1>a, <1>1
<1> HIDE DEF id
<1>2. /\ cid' \in [Tasks -> {NoId, -1} \cup 0 .. MaxId - 1]
      /\ LiveTasks' = LiveTasks \cup {t} /\ cid'[t] = id
      /\ \A s \in LiveTasks : cid'[s] = cid[s] /\ s # t
      /\ Cardinality(LiveTasks') = Cardinality(LiveTasks) + 1
      /\ Cardinality(Holders') = Cardinality(Holders) + 1
  <2>1. cid' = [cid EXCEPT ![t] = id]
    BY DEF id
  <2> QED BY <1>0, <1>b, <2>1, TaskBorn
<1>3. failed' = failed /\ base' = base
  OBVIOUS
<1>4. CidTypes'
  <2>2. failed' \in BOOLEAN
    BY <1>0, <1>3, Zenon DEF CidTypes
  <2>3. base' \in Nat
    BY <1>0 DEF CidTypes
  <2> QED BY <1>1, <1>2, <2>2, <2>3 DEF CidTypes, IsHeap
<1>5. CidUnique'
  <2>f. CASE failed
    BY <1>3, <2>f DEF CidUnique
  <2>a. SUFFICES ASSUME ~failed PROVE CidUnique'
    BY <2>f
  <2>0. /\ \A s \in LiveTasks : cid[s] # -1 /\ cid[s] < base /\ cid[s] \notin ToSet(recycle)
        /\ \A p, q \in LiveTasks : cid[p] = cid[q] => p = q
        /\ WellLinked(recycle) /\ \A x \in ToSet(recycle) : x < base
    BY <1>0, <2>a DEF CidUnique
  <2>1. WellLinked(recycle') /\ id \notin ToSet(recycle')
    BY <1>1, <2>0
  <2>2. ASSUME NEW s \in LiveTasks'
        PROVE  cid'[s] # -1 /\ cid'[s] < base' /\ cid'[s] \notin ToSet(recycle')
    <3>1. CASE s = t
      BY <1>1, <1>b, <1>2, <2>0, <2>1, <3>1
    <3>2. CASE s \in LiveTasks
      BY <1>1, <1>2, <2>0, <3>2
    <3> QED BY <1>2, <3>1, <3>2
  <2>3. ASSUME NEW s \in LiveTasks', NEW r \in LiveTasks', cid'[s] = cid'[r] PROVE s = r
    <3>1. \A q \in LiveTasks : cid[q] # id
      BY <1>1, <2>0
    <3> QED BY <1>2, <2>0, <2>3, <3>1
  <2>4. \A x \in ToSet(recycle') : x < base'
    BY <1>1, <1>3, <2>0
  <2> QED BY <2>1, <2>2, <2>3, <2>4 DEF CidUnique
<1>6. CidCount'
  <2>1. Cardinality(LiveTasks) \in Nat /\ Cardinality(Holders) \in Nat /\ Len(recycle) \in Nat
    BY <1>0, CidFinite
  <2>2. /\ (Len(recycle') + Cardinality(LiveTasks')) = Len(recycle) + Cardinality(LiveTasks)
        /\ (Len(recycle') + Cardinality(Holders')) = Len(recycle) + Cardinality(Holders)
    <3>1. /\ Len(recycle') = Len(recycle) - 1
          /\ Cardinality(LiveTasks') = Cardinality(LiveTasks) + 1
          /\ Cardinality(Holders') = Cardinality(Holders) + 1
      BY <1>1, <1>2
    <3>2. \A x, y \in Nat : ((x - 1) + (y + 1)) = x + y
      OBVIOUS
    <3> QED BY ONLY <2>1, <3>1, <3>2
  <2>3. CASE failed
    <3>1. /\ base <= Len(recycle) + Cardinality(Holders) /\ base >= MaxId
          /\ Len(recycle) + Cardinality(LiveTasks) <= Cardinality(Tasks)
      BY <1>0, <2>3 DEF CidCount
    <3> QED BY <1>3, <2>2, <2>3, <3>1 DEF CidCount
  <2>4. CASE ~failed
    <3>1. (Len(recycle) + Cardinality(LiveTasks)) = base
      BY <1>0, <2>4 DEF CidCount
    <3> QED BY <1>3, <2>2, <2>4, <3>1 DEF CidCount
  <2> QED BY <2>3, <2>4
<1> QED BY <1>4, <1>5, <1>6 DEF CidInv

\* A task gets none.
LEMMA CidFails ==
    ASSUME CidInv, NEW t \in Tasks, cid[t] = NoId, base >= MaxId, recycle = <<>>,
           cid' = [cid EXCEPT ![t] = -1], failed' = TRUE, UNCHANGED <<base, recycle>>
    PROVE  CidInv'
<1>0. CidTypes /\ CidUnique /\ CidCount
  BY DEF CidInv
<1>1. /\ cid' \in [Tasks -> {NoId, -1} \cup 0 .. MaxId - 1]
      /\ LiveTasks' = LiveTasks \cup {t}
      /\ Cardinality(LiveTasks') = Cardinality(LiveTasks) + 1
      /\ Holders' = Holders
  <2>1. -1 \in {-1} \cup 0 .. MaxId - 1
    OBVIOUS
  <2> QED BY <1>0, <2>1, TaskBorn
<1>2. CidTypes'
  <2>1. failed' \in BOOLEAN
    BY Zenon
  <2>2. base' \in Nat /\ recycle' \in Seq(0 .. MaxId - 1) /\ IsHeap(recycle')
    BY <1>0 DEF CidTypes
  <2> QED BY <1>1, <2>1, <2>2 DEF CidTypes, IsHeap
<1>3. CidUnique'
  BY DEF CidUnique
<1>4. CidCount'
  <2>1. /\ Len(recycle) = 0 /\ Len(recycle') = 0 /\ base' = base /\ failed'
        /\ Cardinality(LiveTasks) \in Nat /\ Cardinality(Holders) \in Nat /\ base \in Nat
    BY <1>0, CidFinite
  <2>2. base <= Cardinality(Holders)
    <3>1. CASE failed
      BY <1>0, <2>1, <3>1 DEF CidCount
    <3>2. CASE ~failed
      <4>1. Holders = LiveTasks
        <5>1. \A s \in LiveTasks : cid[s] # -1
          BY <1>0, <3>2 DEF CidUnique
        <5> QED BY <5>1 DEF Holders
      <4> QED BY <1>0, <2>1, <3>2, <4>1 DEF CidCount
    <3> QED BY <3>1, <3>2
  <2>3. Cardinality(LiveTasks') <= Cardinality(Tasks) /\ Cardinality(LiveTasks') \in Nat
    <3>1. IsFiniteSet(Tasks) /\ LiveTasks' \subseteq Tasks
      BY CidNumbers DEF LiveTasks
    <3> QED BY <3>1, FS_Subset, FS_CardinalityType
  <2>4. base' <= Len(recycle') + Cardinality(Holders') /\ base' >= MaxId
    BY <1>1, <2>1, <2>2
  <2>5. Len(recycle') + Cardinality(LiveTasks') <= Cardinality(Tasks)
    BY <2>1, <2>3
  <2> QED BY <2>1, <2>4, <2>5 DEF CidCount
<1> QED BY <1>2, <1>3, <1>4 DEF CidInv

\* A task ends, and its identifier goes to the heap.
LEMMA CidFreed ==
    ASSUME CidInv, NEW t \in Tasks, Ids!free_cid(t)
    PROVE  CidInv'
<1>0. CidTypes /\ CidUnique /\ CidCount
  BY DEF CidInv
<1> DEFINE id == Ids!Reduced(cid[t])
           S == 0 .. MaxId - 1
<1>1. /\ cid[t] # NoId /\ cid' = [cid EXCEPT ![t] = NoId]
      /\ recycle' = Ids!heap_push(recycle, id) /\ base' = base /\ failed' = failed
  BY DEF Ids!free_cid
<1>a. S \in SUBSET Nat /\ recycle \in Seq(S) /\ IsHeap(recycle) /\ MaxId \in Nat
  BY <1>0, CidFinite DEF CidTypes
<1>b. cid[t] = -1 \/ cid[t] \in S
  BY <1>0, <1>1 DEF CidTypes
<1>c. id \in S /\ (cid[t] # -1 => id = cid[t])
  BY <1>b, ReducedIs
<1> HIDE DEF id
<1>2. /\ recycle' \in Seq(S) /\ Len(recycle') = Len(recycle) + 1 /\ IsHeap(recycle')
      /\ ToSet(recycle') = ToSet(recycle) \cup {id}
      /\ WellLinked(recycle) /\ id \notin ToSet(recycle) => WellLinked(recycle')
  BY <1>a, <1>1, <1>c, PushIs
<1>3. /\ cid' \in [Tasks -> {NoId, -1} \cup 0 .. MaxId - 1]
      /\ LiveTasks' = LiveTasks \ {t} /\ t \in LiveTasks
      /\ \A s \in LiveTasks' : cid'[s] = cid[s] /\ s # t /\ s \in LiveTasks
      /\ Cardinality(LiveTasks') = Cardinality(LiveTasks) - 1
      /\ cid[t] = -1 => Holders' = Holders
      /\ cid[t] # -1 => Cardinality(Holders') = Cardinality(Holders) - 1
  BY <1>0, <1>1, TaskDied
<1>4. CidTypes'
  <2>1. failed' \in BOOLEAN
    BY <1>0, <1>1, Zenon DEF CidTypes
  <2>2. base' \in Nat
    BY <1>0, <1>1 DEF CidTypes
  <2> QED BY <1>2, <1>3, <2>1, <2>2 DEF CidTypes, IsHeap
<1>5. CidUnique'
  <2>f. CASE failed
    BY <1>1, <2>f DEF CidUnique
  <2>a. SUFFICES ASSUME ~failed PROVE CidUnique'
    BY <2>f
  <2>0. /\ \A s \in LiveTasks : cid[s] # -1 /\ cid[s] < base /\ cid[s] \notin ToSet(recycle)
        /\ \A p, q \in LiveTasks : cid[p] = cid[q] => p = q
        /\ WellLinked(recycle) /\ \A x \in ToSet(recycle) : x < base
    BY <1>0, <2>a DEF CidUnique
  <2>1. id = cid[t] /\ id < base /\ id \notin ToSet(recycle)
    BY <1>c, <1>3, <2>0
  <2>2. ASSUME NEW s \in LiveTasks'
        PROVE  cid'[s] # -1 /\ cid'[s] < base' /\ cid'[s] \notin ToSet(recycle')
    <3>1. cid'[s] = cid[s] /\ s # t /\ s \in LiveTasks
      BY <1>3
    <3>2. cid[s] # id
      BY <1>3, <2>0, <2>1, <3>1
    <3>3. cid[s] \notin ToSet(recycle')
      BY <1>2, <2>0, <3>1, <3>2
    <3> QED BY <1>1, <2>0, <3>1, <3>3
  <2>3. ASSUME NEW s \in LiveTasks', NEW r \in LiveTasks', cid'[s] = cid'[r] PROVE s = r
    BY <1>3, <2>0, <2>3
  <2>4. WellLinked(recycle')
    BY <1>2, <2>0, <2>1
  <2>5. \A x \in ToSet(recycle') : x < base'
    BY <1>1, <1>2, <2>0, <2>1
  <2> QED BY <2>2, <2>3, <2>4, <2>5 DEF CidUnique
<1>6. CidCount'
  <2>1. /\ Cardinality(LiveTasks) \in Nat /\ Cardinality(Holders) \in Nat /\ Len(recycle) \in Nat
        /\ base \in Nat
    BY <1>0, CidFinite
  <2>2. \A x, y \in Nat : ((x + 1) + (y - 1)) = x + y
    OBVIOUS
  <2>3. (Len(recycle') + Cardinality(LiveTasks')) = Len(recycle) + Cardinality(LiveTasks)
    <3>1. Len(recycle') = Len(recycle) + 1 /\ Cardinality(LiveTasks') = Cardinality(LiveTasks) - 1
      BY <1>2, <1>3
    <3> QED BY ONLY <2>1, <2>2, <3>1
  <2>4. \/ (Len(recycle') + Cardinality(Holders')) = Len(recycle) + Cardinality(Holders)
        \/ (Len(recycle') + Cardinality(Holders')) = (Len(recycle) + Cardinality(Holders)) + 1
    <3>1. /\ Len(recycle') = Len(recycle) + 1
          /\ \/ Cardinality(Holders') = Cardinality(Holders) - 1
             \/ Cardinality(Holders') = Cardinality(Holders)
      BY <1>2, <1>3
    <3>2. \A x, y \in Nat : ((x + 1) + y) = (x + y) + 1
      OBVIOUS
    <3> QED BY ONLY <2>1, <2>2, <3>1, <3>2
  <2>5. CASE failed
    <3>1. /\ base <= Len(recycle) + Cardinality(Holders) /\ base >= MaxId
          /\ Len(recycle) + Cardinality(LiveTasks) <= Cardinality(Tasks)
      BY <1>0, <2>5 DEF CidCount
    <3>2. base <= Len(recycle') + Cardinality(Holders')
      <4> DEFINE n == Len(recycle) + Cardinality(Holders)
      <4>1. n \in Nat /\ base <= n
        BY <2>1, <3>1
      <4> HIDE DEF n
      <4>2. Len(recycle') + Cardinality(Holders') \in {n, n + 1}
        BY ONLY <2>4 DEF n
      <4> QED BY ONLY <2>1, <4>1, <4>2
    <3> QED BY <1>1, <2>3, <2>5, <3>1, <3>2 DEF CidCount
  <2>6. CASE ~failed
    <3>1. (Len(recycle) + Cardinality(LiveTasks)) = base
      BY <1>0, <2>6 DEF CidCount
    <3> QED BY <1>1, <2>3, <2>6, <3>1 DEF CidCount
  <2> QED BY <2>5, <2>6
<1> QED BY <1>4, <1>5, <1>6 DEF CidInv

\* A step of another part.
LEMMA CidStill ==
    ASSUME CidInv, UNCHANGED cidVars
    PROVE  CidInv'
<1>1. base' = base /\ recycle' = recycle /\ cid' = cid /\ failed' = failed
  BY DEF cidVars
<1>2. LiveTasks' = LiveTasks
  BY <1>1 DEF LiveTasks
<1>3. Holders' = Holders
  BY <1>1, <1>2 DEF Holders
<1> QED BY <1>1, <1>2, <1>3, Zenon DEF CidInv, CidTypes, CidUnique, CidCount, IsHeap

\* Every step keeps CidInv.
LEMMA CidNext == CidInv /\ [Ids!Next]_cidVars => CidInv'
<1> SUFFICES ASSUME CidInv, [Ids!Next]_cidVars PROVE CidInv'
  OBVIOUS
<1>1. CASE UNCHANGED cidVars
  BY <1>1, CidStill
<1>2. ASSUME NEW t \in Tasks, Ids!alloc_cid(t) PROVE CidInv'
  <2>1. cid[t] = NoId
    BY <1>2 DEF Ids!alloc_cid
  <2>2. CASE base < MaxId /\ base' = base + 1 /\ cid' = [cid EXCEPT ![t] = base]
             /\ UNCHANGED <<recycle, failed>>
    BY <2>1, <2>2, CidNew
  <2>3. CASE recycle # <<>> /\ recycle' = Ids!heap_pop(recycle)
             /\ cid' = [cid EXCEPT ![t] = recycle[1]] /\ UNCHANGED <<base, failed>>
    BY <2>1, <2>3, CidAgain
  <2>4. CASE base >= MaxId /\ recycle = <<>> /\ cid' = [cid EXCEPT ![t] = -1] /\ failed' = TRUE
             /\ UNCHANGED <<base, recycle>>
    BY <2>1, <2>4, CidFails
  <2> QED BY <1>2, <2>2, <2>3, <2>4 DEF Ids!alloc_cid
<1>3. ASSUME NEW t \in Tasks, Ids!free_cid(t) PROVE CidInv'
  BY <1>3, CidFreed
<1> QED BY <1>1, <1>2, <1>3 DEF Ids!Next

\* What CidInv says of the properties of Cid.
LEMMA CidRight ==
    ASSUME CidInv
    PROVE  Ids!IdsDistinct /\ Ids!IdsConserved /\ Ids!SmallestFirst
<1>0. CidTypes /\ CidUnique /\ CidCount
  BY DEF CidInv
<1>1. Ids!Live = LiveTasks
  BY DEF Ids!Live, LiveTasks
<1>2. Ids!IdsDistinct
  <2>1. SUFFICES ASSUME ~failed
                 PROVE  /\ \A s, t \in LiveTasks : s # t => cid[s] # cid[t]
                        /\ \A t \in LiveTasks, i \in 1 .. Len(recycle) : cid[t] # recycle[i]
    BY <1>1 DEF Ids!IdsDistinct
  <2>2. \A i \in 1 .. Len(recycle) : recycle[i] \in ToSet(recycle)
    BY <1>0 DEF CidTypes, ToSet
  <2> QED BY <1>0, <2>1, <2>2 DEF CidUnique
<1>3. Ids!IdsConserved
  <2> DEFINE c == Len(recycle) + Cardinality(Holders)
  <2>0. {t \in Ids!Live : cid[t] # -1} = Holders
    BY <1>1 DEF Holders
  <2>1. Ids!Cardinality(Holders) = Cardinality(Holders) /\ Ids!Cardinality(Tasks) = Cardinality(Tasks)
    BY CidNumbers
  <2>2. Ids!IdsConserved <=> c = base \/ (failed /\ c \in base .. Cardinality(Tasks))
    BY <2>0, <2>1 DEF Ids!IdsConserved
  <2>3. CASE ~failed
    <3>1. \A t \in LiveTasks : cid[t] # -1
      BY <1>0, <2>3 DEF CidUnique
    <3>2. Holders = LiveTasks
      BY <3>1 DEF Holders
    <3> QED BY <1>0, <2>2, <2>3, <3>2 DEF CidCount
  <2>4. CASE failed
    <3>1. /\ base <= Len(recycle) + Cardinality(Holders)
          /\ Len(recycle) + Cardinality(LiveTasks) <= Cardinality(Tasks)
      BY <1>0, <2>4 DEF CidCount
    <3>2. c \in base .. Cardinality(Tasks)
      BY <1>0, <3>1, CidFinite
    <3> QED BY <2>2, <2>4, <3>2
  <2> QED BY <2>3, <2>4
<1>4. Ids!SmallestFirst
  <2>1. SUFFICES ASSUME NEW i \in 1 .. Len(recycle) PROVE recycle[1] <= recycle[i]
    BY DEF Ids!SmallestFirst
  <2>2. Numbers(0 .. MaxId - 1, recycle) /\ Len(recycle) \in Nat /\ IsHeap(recycle)
    BY <1>0, CidFinite DEF CidTypes, Numbers
  <2>3. i - 1 \in 0 .. Len(recycle) - 1 /\ (i - 1) + 1 = i
    BY <2>2
  <2>4. At(recycle, 0) <= At(recycle, i - 1)
    BY <2>2, <2>3, HeapFirst
  <2> QED BY <2>3, <2>4 DEF At
<1> QED BY <1>2, <1>3, <1>4

-----------------------------------------------------------------------------
\* The rest of a division, from a quotient.
LEMMA RestIs ==
    ASSUME NEW x \in Nat, NEW k \in Nat \ {0}, NEW q \in Nat, NEW r \in 0 .. k - 1, x = k * q + r
    PROVE  x % k = r
<1> DEFINE p == x \div k
           s == x % k
<1>1. p \in Nat /\ s \in 0 .. k - 1 /\ x = k * p + s
  OBVIOUS
<1> HIDE DEF p, s
<1>2. k * p + s = k * q + r
  BY <1>1
<1>3. ~(p < q)
  <2> SUFFICES ASSUME p < q PROVE FALSE
    OBVIOUS
  <2>1. PICK d \in Nat : q = p + 1 + d
    <3>1. q - p - 1 \in Nat /\ q = p + 1 + (q - p - 1)
      BY <1>1
    <3> QED BY <3>1
  <2>2. k * q = k * p + k + k * d /\ k * d \in Nat /\ k * p \in Nat
    BY <1>1, <2>1
  <2> QED BY <1>1, <1>2, <2>2
<1>4. ~(q < p)
  <2> SUFFICES ASSUME q < p PROVE FALSE
    OBVIOUS
  <2>1. PICK d \in Nat : p = q + 1 + d
    <3>1. p - q - 1 \in Nat /\ p = q + 1 + (p - q - 1)
      BY <1>1
    <3> QED BY <3>1
  <2>2. k * p = k * q + k + k * d /\ k * d \in Nat /\ k * q \in Nat
    BY <1>1, <2>1
  <2> QED BY <1>1, <1>2, <2>2
<1>5. p = q
  BY <1>1, <1>3, <1>4
<1>6. k * q \in Nat
  OBVIOUS
<1> QED BY <1>1, <1>2, <1>5, <1>6 DEF s

\* The bucket of a name before the map has grown, from the one after.
LEMMA HomeBefore ==
    ASSUME NEW n \in Names, NEW k \in Nat \ {0}
    PROVE  LET i == Map!Home(n, 2 * k)
           IN  i \in 1 .. 2 * k /\ Map!Home(n, k) = IF i <= k THEN i ELSE i - k
<1> DEFINE x == Hash(n)
           r == x % (2 * k)
           q == x \div (2 * k)
<1>1. x \in Nat
  BY DataAssumption DEF Map!HashMapAssumption
<1>2. Map!Home(n, 2 * k) = r + 1 /\ Map!Home(n, k) = (x % k) + 1
  BY DEF Map!Home
<1> HIDE DEF x
<1>3. q \in Nat /\ r \in 0 .. 2 * k - 1 /\ x = (2 * k) * q + r
  <2>1. 2 * k \in Nat \ {0}
    OBVIOUS
  <2> DEFINE m == 2 * k
  <2> HIDE DEF m
  <2>2. m \in Nat \ {0} => x \div m \in Nat /\ x % m \in 0 .. m - 1 /\ x = m * (x \div m) + (x % m)
    BY <1>1
  <2> QED BY <2>1, <2>2 DEF m
<1> HIDE DEF q, r
<1>4. (2 * k) * q = k * (2 * q) /\ k * (2 * q + 1) = k * (2 * q) + k /\ k * (2 * q) \in Nat
  BY <1>3
<1>5. CASE r < k
  <2>1. x = k * (2 * q) + r /\ 2 * q \in Nat /\ r \in 0 .. k - 1
    BY <1>3, <1>4, <1>5
  <2>2. x % k = r
    BY <1>1, <2>1, RestIs
  <2> QED BY <1>2, <1>3, <1>5, <2>2
<1>6. CASE ~(r < k)
  <2>1. x = k * (2 * q + 1) + (r - k) /\ 2 * q + 1 \in Nat /\ r - k \in 0 .. k - 1
    BY <1>3, <1>4, <1>6
  <2> DEFINE d == r - k
             e == 2 * q + 1
  <2>2. d \in 0 .. k - 1 /\ e \in Nat /\ x = k * e + d
    BY <2>1
  <2> HIDE DEF d, e
  <2>3. x % k = d
    BY <1>1, <2>2, RestIs
  <2> QED BY <1>2, <1>3, <1>6, <2>3 DEF d
<1> QED BY <1>5, <1>6

\* The bucket of a name is one of the table.
LEMMA HomeIs ==
    ASSUME NEW n \in Names, NEW cap \in Nat \ {0}
    PROVE  Map!Home(n, cap) \in 1 .. cap
<1>1. Hash(n) \in Nat
  BY DataAssumption DEF Map!HashMapAssumption
<1>2. Hash(n) % cap \in 0 .. cap - 1
  BY <1>1
<1> QED BY <1>2 DEF Map!Home

\* The entries, and what bucket b of a table of capacity cap holds when m is what was put:
\* the entries of its names, each once, with what was put last.
Entry == [name : Names, value : Values]

BucketOK(s, b, cap, m) ==
    /\ s \in Seq(Entry)
    /\ \A i \in 1 .. Len(s) : Map!Home(s[i].name, cap) = b /\ m[s[i].name] = s[i].value
    /\ \A i, j \in 1 .. Len(s) : s[i].name = s[j].name => i = j
    /\ \A n \in Names : Map!Home(n, cap) = b /\ m[n] # Missing => \E i \in 1 .. Len(s) : s[i].name = n

Puts == [Names -> Values \cup {Missing}]

\* The reads of a bucket.
LEMMA BucketIs ==
    ASSUME NEW s, NEW b, NEW cap, NEW m, BucketOK(s, b, cap, m)
    PROVE  /\ Len(s) \in Nat /\ DOMAIN s = 1 .. Len(s)
           /\ \A i \in 1 .. Len(s) : s[i] \in Entry /\ s[i].name \in Names /\ s[i].value \in Values
<1>1. s \in Seq(Entry)
  BY DEF BucketOK
<1>2. Len(s) \in Nat /\ DOMAIN s = 1 .. Len(s) /\ \A i \in 1 .. Len(s) : s[i] \in Entry
  BY <1>1
<1> QED BY <1>2 DEF Entry

\* The search for a name.
LEMMA PlaceIs ==
    ASSUME NEW s, NEW b, NEW cap, NEW m, BucketOK(s, b, cap, m), NEW n
    PROVE  /\ Map!Place(s, n) = 0 => \A i \in 1 .. Len(s) : s[i].name # n
           /\ Map!Place(s, n) # 0 => /\ Map!Place(s, n) \in 1 .. Len(s)
                                     /\ s[Map!Place(s, n)].name = n
<1> DEFINE I == {i \in 1 .. Len(s) : s[i].name = n}
           k == CHOOSE x \in I : \A y \in I : x =< y
<1>1. Map!Place(s, n) = IF I # {} THEN k ELSE 0
  BY DEF Map!Place, Map!SelectInSeq, Map!Min
<1>2. CASE I = {}
  BY <1>1, <1>2
<1>3. CASE I # {}
  <2>1. PICK j : j \in I
    BY <1>3
  <2>2. j \in 1 .. Len(s) /\ s[j].name = n /\ Len(s) \in Nat
    BY <2>1, BucketIs
  <2>3. \A y \in I : y = j
    BY <2>2 DEF BucketOK
  <2>4. j \in I /\ \A y \in I : j =< y
    BY <2>1, <2>2, <2>3
  <2>5. k \in I
    BY <2>4
  <2> HIDE DEF k
  <2>6. k \in 1 .. Len(s) /\ s[k].name = n /\ k # 0
    BY <2>2, <2>5
  <2> QED BY <1>1, <1>3, <2>6
<1> QED BY <1>2, <1>3

\* A name of another bucket is put or deleted.
LEMMA OtherBucket ==
    ASSUME NEW s, NEW b, NEW cap, NEW m \in Puts, BucketOK(s, b, cap, m), NEW n \in Names,
           Map!Home(n, cap) # b, NEW v
    PROVE  BucketOK(s, b, cap, [m EXCEPT ![n] = v])
<1> DEFINE w == [m EXCEPT ![n] = v]
<1>1. \A x \in Names : x # n => w[x] = m[x]
  BY DEF Puts
<1> HIDE DEF w
<1>2. \A i \in 1 .. Len(s) : s[i].name \in Names /\ s[i].name # n
  <2>1. \A i \in 1 .. Len(s) : s[i].name \in Names
    BY BucketIs
  <2> QED BY <2>1 DEF BucketOK
<1>3. \A x \in Names : Map!Home(x, cap) = b => x # n
  OBVIOUS
<1>4. BucketOK(s, b, cap, w)
  BY <1>1, <1>2, <1>3 DEF BucketOK
<1> QED BY <1>4 DEF w

\* An entry gets another value.
LEMMA BucketOver ==
    ASSUME NEW s, NEW b, NEW cap, NEW m \in Puts, BucketOK(s, b, cap, m), NEW n \in Names,
           NEW v \in Values, NEW at \in 1 .. Len(s), s[at].name = n
    PROVE  BucketOK([s EXCEPT ![at] = [s[at] EXCEPT !.value = v]], b, cap, [m EXCEPT ![n] = v])
<1> DEFINE w == [m EXCEPT ![n] = v]
           e == [s[at] EXCEPT !.value = v]
           r == [s EXCEPT ![at] = e]
<1>0. Len(s) \in Nat /\ s \in [1 .. Len(s) -> Entry] /\ s[at] \in Entry
  BY DEF BucketOK
<1>1. e \in Entry /\ e.name = n /\ e.value = v
  BY <1>0 DEF Entry
<1>2. w[n] = v /\ \A x \in Names : x # n => w[x] = m[x]
  BY DEF Puts
<1> HIDE DEF w, e
<1>3. /\ r \in [1 .. Len(s) -> Entry] /\ r[at] = e
      /\ \A i \in 1 .. Len(s) : i # at => r[i] = s[i]
  BY <1>0, <1>1
<1> HIDE DEF r
<1>4. r \in Seq(Entry) /\ Len(r) = Len(s)
  BY <1>0, <1>3
<1>5. \A i \in 1 .. Len(s) : r[i].name = s[i].name
  BY <1>1, <1>3
<1>6. \A i \in 1 .. Len(s) : i # at => s[i].name # n /\ s[i].name \in Names
  <2>1. \A i \in 1 .. Len(s) : s[i].name \in Names
    BY BucketIs
  <2> QED BY <2>1 DEF BucketOK
<1>7. ASSUME NEW i \in 1 .. Len(s) PROVE Map!Home(r[i].name, cap) = b /\ w[r[i].name] = r[i].value
  <2>1. CASE i = at
    BY <1>1, <1>2, <1>3, <1>5, <2>1 DEF BucketOK
  <2>2. CASE i # at
    BY <1>2, <1>3, <1>6, <2>2 DEF BucketOK
  <2> QED BY <2>1, <2>2
<1>8. \A i, j \in 1 .. Len(s) : r[i].name = r[j].name => i = j
  BY <1>5 DEF BucketOK
<1>9. ASSUME NEW x \in Names, Map!Home(x, cap) = b, w[x] # Missing
      PROVE  \E i \in 1 .. Len(s) : r[i].name = x
  <2>1. CASE x = n
    BY <1>5, <2>1
  <2>2. CASE x # n
    BY <1>2, <1>5, <1>9, <2>2 DEF BucketOK
  <2> QED BY <2>1, <2>2
<1>10. BucketOK(r, b, cap, w)
  BY <1>4, <1>7, <1>8, <1>9 DEF BucketOK
<1> QED BY <1>10 DEF r, w, e

\* An entry is added.
LEMMA BucketAppend ==
    ASSUME NEW s, NEW b, NEW cap, NEW m \in Puts, BucketOK(s, b, cap, m), NEW n \in Names,
           NEW v \in Values, Map!Home(n, cap) = b, \A i \in 1 .. Len(s) : s[i].name # n
    PROVE  BucketOK(Append(s, [name |-> n, value |-> v]), b, cap, [m EXCEPT ![n] = v])
<1> DEFINE w == [m EXCEPT ![n] = v]
           e == [name |-> n, value |-> v]
           r == Append(s, e)
           N == Len(s)
<1>0. N \in Nat /\ s \in Seq(Entry) /\ \A i \in 1 .. N : s[i].name \in Names
  <2>1. s \in Seq(Entry)
    BY DEF BucketOK
  <2> QED BY <2>1, BucketIs
<1>1. e \in Entry /\ e.name = n /\ e.value = v
  BY DEF Entry
<1>2. w[n] = v /\ \A x \in Names : x # n => w[x] = m[x]
  BY DEF Puts
<1> HIDE DEF w, e
<1>3. r \in Seq(Entry) /\ Len(r) = N + 1 /\ r[N + 1] = e /\ \A i \in 1 .. N : r[i] = s[i]
  BY <1>0, <1>1
<1> HIDE DEF r
<1>4. \A i \in 1 .. N + 1 : i = N + 1 \/ i \in 1 .. N
  BY <1>0
<1>5. N + 1 \in 1 .. N + 1 /\ \A i \in 1 .. N : i \in 1 .. N + 1
  BY <1>0
<1>6. ASSUME NEW i \in 1 .. N + 1 PROVE Map!Home(r[i].name, cap) = b /\ w[r[i].name] = r[i].value
  <2>1. CASE i = N + 1
    BY <1>1, <1>2, <1>3, <2>1
  <2>2. CASE i \in 1 .. N
    BY <1>0, <1>2, <1>3, <2>2 DEF BucketOK
  <2> QED BY <1>4, <2>1, <2>2
<1>7. ASSUME NEW i \in 1 .. N + 1, NEW j \in 1 .. N + 1, r[i].name = r[j].name PROVE i = j
  BY <1>1, <1>3, <1>4, <1>7 DEF BucketOK
<1>8. ASSUME NEW x \in Names, Map!Home(x, cap) = b, w[x] # Missing
      PROVE  \E i \in 1 .. N + 1 : r[i].name = x
  <2>1. CASE x = n
    BY <1>1, <1>3, <1>5, <2>1
  <2>2. CASE x # n
    <3>1. \E i \in 1 .. N : s[i].name = x
      BY <1>2, <1>8, <2>2 DEF BucketOK
    <3> QED BY <1>3, <1>5, <3>1
  <2> QED BY <2>1, <2>2
<1>9. BucketOK(r, b, cap, w)
  BY <1>3, <1>6, <1>7, <1>8 DEF BucketOK
<1> QED BY <1>9 DEF r, w, e

\* RemoveAt() leaves the others as they were.
LEMMA RemoveAtIs ==
    ASSUME NEW S, NEW s \in Seq(S), NEW at \in 1 .. Len(s)
    PROVE  /\ Map!RemoveAt(s, at) \in Seq(S) /\ Len(Map!RemoveAt(s, at)) = Len(s) - 1
           /\ \A i \in 1 .. Len(s) - 1 :
                Map!RemoveAt(s, at)[i] = IF i < at THEN s[i] ELSE s[i + 1]
<1> DEFINE N == Len(s)
           p == SubSeq(s, 1, at - 1)
           q == SubSeq(s, at + 1, N)
<1>1. N \in Nat /\ at \in Nat /\ at >= 1 /\ at <= N /\ s \in [1 .. N -> S]
  OBVIOUS
<1>2. Map!RemoveAt(s, at) = p \o q
  BY DEF Map!RemoveAt
<1> HIDE DEF N
<1>3. p \in Seq(S) /\ Len(p) = at - 1 /\ \A i \in 1 .. at - 1 : p[i] = s[i]
  <2>1. \A i \in 1 .. at - 1 : s[i] \in S
    BY <1>1
  <2>2. /\ p \in Seq(S)
        /\ Len(p) = IF 1 <= at - 1 THEN at - 1 - 1 + 1 ELSE 0
        /\ \A i \in 1 .. at - 1 - 1 + 1 : p[i] = s[1 + i - 1]
    BY <1>1, <2>1, SubSeqProperties
  <2>3. /\ at - 1 - 1 + 1 = at - 1 /\ (~(1 <= at - 1) => at - 1 = 0)
        /\ \A i \in 1 .. at - 1 : 1 + i - 1 = i
    BY <1>1
  <2> QED BY <2>2, <2>3
<1>4. q \in Seq(S) /\ Len(q) = N - at /\ \A i \in 1 .. N - at : q[i] = s[at + i]
  <2>1. \A i \in at + 1 .. N : s[i] \in S
    BY <1>1
  <2>2. /\ q \in Seq(S)
        /\ Len(q) = IF at + 1 <= N THEN N - (at + 1) + 1 ELSE 0
        /\ \A i \in 1 .. N - (at + 1) + 1 : q[i] = s[(at + 1) + i - 1]
    BY <1>1, <2>1, at + 1 \in Int, N \in Int, SubSeqProperties
  <2>3. /\ N - (at + 1) + 1 = N - at /\ (~(at + 1 <= N) => N - at = 0)
        /\ \A i \in 1 .. N - at : (at + 1) + i - 1 = at + i
    BY <1>1
  <2> HIDE DEF q
  <2>4. Len(q) = N - at
    BY <2>2, <2>3
  <2> QED BY <2>2, <2>3, <2>4
<1> HIDE DEF p, q
<1>5. /\ p \o q \in Seq(S)
      /\ Len(p \o q) = Len(p) + Len(q)
      /\ \A i \in 1 .. Len(p) + Len(q) :
            (p \o q)[i] = IF i <= Len(p) THEN p[i] ELSE q[i - Len(p)]
  BY <1>3, <1>4, ConcatProperties
<1>6. Len(p) + Len(q) = N - 1
  BY <1>1, <1>3, <1>4
<1>7. ASSUME NEW i \in 1 .. N - 1 PROVE (p \o q)[i] = IF i < at THEN s[i] ELSE s[i + 1]
  <2>1. (p \o q)[i] = IF i <= at - 1 THEN p[i] ELSE q[i - (at - 1)]
    BY <1>3, <1>5, <1>6
  <2>2. CASE i < at
    BY <1>1, <1>3, <2>1, <2>2
  <2>3. CASE ~(i < at)
    <3>1. i - (at - 1) \in 1 .. N - at /\ at + (i - (at - 1)) = i + 1 /\ ~(i <= at - 1)
      BY <1>1, <2>3
    <3> QED BY <1>4, <2>1, <2>3, <3>1
  <2> QED BY <2>2, <2>3
<1> QED BY <1>2, <1>5, <1>6, <1>7 DEF N

\* An entry is deleted.
LEMMA BucketDelete ==
    ASSUME NEW s, NEW b, NEW cap, NEW m \in Puts, BucketOK(s, b, cap, m), NEW n \in Names,
           NEW at \in 1 .. Len(s), s[at].name = n
    PROVE  BucketOK(Map!RemoveAt(s, at), b, cap, [m EXCEPT ![n] = Missing])
<1> DEFINE w == [m EXCEPT ![n] = Missing]
           r == Map!RemoveAt(s, at)
           N == Len(s)
<1>0. N \in Nat /\ \A i \in 1 .. N : s[i].name \in Names
  BY BucketIs
<1>a. s \in Seq(Entry)
  BY DEF BucketOK
<1>1. w[n] = Missing /\ \A x \in Names : x # n => w[x] = m[x]
  BY DEF Puts
<1> HIDE DEF w
<1>2. /\ r \in Seq(Entry) /\ Len(r) = N - 1
      /\ \A i \in 1 .. N - 1 : r[i] = IF i < at THEN s[i] ELSE s[i + 1]
  BY <1>a, RemoveAtIs
<1> HIDE DEF r
<1> DEFINE from == [i \in 1 .. N - 1 |-> IF i < at THEN i ELSE i + 1]
<1>3. \A i \in 1 .. N - 1 : from[i] \in 1 .. N /\ from[i] # at /\ r[i] = s[from[i]]
  BY <1>0, <1>2
<1>4. \A i, j \in 1 .. N - 1 : from[i] = from[j] => i = j
  BY <1>0
<1>5. ASSUME NEW k \in 1 .. N, k # at PROVE \E i \in 1 .. N - 1 : from[i] = k
  <2>1. CASE k < at
    <3>1. k \in 1 .. N - 1 /\ from[k] = k
      BY <1>0, <2>1
    <3> QED BY <3>1
  <2>2. CASE ~(k < at)
    <3>1. k - 1 \in 1 .. N - 1 /\ from[k - 1] = k
      BY <1>0, <1>5, <2>2
    <3> QED BY <3>1
  <2> QED BY <2>1, <2>2
<1> HIDE DEF from
<1>6. \A i \in 1 .. N : i # at => s[i].name # n
  BY DEF BucketOK
<1>7. ASSUME NEW i \in 1 .. N - 1 PROVE Map!Home(r[i].name, cap) = b /\ w[r[i].name] = r[i].value
  <2>1. from[i] \in 1 .. N /\ r[i] = s[from[i]] /\ r[i].name # n /\ r[i].name \in Names
    BY <1>0, <1>3, <1>6
  <2> QED BY <1>1, <2>1 DEF BucketOK
<1>8. ASSUME NEW i \in 1 .. N - 1, NEW j \in 1 .. N - 1, r[i].name = r[j].name PROVE i = j
  <2>0. \A k, o \in 1 .. N : s[k].name = s[o].name => k = o
    BY DEF BucketOK
  <2>1. from[i] = from[j]
    BY ONLY <1>3, <1>8, <2>0
  <2> QED BY <1>4, <2>1
<1>9. ASSUME NEW x \in Names, Map!Home(x, cap) = b, w[x] # Missing
      PROVE  \E i \in 1 .. N - 1 : r[i].name = x
  <2>1. x # n
    BY <1>1, <1>9
  <2>2. PICK k \in 1 .. N : s[k].name = x
    BY <1>1, <1>9, <2>1 DEF BucketOK
  <2>3. k # at
    BY <2>1, <2>2
  <2>4. PICK i \in 1 .. N - 1 : from[i] = k
    BY <1>5, <2>3
  <2>5. r[i] = s[k]
    BY <1>3, <2>4
  <2> QED BY <2>2, <2>5
<1>10. BucketOK(r, b, cap, w)
  BY <1>2, <1>7, <1>8, <1>9 DEF BucketOK
<1> QED BY <1>10 DEF r, w

\* The list l has the entries of s up to n that go to bucket i, each once.
Taken(l, s, n, i, cap) ==
    /\ l \in Seq(Entry)
    /\ \A k \in 1 .. Len(l) : \E j \in 1 .. n : l[k] = s[j] /\ Map!Home(s[j].name, cap) = i
    /\ \A j \in 1 .. n : Map!Home(s[j].name, cap) = i => \E k \in 1 .. Len(l) : l[k] = s[j]
    /\ \A k, j \in 1 .. Len(l) : l[k].name = l[j].name => k = j

\* One more entry is looked at.
TakeNext(l, e, i, cap) == IF Map!Home(e.name, cap) = i THEN Append(l, e) ELSE l

\* Looking at one more entry takes it exactly when this bucket is its home.
LEMMA TakenNext ==
    ASSUME NEW s \in Seq(Entry), \A k, j \in 1 .. Len(s) : s[k].name = s[j].name => k = j,
           NEW i, NEW cap, NEW n \in 0 .. Len(s) - 1, NEW l, Taken(l, s, n, i, cap)
    PROVE  Taken(TakeNext(l, s[n + 1], i, cap), s, n + 1, i, cap)
<1> DEFINE e == s[n + 1]
           r == TakeNext(l, e, i, cap)
           N == Len(l)
<1>1. Len(s) \in Nat /\ n \in Nat /\ n + 1 \in 1 .. Len(s) /\ e \in Entry
  OBVIOUS
<1>2. /\ \A j \in 1 .. n : j \in 1 .. n + 1 /\ j \in 1 .. Len(s) /\ j # n + 1
      /\ n + 1 \in 1 .. n + 1 /\ \A j \in 1 .. n + 1 : j = n + 1 \/ j \in 1 .. n
  BY <1>1
<1>3. CASE Map!Home(e.name, cap) # i
  <2>1. r = l
    BY <1>3 DEF TakeNext
  <2>2. Taken(l, s, n + 1, i, cap)
    BY <1>2, <1>3 DEF Taken
  <2> QED BY <2>1, <2>2
<1>4. CASE Map!Home(e.name, cap) = i
  <2>1. r = Append(l, e)
    BY <1>4 DEF TakeNext
  <2>2. l \in Seq(Entry)
    BY DEF Taken
  <2> HIDE DEF e
  <2>3. /\ Append(l, e) \in Seq(Entry) /\ Len(Append(l, e)) = N + 1 /\ N \in Nat
        /\ Append(l, e)[N + 1] = e /\ \A k \in 1 .. N : Append(l, e)[k] = l[k]
    BY <1>1, <2>2
  <2> HIDE DEF r
  <2>4. r \in Seq(Entry) /\ Len(r) = N + 1 /\ r[N + 1] = e /\ \A k \in 1 .. N : r[k] = l[k]
    BY <2>1, <2>3
  <2>5. /\ \A k \in 1 .. N + 1 : k = N + 1 \/ k \in 1 .. N
        /\ N + 1 \in 1 .. N + 1 /\ \A k \in 1 .. N : k \in 1 .. N + 1
    BY <2>3
  <2>6. \A k \in 1 .. N : l[k].name # e.name
    <3> SUFFICES ASSUME NEW k \in 1 .. N PROVE l[k].name # e.name
      OBVIOUS
    <3>1. PICK j \in 1 .. n : l[k] = s[j]
      BY DEF Taken
    <3> QED BY <1>1, <1>2, <3>1 DEF e
  <2>7. ASSUME NEW k \in 1 .. N + 1
        PROVE  \E j \in 1 .. n + 1 : r[k] = s[j] /\ Map!Home(s[j].name, cap) = i
    <3>1. CASE k = N + 1
      BY <1>2, <1>4, <2>4, <3>1 DEF e
    <3>2. CASE k \in 1 .. N
      <4>1. PICK j \in 1 .. n : l[k] = s[j] /\ Map!Home(s[j].name, cap) = i
        BY <3>2 DEF Taken
      <4> QED BY <1>2, <2>4, <3>2, <4>1
    <3> QED BY <2>5, <3>1, <3>2
  <2>8. ASSUME NEW j \in 1 .. n + 1, Map!Home(s[j].name, cap) = i
        PROVE  \E k \in 1 .. N + 1 : r[k] = s[j]
    <3>1. CASE j = n + 1
      BY <2>4, <2>5, <3>1 DEF e
    <3>2. CASE j \in 1 .. n
      <4>1. PICK k \in 1 .. N : l[k] = s[j]
        BY <2>8, <3>2 DEF Taken
      <4> QED BY <2>4, <2>5, <4>1
    <3> QED BY <1>2, <3>1, <3>2
  <2>9. ASSUME NEW k \in 1 .. N + 1, NEW j \in 1 .. N + 1, r[k].name = r[j].name PROVE k = j
    <3>1. \A x, y \in 1 .. N : l[x].name = l[y].name => x = y
      BY DEF Taken
    <3> QED BY <2>4, <2>5, <2>6, <2>9, <3>1
  <2>10. Taken(r, s, n + 1, i, cap)
    BY <2>4, <2>7, <2>8, <2>9 DEF Taken
  <2> QED BY <2>10 DEF e, r
<1> QED BY <1>3, <1>4

\* All of them.
LEMMA MovedIs ==
    ASSUME NEW s \in Seq(Entry), \A k, j \in 1 .. Len(s) : s[k].name = s[j].name => k = j,
           NEW i, NEW cap
    PROVE  Taken(Map!Moved(s, i, cap), s, Len(s), i, cap)
<1> DEFINE N == Len(s)
           X == Seq(Entry)
           step == [n \in 1 .. N |-> [l \in X |-> TakeNext(l, s[n], i, cap)]]
           IsMoved(f) == f = [n \in 0 .. N |-> IF n = 0 THEN <<>>
                                               ELSE TakeNext(f[n - 1], s[n], i, cap)]
           moved == CHOOSE f : IsMoved(f)
<1>1. N \in Nat /\ \A n \in 1 .. N : s[n] \in Entry
  OBVIOUS
<1>2. Map!Moved(s, i, cap) = moved[N]
  BY DEF Map!Moved, TakeNext
<1>3. \A n \in 1 .. N : \A l \in X : TakeNext(l, s[n], i, cap) \in X
  BY <1>1 DEF TakeNext
<1>4. <<>> \in X
  OBVIOUS
<1> HIDE DEF N, X
<1>5. PICK f \in [0 .. N -> X] : IsLoop(f, N, <<>>, step)
  <2>1. step \in [1 .. N -> [X -> X]]
    BY <1>3
  <2> HIDE DEF step
  <2> QED BY <1>1, <1>4, <2>1, LoopExists
<1>6. IsMoved(f)
  <2>1. f = [n \in 0 .. N |-> IF n = 0 THEN <<>> ELSE step[n][f[n - 1]]]
    BY <1>5 DEF IsLoop
  <2>2. \A n \in 0 .. N : n # 0 => f[n - 1] \in X /\ n \in 1 .. N
    BY <1>1, <1>5
  <2> QED BY <2>1, <2>2
<1>7. IsMoved(moved)
  BY <1>6, Zenon
<1> HIDE DEF moved
<1> DEFINE T == {n \in Nat : Taken(moved[n], s, n, i, cap)}
<1>8. 0 \in T
  <2>1. moved[0] = <<>>
    BY <1>1, <1>7
  <2>2. Taken(<<>>, s, 0, i, cap)
    BY DEF Taken
  <2> QED BY <2>1, <2>2
<1>9. ASSUME NEW n \in 0 .. N - 1, n \in T PROVE n + 1 \in T
  <2>1. moved[n + 1] = TakeNext(moved[n], s[n + 1], i, cap) /\ n + 1 \in Nat
    BY <1>1, <1>7
  <2>2. Taken(TakeNext(moved[n], s[n + 1], i, cap), s, n + 1, i, cap)
    BY <1>9, TakenNext DEF N
  <2> QED BY <2>1, <2>2
<1> HIDE DEF T
<1>10. N \in T
  <2>1. 0 .. N \subseteq T
    BY <1>1, <1>8, <1>9, UpTo
  <2> QED BY <1>1, <2>1
<1> QED BY <1>2, <1>10 DEF T, N

\* The table: every bucket is right.
TableOK(tab, m) ==
    /\ tab \in Seq(Seq(Entry)) /\ Len(tab) > 0
    /\ \A b \in 1 .. Len(tab) : BucketOK(tab[b], b, Len(tab), m)

\* The map grows.
LEMMA TableResizes ==
    ASSUME NEW tab, NEW m \in Puts, TableOK(tab, m)
    PROVE  TableOK(Map!hash_map_resize(tab), m) /\ Len(Map!hash_map_resize(tab)) = 2 * Len(tab)
<1> DEFINE old == Len(tab)
           source == [i \in 1 .. 2 * old |-> IF i <= old THEN i ELSE i - old]
           r == [i \in 1 .. 2 * old |-> Map!Moved(tab[source[i]], i, 2 * old)]
<1>1. old \in Nat /\ old > 0 /\ old \in Nat \ {0} /\ 2 * old \in Nat /\ 2 * old > 0
  BY DEF TableOK
<1>2. Map!hash_map_resize(tab) = r
  BY DEF Map!hash_map_resize
<1>3. \A i \in 1 .. 2 * old : source[i] \in 1 .. old
  BY <1>1
<1>4. \A b \in 1 .. old : BucketOK(tab[b], b, old, m)
  BY DEF TableOK
<1> HIDE DEF old, source
<1>5. ASSUME NEW i \in 1 .. 2 * old PROVE BucketOK(r[i], i, 2 * old, m)
  <2> DEFINE s == tab[source[i]]
             l == Map!Moved(s, i, 2 * old)
  <2>1. BucketOK(s, source[i], old, m)
    BY <1>3, <1>4
  <2>2. r[i] = l
    OBVIOUS
  <2> HIDE DEF s
  <2>3. s \in Seq(Entry) /\ \A k, j \in 1 .. Len(s) : s[k].name = s[j].name => k = j
    BY <2>1 DEF BucketOK
  <2>4. Taken(l, s, Len(s), i, 2 * old)
    BY <2>3, MovedIs
  <2> HIDE DEF l, r
  <2>5. l \in Seq(Entry) /\ \A k, j \in 1 .. Len(l) : l[k].name = l[j].name => k = j
    BY <2>4 DEF Taken
  <2>6. \A k \in 1 .. Len(l) : Map!Home(l[k].name, 2 * old) = i /\ m[l[k].name] = l[k].value
    <3> SUFFICES ASSUME NEW k \in 1 .. Len(l)
                 PROVE  Map!Home(l[k].name, 2 * old) = i /\ m[l[k].name] = l[k].value
      OBVIOUS
    <3>1. PICK j \in 1 .. Len(s) : l[k] = s[j] /\ Map!Home(s[j].name, 2 * old) = i
      BY <2>4 DEF Taken
    <3>2. m[s[j].name] = s[j].value
      BY <2>1 DEF BucketOK
    <3> QED BY <3>1, <3>2
  <2>7. ASSUME NEW n \in Names, Map!Home(n, 2 * old) = i, m[n] # Missing
        PROVE  \E k \in 1 .. Len(l) : l[k].name = n
    <3>1. Map!Home(n, old) = source[i]
      BY <1>1, <2>7, HomeBefore DEF source
    <3>2. PICK j \in 1 .. Len(s) : s[j].name = n
      BY <2>1, <2>7, <3>1 DEF BucketOK
    <3>3. PICK k \in 1 .. Len(l) : l[k] = s[j]
      BY <2>4, <2>7, <3>2 DEF Taken
    <3> QED BY <3>2, <3>3
  <2>8. BucketOK(l, i, 2 * old, m)
    BY <2>5, <2>6, <2>7 DEF BucketOK
  <2> QED BY <2>2, <2>8
<1>6. \A i \in 1 .. 2 * old : r[i] \in Seq(Entry)
  BY <1>5 DEF BucketOK
<1>7. r \in [1 .. 2 * old -> Seq(Entry)]
  <2>1. r = [i \in 1 .. 2 * old |-> r[i]]
    OBVIOUS
  <2> HIDE DEF r
  <2> QED BY <1>6, <2>1
<1> HIDE DEF r
<1>8. r \in Seq(Seq(Entry)) /\ Len(r) = 2 * old
  BY <1>1, <1>7
<1>9. TableOK(r, m)
  BY <1>1, <1>5, <1>8 DEF TableOK
<1> QED BY <1>2, <1>8, <1>9 DEF old

\* The names that were put and not deleted, and what the map has of them.
Present == {n \in Names : meant[n] # Missing}

MapTypes == meant \in Puts /\ IsFiniteSet(Present) /\ count = Cardinality(Present)

MapInv == MapTypes /\ TableOK(table, meant)

\* What DataAssumption says of the constants of HashMap.
LEMMA MapNumbers ==
    Capacity \in Nat /\ Capacity > 0 /\ Missing \notin Values
BY DataAssumption DEF Map!HashMapAssumption

\* A table of empty buckets is right when nothing was put.
LEMMA EmptyTable ==
    ASSUME NEW cap \in Nat \ {0}
    PROVE  TableOK([i \in 1 .. cap |-> <<>>], [n \in Names |-> Missing])
<1> DEFINE tab == [i \in 1 .. cap |-> <<>>]
           m == [n \in Names |-> Missing]
<1>1. tab \in [1 .. cap -> Seq(Entry)] /\ \A b \in 1 .. cap : tab[b] = <<>>
  OBVIOUS
<1>2. \A n \in Names : m[n] = Missing
  OBVIOUS
<1> HIDE DEF tab, m
<1>3. tab \in Seq(Seq(Entry)) /\ Len(tab) = cap
  BY <1>1
<1>4. \A b : BucketOK(<<>>, b, cap, m)
  BY <1>2 DEF BucketOK
<1>5. TableOK(tab, m)
  BY <1>1, <1>3, <1>4 DEF TableOK
<1> QED BY <1>5 DEF tab, m

\* Nothing was put: no name is present.
LEMMA NothingPut ==
    ASSUME meant = [n \in Names |-> Missing], count = 0
    PROVE  MapTypes
<1>1. meant \in Puts
  BY DEF Puts
<1>2. Present = {}
  BY DEF Present
<1>3. IsFiniteSet(Present) /\ Cardinality(Present) = 0
  BY <1>2, FS_EmptySet
<1> QED BY <1>1, <1>3 DEF MapTypes

\* A new table is empty.
LEMMA MapInit == Map!Init => MapInv
<1> SUFFICES ASSUME Map!Init PROVE MapInv
  OBVIOUS
<1>1. /\ table = [i \in 1 .. Capacity |-> <<>>] /\ count = 0
      /\ meant = [n \in Names |-> Missing]
  BY DEF Map!Init
<1>2. MapTypes
  BY <1>1, NothingPut
<1>3. Capacity \in Nat \ {0}
  BY MapNumbers
<1> QED BY <1>1, <1>2, <1>3, EmptyTable DEF MapInv

\* One bucket of a table changes, and with it what was put under a name of that bucket.
LEMMA TableChanges ==
    ASSUME NEW tab, NEW m \in Puts, TableOK(tab, m), NEW n \in Names, NEW v, NEW s,
           BucketOK(s, Map!Home(n, Len(tab)), Len(tab), [m EXCEPT ![n] = v])
    PROVE  TableOK([tab EXCEPT ![Map!Home(n, Len(tab))] = s], [m EXCEPT ![n] = v])
<1> DEFINE b == Map!Home(n, Len(tab))
           w == [m EXCEPT ![n] = v]
           r == [tab EXCEPT ![b] = s]
           N == Len(tab)
<1>1. N \in Nat /\ N > 0 /\ N \in Nat \ {0} /\ tab \in [1 .. N -> Seq(Entry)]
  BY DEF TableOK
<1>2. b \in 1 .. N
  BY <1>1, HomeIs
<1>3. s \in Seq(Entry)
  BY DEF BucketOK
<1>4. \A c \in 1 .. N : c # b => BucketOK(tab[c], c, N, w)
  <2> SUFFICES ASSUME NEW c \in 1 .. N, c # b PROVE BucketOK(tab[c], c, N, w)
    OBVIOUS
  <2>1. BucketOK(tab[c], c, N, m)
    BY DEF TableOK
  <2>2. Map!Home(n, N) # c
    OBVIOUS
  <2> HIDE DEF N
  <2> QED BY <2>1, <2>2, OtherBucket
<1>5. BucketOK(s, b, N, w)
  OBVIOUS
<1> HIDE DEF b, w, N
<1>6. /\ r \in [1 .. N -> Seq(Entry)] /\ r[b] = s
      /\ \A c \in 1 .. N : c # b => r[c] = tab[c]
  BY <1>1, <1>2, <1>3
<1> HIDE DEF r
<1>7. r \in Seq(Seq(Entry)) /\ Len(r) = N
  BY <1>1, <1>6
<1>8. \A c \in 1 .. N : BucketOK(r[c], c, N, w)
  BY <1>4, <1>5, <1>6
<1>9. TableOK(r, w)
  BY <1>1, <1>7, <1>8 DEF TableOK
<1> QED BY <1>9 DEF r, b, w, N

\* The bucket in which a name is looked for.
LEMMA BucketOf ==
    ASSUME NEW tab, NEW m, TableOK(tab, m), NEW n \in Names
    PROVE  /\ Len(tab) \in Nat \ {0} /\ Map!Home(n, Len(tab)) \in 1 .. Len(tab)
           /\ BucketOK(tab[Map!Home(n, Len(tab))], Map!Home(n, Len(tab)), Len(tab), m)
<1>1. Len(tab) \in Nat \ {0}
  BY DEF TableOK
<1>2. Map!Home(n, Len(tab)) \in 1 .. Len(tab)
  BY <1>1, HomeIs
<1> QED BY <1>1, <1>2 DEF TableOK

\* A name is there when and only when something was put.
LEMMA FoundIs ==
    ASSUME NEW tab, NEW m \in Puts, TableOK(tab, m), NEW n \in Names
    PROVE  LET s == tab[Map!Home(n, Len(tab))]
           IN  /\ Map!Place(s, n) = 0 => m[n] = Missing /\ \A i \in 1 .. Len(s) : s[i].name # n
               /\ Map!Place(s, n) # 0 => /\ Map!Place(s, n) \in 1 .. Len(s)
                                         /\ s[Map!Place(s, n)].name = n
                                         /\ m[n] = s[Map!Place(s, n)].value /\ m[n] # Missing
<1> DEFINE b == Map!Home(n, Len(tab))
           s == tab[b]
           at == Map!Place(s, n)
<1>1. BucketOK(s, b, Len(tab), m)
  BY BucketOf
<1> HIDE DEF s
<1>2. /\ at = 0 => \A i \in 1 .. Len(s) : s[i].name # n
      /\ at # 0 => at \in 1 .. Len(s) /\ s[at].name = n
  BY <1>1, PlaceIs
<1> HIDE DEF at
<1>3. at = 0 => m[n] = Missing
  BY <1>1, <1>2 DEF BucketOK
<1>4. at # 0 => m[n] = s[at].value
  BY <1>1, <1>2 DEF BucketOK
<1>5. \A i \in 1 .. Len(s) : s[i].value \in Values
  BY <1>1, BucketIs
<1>6. at # 0 => m[n] # Missing
  BY <1>2, <1>4, <1>5, MapNumbers
<1> QED BY <1>2, <1>3, <1>4, <1>6 DEF s, at

\* What the count is after a name was put or deleted.
LEMMA PresentIs ==
    ASSUME MapTypes, NEW n \in Names, NEW v \in Values \cup {Missing},
           meant' = [meant EXCEPT ![n] = v]
    PROVE  /\ meant' \in Puts /\ IsFiniteSet(Present')
           /\ v # Missing /\ meant[n] # Missing => Cardinality(Present') = count
           /\ v # Missing /\ meant[n] = Missing => Cardinality(Present') = count + 1
           /\ v = Missing /\ meant[n] # Missing => Cardinality(Present') = count - 1
<1>1. /\ meant' \in Puts /\ meant'[n] = v /\ \A x \in Names : x # n => meant'[x] = meant[x]
      /\ IsFiniteSet(Present) /\ count = Cardinality(Present)
  BY DEF MapTypes, Puts
<1>2. \A x \in Names : x # n => (x \in Present' <=> x \in Present)
  BY <1>1 DEF Present
<1>3. /\ n \in Present' <=> v # Missing
      /\ n \in Present <=> meant[n] # Missing
      /\ Present \subseteq Names /\ Present' \subseteq Names
  BY <1>1 DEF Present
<1>4. CASE v # Missing
  <2>1. Present' = Present \cup {n}
    BY <1>2, <1>3, <1>4
  <2>2. IsFiniteSet(Present \cup {n})
    BY <1>1, FS_AddElement
  <2>3. Cardinality(Present \cup {n}) = IF n \in Present THEN Cardinality(Present)
                                        ELSE Cardinality(Present) + 1
    BY <1>1, FS_AddElement
  <2> QED BY <1>1, <1>3, <1>4, <2>1, <2>2, <2>3
<1>5. CASE v = Missing
  <2>1. Present' = Present \ {n}
    BY <1>2, <1>3, <1>5
  <2>2. IsFiniteSet(Present \ {n})
    BY <1>1, FS_RemoveElement
  <2>3. n \in Present => Cardinality(Present \ {n}) = Cardinality(Present) - 1
    BY <1>1, FS_RemoveElement
  <2> QED BY <1>1, <1>3, <1>5, <2>1, <2>2, <2>3
<1> QED BY <1>4, <1>5

\* A name is put that is there.
LEMMA MapPutOver ==
    ASSUME MapInv, NEW n \in Names, NEW v \in Values, Map!PutOver(n, v)
    PROVE  MapInv'
<1> DEFINE b == Map!Home(n, Len(table))
           s == table[b]
           at == Map!Place(s, n)
           r == [s EXCEPT ![at] = [s[at] EXCEPT !.value = v]]
<1>0. MapTypes /\ TableOK(table, meant) /\ meant \in Puts
  BY DEF MapInv, MapTypes
<1>1. /\ at # 0 /\ table' = [table EXCEPT ![b] = r]
      /\ meant' = [meant EXCEPT ![n] = v] /\ count' = count
  BY DEF Map!PutOver, Map!Mean, Map!Bucket, Map!capcity
<1>2. at \in 1 .. Len(s) /\ s[at].name = n /\ meant[n] # Missing
  BY <1>0, <1>1, FoundIs
<1>3. BucketOK(s, b, Len(table), meant)
  BY <1>0, BucketOf
<1> HIDE DEF s, at
<1>4. BucketOK(r, b, Len(table), [meant EXCEPT ![n] = v])
  BY <1>0, <1>2, <1>3, BucketOver
<1> HIDE DEF r
<1>5. TableOK([table EXCEPT ![b] = r], [meant EXCEPT ![n] = v])
  BY <1>0, <1>4, TableChanges
<1>6. MapTypes'
  <2>1. v # Missing
    BY MapNumbers
  <2>2. meant' \in Puts /\ IsFiniteSet(Present') /\ Cardinality(Present') = count
    BY <1>0, <1>1, <1>2, <2>1, PresentIs
  <2> QED BY <1>1, <2>2 DEF MapTypes
<1>7. TableOK(table', meant')
  BY <1>1, <1>5
<1> QED BY <1>6, <1>7 DEF MapInv, TableOK, BucketOK

\* A name is put that is not there, in a table that may have grown for it.
LEMMA MapPutNew ==
    ASSUME MapInv, NEW n \in Names, NEW v \in Values, Map!PutNew(n, v)
    PROVE  MapInv'
<1> DEFINE tab == IF 4 * count >= 3 * Len(table) THEN Map!hash_map_resize(table) ELSE table
           b == Map!Home(n, Len(tab))
           e == [name |-> n, value |-> v]
<1>0. MapTypes /\ TableOK(table, meant) /\ meant \in Puts
  BY DEF MapInv, MapTypes
<1>1. /\ Map!Place(table[Map!Home(n, Len(table))], n) = 0
      /\ table' = [tab EXCEPT ![b] = Append(tab[b], e)]
      /\ meant' = [meant EXCEPT ![n] = v] /\ count' = count + 1
  BY DEF Map!PutNew, Map!Mean, Map!Bucket, Map!capcity
<1>2. meant[n] = Missing
  BY <1>0, <1>1, FoundIs
<1>3. TableOK(tab, meant)
  <2>1. TableOK(Map!hash_map_resize(table), meant)
    BY <1>0, TableResizes
  <2> QED BY <1>0, <2>1
<1> HIDE DEF tab
<1>4. Map!Place(tab[b], n) = 0
  BY <1>0, <1>2, <1>3, FoundIs
<1>5. \A i \in 1 .. Len(tab[b]) : tab[b][i].name # n
  BY <1>0, <1>3, <1>4, FoundIs
<1>6. BucketOK(tab[b], b, Len(tab), meant)
  BY <1>3, BucketOf
<1>7. BucketOK(Append(tab[b], e), b, Len(tab), [meant EXCEPT ![n] = v])
  BY <1>0, <1>5, <1>6, BucketAppend
<1>8. TableOK([tab EXCEPT ![b] = Append(tab[b], e)], [meant EXCEPT ![n] = v])
  BY <1>0, <1>3, <1>7, TableChanges
<1>9. MapTypes'
  <2>1. v # Missing
    BY MapNumbers
  <2>2. meant' \in Puts /\ IsFiniteSet(Present') /\ Cardinality(Present') = count + 1
    BY <1>0, <1>1, <1>2, <2>1, PresentIs
  <2> QED BY <1>1, <2>2 DEF MapTypes
<1>10. TableOK(table', meant')
  BY <1>1, <1>8
<1> QED BY <1>9, <1>10 DEF MapInv, TableOK, BucketOK

\* A name is deleted.
LEMMA MapDelete ==
    ASSUME MapInv, NEW n \in Names, Map!hash_map_del(n)
    PROVE  MapInv'
<1> DEFINE b == Map!Home(n, Len(table))
           s == table[b]
           at == Map!Place(s, n)
<1>0. MapTypes /\ TableOK(table, meant) /\ meant \in Puts
  BY DEF MapInv, MapTypes
<1>1. /\ at # 0 /\ table' = [table EXCEPT ![b] = Map!RemoveAt(s, at)]
      /\ meant' = [meant EXCEPT ![n] = Missing] /\ count' = count - 1
  BY DEF Map!hash_map_del, Map!Mean, Map!Bucket, Map!capcity
<1>2. at \in 1 .. Len(s) /\ s[at].name = n /\ meant[n] # Missing
  BY <1>0, <1>1, FoundIs
<1>3. BucketOK(s, b, Len(table), meant)
  BY <1>0, BucketOf
<1> HIDE DEF s, at
<1>4. BucketOK(Map!RemoveAt(s, at), b, Len(table), [meant EXCEPT ![n] = Missing])
  BY <1>0, <1>2, <1>3, BucketDelete
<1>5. TableOK([table EXCEPT ![b] = Map!RemoveAt(s, at)], [meant EXCEPT ![n] = Missing])
  BY <1>0, <1>4, TableChanges
<1>6. MapTypes'
  <2>1. meant' \in Puts /\ IsFiniteSet(Present') /\ Cardinality(Present') = count - 1
    BY <1>0, <1>1, <1>2, PresentIs
  <2> QED BY <1>1, <2>1 DEF MapTypes
<1>7. TableOK(table', meant')
  BY <1>1, <1>5
<1> QED BY <1>6, <1>7 DEF MapInv, TableOK, BucketOK

\* The map is emptied.
LEMMA MapClear ==
    ASSUME MapInv, Map!hash_map_clear
    PROVE  MapInv'
<1>1. /\ table' = [i \in 1 .. Len(table) |-> <<>>] /\ count' = 0
      /\ meant' = [n \in Names |-> Missing]
  BY DEF Map!hash_map_clear, Map!capcity
<1>2. Len(table) \in Nat \ {0}
  BY DEF MapInv, TableOK
<1>3. TableOK(table', meant')
  BY <1>1, <1>2, EmptyTable
<1>4. MapTypes'
  <2>1. meant' \in Puts
    BY <1>1 DEF Puts
  <2>2. Present' = {}
    BY <1>1 DEF Present
  <2>3. IsFiniteSet(Present') /\ Cardinality(Present') = 0
    BY <2>2, FS_EmptySet
  <2> QED BY <1>1, <2>1, <2>3 DEF MapTypes
<1> QED BY <1>3, <1>4 DEF MapInv, TableOK, BucketOK

\* Every step keeps MapInv.
LEMMA MapNext == MapInv /\ [Map!Next]_mapVars => MapInv'
<1> SUFFICES ASSUME MapInv, [Map!Next]_mapVars PROVE MapInv'
  OBVIOUS
<1>1. CASE UNCHANGED mapVars
  <2>1. table' = table /\ count' = count /\ meant' = meant
    BY <1>1 DEF mapVars
  <2>2. Present' = Present
    BY <2>1 DEF Present
  <2> QED BY <2>1, <2>2 DEF MapInv, MapTypes, TableOK, BucketOK
<1>2. CASE Map!Next
  BY <1>2, MapPutOver, MapPutNew, MapDelete, MapClear DEF Map!Next, Map!hash_map_put
<1> QED BY <1>1, <1>2

\* What MapInv says of the properties of HashMap.
LEMMA MapRight ==
    ASSUME MapInv
    PROVE  Map!GetsWhatWasPut /\ Map!CountRight
<1>0. MapTypes /\ TableOK(table, meant) /\ meant \in Puts
  BY DEF MapInv, MapTypes
<1>1. ASSUME NEW n \in Names PROVE Map!hash_map_get(n) = meant[n]
  <2> DEFINE s == table[Map!Home(n, Len(table))]
             at == Map!Place(s, n)
  <2>1. Map!hash_map_get(n) = IF at = 0 THEN Missing ELSE s[at].value
    BY DEF Map!hash_map_get, Map!Bucket, Map!capcity
  <2>2. /\ at = 0 => meant[n] = Missing
        /\ at # 0 => meant[n] = s[at].value
    BY <1>0, FoundIs
  <2> HIDE DEF s, at
  <2> QED BY <2>1, <2>2
<1>2. Map!CountRight
  <2>1. Map!Cardinality(Present) = Cardinality(Present)
    BY DEF Map!Cardinality, Cardinality
  <2> QED BY <1>0, <2>1 DEF MapTypes, Present, Map!CountRight
<1> QED BY <1>1, <1>2 DEF Map!GetsWhatWasPut

-----------------------------------------------------------------------------
\* Ids of threads.  The bits of a number: bit 0 is its parity, and bit k + 1 is bit k of the
\* half, so that two numbers with the same bits are the same.
Halves(n, f) == f = [k \in 0 .. n |-> IF k = 0 THEN n ELSE f[k - 1] \div 2]

\* The halves of a number are there, and Bits reads them.
LEMMA HalvesExist ==
    ASSUME NEW n \in Nat
    PROVE  \E f \in [0 .. n -> Nat] :
               /\ Halves(n, f)
               /\ Uid!Bits(n) = {k \in 0 .. n : (f[k] % 2) = 1}
<1> DEFINE step == [k \in 1 .. n |-> [x \in Nat |-> x \div 2]]
           half == CHOOSE f : Halves(n, f)
<1>1. PICK f \in [0 .. n -> Nat] : IsLoop(f, n, n, step)
  <2>1. \A x \in Nat : x \div 2 \in Nat
    OBVIOUS
  <2>2. step \in [1 .. n -> [Nat -> Nat]]
    BY <2>1
  <2> HIDE DEF step
  <2> QED BY <2>2, LoopExists
<1>2. Halves(n, f)
  <2>1. f = [k \in 0 .. n |-> IF k = 0 THEN n ELSE step[k][f[k - 1]]]
    BY <1>1 DEF IsLoop
  <2>2. \A k \in 0 .. n : k # 0 => f[k - 1] \in Nat /\ k \in 1 .. n
    BY <1>1
  <2> QED BY <2>1, <2>2 DEF Halves
<1>3. Halves(n, half)
  BY <1>2, Zenon
<1>4. Uid!Bits(n) = {k \in 0 .. n : (half[k] % 2) = 1}
  BY DEF Uid!Bits, Halves
<1> HIDE DEF half
<1> DEFINE T == {k \in Nat : half[k] \in Nat}
<1>5. half \in [0 .. n -> Nat]
  <2>1. 0 \in T
    BY <1>3 DEF Halves
  <2>2. ASSUME NEW k \in 0 .. n - 1, k \in T PROVE k + 1 \in T
    <3>1. half[k + 1] = half[k] \div 2
      BY <1>3 DEF Halves
    <3>2. half[k] \in Nat
      BY <2>2
    <3> QED BY <3>1, <3>2
  <2> HIDE DEF T
  <2>3. 0 .. n \subseteq T
    BY <2>1, <2>2, UpTo
  <2>4. \A k \in 0 .. n : half[k] \in Nat
    BY <2>3 DEF T
  <2>5. half = [k \in 0 .. n |-> half[k]]
    BY <1>3 DEF Halves
  <2> QED BY <2>4, <2>5
<1> QED BY <1>3, <1>4, <1>5

\* Bit 0 is the parity; the others are those of the half, one place up.
LEMMA BitsOfHalf ==
    ASSUME NEW n \in Nat
    PROVE  /\ Uid!Bits(n) \subseteq Nat
           /\ 0 \in Uid!Bits(n) <=> (n % 2) = 1
           /\ \A k \in Nat : k + 1 \in Uid!Bits(n) <=> k \in Uid!Bits(n \div 2)
<1> DEFINE m == n \div 2
<1>0. m \in Nat /\ (n > 0 => m < n) /\ (n = 0 => m = 0)
  OBVIOUS
<1>1. PICK f \in [0 .. n -> Nat] : Halves(n, f) /\ Uid!Bits(n) = {k \in 0 .. n : (f[k] % 2) = 1}
  BY HalvesExist
<1>2. PICK g \in [0 .. m -> Nat] : Halves(m, g) /\ Uid!Bits(m) = {k \in 0 .. m : (g[k] % 2) = 1}
  BY <1>0, HalvesExist
<1> HIDE DEF m
<1>3. f[0] = n /\ \A k \in 0 .. n - 1 : f[k + 1] = f[k] \div 2
  BY <1>1 DEF Halves
<1>4. g[0] = m /\ \A k \in 0 .. m - 1 : g[k + 1] = g[k] \div 2
  BY <1>0, <1>2 DEF Halves
<1>5. Uid!Bits(n) \subseteq Nat /\ (0 \in Uid!Bits(n) <=> (n % 2) = 1)
  <2>1. f[0] = n
    BY <1>3
  <2> QED BY <1>1, <2>1
\* The halves of m are those of n, one place on.
<1> DEFINE T == {k \in Nat : k + 1 \in 0 .. n /\ k \in 0 .. m => f[k + 1] = g[k]}
<1>6. \A k \in 0 .. m : k + 1 \in 0 .. n => f[k + 1] = g[k]
  <2>1. 0 \in T
    <3>1. 1 \in 0 .. n => f[1] = f[0] \div 2 /\ f[0] = n
      BY <1>3
    <3>2. g[0] = m
      BY <1>0, <1>4
    <3> QED BY <3>1, <3>2 DEF m
  <2>2. ASSUME NEW k \in 0 .. m - 1, k \in T PROVE k + 1 \in T
    <3>0. k + 1 \in Nat /\ (k + 1) + 1 = k + 2
      BY <1>0
    <3> SUFFICES ASSUME k + 2 \in 0 .. n PROVE f[k + 2] = g[k + 1]
      BY <3>0
    <3>1. f[k + 2] = f[k + 1] \div 2 /\ g[k + 1] = g[k] \div 2
      <4>1. k + 1 \in 0 .. n - 1
        BY <1>0
      <4> HIDE DEF T
      <4> QED BY <1>3, <1>4, <3>0, <4>1
    <3>2. k \in 0 .. m /\ k + 1 \in 0 .. n
      BY <1>0
    <3>3. f[k + 1] = g[k]
      BY <2>2, <3>2
    <3> QED BY <3>1, <3>3
  <2> HIDE DEF T
  <2>3. 0 .. m \subseteq T
    BY <1>0, <2>1, <2>2, UpTo
  <2> QED BY <2>3 DEF T
\* What is left after k halvings is smaller by k at least, so that the ones are all there.
<1> DEFINE U == {k \in Nat : k \in 0 .. m => g[k] <= m - k}
<1>7. \A k \in 0 .. m : g[k] <= m - k
  <2>1. 0 \in U
    BY <1>0, <1>4
  <2>2. ASSUME NEW k \in 0 .. m - 1, k \in U PROVE k + 1 \in U
    <3>0. k \in 0 .. m
      BY <1>0
    <3>1. g[k + 1] = g[k] \div 2 /\ g[k] \in Nat /\ g[k] <= m - k
      <4>1. g[k] <= m - k
        BY <2>2, <3>0
      <4> HIDE DEF U
      <4> QED BY <1>2, <1>4, <3>0, <4>1
    <3>2. \A x \in Nat : x \div 2 <= (IF x = 0 THEN 0 ELSE x - 1)
      OBVIOUS
    <3>3. g[k] \div 2 <= IF g[k] = 0 THEN 0 ELSE g[k] - 1
      BY <3>1, <3>2
    <3>4. g[k + 1] <= m - (k + 1)
      <4>1. g[k] \div 2 \in Int /\ k + 1 <= m
        BY <1>0, <3>1
      <4> HIDE DEF U
      <4>2. \A x, y, z, i \in Int : z <= (IF x = 0 THEN 0 ELSE x - 1) /\ x <= y - i /\ i + 1 <= y
                                    => z <= y - (i + 1)
        OBVIOUS
      <4>3. k \in Int /\ m \in Int /\ g[k] \in Int
        BY <1>0, <3>1
      <4>4. g[k] \div 2 <= m - (k + 1)
        BY ONLY <3>1, <3>3, <4>1, <4>2, <4>3
      <4> QED BY <3>1, <4>4
    <3> QED BY <3>4
  <2> HIDE DEF U
  <2>3. 0 .. m \subseteq U
    BY <1>0, <2>1, <2>2, UpTo
  <2> QED BY <2>3 DEF U
<1>8. ASSUME NEW k \in Nat PROVE k + 1 \in Uid!Bits(n) <=> k \in Uid!Bits(m)
  <2>1. CASE k \in 0 .. m /\ k + 1 \in 0 .. n
    BY <1>1, <1>2, <1>6, <2>1
  <2>2. CASE k \in 0 .. m /\ k + 1 \notin 0 .. n
    <3>1. n = 0 /\ m = 0 /\ k = 0
      BY <1>0, <2>2
    <3>2. g[0] = 0
      BY <1>0, <1>4, <3>1
    <3> QED BY <1>1, <1>2, <3>1, <3>2
  <2>3. CASE k \notin 0 .. m /\ k + 1 \in 0 .. n
    <3> DEFINE V == {i \in Nat : m + i + 1 \in 0 .. n => f[m + i + 1] = 0}
    <3>1. 0 \in V
      <4>1. g[m] = 0
        BY <1>0, <1>2, <1>7
      <4> QED BY <1>0, <1>6, <4>1
    <3>2. ASSUME NEW i \in 0 .. n - 1, i \in V PROVE i + 1 \in V
      <4> SUFFICES ASSUME m + i + 2 \in 0 .. n PROVE f[m + i + 2] = 0
        BY <1>0
      <4>0. m + i + 1 \in 0 .. n - 1 /\ (m + i + 1) + 1 = m + i + 2
        BY <1>0
      <4>1. f[m + i + 2] = f[m + i + 1] \div 2 /\ f[m + i + 1] = 0
        BY <1>0, <1>3, <3>2, <4>0
      <4> QED BY <4>1
    <3> HIDE DEF V
    <3>3. 0 .. n \subseteq V
      BY <3>1, <3>2, UpTo
    <3>4. k - m \in V
      BY <1>0, <2>3, <3>3
    <3>5. f[k + 1] = 0
      BY <1>0, <2>3, <3>4 DEF V
    <3> QED BY <1>1, <1>2, <2>3, <3>5
  <2>4. CASE k \notin 0 .. m /\ k + 1 \notin 0 .. n
    BY <1>1, <1>2, <2>4
  <2> QED BY <2>1, <2>2, <2>3, <2>4
<1> QED BY <1>5, <1>8 DEF m

\* Two numbers with the same bits are the same: the smallest pair that is not would have
\* halves that are not.
LEMMA BitsTell ==
    ASSUME NEW a \in Nat, NEW b \in Nat, Uid!Bits(a) = Uid!Bits(b)
    PROVE  a = b
<1> DEFINE P(s) == \E x, y \in Nat : x + y = s /\ x # y /\ Uid!Bits(x) = Uid!Bits(y)
           T == {s \in Nat : P(s)}
<1> SUFFICES ASSUME a # b PROVE FALSE
  OBVIOUS
<1>1. a + b \in T
  OBVIOUS
<1>2. PICK s \in T : \A k \in T : s <= k
  <2>1. T \in SUBSET Nat /\ T # {}
    BY <1>1
  <2> HIDE DEF T
  <2> QED BY <2>1, LeastNumber
<1>3. PICK x \in Nat, y \in Nat : x + y = s /\ x # y /\ Uid!Bits(x) = Uid!Bits(y)
  OBVIOUS
<1> DEFINE u == x \div 2
           v == y \div 2
<1>4. u \in Nat /\ v \in Nat /\ u + v < x + y
  BY <1>3
<1>5. (x % 2) = (y % 2)
  <2>1. (x % 2) = 1 <=> (y % 2) = 1
    BY <1>3, BitsOfHalf
  <2>2. (x % 2) \in 0 .. 1 /\ (y % 2) \in 0 .. 1
    OBVIOUS
  <2> QED BY <2>1, <2>2
<1>6. Uid!Bits(u) = Uid!Bits(v)
  <2>1. Uid!Bits(u) \subseteq Nat /\ Uid!Bits(v) \subseteq Nat
    BY <1>4, BitsOfHalf
  <2>2. \A k \in Nat : k \in Uid!Bits(u) <=> k \in Uid!Bits(v)
    BY <1>3, BitsOfHalf
  <2> QED BY <2>1, <2>2
<1>7. u = v
  <2>1. u + v \in Nat /\ u + v < s
    BY <1>3, <1>4
  <2>2. u + v \notin T
    <3>1. s \in Int
      OBVIOUS
    <3> HIDE DEF T, u, v
    <3> QED BY <1>2, <2>1, <3>1
  <2> QED BY <1>4, <1>6, <2>1, <2>2
<1>8. x = 2 * u + (x % 2) /\ y = 2 * v + (y % 2)
  OBVIOUS
<1> QED BY <1>3, <1>5, <1>7, <1>8

\* The time and the sequence number can be read back from an id whose fields do not cover
\* each other's bits.
LEMMA IdTells ==
    ASSUME tids \subseteq Nat, NEW c \in Nat, NEW d \in Nat, NEW t \in tids, NEW u \in tids,
           NEW r \in Nat, NEW s \in Nat, ~ Uid!Spills(t, r), ~ Uid!Spills(u, s),
           Uid!Id(c, t, r) = Uid!Id(d, u, s)
    PROVE  c = d /\ r = s
<1> DEFINE C == Uid!Shift(Uid!Bits(c), TimeShift)
           D == Uid!Shift(Uid!Bits(d), TimeShift)
           T == Uid!Shift(Uid!Bits(t), TidShift)
           U == Uid!Shift(Uid!Bits(u), TidShift)
           R == Uid!Bits(r)
           S == Uid!Bits(s)
<1>0. TimeShift \in Nat /\ TidShift \in Nat /\ t \in Nat /\ u \in Nat
  BY DataAssumption DEF Uid!UUIDAssumption
<1>1. /\ Uid!Bits(c) \subseteq Nat /\ Uid!Bits(d) \subseteq Nat
      /\ Uid!Bits(t) \subseteq Nat /\ Uid!Bits(u) \subseteq Nat
      /\ R \subseteq Nat /\ S \subseteq Nat
  BY <1>0, BitsOfHalf
<1>2. /\ \A k \in Nat : k \in Uid!Bits(c) <=> k + TimeShift \in C
      /\ \A k \in Nat : k \in Uid!Bits(d) <=> k + TimeShift \in D
      /\ \A k \in C \cup D : k \in Nat /\ k >= TimeShift
      /\ \A k \in T \cup U : k \in Nat /\ k >= TidShift
  BY <1>0, <1>1 DEF Uid!Shift
<1>3. /\ \A k \in T \cup R : k < TimeShift
      /\ \A k \in U \cup S : k < TimeShift
      /\ (\E k \in R : k >= TidShift) => tids = {t} /\ R \cap T = {}
      /\ (\E k \in S : k >= TidShift) => tids = {u} /\ S \cap U = {}
  <2>1. \A k \in T \cup R \cup U \cup S : k \in Nat
    BY <1>1, <1>2
  <2> QED BY <1>0, <2>1 DEF Uid!Spills
<1>4. C \cup T \cup R = D \cup U \cup S
  BY DEF Uid!Id
<1>5. tids = {t} => T = U
  BY Zenon
<1> HIDE DEF C, D, T, U, R, S
<1>6. Uid!Bits(c) = Uid!Bits(d)
  <2>1. \A k \in Nat : k + TimeShift \in C <=> k + TimeShift \in D
    <3>1. \A k \in Nat : k + TimeShift >= TimeShift /\ k + TimeShift \in Nat
      BY <1>0
    <3>2. \A k \in Nat : k >= TimeShift => k \notin T \cup R \cup U \cup S
      BY <1>0, <1>3
    <3> QED BY <1>4, <3>1, <3>2
  <2> QED BY <1>1, <1>2, <2>1
<1>7. R = S
  <2>1. C \cap R = {} /\ C \cap S = {} /\ D \cap R = {} /\ D \cap S = {}
    BY <1>0, <1>1, <1>2, <1>3
  <2>2. CASE tids = {t}
    <3>1. R \cap T = {}
      BY <1>0, <1>1, <1>2, <1>3
    <3>2. S \cap U = {}
      BY <1>0, <1>1, <1>2, <1>3
    <3> QED BY <1>4, <1>5, <2>1, <2>2, <3>1, <3>2
  <2>3. CASE tids # {t}
    <3>1. tids # {u}
      BY <2>3
    <3>2. \A k \in R \cup S : k < TidShift
      BY <1>0, <1>1, <1>3, <2>3, <3>1
    <3>3. (R \cup S) \cap (T \cup U) = {}
      BY <1>0, <1>1, <1>2, <3>2
    <3> QED BY <1>4, <2>1, <3>3
  <2> QED BY <2>2, <2>3
<1> QED BY <1>6, <1>7, BitsTell DEF R, S

\* No calls overlapped and the clock never went back.
Calm == overlapped = FALSE /\ setBack = FALSE

\* The ids made so far are of times and sequence numbers before the ones that the next id
\* will have, as long as one call at most is under way.
Before(c, s) ==
    /\ c <= LAST_TIME_STAMP
    /\ (\A t \in tids : pc_uu[t] \in {"idle", "compare", "load", "increment"}) =>
           c < LAST_TIME_STAMP \/ (c = LAST_TIME_STAMP /\ s <= SEQUENCE)
    /\ \A t \in tids : pc_uu[t] \in {"reload", "mask"} =>
           c < LAST_TIME_STAMP \/ (c = LAST_TIME_STAMP /\ s < SEQUENCE)
    /\ \A t \in tids : pc_uu[t] = "check" =>
           SEQUENCE = 0 \/ c < LAST_TIME_STAMP \/ (c = LAST_TIME_STAMP /\ s < SEQUENCE)
    /\ \A t \in tids : pc_uu[t] \in {"store", "return"} =>
           c < current[t] \/ (c = current[t] /\ s < SEQUENCE)

MadeOf(id) == \E c \in 0 .. MaxClock, t \in tids, s \in 0 .. SEQUENCE_MASK :
                  id = Uid!Id(c, t, s) /\ ~ Uid!Spills(t, s) /\ Before(c, s)

UidFlags == /\ repeated \in BOOLEAN /\ overlapped \in BOOLEAN /\ spilt \in BOOLEAN
            /\ setBack \in BOOLEAN

UidTypes ==
    /\ tids \in Crews /\ clock \in 0 .. MaxClock /\ LAST_TIME_STAMP \in -1 .. MaxClock
    /\ SEQUENCE \in Nat /\ seq \in [tids -> Nat] /\ pc_uu \in [tids -> Uid!Places]
    /\ current \in [tids -> 0 .. MaxClock] /\ calls_uu \in 0 .. MaxIds

\* One call at most is under way.
UidAlone ==
    overlapped = FALSE =>
        \A t, u \in tids : pc_uu[t] # "idle" /\ pc_uu[u] # "idle" => t = u

\* SEQUENCE passes the mask by one at most, and only before it is masked.
UidMasked ==
    overlapped = FALSE =>
        /\ SEQUENCE <= SEQUENCE_MASK + 1
        /\ SEQUENCE > SEQUENCE_MASK => \E t \in tids : pc_uu[t] \in {"reload", "mask"}
        /\ \A t \in tids : pc_uu[t] \in {"increment", "mask"} => seq[t] = SEQUENCE

\* No time is ahead of the clock, and the time of the call under way is none that was used.
UidTimes ==
    Calm =>
        /\ LAST_TIME_STAMP <= clock
        /\ \A t \in tids :
             /\ current[t] <= clock
             /\ pc_uu[t] \in {"compare", "store"} => current[t] >= LAST_TIME_STAMP
             /\ pc_uu[t] \in {"load", "increment", "reload", "mask", "check", "till", "return"}
                    => current[t] = LAST_TIME_STAMP
             /\ pc_uu[t] = "zero" => current[t] > LAST_TIME_STAMP

UidMade == Calm /\ spilt = FALSE => (\A id \in ids : MadeOf(id)) /\ repeated = FALSE

UidInv == UidTypes /\ UidFlags /\ UidAlone /\ UidMasked /\ UidTimes /\ UidMade

\* No id.
LEMMA UidInit == Uid!Init => UidInv
<1> SUFFICES ASSUME Uid!Init PROVE UidInv
  OBVIOUS
<1>1. tids \subseteq Nat /\ {SEQUENCE_MASK, MaxClock, MaxIds} \subseteq Nat
  BY DataAssumption DEF Uid!UUIDAssumption, Uid!Init
<1>2. UidTypes
  BY <1>1 DEF Uid!Init, UidTypes, Uid!Places
<1>3. UidFlags
  BY DEF Uid!Init, UidFlags
<1>4. UidAlone /\ UidMasked
  BY <1>1 DEF Uid!Init, UidAlone, UidMasked
<1>5. UidTimes
  BY DEF Uid!Init, UidTimes
<1>6. UidMade
  BY DEF Uid!Init, UidMade
<1> QED BY <1>2, <1>3, <1>4, <1>5, <1>6 DEF UidInv

\* What an id was made of stays so while its time and number stay before the next.
LEMMA MadeStays ==
    ASSUME tids' = tids, NEW id, MadeOf(id),
           \A c \in 0 .. MaxClock, s \in 0 .. SEQUENCE_MASK : Before(c, s) => Before(c, s)'
    PROVE  MadeOf(id)'
<1>1. PICK c \in 0 .. MaxClock, t \in tids, s \in 0 .. SEQUENCE_MASK :
          id = Uid!Id(c, t, s) /\ ~ Uid!Spills(t, s) /\ Before(c, s)
  BY DEF MadeOf
<1>2. Uid!Id(c, t, s)' = Uid!Id(c, t, s) /\ (Uid!Spills(t, s)' <=> Uid!Spills(t, s))
  BY DEF Uid!Id, Uid!Spills, Uid!Shift, Uid!Bits
<1>3. Before(c, s)'
  BY <1>1
<1> QED BY <1>1, <1>2, <1>3 DEF MadeOf

\* A step that makes no id keeps what is said of them.
LEMMA MadeKept ==
    ASSUME UidFlags, UidMade, tids' = tids, ids' = ids, repeated' = repeated, spilt' = spilt,
           Calm' => Calm,
           Calm => \A c \in 0 .. MaxClock, s \in 0 .. SEQUENCE_MASK : Before(c, s) => Before(c, s)'
    PROVE  UidMade'
<1>1. SUFFICES ASSUME Calm', spilt' = FALSE
               PROVE  (\A id \in ids' : MadeOf(id)') /\ repeated' = FALSE
  BY DEF UidMade
<1>2. Calm /\ spilt = FALSE
  BY <1>1
<1>3. (\A id \in ids : MadeOf(id)) /\ repeated = FALSE
  BY <1>2 DEF UidMade
<1>4. \A c \in 0 .. MaxClock, s \in 0 .. SEQUENCE_MASK : Before(c, s) => Before(c, s)'
  BY <1>2
<1>5. \A id \in ids : MadeOf(id)'
  BY <1>3, <1>4, MadeStays
<1> QED BY <1>3, <1>5

\* The constants.
LEMMA UidNumbers ==
    ASSUME UidTypes
    PROVE  /\ tids \subseteq Nat /\ SEQUENCE_MASK \in Nat /\ MaxClock \in Nat /\ MaxIds \in Nat
           /\ IsFiniteSet(tids)
<1>1. Uid!IsFiniteSet(tids) <=> IsFiniteSet(tids)
  BY DEF Uid!IsFiniteSet, IsFiniteSet
<1> QED BY <1>1, DataAssumption DEF Uid!UUIDAssumption, UidTypes

\* A step inside get() that leaves the history alone: pairs of time and number only grow.
Inside(t) == \/ Uid!compare(t) \/ Uid!load(t) \/ Uid!increment(t) \/ Uid!mask(t) \/ Uid!check(t)
             \/ Uid!zero(t) \/ Uid!tillNextMillis(t) \/ Uid!store(t)

LEMMA UidInside == ASSUME UidInv, NEW t \in tids, Inside(t) PROVE UidInv'
<1>t. UidTypes /\ UidFlags /\ UidAlone /\ UidMasked /\ UidTimes /\ UidMade
  BY DEF UidInv
<1>0. /\ tids \subseteq Nat /\ SEQUENCE_MASK \in Nat /\ MaxClock \in Nat
  BY <1>t, UidNumbers
<1>h. /\ UNCHANGED <<tids, clock, calls_uu, ids>>
      /\ repeated' = repeated /\ overlapped' = overlapped /\ spilt' = spilt /\ setBack' = setBack
  BY Zenon DEF Inside, Uid!compare, Uid!load, Uid!increment, Uid!mask, Uid!check, Uid!zero,
        Uid!tillNextMillis, Uid!store, Uid!shared, Uid!history
<1>s. UidFlags'
  BY <1>h, <1>t DEF UidFlags
<1>l. ASSUME NEW l, Uid!Goto(t, l)
      PROVE  pc_uu'[t] = l /\ \A u \in tids : u # t => pc_uu'[u] = pc_uu[u]
  BY <1>l, <1>t DEF UidTypes, Uid!Goto
<1>g. \A u \in tids : pc_uu[u] \in Uid!Places /\ current[u] \in 0 .. MaxClock /\ seq[u] \in Nat
  BY <1>t DEF UidTypes
<1>n. SEQUENCE \in Nat /\ LAST_TIME_STAMP \in Int /\ clock \in Nat
  BY <1>0, <1>t DEF UidTypes
<1>a. pc_uu[t] # "idle" /\ \A u \in tids : u # t => pc_uu'[u] = pc_uu[u]
  BY <1>l DEF Inside, Uid!compare, Uid!load, Uid!increment, Uid!mask, Uid!check, Uid!zero,
        Uid!tillNextMillis, Uid!store
<1>c. ASSUME overlapped = FALSE
      PROVE  /\ \A u \in tids : u # t => pc_uu[u] = "idle" /\ pc_uu'[u] = "idle"
  BY <1>a, <1>c, <1>t DEF UidAlone
<1>1. UidAlone'
  BY <1>a, <1>c, <1>h DEF UidAlone
<1>k. ASSUME UidTypes', UidMasked', UidTimes',
             Calm => \A c \in 0 .. MaxClock, s \in 0 .. SEQUENCE_MASK : Before(c, s) => Before(c, s)'
      PROVE  UidInv'
  <2>1. Calm' => Calm
    BY <1>h DEF Calm
  <2>2. UidMade'
    BY <1>h, <1>k, <1>t, <2>1, MadeKept
  <2> QED BY <1>1, <1>k, <1>s, <2>2 DEF UidInv
<1>m. ASSUME overlapped = FALSE =>
                 /\ SEQUENCE' <= SEQUENCE_MASK + 1
                 /\ SEQUENCE' > SEQUENCE_MASK => pc_uu'[t] \in {"reload", "mask"}
                 /\ pc_uu'[t] \in {"increment", "mask"} => seq'[t] = SEQUENCE'
      PROVE  UidMasked'
  <2> SUFFICES ASSUME overlapped = FALSE
               PROVE  /\ SEQUENCE' <= SEQUENCE_MASK + 1
                      /\ SEQUENCE' > SEQUENCE_MASK
                             => \E u \in tids : pc_uu'[u] \in {"reload", "mask"}
                      /\ \A u \in tids : pc_uu'[u] \in {"increment", "mask"} => seq'[u] = SEQUENCE'
    BY <1>h DEF UidMasked
  <2>1. \A u \in tids : u # t => pc_uu'[u] = "idle"
    BY <1>c
  <2> QED BY <1>m, <2>1
<1>2. CASE Uid!compare(t)
  <2>1. /\ pc_uu[t] = "compare" /\ UNCHANGED <<LAST_TIME_STAMP, SEQUENCE, current, seq>>
        /\ Uid!Goto(t, IF current[t] = LAST_TIME_STAMP THEN "load" ELSE "zero")
    BY <1>2 DEF Uid!compare, Uid!shared
  <2>2. pc_uu'[t] = IF current[t] = LAST_TIME_STAMP THEN "load" ELSE "zero"
    BY <1>l, <2>1
  <2>3. UidTypes'
    BY <1>h, <1>t, <2>1 DEF UidTypes, Uid!Goto, Uid!Places
  <2>4. UidMasked'
    BY <1>a, <1>c, <1>h, <1>n, <1>0, <1>t, <2>1, <2>2 DEF UidMasked
  <2>5. UidTimes'
    BY <1>a, <1>g, <1>h, <1>n, <1>t, <2>1, <2>2 DEF UidTimes, Calm
  <2>6. ASSUME Calm, NEW c \in 0 .. MaxClock, NEW s \in 0 .. SEQUENCE_MASK, Before(c, s)
        PROVE  Before(c, s)'
    <3>1. \A u \in tids : u # t => pc_uu[u] = "idle" /\ pc_uu'[u] = "idle"
      BY <1>c, <2>6 DEF Calm
    <3> QED BY <1>h, <2>1, <2>2, <2>6, <3>1 DEF Before
  <2> QED BY <1>k, <2>3, <2>4, <2>5, <2>6
<1>3. CASE Uid!load(t)
  <2>1. /\ pc_uu[t] \in {"load", "reload"} /\ UNCHANGED <<LAST_TIME_STAMP, SEQUENCE, current>>
        /\ seq' = [seq EXCEPT ![t] = SEQUENCE]
        /\ Uid!Goto(t, IF pc_uu[t] = "load" THEN "increment" ELSE "mask")
    BY <1>3 DEF Uid!load, Uid!shared
  <2>2. pc_uu'[t] = IF pc_uu[t] = "load" THEN "increment" ELSE "mask"
    BY <1>l, <2>1
  <2>0. seq'[t] = SEQUENCE
    BY <1>t, <2>1 DEF UidTypes
  <2>3. UidTypes'
    BY <1>h, <1>t, <2>1 DEF UidTypes, Uid!Goto, Uid!Places
  <2>4. UidMasked'
    BY <1>a, <1>c, <1>h, <1>n, <1>0, <1>t, <2>0, <2>1, <2>2 DEF UidMasked
  <2>5. UidTimes'
    BY <1>a, <1>g, <1>h, <1>n, <1>t, <2>1, <2>2 DEF UidTimes, Calm
  <2>6. ASSUME Calm, NEW c \in 0 .. MaxClock, NEW s \in 0 .. SEQUENCE_MASK, Before(c, s)
        PROVE  Before(c, s)'
    <3>1. \A u \in tids : u # t => pc_uu[u] = "idle" /\ pc_uu'[u] = "idle"
      BY <1>c, <2>6 DEF Calm
    <3> QED BY <1>h, <2>1, <2>2, <2>6, <3>1 DEF Before
  <2> QED BY <1>k, <2>3, <2>4, <2>5, <2>6
<1>4. CASE Uid!increment(t)
  <2>1. /\ pc_uu[t] = "increment" /\ UNCHANGED <<LAST_TIME_STAMP, current, seq>>
        /\ SEQUENCE' = seq[t] + 1 /\ Uid!Goto(t, "reload")
    BY <1>4 DEF Uid!increment
  <2>2. pc_uu'[t] = "reload"
    BY <1>l, <2>1
  <2>3. UidTypes'
    BY <1>g, <1>h, <1>t, <2>1 DEF UidTypes, Uid!Goto, Uid!Places
  <2>0. ASSUME overlapped = FALSE PROVE SEQUENCE' = SEQUENCE + 1 /\ SEQUENCE <= SEQUENCE_MASK
    <3>1. SEQUENCE' = SEQUENCE + 1
      BY <1>t, <2>0, <2>1 DEF UidMasked
    <3>2. \A u \in tids : pc_uu[u] \notin {"reload", "mask"}
      BY <1>c, <2>0, <2>1
    <3>3. ~(SEQUENCE > SEQUENCE_MASK)
      BY <1>t, <2>0, <3>2 DEF UidMasked
    <3> QED BY <1>0, <1>n, <3>1, <3>3
  <2>4. UidMasked'
    <3>1. ASSUME overlapped = FALSE PROVE SEQUENCE' <= SEQUENCE_MASK + 1
      <4>1. SEQUENCE' = SEQUENCE + 1 /\ SEQUENCE <= SEQUENCE_MASK
        BY <2>0, <3>1
      <4> QED BY <1>0, <1>n, <4>1
    <3> QED BY <1>m, <2>2, <3>1
  <2>5. UidTimes'
    BY <1>a, <1>g, <1>h, <1>n, <1>t, <2>1, <2>2 DEF UidTimes, Calm
  <2>6. ASSUME Calm, NEW c \in 0 .. MaxClock, NEW s \in 0 .. SEQUENCE_MASK, Before(c, s)
        PROVE  Before(c, s)'
    <3>1. \A u \in tids : u # t => pc_uu[u] = "idle" /\ pc_uu'[u] = "idle"
      BY <1>c, <2>6 DEF Calm
    <3>2. c < LAST_TIME_STAMP \/ (c = LAST_TIME_STAMP /\ s <= SEQUENCE)
      BY <2>1, <2>6, <3>1 DEF Before
    <3>3. SEQUENCE' = SEQUENCE + 1
      BY <2>0, <2>6 DEF Calm
    <3>4. c < LAST_TIME_STAMP \/ (c = LAST_TIME_STAMP /\ s < SEQUENCE')
      BY <1>n, <3>2, <3>3
    <3>5. c <= LAST_TIME_STAMP
      BY <2>6 DEF Before
    <3> QED BY <1>h, <2>1, <2>2, <3>1, <3>4, <3>5 DEF Before
  <2> QED BY <1>k, <2>3, <2>4, <2>5, <2>6
<1>5. CASE Uid!mask(t)
  <2>1. /\ pc_uu[t] = "mask" /\ UNCHANGED <<LAST_TIME_STAMP, current, seq>>
        /\ SEQUENCE' = seq[t] % (SEQUENCE_MASK + 1) /\ Uid!Goto(t, "check")
    BY <1>5 DEF Uid!mask
  <2>2. pc_uu'[t] = "check"
    BY <1>l, <2>1
  <2>m. \A x \in Nat : /\ x % (SEQUENCE_MASK + 1) \in 0 .. SEQUENCE_MASK
                       /\ x <= SEQUENCE_MASK => x % (SEQUENCE_MASK + 1) = x
                       /\ x = SEQUENCE_MASK + 1 => x % (SEQUENCE_MASK + 1) = 0
    BY ONLY <1>0, SMTT(30)
  <2>0. SEQUENCE' \in 0 .. SEQUENCE_MASK
    BY <1>g, <2>1, <2>m
  <2>3. UidTypes'
    BY <1>0, <1>h, <1>t, <2>0, <2>1 DEF UidTypes, Uid!Goto, Uid!Places
  <2>4. UidMasked'
    <3>1. SEQUENCE' <= SEQUENCE_MASK + 1 /\ ~(SEQUENCE' > SEQUENCE_MASK)
      BY <1>0, <2>0
    <3> QED BY <1>m, <2>2, <3>1
  <2>5. UidTimes'
    BY <1>a, <1>g, <1>h, <1>n, <1>t, <2>1, <2>2 DEF UidTimes, Calm
  <2>6. ASSUME Calm, NEW c \in 0 .. MaxClock, NEW s \in 0 .. SEQUENCE_MASK, Before(c, s)
        PROVE  Before(c, s)'
    <3>1. \A u \in tids : u # t => pc_uu[u] = "idle" /\ pc_uu'[u] = "idle"
      BY <1>c, <2>6 DEF Calm
    <3>2. c < LAST_TIME_STAMP \/ (c = LAST_TIME_STAMP /\ s < SEQUENCE)
      BY <2>1, <2>6 DEF Before
    <3>3. seq[t] = SEQUENCE /\ SEQUENCE <= SEQUENCE_MASK + 1
      BY <1>t, <2>1, <2>6 DEF UidMasked, Calm
    <3>4. SEQUENCE' = SEQUENCE \/ SEQUENCE' = 0
      <4>1. SEQUENCE <= SEQUENCE_MASK \/ SEQUENCE = SEQUENCE_MASK + 1
        BY <1>0, <1>n, <3>3
      <4> QED BY <1>n, <2>1, <2>m, <3>3, <4>1
    <3>5. c <= LAST_TIME_STAMP
      BY <2>6 DEF Before
    <3> QED BY <1>h, <2>1, <2>2, <3>1, <3>2, <3>4, <3>5 DEF Before
  <2> QED BY <1>k, <2>3, <2>4, <2>5, <2>6
<1>6. CASE Uid!check(t)
  <2>1. /\ pc_uu[t] = "check" /\ UNCHANGED <<LAST_TIME_STAMP, SEQUENCE, current, seq>>
        /\ Uid!Goto(t, IF SEQUENCE = 0 THEN "till" ELSE "store")
    BY <1>6 DEF Uid!check, Uid!shared
  <2>2. pc_uu'[t] = IF SEQUENCE = 0 THEN "till" ELSE "store"
    BY <1>l, <2>1
  <2>3. UidTypes'
    BY <1>h, <1>t, <2>1 DEF UidTypes, Uid!Goto, Uid!Places
  <2>4. UidMasked'
    BY <1>a, <1>c, <1>h, <1>n, <1>0, <1>t, <2>1, <2>2 DEF UidMasked
  <2>5. UidTimes'
    BY <1>a, <1>g, <1>h, <1>n, <1>t, <2>1, <2>2 DEF UidTimes, Calm
  <2>6. ASSUME Calm, NEW c \in 0 .. MaxClock, NEW s \in 0 .. SEQUENCE_MASK, Before(c, s)
        PROVE  Before(c, s)'
    <3>1. \A u \in tids : u # t => pc_uu[u] = "idle" /\ pc_uu'[u] = "idle"
      BY <1>c, <2>6 DEF Calm
    <3>2. current[t] = LAST_TIME_STAMP
      BY <1>t, <2>1, <2>6 DEF UidTimes
    <3> QED BY <1>h, <2>1, <2>2, <2>6, <3>1, <3>2 DEF Before
  <2> QED BY <1>k, <2>3, <2>4, <2>5, <2>6
<1>7. CASE Uid!zero(t)
  <2>1. /\ pc_uu[t] = "zero" /\ UNCHANGED <<LAST_TIME_STAMP, current, seq>>
        /\ SEQUENCE' = 0 /\ Uid!Goto(t, "store")
    BY <1>7 DEF Uid!zero
  <2>2. pc_uu'[t] = "store"
    BY <1>l, <2>1
  <2>3. UidTypes'
    BY <1>h, <1>t, <2>1 DEF UidTypes, Uid!Goto, Uid!Places
  <2>4. UidMasked'
    <3>1. SEQUENCE' <= SEQUENCE_MASK + 1 /\ ~(SEQUENCE' > SEQUENCE_MASK)
      BY <1>0, <2>1
    <3> QED BY <1>m, <2>2, <3>1
  <2>5. UidTimes'
    BY <1>a, <1>g, <1>h, <1>n, <1>t, <2>1, <2>2 DEF UidTimes, Calm
  <2>6. ASSUME Calm, NEW c \in 0 .. MaxClock, NEW s \in 0 .. SEQUENCE_MASK, Before(c, s)
        PROVE  Before(c, s)'
    <3>1. \A u \in tids : u # t => pc_uu[u] = "idle" /\ pc_uu'[u] = "idle"
      BY <1>c, <2>6 DEF Calm
    <3>2. current[t] > LAST_TIME_STAMP
      BY <1>t, <2>1, <2>6 DEF UidTimes
    <3>3. c <= LAST_TIME_STAMP
      BY <2>6 DEF Before
    <3>4. c < current[t]
      BY <1>g, <1>n, <3>2, <3>3
    <3> QED BY <1>h, <2>1, <2>2, <3>1, <3>3, <3>4 DEF Before
  <2> QED BY <1>k, <2>3, <2>4, <2>5, <2>6
<1>8. CASE Uid!tillNextMillis(t)
  <2>1. /\ pc_uu[t] = "till" /\ clock > current[t] /\ UNCHANGED <<LAST_TIME_STAMP, SEQUENCE, seq>>
        /\ current' = [current EXCEPT ![t] = clock] /\ Uid!Goto(t, "store")
    BY <1>8 DEF Uid!tillNextMillis, Uid!shared
  <2>2. pc_uu'[t] = "store"
    BY <1>l, <2>1
  <2>0. current'[t] = clock /\ \A u \in tids : u # t => current'[u] = current[u]
    BY <1>t, <2>1 DEF UidTypes
  <2>3. UidTypes'
    BY <1>h, <1>t, <2>1 DEF UidTypes, Uid!Goto, Uid!Places
  <2>4. UidMasked'
    BY <1>a, <1>c, <1>h, <1>n, <1>0, <1>t, <2>1, <2>2 DEF UidMasked
  <2>5. UidTimes'
    BY <1>a, <1>g, <1>h, <1>n, <1>t, <2>0, <2>1, <2>2 DEF UidTimes, Calm
  <2>6. ASSUME Calm, NEW c \in 0 .. MaxClock, NEW s \in 0 .. SEQUENCE_MASK, Before(c, s)
        PROVE  Before(c, s)'
    <3>1. \A u \in tids : u # t => pc_uu[u] = "idle" /\ pc_uu'[u] = "idle"
      BY <1>c, <2>6 DEF Calm
    <3>2. current[t] = LAST_TIME_STAMP
      BY <1>t, <2>1, <2>6 DEF UidTimes
    <3>3. c <= LAST_TIME_STAMP
      BY <2>6 DEF Before
    <3>4. c < current'[t]
      BY <1>g, <1>n, <2>0, <2>1, <3>2, <3>3
    <3> QED BY <1>h, <2>1, <2>2, <3>1, <3>3, <3>4 DEF Before
  <2> QED BY <1>k, <2>3, <2>4, <2>5, <2>6
<1>9. CASE Uid!store(t)
  <2>1. /\ pc_uu[t] = "store" /\ UNCHANGED <<SEQUENCE, current, seq>>
        /\ LAST_TIME_STAMP' = current[t] /\ Uid!Goto(t, "return")
    BY <1>9 DEF Uid!store
  <2>2. pc_uu'[t] = "return"
    BY <1>l, <2>1
  <2>3. UidTypes'
    BY <1>0, <1>g, <1>h, <1>t, <2>1 DEF UidTypes, Uid!Goto, Uid!Places
  <2>4. UidMasked'
    BY <1>a, <1>c, <1>h, <1>n, <1>0, <1>t, <2>1, <2>2 DEF UidMasked
  <2>5. UidTimes'
    <3>1. SUFFICES ASSUME Calm PROVE UidTimes'
      BY <1>h DEF UidTimes, Calm
    <3>2. \A u \in tids : u # t => pc_uu'[u] = "idle"
      BY <1>c, <3>1 DEF Calm
    <3>3. \A u \in tids : current[u] <= clock
      BY <1>t, <3>1 DEF UidTimes
    <3> QED BY <1>g, <1>h, <1>n, <2>1, <2>2, <3>2, <3>3 DEF UidTimes
  <2>6. ASSUME Calm, NEW c \in 0 .. MaxClock, NEW s \in 0 .. SEQUENCE_MASK, Before(c, s)
        PROVE  Before(c, s)'
    <3>1. \A u \in tids : u # t => pc_uu[u] = "idle" /\ pc_uu'[u] = "idle"
      BY <1>c, <2>6 DEF Calm
    <3>2. c < current[t] \/ (c = current[t] /\ s < SEQUENCE)
      BY <2>1, <2>6 DEF Before
    <3>3. c <= current[t]
      BY <1>g, <3>2
    <3> QED BY <1>h, <2>1, <2>2, <3>1, <3>2, <3>3 DEF Before
  <2> QED BY <1>k, <2>3, <2>4, <2>5, <2>6
<1> QED BY <1>2, <1>3, <1>4, <1>5, <1>6, <1>7, <1>8, <1>9 DEF Inside

\* The clock, set forth or back.
LEMMA UidTick == ASSUME UidInv, Uid!Tick PROVE UidInv'
<1>t. UidTypes /\ UidFlags /\ UidAlone /\ UidMasked /\ UidTimes /\ UidMade
  BY DEF UidInv
<1>1. /\ UNCHANGED <<tids, LAST_TIME_STAMP, SEQUENCE, pc_uu, current, seq, calls_uu, ids>>
      /\ clock' \in 0 .. MaxClock
  BY DEF Uid!Tick, Uid!shared
<1>2. repeated' = repeated /\ overlapped' = overlapped /\ spilt' = spilt
  BY Zenon DEF Uid!Tick
<1>3. setBack' \in BOOLEAN /\ (setBack' = FALSE => setBack = FALSE /\ ~(clock' < clock))
  BY <1>t DEF Uid!Tick, UidFlags
<1>4. Calm' => Calm /\ ~(clock' < clock)
  BY <1>2, <1>3 DEF Calm
<1>5. UidTypes'
  BY <1>1, <1>t DEF UidTypes
<1>6. UidFlags'
  BY <1>2, <1>3, <1>t DEF UidFlags
<1>7. UidAlone' /\ UidMasked'
  BY <1>1, <1>2, <1>t DEF UidAlone, UidMasked
<1>8. UidTimes'
  <2>1. SUFFICES ASSUME Calm, ~(clock' < clock) PROVE UidTimes'
    BY <1>4 DEF UidTimes
  <2>2. clock \in Int /\ clock' \in Int /\ MaxClock \in Nat
    BY <1>1, <1>t, UidNumbers DEF UidTypes
  <2>3. \A x \in Int : x <= clock => x <= clock'
    BY <2>1, <2>2
  <2>4. LAST_TIME_STAMP \in Int /\ \A u \in tids : current[u] \in Int
    BY <1>t, <2>2 DEF UidTypes
  <2> QED BY <1>1, <1>t, <2>1, <2>3, <2>4 DEF UidTimes
<1>9. \A c \in 0 .. MaxClock, s \in 0 .. SEQUENCE_MASK : Before(c, s) => Before(c, s)'
  BY <1>1 DEF Before
<1>10. UidMade'
  BY <1>1, <1>2, <1>4, <1>9, <1>t, MadeKept
<1> QED BY <1>5, <1>6, <1>7, <1>8, <1>10 DEF UidInv

\* A call begins.
LEMMA UidBegin == ASSUME UidInv, NEW t \in tids, Uid!getTimeStamp(t) PROVE UidInv'
<1>t. UidTypes /\ UidFlags /\ UidAlone /\ UidMasked /\ UidTimes /\ UidMade
  BY DEF UidInv
<1>0. /\ tids \subseteq Nat /\ SEQUENCE_MASK \in Nat /\ MaxClock \in Nat /\ MaxIds \in Nat
      /\ IsFiniteSet(tids)
  BY <1>t, UidNumbers
<1>1. /\ pc_uu[t] = "idle" /\ calls_uu * Uid!Cardinality(tids) < MaxIds /\ calls_uu' = calls_uu + 1
      /\ current' = [current EXCEPT ![t] = clock]
      /\ pc_uu' = [pc_uu EXCEPT ![t] = "compare"]
      /\ UNCHANGED <<tids, clock, LAST_TIME_STAMP, SEQUENCE, seq, ids>>
  BY DEF Uid!getTimeStamp, Uid!shared, Uid!Goto
<1>2. repeated' = repeated /\ spilt' = spilt /\ setBack' = setBack
  BY Zenon DEF Uid!getTimeStamp
<1>3. /\ overlapped' \in BOOLEAN
      /\ overlapped' = FALSE => overlapped = FALSE /\ \A u \in tids : pc_uu[u] = "idle"
  BY <1>t DEF Uid!getTimeStamp, UidFlags
<1>4. calls_uu + 1 \in 0 .. MaxIds
  <2>1. Uid!Cardinality(tids) = Cardinality(tids)
    BY DEF Uid!Cardinality, Cardinality
  <2>2. Cardinality(tids) \in Nat /\ Cardinality(tids) >= 1
    BY <1>0, FS_EmptySet, FS_CardinalityType
  <2>3. calls_uu \in Nat /\ calls_uu * Cardinality(tids) < MaxIds
    BY <1>1, <1>t, <2>1 DEF UidTypes
  <2>4. \A k \in Nat : k >= 1 => calls_uu * k >= calls_uu /\ calls_uu * k \in Nat
    BY ONLY <2>3, SMT
  <2> QED BY <1>0, <2>2, <2>3, <2>4
<1>5. UidTypes'
  BY <1>1, <1>4, <1>t DEF UidTypes, Uid!Places
<1>6. UidFlags'
  BY <1>2, <1>3, <1>t DEF UidFlags
<1>7. /\ pc_uu'[t] = "compare" /\ current'[t] = clock
      /\ \A u \in tids : u # t => pc_uu'[u] = pc_uu[u] /\ current'[u] = current[u]
  BY <1>1, <1>t DEF UidTypes
<1>8. UidAlone'
  BY <1>1, <1>3, <1>7 DEF UidAlone
<1>9. UidMasked'
  BY <1>1, <1>3, <1>7, <1>t DEF UidMasked
<1>10. UidTimes'
  <2>1. SUFFICES ASSUME Calm' PROVE UidTimes'
    BY DEF UidTimes
  <2>2. Calm /\ \A u \in tids : u # t => pc_uu'[u] = "idle"
    BY <1>2, <1>3, <1>7, <2>1 DEF Calm
  <2>3. LAST_TIME_STAMP <= clock /\ \A u \in tids : current[u] <= clock
    BY <1>t, <2>2 DEF UidTimes
  <2>4. clock \in Int /\ LAST_TIME_STAMP \in Int
    BY <1>0, <1>t DEF UidTypes
  <2> QED BY <1>1, <1>7, <2>2, <2>3, <2>4 DEF UidTimes
<1>11. Calm' => Calm
  BY <1>2, <1>3 DEF Calm
<1>12. ASSUME Calm', NEW c \in 0 .. MaxClock, NEW s \in 0 .. SEQUENCE_MASK, Before(c, s)
       PROVE  Before(c, s)'
  <2>1. \A u \in tids : pc_uu[u] = "idle"
    BY <1>12, <1>3 DEF Calm
  <2>2. c <= LAST_TIME_STAMP /\ (c < LAST_TIME_STAMP \/ (c = LAST_TIME_STAMP /\ s <= SEQUENCE))
    BY <1>12, <2>1 DEF Before
  <2>3. \A u \in tids : pc_uu'[u] \in {"idle", "compare"}
    BY <1>7, <2>1
  <2> QED BY <1>1, <2>2, <2>3 DEF Before
<1>13. UidMade'
  <2>1. SUFFICES ASSUME Calm', spilt' = FALSE
                 PROVE  (\A id \in ids' : MadeOf(id)') /\ repeated' = FALSE
    BY DEF UidMade
  <2>2. (\A id \in ids : MadeOf(id)) /\ repeated = FALSE
    BY <1>11, <1>2, <1>t, <2>1 DEF UidMade
  <2>3. \A c \in 0 .. MaxClock, s \in 0 .. SEQUENCE_MASK : Before(c, s) => Before(c, s)'
    BY <1>12, <2>1
  <2>4. \A id \in ids : MadeOf(id)'
    BY <1>1, <2>2, <2>3, MadeStays
  <2> QED BY <1>1, <1>2, <2>2, <2>4
<1> QED BY <1>5, <1>6, <1>8, <1>9, <1>10, <1>13 DEF UidInv

\* An id is made: of a time and a number that no other is made of.
LEMMA UidGet == ASSUME UidInv, NEW t \in tids, Uid!get(t) PROVE UidInv'
<1>t. UidTypes /\ UidFlags /\ UidAlone /\ UidMasked /\ UidTimes /\ UidMade
  BY DEF UidInv
<1>z. tids \subseteq Nat /\ SEQUENCE_MASK \in Nat /\ MaxClock \in Nat
  BY <1>t, UidNumbers
<1>i. PICK time, number, id : /\ time = current[t] /\ number = SEQUENCE
                              /\ id = Uid!Id(time, t, number)
  OBVIOUS
<1>0. /\ pc_uu[t] = "return" /\ ids' = ids \cup {id}
      /\ pc_uu' = [pc_uu EXCEPT ![t] = "idle"]
      /\ UNCHANGED <<tids, clock, LAST_TIME_STAMP, SEQUENCE, current, seq, calls_uu>>
  BY <1>i DEF Uid!get, Uid!shared, Uid!Goto
<1>1. /\ repeated' = (repeated \/ id \in ids) /\ spilt' = (spilt \/ Uid!Spills(t, number))
      /\ overlapped' = overlapped /\ setBack' = setBack
  BY <1>i, Zenon DEF Uid!get
<1>2. UidTypes'
  BY <1>0, <1>t DEF UidTypes, Uid!Places
<1>3. UidFlags'
  BY <1>1, <1>t DEF UidFlags
<1>4. pc_uu'[t] = "idle" /\ \A u \in tids : u # t => pc_uu'[u] = pc_uu[u]
  BY <1>0, <1>t DEF UidTypes
<1>5. UidAlone'
  BY <1>0, <1>1, <1>4, <1>t DEF UidAlone
<1>6. UidMasked'
  BY <1>0, <1>1, <1>4, <1>t DEF UidMasked
<1>7. UidTimes'
  BY <1>0, <1>1, <1>4, <1>t DEF UidTimes, Calm
<1>8. ASSUME Calm', spilt' = FALSE
      PROVE  (\A i \in ids' : MadeOf(i)') /\ repeated' = FALSE
  <2>1. Calm /\ spilt = FALSE /\ ~ Uid!Spills(t, number)
    BY <1>1, <1>8, <1>t DEF UidFlags, Calm
  <2>2. (\A i \in ids : MadeOf(i)) /\ repeated = FALSE
    BY <1>t, <2>1 DEF UidMade
  <2>3. current[t] = LAST_TIME_STAMP /\ \A u \in tids : u # t => pc_uu[u] = "idle"
    BY <1>0, <1>t, <2>1 DEF UidTimes, UidAlone, Calm
  <2>m. SEQUENCE \in 0 .. SEQUENCE_MASK
    <3>1. \A u \in tids : pc_uu[u] \notin {"reload", "mask"}
      BY <1>0, <2>3
    <3>2. ~(SEQUENCE > SEQUENCE_MASK)
      BY <1>t, <2>1, <3>1 DEF UidMasked, Calm
    <3> QED BY <1>t, <1>z, <3>2 DEF UidTypes
  <2>4. id \notin ids
    <3> SUFFICES ASSUME id \in ids PROVE FALSE
      OBVIOUS
    <3>1. PICK c \in 0 .. MaxClock, u \in tids, s \in 0 .. SEQUENCE_MASK :
              id = Uid!Id(c, u, s) /\ ~ Uid!Spills(u, s) /\ Before(c, s)
      BY <2>2 DEF MadeOf
    <3>2. c < current[t] \/ (c = current[t] /\ s < SEQUENCE)
      BY <1>0, <3>1 DEF Before
    <3>3. c \in Nat /\ s \in Nat /\ current[t] \in Nat /\ SEQUENCE \in Nat
      BY <1>t, <1>z, <2>m DEF UidTypes
    <3>4. Uid!Id(c, u, s) = Uid!Id(time, t, number)
      BY <1>i, <3>1
    <3>5. c = time /\ s = number
      <4>1. time \in Nat /\ number \in Nat /\ tids \subseteq Nat
        BY <1>i, <1>z, <3>3
      <4>2. ~ Uid!Spills(u, s) /\ ~ Uid!Spills(t, number)
        BY <2>1, <3>1
      <4> QED BY <3>3, <3>4, <4>1, <4>2, IdTells
    <3> QED BY <1>i, <3>2, <3>3, <3>5
  <2>5. ASSUME NEW c \in 0 .. MaxClock, NEW s \in 0 .. SEQUENCE_MASK, Before(c, s)
        PROVE  Before(c, s)'
    <3>1. c < LAST_TIME_STAMP \/ (c = LAST_TIME_STAMP /\ s < SEQUENCE)
      BY <1>0, <2>3, <2>5 DEF Before
    <3>2. c <= LAST_TIME_STAMP /\ (c < LAST_TIME_STAMP \/ (c = LAST_TIME_STAMP /\ s <= SEQUENCE))
      BY <1>t, <1>z, <2>m, <3>1 DEF UidTypes
    <3>3. \A u \in tids : pc_uu'[u] = "idle"
      BY <1>4, <2>3
    <3> QED BY <1>0, <3>2, <3>3 DEF Before
  <2>6. \A i \in ids : MadeOf(i)'
    BY <1>0, <2>2, <2>5, MadeStays
  <2>7. MadeOf(id)'
    <3>0. \A u \in tids : pc_uu'[u] = "idle"
      BY <1>4, <2>3
    <3>1. Before(time, number)'
      <4>1. time = LAST_TIME_STAMP /\ number = SEQUENCE /\ time <= LAST_TIME_STAMP
            /\ number <= SEQUENCE
        BY <1>i, <1>t, <1>z, <2>3, <2>m DEF UidTypes
      <4> QED BY <1>0, <3>0, <4>1 DEF Before
    <3>2. Uid!Id(time, t, number)' = id
      BY <1>i DEF Uid!Id, Uid!Shift, Uid!Bits
    <3>3. Uid!Spills(t, number)' <=> Uid!Spills(t, number)
      BY <1>0 DEF Uid!Spills, Uid!Shift, Uid!Bits
    <3>4. time \in 0 .. MaxClock /\ number \in 0 .. SEQUENCE_MASK /\ t \in tids'
      BY <1>0, <1>i, <1>t, <2>m DEF UidTypes
    <3> QED BY <2>1, <3>1, <3>2, <3>3, <3>4 DEF MadeOf
  <2>8. repeated' = FALSE
    BY <1>1, <2>2, <2>4, Zenon
  <2> QED BY <1>0, <2>6, <2>7, <2>8
<1> QED BY <1>2, <1>3, <1>5, <1>6, <1>7, <1>8 DEF UidInv, UidMade

\* Every step keeps UidInv: the clock and the calls of one thread after the other make pairs of
\* time and number that only grow.
LEMMA UidNext == UidInv /\ [Uid!Next]_uuidVars => UidInv'
<1> SUFFICES ASSUME UidInv, [Uid!Next]_uuidVars PROVE UidInv'
  OBVIOUS
<1>1. CASE UNCHANGED uuidVars
  <2> USE <1>1 DEF uuidVars
  <2>t. UidTypes /\ UidFlags /\ UidAlone /\ UidMasked /\ UidTimes /\ UidMade
    BY DEF UidInv
  <2>1. UidTypes' /\ UidFlags'
    BY <2>t DEF UidTypes, UidFlags
  <2>2. UidAlone' /\ UidMasked'
    BY <2>t DEF UidAlone, UidMasked
  <2>3. UidTimes'
    BY <2>t DEF UidTimes, Calm
  <2>4. \A c \in 0 .. MaxClock, s \in 0 .. SEQUENCE_MASK : Before(c, s) => Before(c, s)'
    BY DEF Before
  <2>5. Calm' => Calm
    BY DEF Calm
  <2>6. UidMade'
    BY <2>4, <2>5, <2>t, MadeKept
  <2> QED BY <2>1, <2>2, <2>3, <2>6 DEF UidInv
<1>2. ASSUME NEW t \in tids, Inside(t) PROVE UidInv'
  BY <1>2, UidInside
<1> QED BY <1>1, <1>2, UidTick, UidBegin, UidGet DEF Uid!Next, Inside

\* An id is repeated only when calls overlapped, the clock went back or fields covered each
\* other.
LEMMA UidRight == UidInv => Uid!UUIDTypeOK /\ Uid!UniqueUnlessMixed
<1> SUFFICES ASSUME UidInv PROVE Uid!UUIDTypeOK /\ Uid!UniqueUnlessMixed
  OBVIOUS
<1>1. SEQUENCE_MASK \in Nat /\ SEQUENCE \in Nat
  BY UidNumbers DEF UidInv, UidTypes
<1>2. ASSUME ~overlapped, \A t \in tids : pc_uu[t] = "idle" PROVE SEQUENCE <= SEQUENCE_MASK
  <2>1. overlapped = FALSE
    BY <1>2, Zenon DEF UidInv, UidFlags
  <2>2. ~(SEQUENCE > SEQUENCE_MASK)
    BY <1>2, <2>1 DEF UidInv, UidMasked
  <2> QED BY <1>1, <2>2
<1>3. Uid!UUIDTypeOK
  BY <1>2 DEF UidInv, UidTypes, Uid!UUIDTypeOK
<1>4. Uid!UniqueUnlessMixed
  BY Zenon DEF UidInv, UidMade, UidFlags, Calm, Uid!UniqueUnlessMixed
<1> QED BY <1>3, <1>4

-----------------------------------------------------------------------------
\* base64.  A text is read in groups of three chars, CharAt being zero behind its end, and char
\* 4 * q + c + 1 of its code stands for the six bits Six(s, q, c) of group q.
Chars == -128 .. 127
CharAt(s, k) == IF k \in 1 .. Len(s) THEN s[k] ELSE 0
Six(s, q, c) ==
    LET x == CharAt(s, 3 * q + 1)  y == CharAt(s, 3 * q + 2)  z == CharAt(s, 3 * q + 3)
    IN  IF c = 0 THEN B64!Bits(x, 2, 6)
        ELSE IF c = 1 THEN B64!Bits(x, 0, 2) * 16 + B64!Bits(y, 4, 4)
        ELSE IF c = 2 THEN B64!Bits(y, 0, 4) * 4 + B64!Bits(z, 6, 2)
        ELSE B64!Bits(z, 0, 6)

\* The chars that carry bits of a text of n chars.
Carrying(n) == (8 * n + 5) \div 6

\* Behind the end of a text there are zeros.
LEMMA AtChar ==
    ASSUME NEW s \in Seq(Chars), NEW k \in Int
    PROVE  CharAt(s, k) \in Chars
<1>1. 0 \in Chars
  BY DEF Chars
<1>2. k \in 1 .. Len(s) => s[k] \in Chars
  OBVIOUS
<1> QED BY <1>1, <1>2 DEF CharAt

\* Six bits are a number below 64.
LEMMA SixBits ==
    ASSUME NEW s \in Seq(Chars), NEW q \in Nat, NEW c \in 0 .. 3
    PROVE  Six(s, q, c) \in 0 .. 63
<1>1. ASSUME NEW x \in Chars, NEW y \in Chars
      PROVE  /\ B64!Bits(x, 2, 6) \in 0 .. 63 /\ B64!Bits(x, 0, 6) \in 0 .. 63
             /\ B64!Bits(x, 0, 2) * 16 + B64!Bits(y, 4, 4) \in 0 .. 63
             /\ B64!Bits(x, 0, 4) * 4 + B64!Bits(y, 6, 2) \in 0 .. 63
  BY DEF B64!Bits, Chars
<1>2. CharAt(s, 3 * q + 1) \in Chars /\ CharAt(s, 3 * q + 2) \in Chars /\ CharAt(s, 3 * q + 3) \in Chars
  BY AtChar
<1> QED BY <1>1, <1>2 DEF Six

\* The table of decoding undoes that of coding; no code is the padding or the NUL.
LEMMA BasisTells ==
    /\ \A v \in 0 .. 63 : /\ B64!basis_64(v) \in Int /\ B64!basis_64(v) # B64!Pad
                          /\ B64!basis_64(v) # B64!NUL
                          /\ B64!pr2six(B64!basis_64(v)) = v
    /\ B64!Pad # B64!NUL /\ B64!Pad \in Int /\ B64!NUL \in Int
    /\ B64!pr2six(B64!Pad) = 64 /\ B64!pr2six(B64!NUL) = 64
<1>1. ASSUME NEW v \in 0 .. 63
      PROVE  /\ B64!basis_64(v) \in Int /\ B64!basis_64(v) # B64!Pad
             /\ B64!basis_64(v) # B64!NUL
             /\ B64!pr2six(B64!basis_64(v)) = v
  BY DEF B64!basis_64, B64!pr2six, B64!Pad, B64!NUL
<1>2. /\ B64!Pad # B64!NUL /\ B64!Pad \in Int /\ B64!NUL \in Int
      /\ B64!pr2six(B64!Pad) = 64 /\ B64!pr2six(B64!NUL) = 64
  BY DEF B64!pr2six, B64!Pad, B64!NUL
<1> QED BY <1>1, <1>2

\* A group of code.
LEMMA GroupIs ==
    ASSUME NEW s \in Seq(Chars), NEW q \in Nat
    PROVE  B64!group(CharAt(s, 3 * q + 1), CharAt(s, 3 * q + 2), CharAt(s, 3 * q + 3))
             = [i \in 1 .. 4 |-> B64!basis_64(Six(s, q, i - 1))]
<1> DEFINE g == B64!group(CharAt(s, 3 * q + 1), CharAt(s, 3 * q + 2), CharAt(s, 3 * q + 3))
<1>1. g = <<B64!basis_64(Six(s, q, 0)), B64!basis_64(Six(s, q, 1)),
            B64!basis_64(Six(s, q, 2)), B64!basis_64(Six(s, q, 3))>>
  BY DEF B64!group, Six
<1> HIDE DEF g
<1>2. \A i \in 1 .. 4 : i = 1 \/ i = 2 \/ i = 3 \/ i = 4
  OBVIOUS
<1> QED BY <1>1, <1>2 DEF g

\* The whole groups of the code of a text.
LEMMA WholeGroups ==
    ASSUME NEW s \in Seq(Chars), NEW full \in Nat, 3 * full <= Len(s)
    PROVE  LET w == B64!Groups(full, 4, LAMBDA j :
                       B64!group(s[3 * j + 1], s[3 * j + 2], s[3 * j + 3]))
           IN  /\ w \in Seq(Int) /\ Len(w) = 4 * full
               /\ \A q \in Nat, c \in 0 .. 3 : 4 * q + c + 1 <= 4 * full =>
                      w[4 * q + c + 1] = B64!basis_64(Six(s, q, c))
<1> DEFINE w == [i \in 1 .. full * 4 |->
                    B64!group(s[3 * ((i - 1) \div 4) + 1], s[3 * ((i - 1) \div 4) + 2],
                              s[3 * ((i - 1) \div 4) + 3])[((i - 1) % 4) + 1]]
<1>1. B64!Groups(full, 4, LAMBDA j : B64!group(s[3 * j + 1], s[3 * j + 2], s[3 * j + 3])) = w
  BY DEF B64!Groups
<1>2. ASSUME NEW q \in Nat, NEW c \in 0 .. 3, 4 * q + c + 1 <= 4 * full
      PROVE  w[4 * q + c + 1] = B64!basis_64(Six(s, q, c))
  <2>1. 4 * q + c + 1 \in 1 .. full * 4 /\ q < full
    BY <1>2
  <2>2. ((4 * q + c + 1 - 1) \div 4) = q /\ ((4 * q + c + 1 - 1) % 4) = c
    OBVIOUS
  <2>3. w[4 * q + c + 1] = B64!group(s[3 * q + 1], s[3 * q + 2], s[3 * q + 3])[c + 1]
    BY <2>1, <2>2
  <2>4. s[3 * q + 1] = CharAt(s, 3 * q + 1) /\ s[3 * q + 2] = CharAt(s, 3 * q + 2)
        /\ s[3 * q + 3] = CharAt(s, 3 * q + 3)
    BY <2>1 DEF CharAt
  <2>5. B64!group(s[3 * q + 1], s[3 * q + 2], s[3 * q + 3])
          = [i \in 1 .. 4 |-> B64!basis_64(Six(s, q, i - 1))]
    BY <2>4, GroupIs
  <2>6. c + 1 \in 1 .. 4 /\ (c + 1) - 1 = c
    OBVIOUS
  <2> HIDE DEF w
  <2> QED BY <2>3, <2>5, <2>6
<1>3. ASSUME NEW i \in 1 .. full * 4 PROVE w[i] \in Int
  <2> DEFINE q == (i - 1) \div 4
             c == (i - 1) % 4
  <2>1. q \in Nat /\ c \in 0 .. 3 /\ i = 4 * q + c + 1 /\ 4 * q + c + 1 <= 4 * full
    OBVIOUS
  <2> HIDE DEF q, c, w
  <2>2. w[i] = B64!basis_64(Six(s, q, c))
    BY <1>2, <2>1
  <2>3. Six(s, q, c) \in 0 .. 63
    BY <2>1, SixBits
  <2> QED BY ONLY <2>2, <2>3, BasisTells
<1>4. w \in Seq(Int) /\ Len(w) = 4 * full
  <2>1. w \in [1 .. 4 * full -> Int]
    BY <1>3
  <2> HIDE DEF w
  <2> QED BY <2>1
<1> HIDE DEF w
<1> QED BY <1>1, <1>2, <1>4

\* What is in a text of two parts and an end.
LEMMA CatAt ==
    ASSUME NEW w \in Seq(Int), NEW t \in Seq(Int), NEW z \in Int
    PROVE  LET e == w \o t \o <<z>>
           IN  /\ e \in Seq(Int) /\ Len(e) = Len(w) + Len(t) + 1
               /\ \A i \in 1 .. Len(w) : e[i] = w[i]
               /\ \A i \in 1 .. Len(t) : e[Len(w) + i] = t[i]
               /\ e[Len(w) + Len(t) + 1] = z
<1> DEFINE u == w \o t
           e == u \o <<z>>
<1>1. /\ u \in Seq(Int) /\ Len(u) = Len(w) + Len(t)
      /\ \A i \in 1 .. Len(w) : u[i] = w[i]
      /\ \A i \in 1 .. Len(t) : u[Len(w) + i] = t[i]
  OBVIOUS
<1> HIDE DEF u
<1>2. /\ e \in Seq(Int) /\ Len(e) = Len(u) + 1 /\ e[Len(u) + 1] = z
      /\ \A i \in 1 .. Len(u) : e[i] = u[i]
  BY <1>1
<1> HIDE DEF e
<1>3. Len(w) \in Nat /\ Len(t) \in Nat
  OBVIOUS
<1>4. ASSUME NEW i \in 1 .. Len(w) PROVE e[i] = w[i]
  BY <1>1, <1>2, <1>3
<1>5. ASSUME NEW i \in 1 .. Len(t) PROVE e[Len(w) + i] = t[i]
  <2>1. Len(w) + i \in 1 .. Len(u)
    BY <1>1, <1>3
  <2> QED BY <1>1, <1>2, <2>1
<1> QED BY <1>1, <1>2, <1>4, <1>5 DEF e, u

\* What encoding writes: the groups of six bits that carry some of the text, padding to a
\* multiple of four, and the NUL.
IsCode(s, e) ==
    /\ e \in Seq(Int) /\ Len(e) = 4 * ((Len(s) + 2) \div 3) + 1
    /\ \A q \in Nat, c \in 0 .. 3 : 4 * q + c + 1 <= Carrying(Len(s)) =>
           e[4 * q + c + 1] = B64!basis_64(Six(s, q, c))
    /\ \A i \in Carrying(Len(s)) + 1 .. Len(e) - 1 : e[i] = B64!Pad
    /\ e[Len(e)] = B64!NUL

\* For every text.
LEMMA Encoded ==
    ASSUME NEW s \in Seq(Chars)
    PROVE  IsCode(s, B64!Base64encode(s))
<1> DEFINE n == Len(s)
           full == n \div 3
           w == B64!Groups(full, 4, LAMBDA j :
                    B64!group(s[3 * j + 1], s[3 * j + 2], s[3 * j + 3]))
           one == B64!group(s[n], 0, 0)
           two == B64!group(s[n - 1], s[n], 0)
           tail == CASE n % 3 = 1 -> <<one[1], one[2], B64!Pad, B64!Pad>>
                     [] n % 3 = 2 -> <<two[1], two[2], two[3], B64!Pad>>
                     [] OTHER -> << >>
           e == w \o tail \o <<B64!NUL>>
           six(c) == B64!basis_64(Six(s, full, c))
<1>0. n \in Nat /\ full \in Nat /\ (n % 3) \in 0 .. 2 /\ n = 3 * full + (n % 3)
  OBVIOUS
<1>1. B64!Base64encode(s) = e
  BY DEF B64!Base64encode
<1>2. /\ w \in Seq(Int) /\ Len(w) = 4 * full
      /\ \A q \in Nat, c \in 0 .. 3 : 4 * q + c + 1 <= 4 * full =>
             w[4 * q + c + 1] = B64!basis_64(Six(s, q, c))
  <2>1. 3 * full <= Len(s)
    BY <1>0
  <2> HIDE DEF full
  <2> QED BY <1>0, <2>1, WholeGroups
<1>3. /\ \A c \in 0 .. 3 : six(c) \in Int
      /\ B64!Pad \in Int /\ B64!NUL \in Int
  <2> HIDE DEF full
  <2> QED BY <1>0, SixBits, BasisTells
<1>4. B64!group(CharAt(s, 3 * full + 1), CharAt(s, 3 * full + 2), CharAt(s, 3 * full + 3))
        = <<six(0), six(1), six(2), six(3)>>
  BY DEF B64!group, Six
<1>5. tail = IF n % 3 = 1 THEN <<six(0), six(1), B64!Pad, B64!Pad>>
             ELSE IF n % 3 = 2 THEN <<six(0), six(1), six(2), B64!Pad>> ELSE <<>>
  <2>1. CASE n % 3 = 1
    <3>1. s[n] = CharAt(s, 3 * full + 1) /\ CharAt(s, 3 * full + 2) = 0 /\ CharAt(s, 3 * full + 3) = 0
      BY <1>0, <2>1 DEF CharAt
    <3>2. one = <<six(0), six(1), six(2), six(3)>>
      BY <1>4, <3>1
    <3> HIDE DEF six, full, n, one, two
    <3>3. one[1] = six(0) /\ one[2] = six(1)
      BY <3>2
    <3>4. tail = <<one[1], one[2], B64!Pad, B64!Pad>>
      BY <2>1
    <3> HIDE DEF tail
    <3> QED BY <2>1, <3>3, <3>4
  <2>2. CASE n % 3 = 2
    <3>1. s[n - 1] = CharAt(s, 3 * full + 1) /\ s[n] = CharAt(s, 3 * full + 2)
          /\ CharAt(s, 3 * full + 3) = 0
      BY <1>0, <2>2 DEF CharAt
    <3>2. two = <<six(0), six(1), six(2), six(3)>>
      BY <1>4, <3>1
    <3> HIDE DEF six, full, n, one, two
    <3>3. two[1] = six(0) /\ two[2] = six(1) /\ two[3] = six(2)
      BY <3>2
    <3>4. tail = <<two[1], two[2], two[3], B64!Pad>>
      BY <2>2
    <3> HIDE DEF tail
    <3> QED BY <2>2, <3>3, <3>4
  <2>3. CASE n % 3 = 0
    <3> HIDE DEF n, one, two
    <3> QED BY <2>3
  <2> HIDE DEF tail, full, n
  <2> QED BY <1>0, <2>1, <2>2, <2>3
<1> HIDE DEF tail, w
<1>6. tail \in Seq(Int) /\ Len(tail) = IF n % 3 = 0 THEN 0 ELSE 4
  <2> HIDE DEF six, n
  <2> QED BY <1>0, <1>3, <1>5
<1>7. /\ e \in Seq(Int) /\ Len(e) = Len(w) + Len(tail) + 1
      /\ \A i \in 1 .. Len(w) : e[i] = w[i]
      /\ \A i \in 1 .. Len(tail) : e[Len(w) + i] = tail[i]
      /\ e[Len(w) + Len(tail) + 1] = B64!NUL
  <2>1. w \in Seq(Int) /\ tail \in Seq(Int) /\ B64!NUL \in Int
    BY <1>2, <1>3, <1>6
  <2> QED BY ONLY <2>1, CatAt
<1> HIDE DEF e
<1>8. /\ 4 * ((n + 2) \div 3) = 4 * full + (IF n % 3 = 0 THEN 0 ELSE 4)
      /\ Carrying(n) = 4 * full + (IF n % 3 = 0 THEN 0 ELSE (n % 3) + 1)
  <2> HIDE DEF n
  <2> QED BY <1>0 DEF Carrying
<1>9. ASSUME NEW q \in Nat, NEW c \in 0 .. 3, 4 * q + c + 1 <= Carrying(n)
      PROVE  e[4 * q + c + 1] = B64!basis_64(Six(s, q, c))
  <2>1. CASE 4 * q + c + 1 <= 4 * full
    <3>1. 4 * q + c + 1 \in 1 .. Len(w)
      BY <1>0, <1>2, <2>1
    <3>2. w[4 * q + c + 1] = B64!basis_64(Six(s, q, c))
      BY <1>2, <2>1
    <3> QED BY <1>7, <3>1, <3>2
  <2>2. CASE 4 * q + c + 1 > 4 * full
    <3> HIDE DEF full, n
    <3>1. q = full /\ (((n % 3) = 1 /\ c \in 0 .. 1) \/ ((n % 3) = 2 /\ c \in 0 .. 2))
      BY <1>0, <1>8, <1>9, <2>2
    <3>2. c + 1 \in 1 .. Len(tail) /\ Len(w) + (c + 1) = 4 * q + c + 1
      BY <1>0, <1>2, <1>6, <3>1
    <3>3. e[4 * q + c + 1] = tail[c + 1]
      <4>1. e[Len(w) + (c + 1)] = tail[c + 1]
        BY <1>7, <3>2
      <4> QED BY <3>2, <4>1
    <3>4. tail[c + 1] = six(c)
      <4>1. c = 0 \/ c = 1 \/ (c = 2 /\ n % 3 = 2)
        BY <1>0, <3>1
      <4> HIDE DEF six
      <4> QED BY <1>3, <1>5, <3>1, <4>1
    <3> QED BY <3>1, <3>3, <3>4
  <2> HIDE DEF full, n
  <2> QED BY <1>0, <2>1, <2>2
<1>10. ASSUME NEW i \in Carrying(n) + 1 .. Len(e) - 1 PROVE e[i] = B64!Pad
  <2> HIDE DEF full, n
  <2> DEFINE j == i - 4 * full
  <2>0. i \in Int /\ n % 3 # 0 /\ j \in (n % 3) + 2 .. 4 /\ i = 4 * full + j
    BY <1>0, <1>2, <1>6, <1>7, <1>8
  <2> HIDE DEF j
  <2>1. j \in 1 .. Len(tail) /\ i = Len(w) + j
    BY <1>0, <1>2, <1>6, <2>0
  <2>2. e[i] = tail[j]
    BY <1>7, <2>1
  <2>3. (n % 3 = 1 /\ (j = 3 \/ j = 4)) \/ (n % 3 = 2 /\ j = 4)
    BY <1>0, <2>0
  <2> HIDE DEF six
  <2>4. tail[j] = B64!Pad
    BY <1>3, <1>5, <2>3
  <2> QED BY <2>2, <2>4
<1>11. Len(e) = 4 * ((n + 2) \div 3) + 1 /\ e[Len(e)] = B64!NUL
  <2> HIDE DEF full, n
  <2> QED BY <1>0, <1>2, <1>6, <1>7, <1>8
<1> QED BY <1>1, <1>7, <1>9, <1>10, <1>11 DEF IsCode


\* The smallest number of a set is the one that is below all others.
LEMMA MinIs ==
    ASSUME NEW S \in SUBSET Int, NEW m \in S, \A k \in S : m <= k
    PROVE  B64!Min(S) = m
<1>1. \A x \in S : (\A y \in S : x <= y) => x = m
  OBVIOUS
<1> QED BY <1>1 DEF B64!Min

\* The table of decoding has numbers only.
LEMMA TableInt == \A i \in Int : B64!pr2six(i) \in Int /\ B64!Signed(i) \in Int
BY DEF B64!pr2six, B64!Signed

\* Where the first char outside the alphabet is.
LEMMA Alphabet ==
    ASSUME NEW b \in Seq(Int), NEW p \in Nat, p < Len(b),
           \A i \in 1 .. p : B64!pr2six(b[i]) <= 63, B64!pr2six(b[p + 1]) > 63
    PROVE  B64!nprbytes(b) = p
<1> DEFINE S == {i \in DOMAIN b : B64!pr2six(b[i]) > 63}
<1>1. \A i \in DOMAIN b : B64!pr2six(b[i]) \in Int
  <2>1. \A i \in DOMAIN b : b[i] \in Int
    OBVIOUS
  <2> QED BY <2>1, TableInt
<1>2. S \in SUBSET Int /\ p + 1 \in S
  OBVIOUS
<1>3. \A k \in S : p + 1 <= k
  <2> SUFFICES ASSUME NEW k \in S, k <= p PROVE FALSE
    OBVIOUS
  <2>1. k \in 1 .. p
    OBVIOUS
  <2> QED BY <1>1, <2>1
<1> HIDE DEF S
<1>4. B64!Min(S) = p + 1
  BY <1>2, <1>3, MinIs
<1> QED BY <1>4 DEF S, B64!nprbytes

\* A text that ends with a NUL has such a char.
LEMMA AlphabetEnds ==
    ASSUME NEW b \in Seq(Int), Len(b) > 0, b[Len(b)] = B64!NUL
    PROVE  B64!nprbytes(b) \in Nat /\ B64!nprbytes(b) < Len(b)
<1> DEFINE S == {i \in DOMAIN b : B64!pr2six(b[i]) > 63}
<1>1. S \in SUBSET Nat /\ Len(b) \in S
  <2>1. B64!pr2six(b[Len(b)]) = 64
    BY BasisTells
  <2>2. Len(b) \in DOMAIN b /\ DOMAIN b \subseteq Nat
    OBVIOUS
  <2> QED BY <2>1, <2>2
<1>2. \A i \in S : i \in 1 .. Len(b)
  OBVIOUS
<1>3. B64!nprbytes(b) = B64!Min(S) - 1
  BY DEF B64!nprbytes
<1> HIDE DEF S
<1>4. PICK m \in S : \A k \in S : m <= k
  BY <1>1, LeastNumber
<1>5. B64!Min(S) = m
  BY <1>1, <1>4, MinIs
<1> QED BY <1>2, <1>3, <1>5

\* Byte c of group q of a decoded text, and how many bytes p chars give.
Byte(b, q, c) ==
    LET v(k) == B64!pr2six(b[4 * q + k])
    IN  IF c = 0 THEN B64!Signed((v(1) * 4 + v(2) \div 16) % 256)
        ELSE IF c = 1 THEN B64!Signed((v(2) * 16 + v(3) \div 4) % 256)
        ELSE B64!Signed((v(3) * 64 + v(4)) % 256)
Decodes(p) == 3 * (p \div 4) + (IF (p % 4) > 1 THEN (p % 4) - 1 ELSE 0)

\* The bytes of a group of two to four chars.
LEMMA Ungrouped ==
    ASSUME NEW b \in Seq(Int), NEW q \in Nat, NEW n \in 2 .. 4, 4 * q + n <= Len(b)
    PROVE  /\ B64!ungroup(b, 4 * q, n) \in Seq(Int)
           /\ Len(B64!ungroup(b, 4 * q, n)) = n - 1
           /\ \A c \in 0 .. n - 2 : B64!ungroup(b, 4 * q, n)[c + 1] = Byte(b, q, c)
<1> DEFINE v(k) == IF k <= n THEN B64!pr2six(b[4 * q + k]) ELSE 0
           x == B64!Signed((v(1) * 4 + v(2) \div 16) % 256)
           y == B64!Signed((v(2) * 16 + v(3) \div 4) % 256)
           z == B64!Signed((v(3) * 64 + v(4)) % 256)
<1>1. B64!ungroup(b, 4 * q, n) = SubSeq(<<x, y, z>>, 1, n - 1)
  BY DEF B64!ungroup
<1>2. ASSUME NEW k \in 1 .. 4 PROVE v(k) \in Int
  <2>1. k <= n => b[4 * q + k] \in Int
    OBVIOUS
  <2>2. k <= n => B64!pr2six(b[4 * q + k]) \in Int
    BY <2>1, TableInt
  <2> QED BY <2>2
<1>4. x \in Int /\ y \in Int /\ z \in Int
  <2>1. v(1) \in Int /\ v(2) \in Int /\ v(3) \in Int /\ v(4) \in Int
    BY <1>2
  <2> HIDE DEF v
  <2>2. ((v(1) * 4 + v(2) \div 16) % 256) \in Int
    BY ONLY <2>1
  <2>3. ((v(2) * 16 + v(3) \div 4) % 256) \in Int
    BY ONLY <2>1
  <2>4. ((v(3) * 64 + v(4)) % 256) \in Int
    BY ONLY <2>1
  <2> QED BY <2>2, <2>3, <2>4, TableInt, Zenon
<1>5. /\ Byte(b, q, 0) = x
      /\ n >= 3 => Byte(b, q, 1) = y
      /\ n >= 4 => Byte(b, q, 2) = z
  BY DEF Byte
<1> HIDE DEF x, y, z
<1>6. /\ SubSeq(<<x, y, z>>, 1, n - 1) \in Seq(Int)
      /\ Len(SubSeq(<<x, y, z>>, 1, n - 1)) = n - 1
      /\ \A i \in 1 .. n - 1 : SubSeq(<<x, y, z>>, 1, n - 1)[i] = <<x, y, z>>[i]
  BY <1>4, SMTT(30)
<1>7. ASSUME NEW c \in 0 .. n - 2 PROVE <<x, y, z>>[c + 1] = Byte(b, q, c)
  <2>1. c = 0 \/ (c = 1 /\ n >= 3) \/ (c = 2 /\ n >= 4)
    OBVIOUS
  <2> QED BY <1>4, <1>5, <2>1, SMTT(30)
<1>8. \A c \in 0 .. n - 2 : c + 1 \in 1 .. n - 1
  OBVIOUS
<1> QED BY <1>1, <1>6, <1>7, <1>8

\* The bytes that the loop of decoding writes.
LEMMA WholeUngrouped ==
    ASSUME NEW b \in Seq(Int), NEW loops \in Nat, 4 * loops <= Len(b)
    PROVE  LET w == B64!Groups(loops, 3, LAMBDA j : B64!ungroup(b, 4 * j, 4))
           IN  /\ w \in Seq(Int) /\ Len(w) = 3 * loops
               /\ \A q \in Nat, c \in 0 .. 2 : 3 * q + c + 1 <= 3 * loops =>
                      w[3 * q + c + 1] = Byte(b, q, c)
<1> DEFINE w == [i \in 1 .. loops * 3 |->
                    B64!ungroup(b, 4 * ((i - 1) \div 3), 4)[((i - 1) % 3) + 1]]
<1>1. B64!Groups(loops, 3, LAMBDA j : B64!ungroup(b, 4 * j, 4)) = w
  BY DEF B64!Groups
<1>2. ASSUME NEW q \in Nat, NEW c \in 0 .. 2, 3 * q + c + 1 <= 3 * loops
      PROVE  /\ w[3 * q + c + 1] = Byte(b, q, c)
             /\ w[3 * q + c + 1] \in Int
  <2>1. 3 * q + c + 1 \in 1 .. loops * 3 /\ q < loops
    BY <1>2
  <2>2. ((3 * q + c + 1 - 1) \div 3) = q /\ ((3 * q + c + 1 - 1) % 3) = c
    OBVIOUS
  <2> DEFINE u == B64!ungroup(b, 4 * q, 4)
  <2>3. w[3 * q + c + 1] = u[c + 1]
    BY <2>1, <2>2
  <2>4. 4 * q + 4 <= Len(b) /\ 4 \in 2 .. 4
    BY <2>1
  <2>5. u \in Seq(Int) /\ Len(u) = 4 - 1 /\ \A k \in 0 .. 4 - 2 : u[k + 1] = Byte(b, q, k)
    BY <2>4, Ungrouped
  <2>6. c + 1 \in 1 .. 3 /\ c \in 0 .. 4 - 2
    OBVIOUS
  <2> HIDE DEF w, u
  <2>7. u[c + 1] \in Int
    <3>1. \A i \in 1 .. Len(u) : u[i] \in Int
      BY <2>5, ElementOfSeq
    <3>2. c + 1 \in 1 .. Len(u)
      BY <2>5, <2>6
    <3> QED BY <3>1, <3>2
  <2> QED BY <2>3, <2>5, <2>6, <2>7
<1>3. ASSUME NEW i \in 1 .. loops * 3 PROVE w[i] \in Int
  <2> DEFINE q == (i - 1) \div 3
             c == (i - 1) % 3
  <2>1. q \in Nat /\ c \in 0 .. 2 /\ i = 3 * q + c + 1 /\ 3 * q + c + 1 <= 3 * loops
    OBVIOUS
  <2> HIDE DEF q, c, w
  <2> QED BY <1>2, <2>1
<1>4. w \in Seq(Int) /\ Len(w) = 3 * loops
  <2>1. w \in [1 .. 3 * loops -> Int]
    BY <1>3
  <2> HIDE DEF w
  <2> QED BY <2>1
<1> HIDE DEF w
<1> QED BY <1>1, <1>2, <1>4

\* How many chars the loop of decoding reads, how many it leaves, and the count returned.
LEMMA DecodeCounts ==
    ASSUME NEW p \in Nat
    PROVE  LET loops == IF p > 4 THEN (p - 1) \div 4 ELSE 0
               rest == p - 4 * loops
           IN  /\ loops \in Nat /\ rest \in 0 .. 4 /\ p = 4 * loops + rest
               /\ Decodes(p) = 3 * loops + (IF rest > 1 THEN rest - 1 ELSE 0)
               /\ ((p + 3) \div 4) * 3 - ((4 - rest) % 4) = Decodes(p)
<1> DEFINE loops == IF p > 4 THEN (p - 1) \div 4 ELSE 0
           rest == p - 4 * loops
<1> DEFINE a == p \div 4
           r == p % 4
<1>1. a \in Nat /\ r \in 0 .. 3 /\ p = 4 * a + r
  OBVIOUS
<1>2. loops = IF r # 0 THEN a ELSE IF a = 0 THEN 0 ELSE a - 1
  BY <1>1
<1>3. Decodes(p) = 3 * a + (IF r > 1 THEN r - 1 ELSE 0)
  BY DEF Decodes
<1>4. ((p + 3) \div 4) = IF r = 0 THEN a ELSE a + 1
  BY <1>1
<1> HIDE DEF a, r
<1>5. loops \in Nat /\ rest = IF r # 0 THEN r ELSE IF a = 0 THEN 0 ELSE 4
  BY <1>1, <1>2
<1> HIDE DEF loops, rest
<1>6. ((4 - rest) % 4) = IF r = 0 THEN 0 ELSE 4 - r
  <2>1. rest \in 0 .. 4 /\ (rest = 0 \/ rest = 4 \/ rest = r)
    BY <1>1, <1>5
  <2>2. (4 % 4) = 0 /\ (0 % 4) = 0 /\ (3 % 4) = 3 /\ (2 % 4) = 2 /\ (1 % 4) = 1
    OBVIOUS
  <2>3. CASE r = 0
    BY <1>5, <2>2, <2>3
  <2>4. CASE r # 0
    <3>1. rest = r /\ (4 - r = 1 \/ 4 - r = 2 \/ 4 - r = 3)
      BY <1>1, <1>5, <2>4
    <3> QED BY <2>2, <2>4, <3>1
  <2> QED BY <2>3, <2>4
<1> HIDE DEF Decodes
<1>7. p = 4 * loops + rest /\ rest \in 0 .. 4
  BY <1>1, <1>2, <1>5
<1>8. Decodes(p) = 3 * loops + (IF rest > 1 THEN rest - 1 ELSE 0)
  BY <1>1, <1>2, <1>3, <1>5
<1>9. ((p + 3) \div 4) * 3 - ((4 - rest) % 4) = Decodes(p)
  BY <1>1, <1>3, <1>4, <1>6
<1> QED BY <1>5, <1>7, <1>8, <1>9 DEF loops, rest

\* What decoding writes, its last group included, and the count it returns.
LEMMA Decoded ==
    ASSUME NEW b \in Seq(Int), NEW p \in Nat, p = B64!nprbytes(b), p <= Len(b)
    PROVE  LET d == B64!Base64decode(b)
           IN  /\ d.bytes \in Seq(Int) /\ Len(d.bytes) = Decodes(p) + 1
               /\ d.count = Decodes(p)
               /\ \A q \in Nat, c \in 0 .. 2 : 3 * q + c + 1 <= Decodes(p) =>
                      d.bytes[3 * q + c + 1] = Byte(b, q, c)
               /\ d.bytes[Decodes(p) + 1] = B64!NUL
<1> DEFINE loops == IF p > 4 THEN (p - 1) \div 4 ELSE 0
           rest == p - 4 * loops
           w == B64!Groups(loops, 3, LAMBDA j : B64!ungroup(b, 4 * j, 4))
           tail == IF rest > 1 THEN B64!ungroup(b, 4 * loops, rest) ELSE <<>>
           e == w \o tail \o <<B64!NUL>>
           d == B64!Base64decode(b)
<1>1. d.bytes = e /\ d.count = ((p + 3) \div 4) * 3 - ((4 - rest) % 4)
  BY DEF B64!Base64decode
<1>2. /\ loops \in Nat /\ rest \in 0 .. 4 /\ p = 4 * loops + rest
      /\ Decodes(p) = 3 * loops + (IF rest > 1 THEN rest - 1 ELSE 0)
      /\ ((p + 3) \div 4) * 3 - ((4 - rest) % 4) = Decodes(p)
  <2>1. p \in Nat
    OBVIOUS
  <2> QED BY ONLY <2>1, DecodeCounts
<1> HIDE DEF loops, rest, d
<1>3. /\ w \in Seq(Int) /\ Len(w) = 3 * loops
      /\ \A q \in Nat, c \in 0 .. 2 : 3 * q + c + 1 <= 3 * loops =>
             w[3 * q + c + 1] = Byte(b, q, c)
  <2>1. 4 * loops <= Len(b)
    BY <1>2
  <2> QED BY <1>2, <2>1, WholeUngrouped
<1> HIDE DEF w
<1>4. /\ tail \in Seq(Int) /\ Len(tail) = IF rest > 1 THEN rest - 1 ELSE 0
      /\ rest > 1 => \A c \in 0 .. rest - 2 : tail[c + 1] = Byte(b, loops, c)
  <2>1. CASE rest > 1
    <3>1. rest \in 2 .. 4 /\ 4 * loops + rest <= Len(b)
      BY <1>2, <2>1
    <3> QED BY <1>2, <2>1, <3>1, Ungrouped
  <2>2. CASE ~ (rest > 1)
    BY <2>2
  <2> HIDE DEF tail
  <2> QED BY <2>1, <2>2
<1> HIDE DEF tail
<1>5. /\ e \in Seq(Int) /\ Len(e) = Len(w) + Len(tail) + 1
      /\ \A i \in 1 .. Len(w) : e[i] = w[i]
      /\ \A i \in 1 .. Len(tail) : e[Len(w) + i] = tail[i]
      /\ e[Len(w) + Len(tail) + 1] = B64!NUL
  <2>1. B64!NUL \in Int /\ w \in Seq(Int) /\ tail \in Seq(Int)
    BY <1>3, <1>4, BasisTells
  <2> QED BY <2>1, CatAt
<1> HIDE DEF e
<1>6. Len(w) + Len(tail) = Decodes(p)
  BY <1>2, <1>3, <1>4
<1>7. ASSUME NEW q \in Nat, NEW c \in 0 .. 2, 3 * q + c + 1 <= Decodes(p)
      PROVE  e[3 * q + c + 1] = Byte(b, q, c)
  <2>1. CASE 3 * q + c + 1 <= 3 * loops
    <3>1. 3 * q + c + 1 \in 1 .. Len(w)
      BY <1>2, <1>3, <2>1
    <3>2. w[3 * q + c + 1] = Byte(b, q, c)
      BY <1>3, <2>1
    <3> QED BY <1>5, <3>1, <3>2
  <2>2. CASE 3 * q + c + 1 > 3 * loops
    <3>1. q = loops /\ rest > 1 /\ c \in 0 .. rest - 2
      BY <1>2, <1>7, <2>2
    <3>2. c + 1 \in 1 .. Len(tail) /\ Len(w) + (c + 1) = 3 * q + c + 1
      BY <1>2, <1>3, <1>4, <3>1
    <3>3. e[Len(w) + (c + 1)] = tail[c + 1]
      BY <1>5, <3>2
    <3>4. tail[c + 1] = Byte(b, q, c)
      BY <1>4, <3>1
    <3> QED BY <3>2, <3>3, <3>4
  <2> QED BY <1>2, <2>1, <2>2
<1> QED BY <1>1, <1>2, <1>5, <1>6, <1>7 DEF d


\* A C string ends before its first NUL.
LEMMA StringEnds ==
    ASSUME NEW e \in Seq(Int), Len(e) > 0, e[Len(e)] = B64!NUL,
           \A i \in 1 .. Len(e) - 1 : e[i] # B64!NUL
    PROVE  B64!CString(e) = SubSeq(e, 1, Len(e) - 1)
<1> DEFINE S == {i \in DOMAIN e : e[i] = B64!NUL}
<1>1. S = {Len(e)} /\ Len(e) \in Nat
  OBVIOUS
<1>2. B64!Min(S) = Len(e)
  <2>1. S \in SUBSET Int /\ Len(e) \in S /\ \A k \in S : Len(e) <= k
    BY <1>1
  <2> HIDE DEF S
  <2> QED BY <2>1, MinIs
<1> QED BY <1>2 DEF B64!CString

\* The numbers of chars and bytes that coding and decoding count.
LEMMA CountsAgree ==
    ASSUME NEW n \in Nat
    PROVE  /\ Carrying(n) \in Nat /\ Decodes(Carrying(n)) = n
           /\ Carrying(n) <= 4 * ((n + 2) \div 3) /\ 4 * ((n + 2) \div 3) - Carrying(n) < 4
           /\ \A q \in Nat, c \in 0 .. 2 : 3 * q + c + 1 <= n => 4 * q + c + 2 <= Carrying(n)
           /\ (n > 0 => (n + 2) \div 3 > 0) /\ (n + 2) \div 3 \in Nat
<1> DEFINE f == n \div 3
           r == n % 3
<1>1. f \in Nat /\ r \in 0 .. 2 /\ n = 3 * f + r
  OBVIOUS
<1> HIDE DEF f, r
<1>2. /\ Carrying(n) = 4 * f + (IF r = 0 THEN 0 ELSE r + 1)
      /\ ((n + 2) \div 3) = IF r = 0 THEN f ELSE f + 1
  BY <1>1 DEF Carrying
<1> DEFINE p == Carrying(n)
<1> HIDE DEF p
<1>3. p = 4 * f + (IF r = 0 THEN 0 ELSE r + 1)
  BY <1>2 DEF p
<1>4. p \in Nat /\ Decodes(p) = n
  <2>1. p \in Nat /\ (p \div 4) = f /\ (p % 4) = IF r = 0 THEN 0 ELSE r + 1
    BY <1>1, <1>3
  <2> QED BY <1>1, <2>1 DEF Decodes
<1>5. \A q \in Nat, c \in 0 .. 2 : 3 * q + c + 1 <= n => 4 * q + c + 2 <= p
  BY <1>1, <1>3
<1>6. p <= 4 * ((n + 2) \div 3) /\ 4 * ((n + 2) \div 3) - p < 4
  BY <1>1, <1>2, <1>3
<1>7. (n > 0 => (n + 2) \div 3 > 0) /\ (n + 2) \div 3 \in Nat
  BY <1>1, <1>2
<1> QED BY <1>4, <1>5, <1>6, <1>7 DEF p

\* What the code of a text starts with, and where it ends.
LEMMA CodeEnds ==
    ASSUME NEW s \in Seq(Chars), NEW e, IsCode(s, e)
    PROVE  /\ e \in Seq(Int) /\ Len(e) > 0 /\ e[Len(e)] = B64!NUL
           /\ Carrying(Len(s)) < Len(e)
           /\ B64!nprbytes(e) = Carrying(Len(s))
           /\ B64!CString(e) = SubSeq(e, 1, Len(e) - 1)
           /\ \A q \in Nat, c \in 0 .. 3 : 4 * q + c + 1 <= Carrying(Len(s)) =>
                  B64!pr2six(e[4 * q + c + 1]) = Six(s, q, c)
<1> DEFINE n == Len(s)
           p == Carrying(n)
<1>0. n \in Nat /\ p \in Nat /\ p <= 4 * ((n + 2) \div 3) /\ (n + 2) \div 3 \in Nat
  <2>1. n \in Nat
    OBVIOUS
  <2> HIDE DEF n
  <2> QED BY <2>1, CountsAgree
<1>1. /\ e \in Seq(Int) /\ Len(e) = 4 * ((n + 2) \div 3) + 1
      /\ \A q \in Nat, c \in 0 .. 3 : 4 * q + c + 1 <= p =>
             e[4 * q + c + 1] = B64!basis_64(Six(s, q, c))
      /\ \A i \in p + 1 .. Len(e) - 1 : e[i] = B64!Pad
      /\ e[Len(e)] = B64!NUL
  BY DEF IsCode
<1> HIDE DEF n, p
<1>2. Len(e) > 0 /\ p < Len(e) /\ Len(e) \in Nat
  BY <1>0, <1>1
<1>3. ASSUME NEW q \in Nat, NEW c \in 0 .. 3, 4 * q + c + 1 <= p
      PROVE  B64!pr2six(e[4 * q + c + 1]) = Six(s, q, c)
  <2>1. e[4 * q + c + 1] = B64!basis_64(Six(s, q, c))
    BY <1>1, <1>3
  <2> QED BY <2>1, SixBits, BasisTells
<1>4. ASSUME NEW i \in 1 .. p PROVE e[i] # B64!NUL /\ B64!pr2six(e[i]) <= 63
  <2> DEFINE q == (i - 1) \div 4
             c == (i - 1) % 4
  <2>1. q \in Nat /\ c \in 0 .. 3 /\ i = 4 * q + c + 1 /\ 4 * q + c + 1 <= p
    BY <1>0
  <2> HIDE DEF q, c
  <2>2. PICK v \in 0 .. 63 : e[i] = B64!basis_64(v)
    BY <1>1, <2>1, SixBits
  <2>3. e[i] # B64!NUL /\ B64!pr2six(e[i]) = v
    BY <2>2, BasisTells
  <2> QED BY <2>3
<1>5. B64!pr2six(e[p + 1]) = 64
  <2>1. CASE p + 1 = Len(e)
    BY <1>1, <2>1, BasisTells
  <2>2. CASE p + 1 # Len(e)
    <3>1. p + 1 \in p + 1 .. Len(e) - 1
      BY <1>0, <1>2, <2>2
    <3> QED BY <1>1, <3>1, BasisTells
  <2> QED BY <2>1, <2>2
<1>6. B64!nprbytes(e) = p
  <2>1. B64!pr2six(e[p + 1]) > 63
    BY <1>5
  <2> QED BY <1>0, <1>1, <1>2, <1>4, <2>1, Alphabet
<1>7. ASSUME NEW i \in 1 .. Len(e) - 1 PROVE e[i] # B64!NUL
  <2>1. i \in 1 .. p \/ i \in p + 1 .. Len(e) - 1
    BY <1>0, <1>2
  <2> QED BY <1>1, <1>4, <2>1, BasisTells
<1>8. B64!CString(e) = SubSeq(e, 1, Len(e) - 1)
  BY <1>1, <1>2, <1>7, StringEnds
<1> QED BY <1>1, <1>2, <1>3, <1>6, <1>8 DEF p, n

\* The bytes of three chars come back from their groups of six bits.
LEMMA BitsBack ==
    ASSUME NEW x \in Chars, NEW y \in Chars, NEW z \in Chars
    PROVE  LET v1 == B64!Bits(x, 2, 6)
               v2 == B64!Bits(x, 0, 2) * 16 + B64!Bits(y, 4, 4)
               v3 == B64!Bits(y, 0, 4) * 4 + B64!Bits(z, 6, 2)
               v4 == B64!Bits(z, 0, 6)
           IN  /\ B64!Signed((v1 * 4 + v2 \div 16) % 256) = x
               /\ B64!Signed((v2 * 16 + v3 \div 4) % 256) = y
               /\ B64!Signed((v3 * 64 + v4) % 256) = z
<1>1. \A a \in Chars : B64!Signed(a % 256) = a
  BY DEF B64!Signed, Chars
<1>2. ((B64!Bits(x, 2, 6) * 4 + (B64!Bits(x, 0, 2) * 16 + B64!Bits(y, 4, 4)) \div 16) % 256)
        = (x % 256)
  BY DEF B64!Bits, Chars
<1>3. (((B64!Bits(x, 0, 2) * 16 + B64!Bits(y, 4, 4)) * 16
         + (B64!Bits(y, 0, 4) * 4 + B64!Bits(z, 6, 2)) \div 4) % 256) = (y % 256)
  BY DEF B64!Bits, Chars
<1>4. (((B64!Bits(y, 0, 4) * 4 + B64!Bits(z, 6, 2)) * 64 + B64!Bits(z, 0, 6)) % 256)
        = (z % 256)
  BY DEF B64!Bits, Chars
<1> QED BY <1>1, <1>2, <1>3, <1>4

\* Decoding the code of a text gives the text.
LEMMA ComesBack ==
    ASSUME NEW s \in Seq(Chars), NEW e, IsCode(s, e)
    PROVE  LET d == B64!Base64decode(e)
           IN  d.count = Len(s) /\ d.bytes = Append(s, B64!NUL)
<1> DEFINE n == Len(s)
           p == Carrying(n)
           d == B64!Base64decode(e)
<1>1. n \in Nat /\ p \in Nat /\ Decodes(p) = n
      /\ \A q \in Nat, c \in 0 .. 2 : 3 * q + c + 1 <= n => 4 * q + c + 2 <= p
  <2>1. n \in Nat
    OBVIOUS
  <2> HIDE DEF n
  <2> QED BY <2>1, CountsAgree
<1>2. /\ e \in Seq(Int) /\ p < Len(e) /\ B64!nprbytes(e) = p
      /\ \A q \in Nat, c \in 0 .. 3 : 4 * q + c + 1 <= p =>
             B64!pr2six(e[4 * q + c + 1]) = Six(s, q, c)
  BY CodeEnds
<1>n. n = Len(s)
  OBVIOUS
<1> HIDE DEF n, p
<1>3. /\ d.bytes \in Seq(Int) /\ Len(d.bytes) = n + 1 /\ d.count = n
      /\ \A q \in Nat, c \in 0 .. 2 : 3 * q + c + 1 <= n =>
             d.bytes[3 * q + c + 1] = Byte(e, q, c)
      /\ d.bytes[n + 1] = B64!NUL
  <2>1. p <= Len(e) /\ p = B64!nprbytes(e)
    BY <1>1, <1>2
  <2>2. /\ d.bytes \in Seq(Int) /\ Len(d.bytes) = Decodes(p) + 1 /\ d.count = Decodes(p)
        /\ \A q \in Nat, c \in 0 .. 2 : 3 * q + c + 1 <= Decodes(p) =>
               d.bytes[3 * q + c + 1] = Byte(e, q, c)
        /\ d.bytes[Decodes(p) + 1] = B64!NUL
    BY <1>1, <1>2, <2>1, Decoded
  <2> HIDE DEF d
  <2> QED BY <1>1, <2>2
<1> HIDE DEF d
<1>4. ASSUME NEW q \in Nat, NEW c \in 0 .. 2, 3 * q + c + 1 <= n
      PROVE  Byte(e, q, c) = s[3 * q + c + 1]
  <2> DEFINE v(k) == B64!pr2six(e[4 * q + k])
             x == CharAt(s, 3 * q + 1)
             y == CharAt(s, 3 * q + 2)
             z == CharAt(s, 3 * q + 3)
  <2>1. \A k \in 1 .. 4 : k <= c + 2 => v(k) = Six(s, q, k - 1)
    <3> SUFFICES ASSUME NEW k \in 1 .. 4, k <= c + 2 PROVE v(k) = Six(s, q, k - 1)
      OBVIOUS
    <3>1. 4 * q + c + 2 <= p
      BY <1>1, <1>4
    <3>2. k - 1 \in 0 .. 3 /\ 4 * q + (k - 1) + 1 = 4 * q + k /\ 4 * q + (k - 1) + 1 <= p
      BY <1>1, <3>1
    <3>3. B64!pr2six(e[4 * q + (k - 1) + 1]) = Six(s, q, k - 1)
      BY <1>2, <3>2
    <3> QED BY <3>2, <3>3
  <2>2. x \in Chars /\ y \in Chars /\ z \in Chars
    BY AtChar
  <2>3. v(1) = Six(s, q, 0) /\ v(2) = Six(s, q, 1)
        /\ (c >= 1 => v(3) = Six(s, q, 2)) /\ (c = 2 => v(4) = Six(s, q, 3))
    <3> HIDE DEF v
    <3> QED BY <2>1
  <2>4. /\ Six(s, q, 0) = B64!Bits(x, 2, 6)
        /\ Six(s, q, 1) = B64!Bits(x, 0, 2) * 16 + B64!Bits(y, 4, 4)
        /\ Six(s, q, 2) = B64!Bits(y, 0, 4) * 4 + B64!Bits(z, 6, 2)
        /\ Six(s, q, 3) = B64!Bits(z, 0, 6)
    BY DEF Six
  <2>5. Byte(e, q, c) = IF c = 0 THEN B64!Signed((v(1) * 4 + v(2) \div 16) % 256)
                        ELSE IF c = 1 THEN B64!Signed((v(2) * 16 + v(3) \div 4) % 256)
                        ELSE B64!Signed((v(3) * 64 + v(4)) % 256)
    BY DEF Byte
  <2>6. s[3 * q + c + 1] = IF c = 0 THEN x ELSE IF c = 1 THEN y ELSE z
    BY <1>n, <1>1, <1>4 DEF CharAt
  <2>7. /\ B64!Signed((Six(s, q, 0) * 4 + Six(s, q, 1) \div 16) % 256) = x
        /\ B64!Signed((Six(s, q, 1) * 16 + Six(s, q, 2) \div 4) % 256) = y
        /\ B64!Signed((Six(s, q, 2) * 64 + Six(s, q, 3)) % 256) = z
    <3> HIDE DEF x, y, z
    <3> QED BY <2>2, <2>4, BitsBack
  <2> HIDE DEF v, x, y, z
  <2>8. CASE c = 0
    BY <2>3, <2>5, <2>6, <2>7, <2>8
  <2>9. CASE c = 1
    <3>1. v(2) = Six(s, q, 1) /\ v(3) = Six(s, q, 2)
      BY <2>3, <2>9
    <3> QED BY <2>5, <2>6, <2>7, <2>9, <3>1
  <2>10. CASE c = 2
    <3>1. v(3) = Six(s, q, 2) /\ v(4) = Six(s, q, 3)
      BY <2>3, <2>10
    <3> QED BY <2>5, <2>6, <2>7, <2>10, <3>1
  <2> QED BY <2>8, <2>9, <2>10
<1>5. ASSUME NEW i \in 1 .. n PROVE d.bytes[i] = s[i]
  <2> DEFINE q == (i - 1) \div 3
             c == (i - 1) % 3
  <2>1. q \in Nat /\ c \in 0 .. 2 /\ i = 3 * q + c + 1 /\ 3 * q + c + 1 <= n
    BY <1>1
  <2> HIDE DEF q, c
  <2>2. d.bytes[3 * q + c + 1] = s[3 * q + c + 1]
    BY <1>3, <1>4, <2>1
  <2> QED BY <2>1, <2>2
<1>6. d.bytes = Append(s, B64!NUL)
  <2> DEFINE a == Append(s, B64!NUL)
             w == d.bytes
  <2>1. s \in Seq(Int)
    <3>1. \A i \in 1 .. Len(s) : s[i] \in Chars
      BY ElementOfSeq
    <3>0. \A x \in Chars : x \in Int
      BY DEF Chars
    <3>2. \A i \in 1 .. Len(s) : s[i] \in Int
      BY <3>0, <3>1
    <3>3. s = [i \in 1 .. Len(s) |-> s[i]] /\ Len(s) \in Nat
      OBVIOUS
    <3>4. s \in [1 .. Len(s) -> Int]
      BY <3>2, <3>3
    <3> QED BY <3>3, <3>4
  <2>2. a \in Seq(Int) /\ Len(a) = n + 1 /\ a[n + 1] = B64!NUL /\ \A i \in 1 .. n : a[i] = s[i]
    BY <1>n, <2>1, BasisTells
  <2>3. w \in Seq(Int) /\ Len(w) = n + 1 /\ w[n + 1] = B64!NUL /\ \A i \in 1 .. n : w[i] = s[i]
    BY <1>3, <1>5
  <2> HIDE DEF a, w
  <2>4. \A i \in 1 .. n + 1 : w[i] = a[i]
    <3>1. \A i \in 1 .. n + 1 : i \in 1 .. n \/ i = n + 1
      BY ONLY <1>1
    <3> QED BY ONLY <2>2, <2>3, <3>1, Zenon
  <2>5. w = a
    BY <2>2, <2>3, <2>4, SeqEqual
  <2> QED BY <2>5 DEF a, w
<1> QED BY <1>n, <1>3, <1>6 DEF d


\* A bit of a text, by its byte and its place in it.
Places == <<128, 64, 32, 16, 8, 4, 2, 1>>

LEMMA BitIs ==
    ASSUME NEW s \in Seq(Chars), NEW j \in Nat, NEW k \in 0 .. 7
    PROVE  B64!BitAt(s, 8 * j + k) = (CharAt(s, j + 1) \div Places[k + 1]) % 2
<1> DEFINE i == 8 * j + k
           x == CharAt(s, j + 1)
<1>1. i \in Nat /\ (i \div 8) = j /\ (i % 8) = k /\ (i >= 8 * Len(s) <=> j >= Len(s))
  OBVIOUS
<1>2. 2^(7 - k) = Places[k + 1] /\ Places[k + 1] \in Nat \ {0}
  <2>1. k = 0 \/ k = 1 \/ k = 2 \/ k = 3 \/ k = 4 \/ k = 5 \/ k = 6 \/ k = 7
    OBVIOUS
  <2>2. /\ Places[1] = 128 /\ Places[2] = 64 /\ Places[3] = 32 /\ Places[4] = 16
        /\ Places[5] = 8 /\ Places[6] = 4 /\ Places[7] = 2 /\ Places[8] = 1
    BY DEF Places
  <2>3. /\ 2^7 = 128 /\ 2^6 = 64 /\ 2^5 = 32 /\ 2^4 = 16
        /\ 2^3 = 8 /\ 2^2 = 4 /\ 2^1 = 2 /\ 2^0 = 1
    OBVIOUS
  <2>4. CASE k = 0
    BY <2>2, <2>3, <2>4
  <2>5. CASE k = 1
    BY <2>2, <2>3, <2>5
  <2>6. CASE k = 2
    BY <2>2, <2>3, <2>6
  <2>7. CASE k = 3
    BY <2>2, <2>3, <2>7
  <2>8. CASE k = 4
    BY <2>2, <2>3, <2>8
  <2>9. CASE k = 5
    BY <2>2, <2>3, <2>9
  <2>10. CASE k = 6
    BY <2>2, <2>3, <2>10
  <2>11. CASE k = 7
    BY <2>2, <2>3, <2>11
  <2> QED BY <2>1, <2>4, <2>5, <2>6, <2>7, <2>8, <2>9, <2>10, <2>11
<1>3. x \in Chars /\ x = IF j >= Len(s) THEN 0 ELSE s[j + 1]
  BY AtChar DEF CharAt
<1>4. B64!BitAt(s, i) = IF j >= Len(s) THEN 0 ELSE (s[j + 1] \div 2^(7 - k)) % 2^1
  BY <1>1 DEF B64!BitAt, B64!Bits
<1>5. 2^1 = 2 /\ \A d \in Nat \ {0} : ((0 \div d) % 2) = 0
  OBVIOUS
<1> HIDE DEF i, x
<1>6. CASE j >= Len(s)
  BY <1>2, <1>3, <1>4, <1>5, <1>6 DEF i, x
<1>7. CASE ~ (j >= Len(s))
  BY <1>2, <1>3, <1>4, <1>5, <1>7 DEF i, x
<1> QED BY <1>6, <1>7

\* Six bits of one char or of two, from the left.
LEMMA SixSum ==
    ASSUME NEW x \in Chars, NEW y \in Chars
    PROVE  LET b(a, d) == (a \div d) % 2
           IN  /\ B64!Bits(x, 2, 6) = 32 * b(x, 128) + 16 * b(x, 64) + 8 * b(x, 32)
                                        + 4 * b(x, 16) + 2 * b(x, 8) + b(x, 4)
               /\ B64!Bits(x, 0, 2) * 16 + B64!Bits(y, 4, 4)
                    = 32 * b(x, 2) + 16 * b(x, 1) + 8 * b(y, 128)
                        + 4 * b(y, 64) + 2 * b(y, 32) + b(y, 16)
               /\ B64!Bits(x, 0, 4) * 4 + B64!Bits(y, 6, 2)
                    = 32 * b(x, 8) + 16 * b(x, 4) + 8 * b(x, 2)
                        + 4 * b(x, 1) + 2 * b(y, 128) + b(y, 64)
               /\ B64!Bits(x, 0, 6) = 32 * b(x, 32) + 16 * b(x, 16) + 8 * b(x, 8)
                                        + 4 * b(x, 4) + 2 * b(x, 2) + b(x, 1)
<1> DEFINE b(a, d) == (a \div d) % 2
<1>1. B64!Bits(x, 2, 6) = 32 * b(x, 128) + 16 * b(x, 64) + 8 * b(x, 32)
                            + 4 * b(x, 16) + 2 * b(x, 8) + b(x, 4)
  BY SMTT(30) DEF B64!Bits, Chars
<1>2. B64!Bits(x, 0, 2) = 2 * b(x, 2) + b(x, 1)
  BY SMTT(30) DEF B64!Bits, Chars
<1>3. B64!Bits(y, 4, 4) = 8 * b(y, 128) + 4 * b(y, 64) + 2 * b(y, 32) + b(y, 16)
  BY SMTT(30) DEF B64!Bits, Chars
<1>4. B64!Bits(x, 0, 4) = 8 * b(x, 8) + 4 * b(x, 4) + 2 * b(x, 2) + b(x, 1)
  BY SMTT(30) DEF B64!Bits, Chars
<1>5. B64!Bits(y, 6, 2) = 2 * b(y, 128) + b(y, 64)
  BY SMTT(30) DEF B64!Bits, Chars
<1>6. B64!Bits(x, 0, 6) = 32 * b(x, 32) + 16 * b(x, 16) + 8 * b(x, 8)
                            + 4 * b(x, 4) + 2 * b(x, 2) + b(x, 1)
  BY SMTT(30) DEF B64!Bits, Chars
<1>7. \A a \in Chars, d \in {1, 2, 4, 8, 16, 32, 64, 128} : b(a, d) \in Int
  BY DEF Chars
<1> HIDE DEF b
<1>8. B64!Bits(x, 0, 2) * 16 + B64!Bits(y, 4, 4)
        = 32 * b(x, 2) + 16 * b(x, 1) + 8 * b(y, 128) + 4 * b(y, 64) + 2 * b(y, 32) + b(y, 16)
  BY <1>2, <1>3, <1>7
<1>9. B64!Bits(x, 0, 4) * 4 + B64!Bits(y, 6, 2)
        = 32 * b(x, 8) + 16 * b(x, 4) + 8 * b(x, 2) + 4 * b(x, 1) + 2 * b(y, 128) + b(y, 64)
  BY <1>4, <1>5, <1>7
<1> QED BY <1>1, <1>6, <1>8, <1>9 DEF b

\* The text in radix 64 is made of these groups.
LEMMA RadixIs ==
    ASSUME NEW s \in Seq(Chars), NEW q \in Nat, NEW c \in 0 .. 3,
           4 * q + c + 1 <= Carrying(Len(s))
    PROVE  B64!Radix64(s)[4 * q + c + 1] = Six(s, q, c)
<1> DEFINE x == CharAt(s, 3 * q + 1)
           y == CharAt(s, 3 * q + 2)
           z == CharAt(s, 3 * q + 3)
           bit(k) == B64!BitAt(s, 24 * q + k)
<1>1. x \in Chars /\ y \in Chars /\ z \in Chars
  BY AtChar
<1>2. B64!Radix64(s)[4 * q + c + 1]
        = 32 * bit(6 * c) + 16 * bit(6 * c + 1) + 8 * bit(6 * c + 2)
            + 4 * bit(6 * c + 3) + 2 * bit(6 * c + 4) + bit(6 * c + 5)
  <2> DEFINE j == 4 * q + c + 1
  <2>1. j \in 1 .. (8 * Len(s) + 5) \div 6
    BY DEF Carrying
  <2>2. \A k \in 0 .. 5 : 6 * (j - 1) + k = 24 * q + (6 * c + k)
    OBVIOUS
  <2> HIDE DEF j
  <2>3. B64!Radix64(s)[j] = 32 * B64!BitAt(s, 6 * (j - 1) + 0) + 16 * B64!BitAt(s, 6 * (j - 1) + 1)
                + 8 * B64!BitAt(s, 6 * (j - 1) + 2) + 4 * B64!BitAt(s, 6 * (j - 1) + 3)
                + 2 * B64!BitAt(s, 6 * (j - 1) + 4) + B64!BitAt(s, 6 * (j - 1) + 5)
    BY <2>1 DEF B64!Radix64
  <2>4. /\ 6 * (j - 1) + 0 = 24 * q + 6 * c /\ 6 * (j - 1) + 1 = 24 * q + (6 * c + 1)
        /\ 6 * (j - 1) + 2 = 24 * q + (6 * c + 2) /\ 6 * (j - 1) + 3 = 24 * q + (6 * c + 3)
        /\ 6 * (j - 1) + 4 = 24 * q + (6 * c + 4) /\ 6 * (j - 1) + 5 = 24 * q + (6 * c + 5)
    BY <2>2
  <2> QED BY <2>3, <2>4 DEF j
<1>3. ASSUME NEW k \in 0 .. 7
      PROVE  /\ bit(k) = (x \div Places[k + 1]) % 2
             /\ bit(8 + k) = (y \div Places[k + 1]) % 2
             /\ bit(16 + k) = (z \div Places[k + 1]) % 2
  <2>1. /\ 8 * (3 * q) + k = 24 * q + k
        /\ 8 * (3 * q + 1) + k = 24 * q + (8 + k)
        /\ 8 * (3 * q + 2) + k = 24 * q + (16 + k)
        /\ (3 * q + 1) + 1 = 3 * q + 2 /\ (3 * q + 2) + 1 = 3 * q + 3
        /\ 3 * q \in Nat /\ 3 * q + 1 \in Nat /\ 3 * q + 2 \in Nat
    OBVIOUS
  <2>2. B64!BitAt(s, 8 * (3 * q) + k) = (CharAt(s, 3 * q + 1) \div Places[k + 1]) % 2
    BY <2>1, BitIs
  <2>3. B64!BitAt(s, 8 * (3 * q + 1) + k) = (CharAt(s, (3 * q + 1) + 1) \div Places[k + 1]) % 2
    BY <2>1, BitIs
  <2>4. B64!BitAt(s, 8 * (3 * q + 2) + k) = (CharAt(s, (3 * q + 2) + 1) \div Places[k + 1]) % 2
    BY <2>1, BitIs
  <2> QED BY <2>1, <2>2, <2>3, <2>4
<1> HIDE DEF x, y, z, bit
<1> DEFINE b(a, d) == (a \div d) % 2
<1>4. /\ bit(0) = b(x, 128) /\ bit(1) = b(x, 64) /\ bit(2) = b(x, 32) /\ bit(3) = b(x, 16)
      /\ bit(4) = b(x, 8) /\ bit(5) = b(x, 4) /\ bit(6) = b(x, 2) /\ bit(7) = b(x, 1)
  BY <1>3 DEF Places
<1>5. /\ bit(8) = b(y, 128) /\ bit(9) = b(y, 64) /\ bit(10) = b(y, 32) /\ bit(11) = b(y, 16)
      /\ bit(12) = b(y, 8) /\ bit(13) = b(y, 4) /\ bit(14) = b(y, 2) /\ bit(15) = b(y, 1)
  BY <1>3 DEF Places
<1>6. /\ bit(16) = b(z, 128) /\ bit(17) = b(z, 64) /\ bit(18) = b(z, 32) /\ bit(19) = b(z, 16)
      /\ bit(20) = b(z, 8) /\ bit(21) = b(z, 4) /\ bit(22) = b(z, 2) /\ bit(23) = b(z, 1)
  BY <1>3 DEF Places
<1>7. /\ Six(s, q, 0) = B64!Bits(x, 2, 6)
      /\ Six(s, q, 1) = B64!Bits(x, 0, 2) * 16 + B64!Bits(y, 4, 4)
      /\ Six(s, q, 2) = B64!Bits(y, 0, 4) * 4 + B64!Bits(z, 6, 2)
      /\ Six(s, q, 3) = B64!Bits(z, 0, 6)
  BY DEF Six, x, y, z
<1> HIDE DEF b
<1>8. /\ Six(s, q, 0) = 32 * b(x, 128) + 16 * b(x, 64) + 8 * b(x, 32)
                          + 4 * b(x, 16) + 2 * b(x, 8) + b(x, 4)
      /\ Six(s, q, 1) = 32 * b(x, 2) + 16 * b(x, 1) + 8 * b(y, 128)
                          + 4 * b(y, 64) + 2 * b(y, 32) + b(y, 16)
      /\ Six(s, q, 2) = 32 * b(y, 8) + 16 * b(y, 4) + 8 * b(y, 2)
                          + 4 * b(y, 1) + 2 * b(z, 128) + b(z, 64)
      /\ Six(s, q, 3) = 32 * b(z, 32) + 16 * b(z, 16) + 8 * b(z, 8)
                          + 4 * b(z, 4) + 2 * b(z, 2) + b(z, 1)
  BY <1>1, <1>7, SixSum DEF b
<1>9. c = 0 \/ c = 1 \/ c = 2 \/ c = 3
  OBVIOUS
<1>10. CASE c = 0
  BY <1>2, <1>4, <1>8, <1>10
<1>11. CASE c = 1
  BY <1>2, <1>4, <1>5, <1>8, <1>11
<1>12. CASE c = 2
  BY <1>2, <1>5, <1>6, <1>8, <1>12
<1>13. CASE c = 3
  BY <1>2, <1>6, <1>8, <1>13
<1> QED BY <1>9, <1>10, <1>11, <1>12, <1>13

\* The texts that are coded and decoded are texts.
B64Inv == content \in Seq(Chars) /\ coded \in Seq(Int)

\* The empty texts.
LEMMA B64Init == B64!Init => B64Inv
BY DEF B64!Init, B64Inv

\* A further char of either text.
LEMMA B64Next == B64Inv /\ [B64!Next]_base64Vars => B64Inv'
<1> SUFFICES ASSUME B64Inv, [B64!Next]_base64Vars PROVE B64Inv'
  OBVIOUS
<1>1. Plain \subseteq Chars /\ Coded \subseteq Int
  BY DataAssumption DEF B64!Base64Assumption, Chars
<1>2. CASE UNCHANGED base64Vars
  BY <1>2 DEF B64Inv, base64Vars
<1>3. ASSUME NEW a \in Plain, content' = Append(content, a), UNCHANGED coded PROVE B64Inv'
  BY <1>1, <1>3 DEF B64Inv
<1>4. ASSUME NEW a \in Coded, coded' = Append(coded, a), UNCHANGED content PROVE B64Inv'
  BY <1>1, <1>4 DEF B64Inv
<1> QED BY <1>2, <1>3, <1>4 DEF B64!Next

\* The code of a text is its radix 64; decoding it gives the text again; and what is written
\* fits into the buffers.
LEMMA B64Right == B64Inv => B64!EncodesRadix64 /\ B64!RoundTrip /\ B64!WithinBuffers
<1> SUFFICES ASSUME B64Inv PROVE B64!EncodesRadix64 /\ B64!RoundTrip /\ B64!WithinBuffers
  OBVIOUS
<1> DEFINE s == content
           n == Len(s)
           p == Carrying(n)
           e == B64!Base64encode(s)
           f == SubSeq(e, 1, Len(e) - 1)
           r == B64!Radix64(s)
<1>0. s \in Seq(Chars) /\ coded \in Seq(Int)
  BY DEF B64Inv
<1>1. IsCode(s, e)
  BY <1>0, Encoded
<1>2. n \in Nat
  BY <1>0
<1>3. /\ p \in Nat /\ p <= 4 * ((n + 2) \div 3) /\ 4 * ((n + 2) \div 3) - p < 4
      /\ (n > 0 => (n + 2) \div 3 > 0) /\ (n + 2) \div 3 \in Nat
  <2> HIDE DEF n
  <2> QED BY <1>2, CountsAgree
<1>4. /\ e \in Seq(Int) /\ Len(e) > 0 /\ e[Len(e)] = B64!NUL
      /\ p < Len(e) /\ B64!CString(e) = f
  <2> HIDE DEF e
  <2> QED BY <1>0, <1>1, CodeEnds
<1>5. /\ Len(e) = 4 * ((n + 2) \div 3) + 1
      /\ \A q \in Nat, c \in 0 .. 3 : 4 * q + c + 1 <= p =>
             e[4 * q + c + 1] = B64!basis_64(Six(s, q, c))
      /\ \A i \in p + 1 .. Len(e) - 1 : e[i] = B64!Pad
  BY <1>1 DEF IsCode
<1>6. B64!Base64decode(e).count = n /\ B64!Base64decode(e).bytes = Append(s, B64!NUL)
  <2> HIDE DEF e
  <2> QED BY <1>0, <1>1, ComesBack
<1>7. DOMAIN r = 1 .. p /\ Len(r) = p
  BY <1>3 DEF B64!Radix64, Carrying
<1>8. ASSUME NEW i \in 1 .. p PROVE e[i] = B64!basis_64(r[i])
  <2> DEFINE q == (i - 1) \div 4
             c == (i - 1) % 4
  <2> HIDE DEF n, p, e, r
  <2>1. q \in Nat /\ c \in 0 .. 3 /\ i = 4 * q + c + 1 /\ 4 * q + c + 1 <= p
    BY <1>3
  <2> HIDE DEF q, c
  <2>2. r[4 * q + c + 1] = Six(s, q, c)
    BY <1>0, <2>1, RadixIs DEF n, p, r
  <2>3. e[4 * q + c + 1] = B64!basis_64(Six(s, q, c))
    BY <1>5, <2>1
  <2> QED BY <2>1, <2>2, <2>3
<1>9. B64!encode(s) = f
  <2>1. CASE s = <<>>
    <3>1. n = 0 /\ Len(e) = 1
      BY <1>5, <2>1
    <3>2. f = <<>>
      <4> HIDE DEF e
      <4> QED BY <1>4, <3>1
    <3> QED BY <2>1, <3>2 DEF B64!encode
  <2>2. CASE s # <<>>
    BY <1>4, <2>2 DEF B64!encode
  <2> QED BY <2>1, <2>2
<1>a. s = <<>> <=> n = 0
  BY <1>0
<1> HIDE DEF n, p, e, r
<1>10. /\ f \in Seq(Int) /\ Len(f) = 4 * ((n + 2) \div 3)
       /\ \A i \in 1 .. Len(f) : f[i] = e[i]
  <2>1. Len(e) - 1 \in Nat /\ Len(e) - 1 <= Len(e)
    BY <1>3, <1>5
  <2>2. f \in Seq(Int) /\ Len(f) = Len(e) - 1 /\ \A i \in 1 .. Len(e) - 1 : f[i] = e[i]
    <3>1. e \in Seq(Int)
      BY <1>4
    <3> DEFINE m == Len(e) - 1
    <3>2. m \in Nat /\ m <= Len(e) /\ f = SubSeq(e, 1, m)
      BY <2>1
    <3> HIDE DEF f, e, m
    <3>3. \A i \in 1 .. m : e[i] \in Int
      BY <3>1, <3>2, ElementOfSeq
    <3>4. /\ f \in Seq(Int) /\ Len(f) = IF 1 <= m + 1 THEN m - 1 + 1 ELSE 0
          /\ \A i \in 1 .. m - 1 + 1 : f[i] = e[1 + i - 1]
      BY <3>2, <3>3, SubSeqProperties
    <3>5. f \in Seq(Int) /\ Len(f) = m /\ \A i \in 1 .. m : f[i] = e[i]
      BY <3>2, <3>4
    <3> QED BY <3>5 DEF m
  <2> HIDE DEF f
  <2> QED BY <1>3, <1>5, <2>2
<1>11. Append(f, B64!NUL) = e
  <2> DEFINE g == Append(f, B64!NUL)
  <2>0. B64!NUL \in Int
    BY BasisTells
  <2> HIDE DEF f
  <2>1. g \in Seq(Int) /\ Len(g) = Len(f) + 1 /\ g[Len(f) + 1] = B64!NUL
        /\ \A i \in 1 .. Len(f) : g[i] = f[i]
    BY <1>10, <2>0
  <2> HIDE DEF g
  <2>2. Len(g) = Len(e) /\ \A i \in 1 .. Len(g) : g[i] = e[i]
    <3>1. Len(f) \in Nat /\ Len(e) = Len(f) + 1 /\ e[Len(f) + 1] = B64!NUL
      BY <1>3, <1>4, <1>5, <1>10
    <3>2. \A i \in 1 .. Len(f) : g[i] = e[i]
      BY <1>10, <2>1
    <3>3. \A i \in 1 .. Len(f) + 1 : i \in 1 .. Len(f) \/ i = Len(f) + 1
      BY <3>1
    <3> QED BY <2>1, <3>1, <3>2, <3>3
  <2>3. g = e
    BY <1>4, <2>1, <2>2, SeqEqual
  <2> QED BY <2>3 DEF g
<1> HIDE DEF f
<1>12. B64!EncodesRadix64
  <2> DEFINE h == SubSeq(f, 1, p)
             k == [j \in 1 .. p |-> B64!basis_64(r[j])]
  <2>1. Len(f) = 4 * ((n + 2) \div 3) /\ p <= Len(f)
    BY <1>3, <1>10
  <2>2. h = k
    <3>1. h = [j \in 1 .. p |-> f[j]]
      BY <1>3, <1>10, <2>1
    <3>2. \A j \in 1 .. p : f[j] = B64!basis_64(r[j])
      BY <1>3, <1>8, <1>10, <2>1
    <3> QED BY <3>1, <3>2
  <2>3. \A j \in p + 1 .. Len(f) : f[j] = B64!Pad
    <3>1. \A j \in p + 1 .. Len(f) : j \in 1 .. Len(f) /\ j \in p + 1 .. Len(e) - 1
      BY <1>3, <1>5, <2>1
    <3> QED BY <1>5, <1>10, <3>1
  <2>4. (Len(f) % 4) = 0 /\ Len(f) - p < 4
    BY <1>3, <2>1
  <2> HIDE DEF h, k
  <2>5. SubSeq(B64!encode(s), 1, Len(r)) = [j \in DOMAIN r |-> B64!basis_64(r[j])]
    BY <1>7, <1>9, <2>2 DEF h, k
  <2> QED BY <1>7, <1>9, <2>3, <2>4, <2>5 DEF B64!EncodesRadix64, r
<1>13. B64!RoundTrip
  <2>1. B64!decode(B64!encode(s)) = B64!CString(Append(s, B64!NUL))
    <3>1. CASE s = <<>>
      <4>1. n = 0 /\ (n + 2) \div 3 = 0
        BY <1>a, <3>1
      <4>2. f = <<>>
        BY <1>10, <4>1
      <4>3. B64!decode(f) = <<>>
        BY <4>2 DEF B64!decode
      <4>4. B64!CString(<<B64!NUL>>) = <<>>
        <5> DEFINE o == <<B64!NUL>>
        <5>1. o \in Seq(Int) /\ Len(o) = 1 /\ o[1] = B64!NUL
          BY BasisTells
        <5> HIDE DEF o
        <5>2. B64!CString(o) = SubSeq(o, 1, Len(o) - 1)
          <6>1. Len(o) > 0 /\ o[Len(o)] = B64!NUL /\ \A i \in 1 .. Len(o) - 1 : o[i] # B64!NUL
            BY <5>1
          <6> QED BY <5>1, <6>1, StringEnds
        <5>3. SubSeq(o, 1, 0) = <<>>
          BY <5>1
        <5> QED BY <5>1, <5>2, <5>3 DEF o
      <4>5. Append(s, B64!NUL) = <<B64!NUL>>
        BY <3>1
      <4> QED BY <1>9, <4>3, <4>4, <4>5
    <3>2. CASE s # <<>>
      <4>1. Len(f) > 0
        BY <1>2, <1>3, <1>10, <1>a, <3>2
      <4>2. f # <<>>
        BY <4>1
      <4>3. B64!decode(f) = B64!CString(B64!Base64decode(e).bytes)
        BY <1>11, <4>2 DEF B64!decode
      <4> QED BY <1>6, <1>9, <4>3
    <3> QED BY <3>1, <3>2
  <2> QED BY <1>6, <2>1 DEF B64!RoundTrip, e, n
<1>14. B64!WithinBuffers
  <2> DEFINE b == Append(coded, B64!NUL)
             m == B64!nprbytes(b)
             d == B64!Base64decode(b)
  <2>1. b \in Seq(Int) /\ Len(b) > 0 /\ b[Len(b)] = B64!NUL
    <3>1. B64!NUL \in Int /\ coded \in Seq(Int)
      BY <1>0, BasisTells
    <3>2. b \in Seq(Int) /\ Len(b) = Len(coded) + 1 /\ b[Len(coded) + 1] = B64!NUL
          /\ Len(coded) \in Nat
      BY <3>1
    <3> HIDE DEF b
    <3> QED BY <3>2
  <2> HIDE DEF b
  <2>2. m \in Nat /\ m < Len(b)
    BY <2>1, AlphabetEnds
  <2>3. Len(d.bytes) = Decodes(m) + 1 /\ d.count = Decodes(m)
    <3>1. m <= Len(b)
      BY <2>1, <2>2
    <3> QED BY <2>1, <2>2, <3>1, Decoded
  <2>4. \A i \in Nat : Decodes(i) <= ((i + 3) \div 4) * 3 /\ Decodes(i) \in Nat
    BY DEF Decodes
  <2>5. B64!Base64decode_len(b) = ((m + 3) \div 4) * 3 + 1
    BY DEF B64!Base64decode_len
  <2>6. Len(d.bytes) <= B64!Base64decode_len(b) /\ d.count = Len(d.bytes) - 1
    <3> HIDE DEF m, d
    <3>1. Decodes(m) <= ((m + 3) \div 4) * 3 /\ Decodes(m) \in Nat /\ ((m + 3) \div 4) * 3 \in Int
      BY <2>2, <2>4
    <3> QED BY <2>3, <2>5, <3>1
  <2>7. Len(e) <= B64!Base64encode_len(n)
    <3>1. B64!Base64encode_len(n) = ((n + 2) \div 3) * 4 + 1
      BY DEF B64!Base64encode_len
    <3> QED BY <1>3, <1>5, <3>1
  <2> QED BY <2>6, <2>7 DEF B64!WithinBuffers, e, n, b, d
<1> QED BY <1>12, <1>13, <1>14

-----------------------------------------------------------------------------
\* The configuration.  Texts are sequences of characters; a key has no "=" and does not begin
\* as a header or a comment; a map is a function on a finite set.
Char == STRING \cup {"=", "[", "]", Conf!Blank}
Str == Seq(Char)
GoodKeys == {k \in Str : ~Conf!Contains(k, "=") /\ ~Conf!StartsWith(k, "[") /\ ~Conf!StartsWith(k, "#")}
MapsOf(K, V) == UNION {[D -> V] : D \in {T \in SUBSET K : IsFiniteSet(T)}}

\* What a map is.
LEMMA MapIs ==
    ASSUME NEW K, NEW V, NEW f \in MapsOf(K, V)
    PROVE  /\ IsFiniteSet(DOMAIN f) /\ DOMAIN f \subseteq K /\ \A x \in DOMAIN f : f[x] \in V
           /\ f = [x \in DOMAIN f |-> f[x]]
<1>1. PICK D \in {T \in SUBSET K : IsFiniteSet(T)} : f \in [D -> V]
  BY DEF MapsOf
<1> QED BY <1>1

\* A function on a finite set is one.
LEMMA IsMap ==
    ASSUME NEW K, NEW V, NEW D \in SUBSET K, IsFiniteSet(D), NEW f \in [D -> V]
    PROVE  f \in MapsOf(K, V)
BY DEF MapsOf

\* Maps that agree are the same.
LEMMA MapsEqual ==
    ASSUME NEW K, NEW V, NEW L, NEW W, NEW f \in MapsOf(K, V), NEW g \in MapsOf(L, W),
           DOMAIN f = DOMAIN g, \A x \in DOMAIN f : f[x] = g[x]
    PROVE  f = g
<1>1. f = [x \in DOMAIN f |-> f[x]] /\ g = [x \in DOMAIN g |-> g[x]]
  BY MapIs
<1> QED BY <1>1

\* The empty map.
LEMMA EmptyMap ==
    ASSUME NEW K, NEW V
    PROVE  Conf!Empty \in MapsOf(K, V) /\ DOMAIN Conf!Empty = {}
<1>1. Conf!Empty = << >> /\ DOMAIN Conf!Empty = {}
  BY DEF Conf!Empty
<1>2. << >> \in [{} -> V]
  <2>1. << >> \in Seq(V) /\ Len(<< >>) = 0
    OBVIOUS
  <2>2. << >> \in [1 .. 0 -> V] /\ 1 .. 0 = {}
    BY <2>1
  <2> QED BY <2>2
<1>3. {} \in SUBSET K /\ IsFiniteSet({})
  BY FS_EmptySet
<1> QED BY <1>1, <1>2, <1>3, IsMap

\* What insert() makes of a map is a map.
LEMMA InsertMaps ==
    ASSUME NEW K, NEW V, NEW f \in MapsOf(K, V), NEW k \in K, NEW v \in V
    PROVE  Conf!insert(f, k, v) \in MapsOf(K, V)
<1> DEFINE g == Conf!insert(f, k, v)
           D == DOMAIN f \cup {k}
<1>1. IsFiniteSet(DOMAIN f) /\ DOMAIN f \subseteq K /\ \A x \in DOMAIN f : f[x] \in V
  BY MapIs
<1>2. D \in SUBSET K /\ IsFiniteSet(D)
  BY <1>1, FS_AddElement
<1>3. g = [x \in D |-> IF x \in DOMAIN f THEN f[x] ELSE v]
  BY DEF Conf!insert
<1>4. \A x \in D : (IF x \in DOMAIN f THEN f[x] ELSE v) \in V
  BY <1>1
<1>5. g \in [D -> V]
  BY <1>3, <1>4
<1> QED BY <1>2, <1>5, IsMap

\* The last of a set of numbers.
LEMMA LastNumber ==
    ASSUME NEW S \in SUBSET Int, NEW m \in S, \A k \in S : k <= m
    PROVE  Conf!Max(S) = m
<1>1. \A x \in S : (\A y \in S : x >= y) => x = m
  OBVIOUS
<1> QED BY <1>1 DEF Conf!Max

\* The first.
LEMMA FirstNumber ==
    ASSUME NEW S \in SUBSET Int, NEW m \in S, \A k \in S : m <= k
    PROVE  Conf!Min(S) = m
<1>1. \A x \in S : (\A y \in S : x <= y) => x = m
  OBVIOUS
<1> QED BY <1>1 DEF Conf!Min

\* A set of numbers that is not empty has its Min.
LEMMA LeastOf ==
    ASSUME NEW S \in SUBSET Nat, S # {}
    PROVE  Conf!Min(S) \in S /\ \A k \in S : Conf!Min(S) <= k
<1>1. PICK m \in S : \A k \in S : m <= k
  BY LeastNumber
<1>2. S \in SUBSET Int
  OBVIOUS
<1> QED BY <1>1, <1>2, FirstNumber

\* A set of numbers up to N that is not empty has its Max.
LEMMA MaxOf ==
    ASSUME NEW N \in Nat, NEW S \in SUBSET (0 .. N), S # {}
    PROVE  Conf!Max(S) \in S /\ \A k \in S : k <= Conf!Max(S)
<1> DEFINE T == {N - k : k \in S}
<1>1. T \in SUBSET Nat /\ T # {}
  <2>1. \A k \in S : N - k \in Nat
    OBVIOUS
  <2> QED BY <2>1
<1> HIDE DEF T
<1>2. PICK t \in T : \A k \in T : t <= k
  BY <1>1, LeastNumber
<1>3. PICK m \in S : t = N - m
  BY <1>2 DEF T
<1>4. \A k \in S : N - k \in T
  BY DEF T
<1>5. \A k \in S : k <= m
  <2> SUFFICES ASSUME NEW k \in S PROVE k <= m
    OBVIOUS
  <2>1. N - m <= N - k /\ k \in Int /\ m \in Int
    BY <1>2, <1>3, <1>4
  <2> QED BY ONLY <2>1, N \in Nat
<1>6. S \in SUBSET Int
  OBVIOUS
<1> QED BY <1>3, <1>5, <1>6, LastNumber

\* The lines of keys and the headers.
KeyLine(line) ==
    ~Conf!StartsWith(line, "[") /\ ~Conf!StartsWith(line, "#") /\ Conf!Contains(line, "=")

\* The type of a line.
LEMMA LineIs ==
    ASSUME NEW line
    PROVE  /\ Conf!StartsWith(line, "[") =>
                Conf!decideLineType(line).type = "SECTION"
                  /\ Conf!decideLineType(line).content = Conf!sectionName(line)
           /\ KeyLine(line) => Conf!decideLineType(line).type = "KEYVAL"
                                 /\ Conf!decideLineType(line).content = line
           /\ Conf!decideLineType(line).type = "SECTION" => Conf!StartsWith(line, "[")
           /\ Conf!decideLineType(line).type = "KEYVAL" => KeyLine(line)
BY DEF Conf!decideLineType, KeyLine

\* A piece of a text is a text.
LEMMA Piece ==
    ASSUME NEW s \in Str, NEW a \in Nat, NEW b \in Int, a >= 1, b <= Len(s)
    PROVE  /\ SubSeq(s, a, b) \in Str /\ (a <= b => Len(SubSeq(s, a, b)) = b - a + 1)
           /\ (a > b => SubSeq(s, a, b) = << >>)
           /\ \A i \in 1 .. b - a + 1 : SubSeq(s, a, b)[i] = s[a + i - 1]
<1>1. Len(s) \in Nat /\ \A i \in a .. b : i \in 1 .. Len(s)
  BY DEF Str
<1>2. \A i \in a .. b : s[i] \in Char
  BY <1>1, ElementOfSeq DEF Str
<1>3. /\ SubSeq(s, a, b) \in Seq(Char) /\ Len(SubSeq(s, a, b)) = IF a <= b THEN b - a + 1 ELSE 0
      /\ \A i \in 1 .. b - a + 1 : SubSeq(s, a, b)[i] = s[a + i - 1]
  BY <1>2, SubSeqProperties
<1>4. a > b => SubSeq(s, a, b) = << >>
  BY SubSeqEmpty
<1> QED BY <1>3, <1>4 DEF Str

\* A line with "=" is split at the first of them.
LEMMA Split ==
    ASSUME NEW line \in Str, Conf!Contains(line, "=")
    PROVE  LET e == Conf!firstEq(line)
           IN  /\ e \in 1 .. Len(line) /\ line[e] = "=" /\ \A i \in 1 .. e - 1 : line[i] # "="
               /\ Conf!keyOf(line) \in Str /\ Conf!valueOf(line) \in Str
               /\ ~Conf!Contains(Conf!keyOf(line), "=")
               /\ KeyLine(line) => Conf!keyOf(line) \in GoodKeys
<1> DEFINE S == {i \in DOMAIN line : line[i] = "="}
           e == Conf!firstEq(line)
<1>1. Len(line) \in Nat /\ DOMAIN line = 1 .. Len(line)
  BY DEF Str
<1>2. S \in SUBSET Nat /\ S # {} /\ e = Conf!Min(S)
  BY <1>1 DEF Conf!Contains, Conf!firstEq
<1> HIDE DEF e
<1>3. e \in S /\ \A k \in S : e <= k
  BY <1>2, LeastOf
<1>4. e \in 1 .. Len(line) /\ line[e] = "=" /\ \A i \in 1 .. e - 1 : line[i] # "="
  <2>1. e \in 1 .. Len(line) /\ line[e] = "="
    BY <1>1, <1>3
  <2>2. ASSUME NEW i \in 1 .. e - 1 PROVE line[i] # "="
    <3>1. i \in 1 .. Len(line) /\ ~(e <= i)
      BY <1>1, <2>1
    <3> QED BY <1>1, <1>3, <3>1
  <2> QED BY <2>1, <2>2
<1>5. Conf!keyOf(line) = SubSeq(line, 1, e - 1) /\ Conf!valueOf(line) = SubSeq(line, e + 1, Len(line))
  BY DEF Conf!keyOf, Conf!valueOf, e
<1> HIDE DEF S
<1>6. Conf!keyOf(line) \in Str /\ Conf!valueOf(line) \in Str
  <2>1. e - 1 \in Int /\ e - 1 <= Len(line) /\ e + 1 \in Nat /\ e + 1 >= 1
    BY <1>1, <1>4
  <2> QED BY <1>1, <1>5, <2>1, Piece
<1> DEFINE k == Conf!keyOf(line)
<1>7. Len(k) \in Nat /\ Len(k) = e - 1 /\ \A i \in 1 .. Len(k) : k[i] = line[i]
  <2>1. e - 1 \in Nat /\ e - 1 <= Len(line)
    BY <1>1, <1>4
  <2>2. CASE e - 1 >= 1
    <3>1. Len(k) = e - 1 - 1 + 1 /\ \A i \in 1 .. e - 1 - 1 + 1 : k[i] = line[1 + i - 1]
      BY <1>5, <2>1, <2>2, Piece
    <3> QED BY <2>1, <3>1
  <2>3. CASE ~(e - 1 >= 1)
    <3>1. k = << >>
      BY <1>5, <2>1, <2>3, Piece
    <3>2. Len(k) = 0
      BY <3>1
    <3> QED BY <1>1, <1>4, <2>1, <2>3, <3>2
  <2> QED BY <2>2, <2>3
<1> HIDE DEF k
<1>8. ~Conf!Contains(k, "=")
  BY <1>4, <1>7 DEF Conf!Contains
<1>9. ASSUME NEW c, Conf!StartsWith(k, c) PROVE Conf!StartsWith(line, c)
  <2>0. k \in Str
    BY <1>6 DEF k
  <2>1. k # << >> /\ k[1] = c
    BY <1>9 DEF Conf!StartsWith, Conf!Empty
  <2>2. Len(k) # 0
    BY <2>0, <2>1 DEF Str
  <2>3. 1 \in 1 .. Len(k)
    <3>1. Len(k) \in Nat
      BY <1>7
    <3> QED BY ONLY <2>2, <3>1
  <2>4. line[1] = c
    BY <1>7, <2>1, <2>3
  <2>5. line # << >>
    <3>1. Len(line) # 0
      BY <1>1, <1>4
    <3> QED BY <3>1
  <2> QED BY <2>4, <2>5 DEF Conf!StartsWith, Conf!Empty
<1>10. KeyLine(line) => k \in GoodKeys
  BY <1>6, <1>8, <1>9 DEF KeyLine, GoodKeys, k
<1> QED BY <1>4, <1>6, <1>8, <1>10 DEF k, e


\* The local variables of loadConfig2Map.
Locals(c, kv, s, f) == [configMap |-> c, kvMap |-> kv, section |-> s, is1stSec |-> f]
Kvs == MapsOf(GoodKeys, Str)
Configs == MapsOf(Str, Kvs)
States == [configMap : Configs, kvMap : Kvs, section : Str, is1stSec : BOOLEAN]

\* The members of them.
LEMMA LocalsAre ==
    ASSUME NEW c, NEW kv, NEW s, NEW f
    PROVE  /\ Locals(c, kv, s, f).configMap = c /\ Locals(c, kv, s, f).kvMap = kv
           /\ Locals(c, kv, s, f).section = s /\ Locals(c, kv, s, f).is1stSec = f
BY DEF Locals

\* Every state is made of its members.
LEMMA StateIs ==
    ASSUME NEW st \in States
    PROVE  \E c \in Configs, kv \in Kvs, s \in Str, f \in BOOLEAN : st = Locals(c, kv, s, f)
<1>1. /\ st.configMap \in Configs /\ st.kvMap \in Kvs /\ st.section \in Str
      /\ st.is1stSec \in BOOLEAN
      /\ st = [configMap |-> st.configMap, kvMap |-> st.kvMap, section |-> st.section,
               is1stSec |-> st.is1stSec]
  BY DEF States
<1> QED BY <1>1, Zenon DEF Locals

\* And the other way round.
LEMMA IsState ==
    ASSUME NEW c \in Configs, NEW kv \in Kvs, NEW s \in Str, NEW f \in BOOLEAN
    PROVE  Locals(c, kv, s, f) \in States
BY DEF Locals, States

\* The first header.
LEMMA OnFirstHeader ==
    ASSUME NEW c, NEW kv, NEW s, NEW line, Conf!StartsWith(line, "[")
    PROVE  Conf!onLine(Locals(c, kv, s, TRUE), line) = Locals(c, kv, Conf!sectionName(line), FALSE)
<1> DEFINE n == Conf!sectionName(line)
<1>1. Conf!decideLineType(line).type = "SECTION" /\ Conf!decideLineType(line).content = n
  BY LineIs
<1>2. Conf!onLine(Locals(c, kv, s, TRUE), line) = Conf!onSection(Locals(c, kv, s, TRUE), n)
  BY <1>1 DEF Conf!onLine
<1> HIDE DEF n
<1>3. Conf!onSection(Locals(c, kv, s, TRUE), n) = Locals(c, kv, n, FALSE)
  BY DEF Conf!onSection, Locals
<1> QED BY <1>2, <1>3 DEF n

\* Every other one.
LEMMA OnHeader ==
    ASSUME NEW c, NEW kv, NEW s, NEW line, Conf!StartsWith(line, "[")
    PROVE  Conf!onLine(Locals(c, kv, s, FALSE), line)
             = Locals(Conf!insert(c, s, kv), Conf!Empty, Conf!sectionName(line), FALSE)
<1> DEFINE n == Conf!sectionName(line)
<1>1. Conf!decideLineType(line).type = "SECTION" /\ Conf!decideLineType(line).content = n
  BY LineIs
<1>2. Conf!onLine(Locals(c, kv, s, FALSE), line) = Conf!onSection(Locals(c, kv, s, FALSE), n)
  BY <1>1 DEF Conf!onLine
<1> HIDE DEF n
<1>3. Conf!onSection(Locals(c, kv, s, FALSE), n)
        = Locals(Conf!insert(c, s, kv), Conf!Empty, n, FALSE)
  BY DEF Conf!onSection, Locals
<1> QED BY <1>2, <1>3 DEF n

\* A setting.
LEMMA OnKey ==
    ASSUME NEW c, NEW kv, NEW s, NEW f, NEW line, KeyLine(line)
    PROVE  Conf!onLine(Locals(c, kv, s, f), line)
             = Locals(c, Conf!insert(kv, Conf!keyOf(line), Conf!valueOf(line)), s, f)
<1>1. Conf!decideLineType(line).type = "KEYVAL" /\ Conf!decideLineType(line).content = line
  BY LineIs
<1>2. ASSUME NEW st
      PROVE  Conf!onLine(st, line)
               = [st EXCEPT !.kvMap = Conf!insert(@, Conf!keyOf(line), Conf!valueOf(line))]
  BY <1>1 DEF Conf!onLine
<1> QED BY <1>2 DEF Locals

\* Anything else.
LEMMA OnOther ==
    ASSUME NEW st, NEW line, ~Conf!StartsWith(line, "["), ~KeyLine(line)
    PROVE  Conf!onLine(st, line) = st
<1>1. Conf!decideLineType(line).type # "SECTION" /\ Conf!decideLineType(line).type # "KEYVAL"
  BY LineIs
<1> QED BY <1>1 DEF Conf!onLine

\* The name of a section is a text.
LEMMA NameIs ==
    ASSUME NEW line \in Str
    PROVE  Conf!sectionName(line) \in Str
<1>1. Len(line) \in Nat /\ Len(line) - 1 \in Int /\ Len(line) - 1 <= Len(line)
  BY DEF Str
<1> QED BY <1>1, Piece DEF Conf!sectionName

\* A line makes a state of a state.
LEMMA OnLineStays ==
    ASSUME NEW st \in States, NEW line \in Str
    PROVE  Conf!onLine(st, line) \in States
<1>1. PICK c \in Configs, kv \in Kvs, s \in Str, f \in BOOLEAN : st = Locals(c, kv, s, f)
  BY StateIs
<1>2. CASE Conf!StartsWith(line, "[")
  <2> DEFINE n == Conf!sectionName(line)
  <2>1. n \in Str /\ Conf!Empty \in Kvs /\ Conf!insert(c, s, kv) \in Configs
    BY NameIs, EmptyMap, InsertMaps DEF Kvs, Configs
  <2>2. CASE f = TRUE
    <3>0. st = Locals(c, kv, s, TRUE)
      BY <1>1, <2>2, Zenon
    <3>2. Conf!onLine(Locals(c, kv, s, TRUE), line) = Locals(c, kv, n, FALSE)
      BY <1>2, OnFirstHeader
    <3>1. Conf!onLine(st, line) = Locals(c, kv, n, FALSE)
      BY ONLY <3>0, <3>2
    <3> QED BY <2>1, <3>1, IsState
  <2>3. CASE f = FALSE
    <3>0. st = Locals(c, kv, s, FALSE)
      BY <1>1, <2>3, Zenon
    <3>2. Conf!onLine(Locals(c, kv, s, FALSE), line) = Locals(Conf!insert(c, s, kv), Conf!Empty, n, FALSE)
      BY <1>2, OnHeader
    <3>1. Conf!onLine(st, line) = Locals(Conf!insert(c, s, kv), Conf!Empty, n, FALSE)
      BY ONLY <3>0, <3>2
    <3> QED BY <2>1, <3>1, IsState
  <2> QED BY <2>2, <2>3
<1>3. CASE KeyLine(line)
  <2> DEFINE k == Conf!keyOf(line)
             v == Conf!valueOf(line)
  <2>1. k \in GoodKeys /\ v \in Str
    BY <1>3, Split DEF KeyLine
  <2>2. Conf!insert(kv, k, v) \in Kvs
    BY <2>1, InsertMaps DEF Kvs
  <2>3. Conf!onLine(st, line) = Locals(c, Conf!insert(kv, k, v), s, f)
    BY <1>1, <1>3, OnKey
  <2> QED BY <2>2, <2>3, IsState
<1>4. CASE ~Conf!StartsWith(line, "[") /\ ~KeyLine(line)
  BY <1>4, OnOther
<1> QED BY <1>2, <1>3, <1>4

\* The states of the loop over lines, from st on.
IsReading(f, st, lines) ==
    /\ f \in [0 .. Len(lines) -> States] /\ f[0] = st
    /\ \A n \in 1 .. Len(lines) : f[n] = Conf!onLine(f[n - 1], lines[n])

\* onLines gives the last of them.
LEMMA RunExists ==
    ASSUME NEW st \in States, NEW lines \in Seq(Str)
    PROVE  \E f : IsReading(f, st, lines) /\ Conf!onLines(st, lines) = f[Len(lines)]
<1> DEFINE N == Len(lines)
           step == [n \in 1 .. N |-> [x \in States |-> Conf!onLine(x, lines[n])]]
           Turns(g) == g = [n \in 0 .. N |-> IF n = 0 THEN st ELSE Conf!onLine(g[n - 1], lines[n])]
           after == CHOOSE g : Turns(g)
<1>0. N \in Nat /\ \A n \in 1 .. N : lines[n] \in Str
  OBVIOUS
<1>1. PICK g \in [0 .. N -> States] : IsLoop(g, N, st, step)
  <2>1. \A n \in 1 .. N : \A x \in States : Conf!onLine(x, lines[n]) \in States
    BY <1>0, OnLineStays
  <2>2. step \in [1 .. N -> [States -> States]]
    BY <2>1
  <2> HIDE DEF step, N
  <2> QED BY <1>0, <2>2, LoopExists
<1>2. Turns(g)
  <2>1. g = [n \in 0 .. N |-> IF n = 0 THEN st ELSE step[n][g[n - 1]]]
    BY <1>1 DEF IsLoop
  <2>2. \A n \in 0 .. N : n # 0 => g[n - 1] \in States /\ n \in 1 .. N
    BY <1>0, <1>1
  <2> HIDE DEF N
  <2> QED BY <2>1, <2>2
<1>3. Turns(after)
  BY <1>2, Zenon
<1>4. Conf!onLines(st, lines) = after[N]
  BY DEF Conf!onLines
<1> HIDE DEF after, N, step
<1>5. after[0] = st /\ \A n \in 1 .. N : after[n] = Conf!onLine(after[n - 1], lines[n])
  BY <1>0, <1>3
<1>6. \A n \in 0 .. N : after[n] \in States
  <2>1. Stays(after, N, States)
    <3>1. ASSUME NEW n \in 0 .. N - 1, after[n] \in States PROVE after[n + 1] \in States
      <4>1. n + 1 \in 1 .. N /\ (n + 1) - 1 = n
        BY <1>0
      <4>2. after[n + 1] = Conf!onLine(after[n], lines[n + 1])
        BY <1>5, <4>1
      <4> QED BY <1>0, <3>1, <4>1, <4>2, OnLineStays
    <3> QED BY <1>5, <3>1 DEF Stays
  <2> QED BY <1>0, <2>1, LoopStays
<1>7. after = [n \in 0 .. N |-> after[n]]
  BY <1>3
<1>8. after \in [0 .. N -> States]
  BY <1>6, <1>7
<1>9. IsReading(after, st, lines)
  BY <1>5, <1>8 DEF IsReading, N
<1> QED BY <1>4, <1>9 DEF N

\* There is one run.
LEMMA OneRun ==
    ASSUME NEW st, NEW a \in Seq(Str), NEW b \in Seq(Str), NEW f, NEW g,
           IsReading(f, st, a), IsReading(g, st, b), Len(a) <= Len(b),
           \A n \in 1 .. Len(a) : a[n] = b[n]
    PROVE  \A n \in 0 .. Len(a) : f[n] = g[n]
<1> DEFINE S == {n \in Nat : f[n] = g[n]}
<1>0. Len(a) \in Nat /\ Len(b) \in Nat
  OBVIOUS
<1>1. 0 \in S
  BY DEF IsReading
<1>2. ASSUME NEW n \in 0 .. Len(a) - 1, n \in S PROVE n + 1 \in S
  <2>1. n + 1 \in 1 .. Len(a) /\ n + 1 \in 1 .. Len(b) /\ (n + 1) - 1 = n
    BY <1>0
  <2>2. f[n + 1] = Conf!onLine(f[n], a[n + 1]) /\ g[n + 1] = Conf!onLine(g[n], b[n + 1])
    BY <2>1 DEF IsReading
  <2>3. f[n] = g[n] /\ n + 1 \in Nat
    BY <1>2
  <2> QED BY <2>1, <2>2, <2>3
<1> HIDE DEF S
<1>3. 0 .. Len(a) \subseteq S
  BY <1>0, <1>1, <1>2, UpTo
<1> QED BY <1>3 DEF S

\* Its end is what onLines gives.
LEMMA RunIs ==
    ASSUME NEW st \in States, NEW lines \in Seq(Str), NEW f, IsReading(f, st, lines)
    PROVE  Conf!onLines(st, lines) = f[Len(lines)] /\ f[Len(lines)] \in States
<1>1. PICK g : IsReading(g, st, lines) /\ Conf!onLines(st, lines) = g[Len(lines)]
  BY RunExists
<1>2. Len(lines) \in Nat
  OBVIOUS
<1>3. \A n \in 0 .. Len(lines) : f[n] = g[n]
  BY <1>1, <1>2, OneRun
<1> QED BY <1>1, <1>2, <1>3 DEF IsReading

\* Lines after lines.
LEMMA RunOn ==
    ASSUME NEW st \in States, NEW a \in Seq(Str), NEW b \in Seq(Str)
    PROVE  /\ Conf!onLines(st, a) \in States
           /\ Conf!onLines(st, a \o b) = Conf!onLines(Conf!onLines(st, a), b)
<1> DEFINE u == a \o b
           A == Len(a)
           B == Len(b)
<1>1. /\ u \in Seq(Str) /\ A \in Nat /\ B \in Nat /\ Len(u) = A + B
      /\ \A n \in 1 .. A : u[n] = a[n]
      /\ \A n \in 1 .. B : u[A + n] = b[n]
  <2>1. u \in Seq(Str) /\ A \in Nat /\ B \in Nat /\ Len(u) = A + B
        /\ \A n \in 1 .. A + B : u[n] = IF n <= A THEN a[n] ELSE b[n - A]
    BY ConcatProperties, LenProperties
  <2> HIDE DEF u, A, B
  <2>2. ASSUME NEW n \in 1 .. B PROVE u[A + n] = b[n]
    <3>1. A + n \in 1 .. A + B /\ ~(A + n <= A) /\ (A + n) - A = n
      BY <2>1
    <3> QED BY <2>1, <3>1
  <2>3. ASSUME NEW n \in 1 .. A PROVE u[n] = a[n]
    <3>1. n \in 1 .. A + B /\ n <= A
      BY <2>1
    <3> QED BY <2>1, <3>1
  <2> QED BY <2>1, <2>2, <2>3
<1> HIDE DEF u, A, B
<1>2. PICK f : IsReading(f, st, u) /\ Conf!onLines(st, u) = f[Len(u)]
  BY <1>1, RunExists
<1>3. PICK g : IsReading(g, st, a) /\ Conf!onLines(st, a) = g[Len(a)]
  BY RunExists
<1>4. Conf!onLines(st, a) = g[A] /\ g[A] \in States /\ g[A] = f[A]
  <2>1. \A n \in 0 .. Len(a) : g[n] = f[n]
    <3>1. Len(a) <= Len(u) /\ \A n \in 1 .. Len(a) : a[n] = u[n]
      BY <1>1 DEF A
    <3>2. IsReading(g, st, a) /\ IsReading(f, st, u) /\ u \in Seq(Str)
      BY <1>1, <1>2, <1>3
    <3> QED BY ONLY <3>1, <3>2, a \in Seq(Str), OneRun
  <2>2. A \in 0 .. Len(a)
    BY <1>1 DEF A
  <2>3. g \in [0 .. Len(a) -> States]
    BY <1>3 DEF IsReading
  <2>4. g[A] \in States
    BY <2>2, <2>3
  <2>5. g[A] = f[A]
    BY <2>1, <2>2
  <2> QED BY <1>3, <2>4, <2>5 DEF A
<1> DEFINE h == [n \in 0 .. B |-> f[A + n]]
<1>5. IsReading(h, f[A], b)
  <2>1. h \in [0 .. Len(b) -> States]
    <3>1. \A n \in 0 .. B : A + n \in 0 .. Len(u)
      BY <1>1
    <3> QED BY <1>2, <3>1 DEF IsReading, B
  <2>2. h[0] = f[A]
    BY <1>1
  <2>3. ASSUME NEW n \in 1 .. Len(b) PROVE h[n] = Conf!onLine(h[n - 1], b[n])
    <3>0. n \in 1 .. B
      BY DEF B
    <3>1. A + n \in 1 .. Len(u) /\ (A + n) - 1 = A + (n - 1) /\ n \in 0 .. B /\ n - 1 \in 0 .. B
      BY <1>1, <3>0
    <3>2. f[A + n] = Conf!onLine(f[A + (n - 1)], u[A + n])
      BY <1>2, <3>1 DEF IsReading
    <3>3. u[A + n] = b[n]
      BY <1>1, <3>0
    <3> QED BY <3>1, <3>2, <3>3
  <2> HIDE DEF h
  <2> QED BY <2>1, <2>2, <2>3 DEF IsReading
<1>6. h[B] = f[Len(u)]
  BY <1>1
<1> HIDE DEF h
<1>7. f[A] \in States
  BY <1>4
<1>8. Conf!onLines(f[A], b) = h[B]
  BY <1>5, <1>7, RunIs DEF B
<1> QED BY <1>2, <1>4, <1>6, <1>8 DEF u

\* No line, and one line.
LEMMA RunShort ==
    ASSUME NEW st \in States, NEW line \in Str
    PROVE  Conf!onLines(st, << >>) = st /\ Conf!onLines(st, <<line>>) = Conf!onLine(st, line)
<1>1. Conf!onLines(st, << >>) = st
  <2>1. << >> \in Seq(Str) /\ Len(<< >>) = 0
    OBVIOUS
  <2>2. PICK f : IsReading(f, st, << >>) /\ Conf!onLines(st, << >>) = f[Len(<< >>)]
    BY <2>1, RunExists
  <2> QED BY <2>1, <2>2 DEF IsReading
<1>2. Conf!onLines(st, <<line>>) = Conf!onLine(st, line)
  <2> DEFINE u == <<line>>
  <2>1. u \in Seq(Str) /\ Len(u) = 1 /\ u[1] = line
    OBVIOUS
  <2> HIDE DEF u
  <2>2. PICK f : IsReading(f, st, u) /\ Conf!onLines(st, u) = f[Len(u)]
    BY <2>1, RunExists
  <2>3. f[0] = st /\ f[1] = Conf!onLine(f[1 - 1], u[1])
    BY <2>1, <2>2 DEF IsReading
  <2> QED BY <2>1, <2>2, <2>3 DEF u
<1> QED BY <1>1, <1>2


\* The headers of a text.
LEMMA HeadersAre ==
    ASSUME NEW lines \in Seq(Str)
    PROVE  /\ Len(lines) \in Nat /\ \A i \in 1 .. Len(lines) : lines[i] \in Str
           /\ Conf!Headers(lines) = {i \in 1 .. Len(lines) : Conf!StartsWith(lines[i], "[")}
<1>1. Len(lines) \in Nat /\ DOMAIN lines = 1 .. Len(lines) /\ \A i \in 1 .. Len(lines) : lines[i] \in Str
  OBVIOUS
<1>2. \A i : Conf!decideLineType(lines[i]).type = "SECTION" <=> Conf!StartsWith(lines[i], "[")
  BY LineIs
<1> QED BY <1>1, <1>2 DEF Conf!Headers

\* The header of a line.
LEMMA HeaderIs ==
    ASSUME NEW lines \in Seq(Str), NEW i \in 1 .. Len(lines) + 1
    PROVE  LET H == Conf!Headers(lines)  d == Conf!Header(lines, i)
           IN  /\ (\E h \in H : h < i) => d \in H /\ d < i /\ \A h \in H : h < i => h <= d
               /\ (\A h \in H : ~(h < i)) /\ H # {} => d \in H /\ \A h \in H : d <= h
               /\ H = {} => d = 0
<1> DEFINE H == Conf!Headers(lines)
           d == Conf!Header(lines, i)
           B == {h \in H : h < i}
<1>0. Len(lines) \in Nat /\ H \subseteq 1 .. Len(lines)
  BY HeadersAre
<1>d. d = IF B # {} THEN Conf!Max(B) ELSE IF H # {} THEN Conf!Min(H) ELSE 0
  BY DEF Conf!Header
<1> HIDE DEF d
<1>1. ASSUME \E h \in H : h < i PROVE d \in H /\ d < i /\ \A h \in H : h < i => h <= d
  <2>1. B # {} /\ B \in SUBSET (0 .. Len(lines))
    BY <1>0, <1>1
  <2>2. d = Conf!Max(B)
    BY <1>d, <2>1
  <2> HIDE DEF B
  <2>3. d \in B /\ \A k \in B : k <= d
    BY <1>0, <2>1, <2>2, MaxOf
  <2> QED BY <2>3 DEF B
<1>2. ASSUME \A h \in H : ~(h < i), H # {} PROVE d \in H /\ \A h \in H : d <= h
  <2>1. B = {} /\ H \in SUBSET Nat
    BY <1>0, <1>2
  <2>2. d = Conf!Min(H)
    BY <1>d, <1>2, <2>1
  <2> HIDE DEF B, H
  <2> QED BY <1>2, <2>1, <2>2, LeastOf
<1>3. ASSUME H = {} PROVE d = 0
  BY <1>d, <1>3
<1> QED BY <1>1, <1>2, <1>3 DEF d

\* The settings of block h up to line n, and a map of the first value of each key of them.
Settings(lines, h, n) == {i \in 1 .. n : KeyLine(lines[i]) /\ Conf!Header(lines, i) = h}

FirstIn(m, lines, P) ==
    /\ DOMAIN m = {Conf!keyOf(lines[i]) : i \in P}
    /\ \A i \in P : (\A j \in P : j < i => Conf!keyOf(lines[j]) # Conf!keyOf(lines[i]))
                      => m[Conf!keyOf(lines[i])] = Conf!valueOf(lines[i])

\* One more setting.
LEMMA FirstInGrows ==
    ASSUME NEW lines \in Seq(Str), NEW n \in 1 .. Len(lines), NEW P \in SUBSET (1 .. n - 1),
           NEW m \in Kvs, FirstIn(m, lines, P), KeyLine(lines[n])
    PROVE  LET g == Conf!insert(m, Conf!keyOf(lines[n]), Conf!valueOf(lines[n]))
           IN  g \in Kvs /\ FirstIn(g, lines, P \cup {n})
<1> DEFINE k == Conf!keyOf(lines[n])
           v == Conf!valueOf(lines[n])
           g == Conf!insert(m, k, v)
<1>1. Len(lines) \in Nat /\ lines[n] \in Str
  BY HeadersAre
<1>2. k \in GoodKeys /\ v \in Str
  BY <1>1, Split DEF KeyLine
<1>3. /\ g \in Kvs /\ DOMAIN g = DOMAIN m \cup {k} /\ \A x \in DOMAIN m : g[x] = m[x]
      /\ k \notin DOMAIN m => g[k] = v
  <2> HIDE DEF k, v
  <2>1. g \in Kvs
    BY <1>2, InsertMaps DEF Kvs
  <2>2. /\ DOMAIN g = DOMAIN m \cup {k} /\ \A x \in DOMAIN m : g[x] = m[x]
        /\ k \notin DOMAIN m => g[k] = v
    BY DEF Conf!insert
  <2> QED BY <2>1, <2>2, Zenon
<1> HIDE DEF g
<1>4. DOMAIN g = {Conf!keyOf(lines[i]) : i \in P \cup {n}}
  BY <1>3 DEF FirstIn
<1>5. ASSUME NEW i \in P \cup {n},
             \A j \in P \cup {n} : j < i => Conf!keyOf(lines[j]) # Conf!keyOf(lines[i])
      PROVE  g[Conf!keyOf(lines[i])] = Conf!valueOf(lines[i])
  <2>1. CASE i \in P
    <3>1. m[Conf!keyOf(lines[i])] = Conf!valueOf(lines[i])
      BY <1>5, <2>1 DEF FirstIn
    <3>2. Conf!keyOf(lines[i]) \in DOMAIN m
      BY <2>1 DEF FirstIn
    <3> QED BY <1>3, <3>1, <3>2
  <2>2. CASE i = n
    <3>1. \A j \in P : j < n
      BY <1>1
    <3>2. k \notin DOMAIN m
      BY <1>5, <2>2, <3>1 DEF FirstIn
    <3> QED BY <1>3, <2>2, <3>2
  <2> QED BY <2>1, <2>2
<1> QED BY <1>3, <1>4, <1>5 DEF FirstIn, g

\* The blocks that are complete before line n, and a map of the first of each name.
Name(lines, h) == Conf!HeaderName(lines, h)

Kept(c, lines, Done) ==
    /\ DOMAIN c = {Name(lines, h) : h \in Done}
    /\ \A h \in Done : (\A g \in Done : g < h => Name(lines, g) # Name(lines, h))
                         => FirstIn(c[Name(lines, h)], lines, Settings(lines, h, Len(lines)))

\* One more block, behind the others.
LEMMA KeptGrows ==
    ASSUME NEW lines, NEW c \in Configs, NEW Done \in SUBSET Nat, Kept(c, lines, Done),
           NEW h \in Nat, \A g \in Done : g < h, Name(lines, h) \in Str,
           NEW kv \in Kvs, FirstIn(kv, lines, Settings(lines, h, Len(lines)))
    PROVE  /\ Conf!insert(c, Name(lines, h), kv) \in Configs
           /\ Kept(Conf!insert(c, Name(lines, h), kv), lines, Done \cup {h})
<1> DEFINE s == Name(lines, h)
           d == Conf!insert(c, s, kv)
<1>1. /\ d \in Configs /\ DOMAIN d = DOMAIN c \cup {s} /\ \A x \in DOMAIN c : d[x] = c[x]
      /\ s \notin DOMAIN c => d[s] = kv
  <2> HIDE DEF s
  <2>1. s \in Str
    BY DEF s
  <2>2. d \in Configs
    BY <2>1, InsertMaps DEF Configs
  <2>3. /\ DOMAIN d = DOMAIN c \cup {s} /\ \A x \in DOMAIN c : d[x] = c[x]
        /\ s \notin DOMAIN c => d[s] = kv
    BY DEF Conf!insert
  <2> QED BY <2>2, <2>3, Zenon
<1> HIDE DEF d
<1>2. DOMAIN d = {Name(lines, g) : g \in Done \cup {h}}
  BY <1>1 DEF Kept
<1>3. ASSUME NEW i \in Done \cup {h},
             \A g \in Done \cup {h} : g < i => Name(lines, g) # Name(lines, i)
      PROVE  FirstIn(d[Name(lines, i)], lines, Settings(lines, i, Len(lines)))
  <2>1. CASE i \in Done
    <3>1. FirstIn(c[Name(lines, i)], lines, Settings(lines, i, Len(lines)))
      BY <1>3, <2>1 DEF Kept
    <3>2. Name(lines, i) \in DOMAIN c
      BY <2>1 DEF Kept
    <3>3. d[Name(lines, i)] = c[Name(lines, i)]
      BY <1>1, <3>2
    <3> QED BY <3>1, <3>3
  <2>2. CASE i = h
    <3>1. s \notin DOMAIN c
      BY <1>3, <2>2 DEF Kept
    <3>2. d[Name(lines, i)] = kv
      BY <1>1, <2>2, <3>1
    <3> QED BY <2>2, <3>2
  <2> QED BY <2>1, <2>2
<1> QED BY <1>1, <1>2, <1>3 DEF Kept, d

\* What has been read after n lines, the block of line n + 1 being the current one.
Ahead(lines, n) == {h \in Conf!Headers(lines) : h < Conf!Header(lines, n + 1)}

ReadTo(lines, n, c, kv, s, f) ==
    /\ c \in Configs /\ kv \in Kvs /\ s \in Str
    /\ (\A h \in Conf!Headers(lines) : n < h) => f = TRUE /\ s = Conf!Empty /\ c = Conf!Empty
    /\ (\E h \in Conf!Headers(lines) : ~(n < h)) =>
           f = FALSE /\ s = Name(lines, Conf!Header(lines, n + 1))
    /\ FirstIn(kv, lines, Settings(lines, Conf!Header(lines, n + 1), n))
    /\ Kept(c, lines, Ahead(lines, n))


\* A line that is no header leaves the current block what it was.
LEMMA HeaderStays ==
    ASSUME NEW lines \in Seq(Str), NEW n \in 0 .. Len(lines) - 1, n + 1 \notin Conf!Headers(lines)
    PROVE  Conf!Header(lines, n + 2) = Conf!Header(lines, n + 1)
<1> DEFINE H == Conf!Headers(lines)
<1>0. Len(lines) \in Nat /\ H \subseteq 1 .. Len(lines) /\ n + 1 \in 1 .. Len(lines) + 1
      /\ n + 2 \in 1 .. Len(lines) + 1
  BY HeadersAre
<1>1. \A h \in H : h \in Int /\ (h < n + 2 <=> h < n + 1)
  <2> SUFFICES ASSUME NEW h \in H PROVE h \in Int /\ (h < n + 2 <=> h < n + 1)
    OBVIOUS
  <2>1. h \in Int /\ h # n + 1 /\ n \in Int
    BY <1>0
  <2> QED BY ONLY <2>1
<1> HIDE DEF H
<1>2. {h \in H : h < n + 2} = {h \in H : h < n + 1}
  BY <1>1
<1> QED BY <1>2 DEF Conf!Header, H

\* The first header: the lines above it belong to its block.
LEMMA HeaderFirst ==
    ASSUME NEW lines \in Seq(Str), NEW n \in 0 .. Len(lines) - 1, n + 1 \in Conf!Headers(lines),
           \A h \in Conf!Headers(lines) : n < h
    PROVE  Conf!Header(lines, n + 1) = n + 1 /\ Conf!Header(lines, n + 2) = n + 1
<1> DEFINE H == Conf!Headers(lines)
<1>0. Len(lines) \in Nat /\ H \subseteq 1 .. Len(lines) /\ n + 1 \in 1 .. Len(lines) + 1
      /\ n + 2 \in 1 .. Len(lines) + 1 /\ n \in Nat
  BY HeadersAre
<1> DEFINE d == Conf!Header(lines, n + 1)
           e == Conf!Header(lines, n + 2)
<1>1. d = n + 1
  <2>1. \A h \in H : ~(h < n + 1)
    BY <1>0
  <2>2. d \in H /\ d <= n + 1
    BY <1>0, <2>1, HeaderIs
  <2> HIDE DEF d
  <2>3. d \in Int /\ n < d
    BY <1>0, <2>2
  <2> QED BY <1>0, <2>2, <2>3
<1>2. e = n + 1
  <2>1. \E h \in H : h < n + 2
    BY <1>0
  <2>2. e \in H /\ e < n + 2 /\ (n + 1 < n + 2 => n + 1 <= e)
    BY <1>0, <2>1, HeaderIs
  <2> HIDE DEF e
  <2>3. e \in Int
    BY <1>0, <2>2
  <2> QED BY <1>0, <2>2, <2>3
<1> QED BY <1>1, <1>2

\* A further header completes the current block and begins its own.
LEMMA HeaderNext ==
    ASSUME NEW lines \in Seq(Str), NEW n \in 0 .. Len(lines) - 1, n + 1 \in Conf!Headers(lines),
           \E h \in Conf!Headers(lines) : ~(n < h)
    PROVE  LET H == Conf!Headers(lines)  d == Conf!Header(lines, n + 1)
           IN  /\ d \in H /\ d < n + 1 /\ Conf!Header(lines, n + 2) = n + 1
               /\ {h \in H : h < n + 1} = {h \in H : h < d} \cup {d}
               /\ Settings(lines, n + 1, n + 1) = {}
               /\ Settings(lines, d, Len(lines)) = Settings(lines, d, n)
<1> DEFINE H == Conf!Headers(lines)
           N == Len(lines)
           d == Conf!Header(lines, n + 1)
           e == Conf!Header(lines, n + 2)
<1>0. N \in Nat /\ H \subseteq 1 .. N /\ n + 1 \in 1 .. N + 1
      /\ n + 2 \in 1 .. N + 1 /\ n \in Nat
  BY HeadersAre
<1>k. \A h \in H : ~KeyLine(lines[h])
  BY HeadersAre DEF KeyLine
<1>1. d \in H /\ d < n + 1 /\ \A h \in H : h < n + 1 => h <= d
  <2>1. \E h \in H : h < n + 1
    BY <1>0
  <2> QED BY <1>0, <2>1, HeaderIs
<1>2. e = n + 1
  <2>1. \E h \in H : h < n + 2
    BY <1>0
  <2>2. e \in H /\ e < n + 2 /\ (n + 1 < n + 2 => n + 1 <= e)
    BY <1>0, <2>1, HeaderIs
  <2> HIDE DEF e
  <2>3. e \in Int
    BY <1>0, <2>2
  <2> QED BY <1>0, <2>2, <2>3
<1> HIDE DEF d, e, H
<1>3. {h \in H : h < n + 1} = {h \in H : h < d} \cup {d}
  <2>1. ASSUME NEW h \in H PROVE h < n + 1 <=> (h < d \/ h = d)
    <3>1. h \in Int /\ d \in Int
      BY <1>0, <1>1
    <3> QED BY <1>0, <1>1, <3>1
  <2> QED BY <1>1, <2>1
<1>4. ASSUME NEW i \in 1 .. n + 1 PROVE Conf!Header(lines, i) # n + 1
  <2> DEFINE x == Conf!Header(lines, i)
  <2>0. i \in 1 .. N + 1
    BY <1>0
  <2>1. CASE \E h \in H : h < i
    <3>1. x \in H /\ x < i
      BY <2>0, <2>1, HeaderIs DEF H
    <3> HIDE DEF x
    <3>2. x \in Int /\ i \in Int
      BY <1>0, <3>1
    <3>3. x # n + 1
      BY <1>0, <3>1, <3>2
    <3> QED BY <3>3 DEF x
  <2>2. CASE \A h \in H : ~(h < i)
    <3>1. x <= d /\ x \in H
      BY <1>1, <2>0, <2>2, HeaderIs DEF H
    <3> HIDE DEF x
    <3>2. x \in Int /\ d \in Int
      BY <1>0, <1>1, <3>1
    <3>3. x # n + 1
      BY <1>0, <1>1, <3>1, <3>2
    <3> QED BY <3>3 DEF x
  <2> QED BY <2>1, <2>2
<1>5. Settings(lines, n + 1, n + 1) = {}
  BY <1>4 DEF Settings
<1>6. ASSUME NEW i \in 1 .. N, KeyLine(lines[i]), Conf!Header(lines, i) = d PROVE i \in 1 .. n
  <2>1. i # n + 1
    BY <1>6, <1>k DEF H
  <2>2. ASSUME i > n + 1 PROVE FALSE
    <3>1. i \in 1 .. N + 1 /\ n + 1 \in H /\ n + 1 < i
      BY <1>0, <2>2 DEF H
    <3>2. n + 1 <= Conf!Header(lines, i)
      BY <3>1, HeaderIs DEF H
    <3>3. d \in Int
      BY <1>0, <1>1
    <3> QED BY <1>0, <1>1, <1>6, <3>2, <3>3
  <2> QED BY <1>0, <2>1, <2>2
<1>7. Settings(lines, d, N) = Settings(lines, d, n)
  <2>1. \A i \in 1 .. n : i \in 1 .. N
    BY <1>0
  <2> QED BY <1>6, <2>1 DEF Settings
<1> QED BY <1>1, <1>2, <1>3, <1>5, <1>7 DEF H, d, e

\* Nothing has been read.
LEMMA ReadStart ==
    ASSUME NEW lines \in Seq(Str)
    PROVE  ReadTo(lines, 0, Conf!Empty, Conf!Empty, Conf!Empty, TRUE)
<1> DEFINE H == Conf!Headers(lines)
           d == Conf!Header(lines, 1)
<1>0. Len(lines) \in Nat /\ H \subseteq 1 .. Len(lines) /\ 1 \in 1 .. Len(lines) + 1
  BY HeadersAre
<1>1. Conf!Empty \in Configs /\ Conf!Empty \in Kvs /\ Conf!Empty \in Str /\ DOMAIN Conf!Empty = {}
  <2>1. Conf!Empty \in Str
    BY DEF Conf!Empty, Str
  <2> QED BY <2>1, EmptyMap DEF Configs, Kvs
<1>2. \A h \in H : 0 < h /\ ~(h < 1)
  BY <1>0
<1>3. Settings(lines, d, 0) = {} /\ {h \in H : h < d} = {}
  <2>1. Settings(lines, d, 0) = {}
    BY DEF Settings
  <2>2. CASE H = {}
    BY <2>1, <2>2
  <2>3. CASE H # {}
    <3>1. \A h \in H : d <= h
      BY <1>0, <1>2, <2>3, HeaderIs
    <3>2. d \in H
      BY <1>0, <1>2, <2>3, HeaderIs
    <3> HIDE DEF d
    <3>3. \A h \in H : h \in Int /\ d \in Int /\ ~(h < d)
      BY <1>0, <3>1, <3>2
    <3> QED BY <2>1, <3>3 DEF d
  <2> QED BY <2>2, <2>3
<1>4. FirstIn(Conf!Empty, lines, {}) /\ Kept(Conf!Empty, lines, {})
  BY <1>1 DEF FirstIn, Kept
<1>5. 0 + 1 = 1
  OBVIOUS
<1>6. FirstIn(Conf!Empty, lines, Settings(lines, d, 0))
  BY <1>3, <1>4
<1>7. Kept(Conf!Empty, lines, Ahead(lines, 0))
  BY <1>3, <1>4, <1>5 DEF Ahead
<1> HIDE DEF d
<1>8. d = Conf!Header(lines, 0 + 1)
  BY <1>5 DEF d
<1> QED BY <1>1, <1>2, <1>6, <1>7, <1>8, Zenon DEF ReadTo


\* A line of the text that is read next.
LEMMA ReadStep ==
    ASSUME NEW lines \in Seq(Str), NEW n \in 0 .. Len(lines) - 1,
           NEW c, NEW kv, NEW s, NEW f, ReadTo(lines, n, c, kv, s, f)
    PROVE  \E c2, kv2, s2, f2 :
               /\ ReadTo(lines, n + 1, c2, kv2, s2, f2)
               /\ Conf!onLine(Locals(c, kv, s, f), lines[n + 1]) = Locals(c2, kv2, s2, f2)
<1> DEFINE H == Conf!Headers(lines)
           N == Len(lines)
           d == Conf!Header(lines, n + 1)
           e == Conf!Header(lines, (n + 1) + 1)
           line == lines[n + 1]
<1>0. N \in Nat /\ H \subseteq 1 .. N /\ n + 1 \in 1 .. N /\ n \in Nat /\ (n + 1) + 1 = n + 2
  BY HeadersAre
<1>l. line \in Str /\ (n + 1 \in H <=> Conf!StartsWith(line, "["))
  BY <1>0, HeadersAre
<1>r. /\ c \in Configs /\ kv \in Kvs /\ s \in Str
      /\ (\A h \in H : n < h) => f = TRUE /\ s = Conf!Empty /\ c = Conf!Empty
      /\ (\E h \in H : ~(n < h)) => f = FALSE /\ s = Name(lines, d)
      /\ FirstIn(kv, lines, Settings(lines, d, n))
      /\ Kept(c, lines, {h \in H : h < d})
  BY DEF ReadTo, Ahead
<1>a. ASSUME NEW c2 \in Configs, NEW kv2 \in Kvs, NEW s2 \in Str, NEW f2,
             (\A h \in H : n + 1 < h) => f2 = TRUE /\ s2 = Conf!Empty /\ c2 = Conf!Empty,
             (\E h \in H : ~(n + 1 < h)) => f2 = FALSE /\ s2 = Name(lines, e),
             FirstIn(kv2, lines, Settings(lines, e, n + 1)),
             Kept(c2, lines, {h \in H : h < e})
      PROVE  ReadTo(lines, n + 1, c2, kv2, s2, f2)
  BY <1>a, Zenon DEF ReadTo, Ahead
<1> HIDE DEF H, d, e, N
<1>1. CASE n + 1 \notin H
  <2>1. e = d
    BY <1>0, <1>1, HeaderStays DEF H, d, e
  <2>2. ASSUME NEW h \in H PROVE n + 1 < h <=> n < h
    <3>1. h \in Int /\ h # n + 1
      BY <1>0, <1>1
    <3> QED BY <1>0, <3>1
  <2>3. /\ (\A h \in H : n + 1 < h) => f = TRUE /\ s = Conf!Empty /\ c = Conf!Empty
        /\ (\E h \in H : ~(n + 1 < h)) => f = FALSE /\ s = Name(lines, e)
    BY <1>r, <2>1, <2>2, Zenon
  <2>4. ~Conf!StartsWith(line, "[")
    BY <1>1, <1>l
  <2>5. CASE KeyLine(line)
    <3> DEFINE kv2 == Conf!insert(kv, Conf!keyOf(line), Conf!valueOf(line))
               P == Settings(lines, d, n)
    <3>1. Conf!onLine(Locals(c, kv, s, f), line) = Locals(c, kv2, s, f)
      BY <2>5, OnKey
    <3>2. CASE Conf!Header(lines, n + 1) = d
      <4>1. P \in SUBSET (1 .. (n + 1) - 1) /\ n + 1 \in 1 .. Len(lines)
        BY <1>0 DEF Settings, N
      <4>2. P \cup {n + 1} = Settings(lines, d, n + 1)
        <5>1. 1 .. n + 1 = (1 .. n) \cup {n + 1}
          BY <1>0
        <5> QED BY <5>1, <2>5, <3>2 DEF Settings
      <4>3. kv2 \in Kvs /\ FirstIn(kv2, lines, P \cup {n + 1})
        <5> HIDE DEF P
        <5> QED BY <1>r, <2>5, <4>1, FirstInGrows DEF P
      <4> HIDE DEF kv2
      <4>4. FirstIn(kv2, lines, Settings(lines, e, n + 1)) /\ Kept(c, lines, {h \in H : h < e})
        BY <1>r, <2>1, <4>2, <4>3
      <4>5. ReadTo(lines, n + 1, c, kv2, s, f)
        BY <1>a, <1>r, <2>3, <4>3, <4>4, Zenon
      <4> QED BY <3>1, <4>5
    <3> QED BY <3>2 DEF d
  <2>6. CASE ~KeyLine(line)
    <3>1. Conf!onLine(Locals(c, kv, s, f), line) = Locals(c, kv, s, f)
      BY <2>4, <2>6, OnOther
    <3>2. Settings(lines, d, n + 1) = Settings(lines, d, n)
      <4>1. 1 .. n + 1 = (1 .. n) \cup {n + 1}
        BY <1>0
      <4> QED BY <2>6, <4>1 DEF Settings
    <3>3. FirstIn(kv, lines, Settings(lines, e, n + 1)) /\ Kept(c, lines, {h \in H : h < e})
      BY <1>r, <2>1, <3>2
    <3>4. ReadTo(lines, n + 1, c, kv, s, f)
      BY <1>a, <1>r, <2>3, <3>3, Zenon
    <3> QED BY <3>1, <3>4
  <2> QED BY <2>5, <2>6
<1>2. CASE n + 1 \in H
  <2> DEFINE name == Conf!sectionName(line)
  <2>1. name \in Str /\ Conf!StartsWith(line, "[") /\ Name(lines, n + 1) = name
    BY <1>0, <1>2, <1>l, NameIs DEF Name, Conf!HeaderName
  <2>n. ~(n + 1 < n + 1) /\ ~KeyLine(line)
    BY <1>0, <2>1 DEF KeyLine
  <2> HIDE DEF name
  <2>2. CASE \A h \in H : n < h
    <3>1. d = n + 1 /\ e = n + 1
      BY <1>0, <1>2, <2>2, HeaderFirst DEF H, d, e
    <3>2. f = TRUE
      BY <1>r, <2>2, Zenon
    <3>3. Conf!onLine(Locals(c, kv, s, TRUE), line) = Locals(c, kv, name, FALSE)
      BY <2>1, OnFirstHeader DEF name
    <3>4. Conf!onLine(Locals(c, kv, s, f), line) = Locals(c, kv, name, FALSE)
      BY ONLY <3>2, <3>3, Zenon
    <3>5. Settings(lines, d, n + 1) = Settings(lines, d, n)
      <4>1. 1 .. n + 1 = (1 .. n) \cup {n + 1}
        BY <1>0
      <4> QED BY <2>n, <4>1 DEF Settings
    <3>6. FirstIn(kv, lines, Settings(lines, e, n + 1)) /\ Kept(c, lines, {h \in H : h < e})
      BY <1>r, <3>1, <3>5
    <3>7. name = Name(lines, e)
      BY <2>1, <3>1
    <3>8. ReadTo(lines, n + 1, c, kv, name, FALSE)
      BY <1>2, <1>a, <1>r, <2>1, <2>n, <3>6, <3>7, Zenon
    <3> QED BY <3>4, <3>8, Zenon
  <2>3. CASE \E h \in H : ~(n < h)
    <3>1. /\ d \in H /\ d < n + 1 /\ e = n + 1
          /\ {h \in H : h < n + 1} = {h \in H : h < d} \cup {d}
          /\ Settings(lines, n + 1, n + 1) = {}
          /\ Settings(lines, d, N) = Settings(lines, d, n)
      <4>1. \E h \in Conf!Headers(lines) : ~(n < h)
        BY <2>3 DEF H
      <4>2. n + 1 \in Conf!Headers(lines)
        BY <1>2 DEF H
      <4> QED BY <1>0, <4>1, <4>2, HeaderNext DEF H, d, e, N
    <3>2. f = FALSE /\ s = Name(lines, d)
      BY <1>r, <2>3, Zenon
    <3> DEFINE c2 == Conf!insert(c, s, kv)
    <3>3. Conf!onLine(Locals(c, kv, s, FALSE), line) = Locals(c2, Conf!Empty, name, FALSE)
      BY <2>1, OnHeader DEF name
    <3>4. Conf!onLine(Locals(c, kv, s, f), line) = Locals(c2, Conf!Empty, name, FALSE)
      BY ONLY <3>2, <3>3, Zenon
    <3> DEFINE Done == {h \in H : h < d}
    <3>5. c2 \in Configs /\ Kept(c2, lines, Done \cup {d})
      <4>1. Done \in SUBSET Nat /\ d \in Nat /\ \A g \in Done : g < d
        <5>1. H \subseteq Nat /\ d \in H
          BY <1>0, <3>1
        <5>2. \A g \in Done : g < d /\ g \in H
          OBVIOUS
        <5> QED BY <5>1, <5>2
      <4> HIDE DEF Done
      <4>2. Kept(c, lines, Done) /\ Name(lines, d) \in Str
        BY <1>r, <3>2 DEF Done
      <4>3. FirstIn(kv, lines, Settings(lines, d, Len(lines)))
        BY <1>r, <3>1 DEF N
      <4> QED BY <1>r, <3>2, <4>1, <4>2, <4>3, KeptGrows
    <3> HIDE DEF c2
    <3>6. Kept(c2, lines, {h \in H : h < e})
      BY <3>1, <3>5
    <3>7. Conf!Empty \in Kvs /\ FirstIn(Conf!Empty, lines, Settings(lines, e, n + 1))
      <4>1. Conf!Empty \in Kvs /\ DOMAIN Conf!Empty = {}
        BY EmptyMap DEF Kvs
      <4>2. Settings(lines, e, n + 1) = {}
        BY <3>1
      <4> QED BY <4>1, <4>2 DEF FirstIn
    <3>8. name = Name(lines, e)
      BY <2>1, <3>1
    <3>9. ReadTo(lines, n + 1, c2, Conf!Empty, name, FALSE)
      BY <1>2, <1>a, <2>1, <2>n, <3>5, <3>6, <3>7, <3>8, Zenon
    <3> QED BY <3>4, <3>9, Zenon
  <2> QED BY <2>2, <2>3, Zenon
<1> QED BY <1>1, <1>2


\* What a text has become when it has been read.
Loaded(map, lines) == map \in Configs /\ Kept(map, lines, Conf!Blocks(lines))

\* loadConfig2Map reads the text.
LEMMA LoadReads ==
    ASSUME NEW lines \in Seq(Str)
    PROVE  Loaded(Conf!loadConfig2Map(lines), lines)
<1> DEFINE N == Len(lines)
           H == Conf!Headers(lines)
           st == Locals(Conf!Empty, Conf!Empty, Conf!Empty, TRUE)
<1>0. N \in Nat /\ H \subseteq 1 .. N /\ N + 1 \in 1 .. Len(lines) + 1
  BY HeadersAre
<1>1. ReadTo(lines, 0, Conf!Empty, Conf!Empty, Conf!Empty, TRUE)
  BY ReadStart
<1>2. st \in States
  <2>1. Conf!Empty \in Configs /\ Conf!Empty \in Kvs /\ Conf!Empty \in Str
    BY <1>1 DEF ReadTo
  <2> QED BY <2>1, IsState
<1>3. PICK g : IsReading(g, st, lines) /\ Conf!onLines(st, lines) = g[N]
  BY <1>2, RunExists
<1> DEFINE S == {n \in Nat : \E c, kv, s, f : g[n] = Locals(c, kv, s, f) /\ ReadTo(lines, n, c, kv, s, f)}
<1>4. 0 \in S
  BY <1>1, <1>3 DEF IsReading
<1>5. ASSUME NEW n \in 0 .. N - 1, n \in S PROVE n + 1 \in S
  <2>1. PICK c, kv, s, f : g[n] = Locals(c, kv, s, f) /\ ReadTo(lines, n, c, kv, s, f)
    BY <1>5
  <2>2. n + 1 \in 1 .. N /\ (n + 1) - 1 = n /\ n + 1 \in Nat
    BY <1>0
  <2>3. g[n + 1] = Conf!onLine(g[n], lines[n + 1])
    BY <1>3, <2>2 DEF IsReading
  <2>4. PICK c2, kv2, s2, f2 :
            /\ ReadTo(lines, n + 1, c2, kv2, s2, f2)
            /\ Conf!onLine(Locals(c, kv, s, f), lines[n + 1]) = Locals(c2, kv2, s2, f2)
    BY <2>1, ReadStep
  <2>5. g[n + 1] = Locals(c2, kv2, s2, f2)
    BY <2>1, <2>3, <2>4
  <2> QED BY <2>2, <2>4, <2>5
<1> HIDE DEF S, N
<1>6. N \in S
  <2>1. 0 .. N \subseteq S
    BY <1>0, <1>4, <1>5, UpTo
  <2> QED BY <1>0, <2>1
<1>7. PICK c, kv, s, f : g[N] = Locals(c, kv, s, f) /\ ReadTo(lines, N, c, kv, s, f)
  BY <1>6 DEF S
<1> DEFINE map == Conf!insert(c, s, kv)
           d == Conf!Header(lines, N + 1)
           Done == {h \in H : h < d}
<1>8. Conf!loadConfig2Map(lines) = map
  <2>1. Conf!onLines(st, lines) = Locals(c, kv, s, f)
    BY <1>3, <1>7
  <2>2. /\ Locals(c, kv, s, f).configMap = c /\ Locals(c, kv, s, f).kvMap = kv
        /\ Locals(c, kv, s, f).section = s
    BY LocalsAre
  <2>3. Conf!loadConfig2Map(lines)
          = LET end == Conf!onLines(st, lines) IN Conf!insert(end.configMap, end.section, end.kvMap)
    BY DEF Conf!loadConfig2Map, Locals
  <2> HIDE DEF st
  <2> QED BY <2>1, <2>2, <2>3
<1>9. c \in Configs /\ kv \in Kvs /\ s \in Str /\ FirstIn(kv, lines, Settings(lines, d, N))
      /\ Kept(c, lines, Done)
  BY <1>7 DEF ReadTo, Ahead
<1>10. /\ d \in Nat /\ s = Name(lines, d) /\ Done \in SUBSET Nat /\ \A h \in Done : h < d
       /\ Conf!Blocks(lines) = Done \cup {d}
  <2>1. CASE H = {}
    <3>1. d = 0
      BY <1>0, <2>1, HeaderIs
    <3>2. s = Conf!Empty
      BY <1>7, <2>1, Zenon DEF ReadTo
    <3>3. Name(lines, d) = Conf!Empty
      BY <3>1 DEF Name, Conf!HeaderName
    <3>4. Conf!Blocks(lines) = {0} /\ Done = {}
      BY <2>1 DEF Conf!Blocks
    <3> QED BY <3>1, <3>2, <3>3, <3>4
  <2>2. CASE H # {}
    <3>1. \A h \in H : h \in Int /\ h < N + 1 /\ ~(N < h)
      BY <1>0
    <3>2. d \in H /\ \A h \in H : h <= d
      BY <1>0, <2>2, <3>1, HeaderIs
    <3>3. s = Name(lines, d)
      <4>1. \E h \in Conf!Headers(lines) : ~(N < h)
        BY <2>2, <3>1
      <4> QED BY <1>7, <4>1, Zenon DEF ReadTo
    <3>4. Conf!Blocks(lines) = H
      BY <2>2 DEF Conf!Blocks
    <3> HIDE DEF d, H
    <3>5. H \subseteq Nat /\ d \in Nat
      BY <1>0, <3>2
    <3>6. H = Done \cup {d}
      <4>1. \A h \in H : h < d \/ h = d
        BY <3>2, <3>5
      <4> QED BY <3>2, <4>1
    <3>7. Done \in SUBSET Nat /\ \A h \in Done : h < d
      BY <3>5
    <3> QED BY <3>3, <3>4, <3>5, <3>6, <3>7
  <2> QED BY <2>1, <2>2
<1> HIDE DEF d, Done
<1>11. map \in Configs /\ Kept(map, lines, Done \cup {d})
  BY <1>9, <1>10, KeptGrows DEF N
<1> QED BY <1>8, <1>10, <1>11 DEF Loaded

\* What a lookup finds.
LEMMA LookupFinds ==
    ASSUME NEW lines \in Seq(Str), NEW map, Loaded(map, lines), NEW s, NEW k
    PROVE  LET ps == Conf!Positions(lines, s, k)
           IN  Conf!getValueByKey(map, s, k)
                 = IF ps = {} THEN Conf!Empty ELSE Conf!valueOf(lines[Conf!Min(ps)])
<1> DEFINE N == Len(lines)
           hs == {h \in Conf!Blocks(lines) : Conf!HeaderName(lines, h) = s}
           ps == Conf!Positions(lines, s, k)
           b == Conf!Min(hs)
           P == Settings(lines, b, N)
<1>0. N \in Nat /\ Conf!Headers(lines) \subseteq 1 .. N /\ DOMAIN lines = 1 .. N
  BY HeadersAre
<1>1. hs \in SUBSET Nat
  <2>1. Conf!Blocks(lines) \subseteq Nat
    BY <1>0 DEF Conf!Blocks
  <2> QED BY <2>1
<1>2. ps = {i \in 1 .. N : hs # {} /\ i \in P /\ Conf!keyOf(lines[i]) = k}
  <2>1. \A i : Conf!decideLineType(lines[i]).type = "KEYVAL" <=> KeyLine(lines[i])
    BY LineIs
  <2> QED BY <1>0, <2>1 DEF Conf!Positions, Settings
<1>3. s \in DOMAIN map <=> hs # {}
  BY DEF Loaded, Kept, Name
<1> HIDE DEF ps, N
<1>4. CASE hs = {}
  <2>1. ps = {}
    BY <1>2, <1>4
  <2>2. Conf!getValueByKey(map, s, k) = Conf!Empty
    BY <1>3, <1>4 DEF Conf!getValueByKey
  <2> QED BY <2>1, <2>2 DEF ps
<1>5. CASE hs # {}
  <2>1. b \in hs /\ \A h \in hs : b <= h
    BY <1>1, <1>5, LeastOf
  <2> HIDE DEF b
  <2>2. FirstIn(map[s], lines, P)
    <3>1. b \in Conf!Blocks(lines) /\ Name(lines, b) = s /\ b \in Nat
      BY <1>1, <2>1 DEF Name
    <3>2. ASSUME NEW g \in Conf!Blocks(lines), g < b PROVE Name(lines, g) # Name(lines, b)
      <4>1. ASSUME Name(lines, g) = s PROVE FALSE
        <5>1. g \in hs
          BY <4>1 DEF Name
        <5>2. g \in Nat /\ b <= g
          BY <1>1, <2>1, <5>1
        <5> QED BY <3>1, <3>2, <5>2
      <4> QED BY <3>1, <4>1
    <3> QED BY <3>1, <3>2 DEF Loaded, Kept, N
  <2> HIDE DEF hs
  <2>3. ps = {i \in P : Conf!keyOf(lines[i]) = k} /\ P \subseteq 1 .. N
    BY <1>2, <1>5 DEF Settings
  <2> HIDE DEF P
  <2>4. CASE ps = {}
    <3>1. k \notin DOMAIN map[s]
      BY <2>2, <2>3, <2>4 DEF FirstIn
    <3> QED BY <2>4, <3>1 DEF Conf!getValueByKey, ps
  <2>5. CASE ps # {}
    <3> DEFINE i == Conf!Min(ps)
    <3>1. ps \in SUBSET Nat
      <4>1. P \subseteq Nat
        BY <1>0, <2>3
      <4> QED BY <2>3, <4>1
    <3>2. i \in ps /\ \A j \in ps : i <= j
      BY <2>5, <3>1, LeastOf
    <3> HIDE DEF i
    <3>3. i \in P /\ Conf!keyOf(lines[i]) = k /\ i \in Nat
      BY <2>3, <3>1, <3>2
    <3>4. ASSUME NEW j \in P, j < i PROVE Conf!keyOf(lines[j]) # Conf!keyOf(lines[i])
      <4>1. ASSUME Conf!keyOf(lines[j]) = k PROVE FALSE
        <5>1. j \in ps
          BY <2>3, <4>1
        <5>2. i <= j /\ j \in Nat
          BY <3>1, <3>2, <5>1
        <5> QED BY <3>3, <3>4, <5>2
      <4> QED BY <3>3, <4>1
    <3>5. map[s][k] = Conf!valueOf(lines[i]) /\ k \in DOMAIN map[s]
      BY <2>2, <3>3, <3>4 DEF FirstIn
    <3>6. Conf!getValueByKey(map, s, k) = map[s][k]
      BY <1>3, <1>5, <3>5 DEF Conf!getValueByKey
    <3> QED BY <2>5, <3>5, <3>6 DEF ps, i
  <2> QED BY <2>4, <2>5
<1> QED BY <1>4, <1>5

\* What was loaded has the sections and the keys of the lines it came from.
LEMMA LoadedFrom ==
    ASSUME NEW lines \in Seq(Lines), Lines \subseteq Str
    PROVE  LET map == Conf!loadConfig2Map(lines)
           IN  /\ DOMAIN map \subseteq Conf!Sections
               /\ \A s \in DOMAIN map : \A k \in DOMAIN map[s] :
                      k \in Conf!Keys /\ ~Conf!Contains(k, "=")
<1> DEFINE map == Conf!loadConfig2Map(lines)
           N == Len(lines)
<1>1. lines \in Seq(Str) /\ N \in Nat /\ \A i \in 1 .. N : lines[i] \in Lines
  OBVIOUS
<1>2. Loaded(map, lines)
  BY <1>1, LoadReads
<1>3. Conf!Headers(lines) = {i \in 1 .. N : Conf!StartsWith(lines[i], "[")}
  BY <1>1, HeadersAre
<1> HIDE DEF map, N
<1>b. Conf!Blocks(lines) \subseteq 0 .. N
  BY <1>1, <1>3 DEF Conf!Blocks
<1>4. DOMAIN map \subseteq Conf!Sections
  <2>1. ASSUME NEW h \in Conf!Blocks(lines) PROVE Name(lines, h) \in Conf!Sections
    <3>1. CASE h = 0
      BY <3>1 DEF Name, Conf!HeaderName, Conf!Sections
    <3>2. CASE h # 0
      <4>1. h \in Conf!Headers(lines)
        BY <3>2 DEF Conf!Blocks
      <4>2. lines[h] \in Lines /\ lines[h] # Conf!Empty
        BY <1>1, <1>3, <4>1 DEF Conf!StartsWith
      <4> QED BY <3>2, <4>2 DEF Name, Conf!HeaderName, Conf!Sections
    <3> QED BY <3>1, <3>2
  <2> QED BY <1>2, <2>1 DEF Loaded, Kept
<1>5. ASSUME NEW s \in DOMAIN map, NEW k \in DOMAIN map[s]
      PROVE  k \in Conf!Keys /\ ~Conf!Contains(k, "=")
  <2> DEFINE hs == {h \in Conf!Blocks(lines) : Name(lines, h) = s}
             b == Conf!Min(hs)
  <2>1. hs \in SUBSET Nat /\ hs # {}
    BY <1>1, <1>2, <1>b DEF Loaded, Kept
  <2> HIDE DEF hs
  <2>2. b \in hs /\ \A h \in hs : b <= h
    BY <2>1, LeastOf
  <2> HIDE DEF b
  <2>3. b \in Conf!Blocks(lines) /\ Name(lines, b) = s /\ b \in Nat
    BY <2>1, <2>2 DEF hs
  <2>4. ASSUME NEW g \in Conf!Blocks(lines), g < b PROVE Name(lines, g) # Name(lines, b)
    <3>1. ASSUME Name(lines, g) = s PROVE FALSE
      <4>1. g \in hs
        BY <3>1 DEF hs
      <4>2. g \in Nat /\ b <= g
        BY <2>1, <2>2, <4>1
      <4> QED BY <2>3, <2>4, <4>2
    <3> QED BY <2>3, <3>1
  <2>5. FirstIn(map[s], lines, Settings(lines, b, N))
    BY <1>2, <2>3, <2>4 DEF Loaded, Kept, N
  <2>6. PICK i \in Settings(lines, b, N) : k = Conf!keyOf(lines[i])
    BY <2>5 DEF FirstIn
  <2>7. lines[i] \in Lines /\ lines[i] \in Str /\ Conf!Contains(lines[i], "=")
    BY <1>1, <2>6 DEF Settings, KeyLine
  <2>8. ~Conf!Contains(k, "=")
    BY <2>6, <2>7, Split
  <2> QED BY <2>6, <2>7, <2>8 DEF Conf!Keys
<1> QED BY <1>4, <1>5 DEF map


\* A finite set as a sequence: all of it, and nothing else.
LEMMA SetSeq ==
    ASSUME NEW S, IsFiniteSet(S)
    PROVE  LET q == Conf!SetToSeq(S)
           IN  q \in Seq(S) /\ \A t \in S : \E i \in 1 .. Len(q) : q[i] = t
<1> DEFINE C == Cardinality(S)
           q == Conf!SetToSeq(S)
<1>1. C \in Nat /\ ExistsBijection(1 .. C, S)
  BY FS_CardinalityType
<1>2. q = CHOOSE f \in [1 .. C -> S] : IsInjective(f)
  BY DEF Conf!SetToSeq, Conf!Cardinality, Cardinality, Conf!IsInjective, IsInjective
<1>3. \E f \in [1 .. C -> S] : IsInjective(f)
  BY <1>1 DEF ExistsBijection, Bijection, Injection
<1> HIDE DEF C, q
<1>4. q \in [1 .. C -> S] /\ IsInjective(q)
  BY <1>2, <1>3, Zenon
<1>5. q \in Injection(1 .. C, S)
  BY <1>4 DEF Injection
<1>6. Cardinality(1 .. C) = Cardinality(S)
  <2>1. Cardinality(1 .. C) = C
    <3>1. 1 \in Int /\ C \in Int /\ (1 > C => C = 0)
      BY <1>1
    <3>2. Cardinality(1 .. C) = IF 1 > C THEN 0 ELSE C - 1 + 1
      BY <3>1, FS_Interval
    <3> QED BY <1>1, <3>1, <3>2
  <2> QED BY <2>1 DEF C
<1>7. q \in Surjection(1 .. C, S)
  BY <1>5, <1>6, FS_Injection
<1>8. q \in Seq(S) /\ Len(q) = C
  BY <1>1, <1>4
<1> QED BY <1>7, <1>8 DEF Surjection, q

\* The name of a section as it is printed and read back.
Pad(s) == <<Conf!Blank>> \o s \o <<Conf!Blank>>

\* What it is, and that the name can be had from it.
LEMMA PadIs ==
    ASSUME NEW s \in Str
    PROVE  Pad(s) \in Str /\ SubSeq(Pad(s), 2, Len(Pad(s)) - 1) = s
<1> DEFINE a == <<Conf!Blank>>
           u == a \o s
           p == u \o a
           N == Len(s)
<1>1. a \in Seq(Char) /\ Len(a) = 1 /\ s \in Seq(Char) /\ N \in Nat
  BY DEF Str, Char
<1> HIDE DEF a
<1>2. /\ u \in Seq(Char) /\ Len(u) = 1 + N
      /\ \A i \in 1 .. Len(a) + Len(s) : u[i] = IF i <= Len(a) THEN a[i] ELSE s[i - Len(a)]
  <2>0. a \in Seq(Char) /\ s \in Seq(Char)
    BY <1>1
  <2>1. /\ u \in Seq(Char) /\ Len(u) = Len(a) + Len(s)
        /\ \A i \in 1 .. Len(a) + Len(s) : u[i] = IF i <= Len(a) THEN a[i] ELSE s[i - Len(a)]
    BY ONLY <2>0, ConcatProperties
  <2> HIDE DEF u
  <2>2. Len(u) = 1 + N
    BY <1>1, <2>1
  <2> QED BY <2>1, <2>2
<1>3. \A i \in 1 .. N : u[i + 1] = s[i]
  BY <1>1, <1>2
<1> HIDE DEF u
<1>4. /\ p \in Seq(Char) /\ Len(p) = N + 2
      /\ \A i \in 1 .. Len(u) + Len(a) : p[i] = IF i <= Len(u) THEN u[i] ELSE a[i - Len(u)]
  <2>0. u \in Seq(Char) /\ a \in Seq(Char)
    BY <1>1, <1>2
  <2>1. /\ p \in Seq(Char) /\ Len(p) = Len(u) + Len(a)
        /\ \A i \in 1 .. Len(u) + Len(a) : p[i] = IF i <= Len(u) THEN u[i] ELSE a[i - Len(u)]
    BY ONLY <2>0, ConcatProperties
  <2> HIDE DEF p
  <2>2. Len(p) = N + 2
    BY <1>1, <1>2, <2>1
  <2> QED BY <2>1, <2>2
<1>5. \A i \in 1 .. N : p[i + 1] = s[i]
  <2> SUFFICES ASSUME NEW i \in 1 .. N PROVE p[i + 1] = s[i]
    OBVIOUS
  <2>1. i + 1 \in 1 .. Len(u) + Len(a) /\ i + 1 <= Len(u)
    BY <1>1, <1>2
  <2> QED BY <1>3, <1>4, <2>1
<1> HIDE DEF p
<1>6. p = Pad(s)
  BY DEF p, u, a, Pad
<1> DEFINE w == SubSeq(p, 2, N + 1)
<1>7. /\ w \in Seq(Char) /\ Len(w) = N /\ \A i \in 1 .. N : w[i] = s[i]
  <2>1. p \in Str /\ 2 \in Nat /\ N + 1 \in Int /\ 2 >= 1 /\ N + 1 <= Len(p)
    BY <1>1, <1>4 DEF Str
  <2>2. /\ w \in Str /\ (2 <= N + 1 => Len(w) = (N + 1) - 2 + 1) /\ (2 > N + 1 => w = << >>)
        /\ \A i \in 1 .. (N + 1) - 2 + 1 : w[i] = p[2 + i - 1]
    BY <2>1, Piece
  <2> HIDE DEF w
  <2>3. Len(w) = N
    <3>1. CASE N = 0
      <4>1. w = << >>
        BY <2>2, <3>1
      <4> QED BY <3>1, <4>1
    <3>2. CASE N # 0
      <4>1. 2 <= N + 1 /\ (N + 1) - 2 + 1 = N
        BY <1>1, <3>2
      <4> QED BY <2>2, <4>1
    <3> QED BY <3>1, <3>2
  <2>4. ASSUME NEW i \in 1 .. N PROVE w[i] = s[i]
    <3>1. i \in 1 .. (N + 1) - 2 + 1 /\ 2 + i - 1 = i + 1
      BY <1>1
    <3> QED BY <1>5, <2>2, <3>1
  <2> QED BY <2>2, <2>3, <2>4 DEF Str
<1>8. w = s
  <2> HIDE DEF w
  <2> QED BY <1>1, <1>7, SeqEqual
<1>9. Len(p) - 1 = N + 1
  BY <1>1, <1>4
<1> QED BY <1>4, <1>6, <1>8, <1>9 DEF Str

\* The line that is printed for a section.
LEMMA PrintedHeader ==
    ASSUME NEW s \in Str
    PROVE  LET line == <<"[", Conf!Blank>> \o s \o <<Conf!Blank, "]">>
           IN  line \in Str /\ Conf!StartsWith(line, "[") /\ Conf!sectionName(line) = Pad(s)
<1> DEFINE a == <<"[", Conf!Blank>>
           b == <<Conf!Blank, "]">>
           u == a \o s
           line == u \o b
           N == Len(s)
           p == Pad(s)
           c == <<Conf!Blank>>
           v == c \o s
<1>1. a \in Seq(Char) /\ Len(a) = 2 /\ a[1] = "[" /\ a[2] = Conf!Blank /\ s \in Seq(Char) /\ N \in Nat
  BY DEF Str, Char
<1>b. b \in Seq(Char) /\ Len(b) = 2 /\ b[1] = Conf!Blank
  BY DEF Char
<1>c. c \in Seq(Char) /\ Len(c) = 1 /\ c[1] = Conf!Blank
  BY DEF Char
<1> HIDE DEF a, b, c
<1>2. /\ u \in Seq(Char) /\ Len(u) = N + 2
      /\ \A i \in 1 .. Len(a) + Len(s) : u[i] = IF i <= Len(a) THEN a[i] ELSE s[i - Len(a)]
  <2>0. a \in Seq(Char) /\ s \in Seq(Char)
    BY <1>1
  <2>1. /\ u \in Seq(Char) /\ Len(u) = Len(a) + Len(s)
        /\ \A i \in 1 .. Len(a) + Len(s) : u[i] = IF i <= Len(a) THEN a[i] ELSE s[i - Len(a)]
    BY ONLY <2>0, ConcatProperties
  <2> HIDE DEF u
  <2>2. Len(u) = N + 2
    BY <1>1, <2>1
  <2> QED BY <2>1, <2>2
<1>v. /\ v \in Seq(Char) /\ Len(v) = N + 1
      /\ \A i \in 1 .. Len(c) + Len(s) : v[i] = IF i <= Len(c) THEN c[i] ELSE s[i - Len(c)]
  <2>0. c \in Seq(Char) /\ s \in Seq(Char)
    BY <1>1, <1>c
  <2>1. /\ v \in Seq(Char) /\ Len(v) = Len(c) + Len(s)
        /\ \A i \in 1 .. Len(c) + Len(s) : v[i] = IF i <= Len(c) THEN c[i] ELSE s[i - Len(c)]
    BY ONLY <2>0, ConcatProperties
  <2> HIDE DEF v
  <2>2. Len(v) = N + 1
    BY <1>1, <1>c, <2>1
  <2> QED BY <2>1, <2>2
<1> HIDE DEF u, v
<1>3. /\ line \in Seq(Char) /\ Len(line) = N + 4
      /\ \A i \in 1 .. Len(u) + Len(b) : line[i] = IF i <= Len(u) THEN u[i] ELSE b[i - Len(u)]
  <2>0. u \in Seq(Char) /\ b \in Seq(Char)
    BY <1>1, <1>2, <1>b
  <2>1. /\ line \in Seq(Char) /\ Len(line) = Len(u) + Len(b)
        /\ \A i \in 1 .. Len(u) + Len(b) : line[i] = IF i <= Len(u) THEN u[i] ELSE b[i - Len(u)]
    BY ONLY <2>0, ConcatProperties
  <2> HIDE DEF line
  <2>2. Len(line) = N + 4
    BY <1>1, <1>2, <1>b, <2>1
  <2> QED BY <2>1, <2>2
<1>p. /\ p \in Seq(Char) /\ Len(p) = N + 2
      /\ \A i \in 1 .. Len(v) + Len(c) : p[i] = IF i <= Len(v) THEN v[i] ELSE c[i - Len(v)]
  <2>1. p = v \o c
    BY DEF v, c, Pad
  <2>0. v \in Seq(Char) /\ c \in Seq(Char)
    BY <1>1, <1>c, <1>v
  <2>2. /\ p \in Seq(Char) /\ Len(p) = Len(v) + Len(c)
        /\ \A i \in 1 .. Len(v) + Len(c) : p[i] = IF i <= Len(v) THEN v[i] ELSE c[i - Len(v)]
    BY ONLY <2>0, <2>1, ConcatProperties
  <2> HIDE DEF p
  <2>3. Len(p) = N + 2
    BY <1>1, <1>c, <1>v, <2>2
  <2> QED BY <2>2, <2>3
<1> HIDE DEF line, p
<1>4. ASSUME NEW i \in 1 .. N + 2 PROVE line[i + 1] = p[i]
  <2>1. CASE i = 1
    <3>1. p[1] = v[1] /\ v[1] = c[1]
      BY <1>1, <1>c, <1>v, <1>p
    <3>2. line[2] = u[2] /\ u[2] = a[2]
      BY <1>1, <1>2, <1>3, <1>b
    <3> QED BY <1>1, <1>c, <2>1, <3>1, <3>2
  <2>2. CASE i \in 2 .. N + 1
    <3>1. p[i] = v[i] /\ v[i] = s[i - 1]
      BY <1>1, <1>c, <1>v, <1>p, <2>2
    <3>2. i + 1 \in 1 .. Len(u) + Len(b) /\ i + 1 <= Len(u) /\ i + 1 \in 1 .. Len(a) + Len(s)
          /\ ~(i + 1 <= Len(a)) /\ (i + 1) - Len(a) = i - 1
      BY <1>1, <1>2, <1>b, <2>2
    <3>3. line[i + 1] = u[i + 1] /\ u[i + 1] = s[i - 1]
      BY <1>2, <1>3, <3>2
    <3> QED BY <3>1, <3>3
  <2>3. CASE i = N + 2
    <3>1. i \in 1 .. Len(v) + Len(c) /\ ~(i <= Len(v)) /\ i - Len(v) = 1
      BY <1>1, <1>c, <1>v, <2>3
    <3>2. i + 1 \in 1 .. Len(u) + Len(b) /\ ~(i + 1 <= Len(u)) /\ (i + 1) - Len(u) = 1
      BY <1>1, <1>b, <1>2, <2>3
    <3>3. p[i] = c[1]
      BY <1>p, <3>1
    <3>4. line[i + 1] = b[1]
      BY <1>3, <3>2
    <3> QED BY <1>b, <1>c, <3>3, <3>4
  <2> QED BY <1>1, <2>1, <2>2, <2>3
<1>5. line # << >> /\ line[1] = "["
  <2>1. line[1] = u[1] /\ u[1] = a[1]
    BY <1>1, <1>2, <1>3, <1>b
  <2>2. Len(line) # 0
    BY <1>1, <1>3
  <2> QED BY <1>1, <2>1, <2>2
<1> DEFINE w == SubSeq(line, 2, N + 3)
<1>6. /\ w \in Seq(Char) /\ Len(w) = N + 2 /\ \A i \in 1 .. N + 2 : w[i] = p[i]
  <2>1. line \in Str /\ 2 \in Nat /\ N + 3 \in Int /\ 2 >= 1 /\ N + 3 <= Len(line)
    BY <1>1, <1>3 DEF Str
  <2>2. /\ w \in Str /\ (2 <= N + 3 => Len(w) = (N + 3) - 2 + 1)
        /\ \A i \in 1 .. (N + 3) - 2 + 1 : w[i] = line[2 + i - 1]
    BY <2>1, Piece
  <2> HIDE DEF w
  <2>3. Len(w) = N + 2
    BY <1>1, <2>2
  <2>4. ASSUME NEW i \in 1 .. N + 2 PROVE w[i] = p[i]
    <3>1. i \in 1 .. (N + 3) - 2 + 1 /\ 2 + i - 1 = i + 1
      BY <1>1
    <3> QED BY <1>4, <2>2, <3>1
  <2> QED BY <2>2, <2>3, <2>4 DEF Str
<1>7. w = p
  <2> HIDE DEF w
  <2> QED BY <1>p, <1>6, SeqEqual
<1>8. Conf!sectionName(line) = w
  <2>1. Len(line) - 1 = N + 3
    BY <1>1, <1>3
  <2> QED BY <2>1 DEF Conf!sectionName
<1>9. line \in Str /\ Conf!StartsWith(line, "[") /\ Conf!sectionName(line) = p
  BY <1>3, <1>5, <1>7, <1>8 DEF Str, Conf!StartsWith, Conf!Empty
<1> QED BY <1>9 DEF line, p, u, a, b

\* The line that is printed for a setting.
LEMMA PrintedKey ==
    ASSUME NEW k \in GoodKeys, NEW v \in Str
    PROVE  LET line == k \o <<"=">> \o v
           IN  line \in Str /\ KeyLine(line) /\ Conf!keyOf(line) = k /\ Conf!valueOf(line) = v
<1> DEFINE a == <<"=">>
           u == k \o a
           line == u \o v
           K == Len(k)
           V == Len(v)
<1>1. a \in Seq(Char) /\ Len(a) = 1 /\ a[1] = "=" /\ v \in Seq(Char) /\ V \in Nat
      /\ k \in Seq(Char) /\ K \in Nat
  BY DEF Str, Char, GoodKeys
<1>g. ~Conf!Contains(k, "=") /\ ~Conf!StartsWith(k, "[") /\ ~Conf!StartsWith(k, "#")
  BY DEF GoodKeys
<1> HIDE DEF a
<1>2. /\ u \in Seq(Char) /\ Len(u) = K + 1
      /\ \A i \in 1 .. Len(k) + Len(a) : u[i] = IF i <= Len(k) THEN k[i] ELSE a[i - Len(k)]
  <2>0. k \in Seq(Char) /\ a \in Seq(Char)
    BY <1>1
  <2>1. /\ u \in Seq(Char) /\ Len(u) = Len(k) + Len(a)
        /\ \A i \in 1 .. Len(k) + Len(a) : u[i] = IF i <= Len(k) THEN k[i] ELSE a[i - Len(k)]
    BY ONLY <2>0, ConcatProperties
  <2> HIDE DEF u
  <2>2. Len(u) = K + 1
    BY <1>1, <2>1
  <2> QED BY <2>1, <2>2
<1>u. u[K + 1] = "=" /\ \A i \in 1 .. K : u[i] = k[i]
  <2>1. u[K + 1] = a[1]
    BY <1>1, <1>2
  <2> QED BY <1>1, <1>2, <2>1
<1> HIDE DEF u
<1>3. /\ line \in Seq(Char) /\ Len(line) = K + 1 + V
      /\ \A i \in 1 .. Len(u) + Len(v) : line[i] = IF i <= Len(u) THEN u[i] ELSE v[i - Len(u)]
  <2>0. u \in Seq(Char) /\ v \in Seq(Char)
    BY <1>1, <1>2
  <2>1. /\ line \in Seq(Char) /\ Len(line) = Len(u) + Len(v)
        /\ \A i \in 1 .. Len(u) + Len(v) : line[i] = IF i <= Len(u) THEN u[i] ELSE v[i - Len(u)]
    BY ONLY <2>0, ConcatProperties
  <2> HIDE DEF line
  <2>2. Len(line) = K + 1 + V
    BY <1>1, <1>2, <2>1
  <2> QED BY <2>1, <2>2
<1> HIDE DEF line
<1>4. line[K + 1] = "="
  BY <1>1, <1>2, <1>3, <1>u
<1>5. \A i \in 1 .. K : line[i] = k[i]
  BY <1>1, <1>2, <1>3, <1>u
<1>6. \A i \in 1 .. V : line[K + 1 + i] = v[i]
  <2> SUFFICES ASSUME NEW i \in 1 .. V PROVE line[K + 1 + i] = v[i]
    OBVIOUS
  <2>1. K + 1 + i \in 1 .. Len(u) + Len(v) /\ ~(K + 1 + i <= Len(u)) /\ (K + 1 + i) - Len(u) = i
    BY <1>1, <1>2
  <2> QED BY <1>3, <2>1
<1>7. \A i \in 1 .. K : k[i] # "="
  BY <1>g DEF Conf!Contains
<1>8. Conf!firstEq(line) = K + 1
  <2> DEFINE S == {i \in DOMAIN line : line[i] = "="}
  <2>0. DOMAIN line = 1 .. Len(line)
    BY <1>3
  <2>1. S \in SUBSET Int /\ K + 1 \in S
    <3>1. K + 1 \in 1 .. Len(line)
      BY <1>1, <1>3
    <3> QED BY <1>3, <1>4, <2>0, <3>1
  <2>2. ASSUME NEW i \in S PROVE K + 1 <= i
    <3>1. i \in 1 .. Len(line) /\ line[i] = "="
      BY <2>0
    <3>2. ~(i \in 1 .. K)
      BY <1>5, <1>7, <3>1
    <3> QED BY <1>1, <1>3, <3>1, <3>2
  <2>3. Conf!firstEq(line) = Conf!Min(S)
    BY DEF Conf!firstEq
  <2> HIDE DEF S
  <2> QED BY <2>1, <2>2, <2>3, FirstNumber
<1>9. Conf!Contains(line, "=")
  <2>1. K + 1 \in 1 .. Len(line)
    BY <1>1, <1>3
  <2> QED BY <1>4, <2>1 DEF Conf!Contains
<1>10. ASSUME NEW c, c # "=", Conf!StartsWith(line, c) PROVE Conf!StartsWith(k, c)
  <2>1. line[1] = c
    BY <1>10 DEF Conf!StartsWith
  <2>2. K # 0
    <3>1. CASE K = 0
      <4>1. line[1] = "="
        BY <1>4, <3>1
      <4> QED BY <1>10, <2>1, <4>1
    <3> QED BY <3>1
  <2>3. 1 \in 1 .. K
    BY <1>1, <2>2
  <2>4. k[1] = c
    BY <1>5, <2>1, <2>3
  <2>5. k # << >>
    BY <2>2
  <2> QED BY <2>4, <2>5 DEF Conf!StartsWith, Conf!Empty
<1>11. KeyLine(line)
  BY <1>9, <1>10, <1>g DEF KeyLine
<1>12. line \in Str
  BY <1>3 DEF Str
<1>13. Conf!keyOf(line) = k
  <2> DEFINE w == SubSeq(line, 1, K)
  <2>1. Conf!keyOf(line) = w
    <3>1. (K + 1) - 1 = K
      BY <1>1
    <3> QED BY <1>8, <3>1 DEF Conf!keyOf
  <2>2. 1 \in Nat /\ K \in Int /\ 1 >= 1 /\ K <= Len(line)
    BY <1>1, <1>3
  <2>3. /\ w \in Str /\ (1 <= K => Len(w) = K - 1 + 1) /\ (1 > K => w = << >>)
        /\ \A i \in 1 .. K - 1 + 1 : w[i] = line[1 + i - 1]
    BY <1>12, <2>2, Piece
  <2> HIDE DEF w
  <2>4. Len(w) = K
    <3>1. CASE K = 0
      <4>1. w = << >>
        BY <2>3, <3>1
      <4> QED BY <3>1, <4>1
    <3>2. CASE K # 0
      <4>1. 1 <= K /\ K - 1 + 1 = K
        BY <1>1, <3>2
      <4> QED BY <2>3, <4>1
    <3> QED BY <3>1, <3>2
  <2>5. ASSUME NEW i \in 1 .. K PROVE w[i] = k[i]
    <3>1. i \in 1 .. K - 1 + 1 /\ 1 + i - 1 = i
      BY <1>1
    <3> QED BY <1>5, <2>3, <3>1
  <2>6. w \in Seq(Char)
    BY <2>3 DEF Str
  <2>7. w = k
    BY <1>1, <2>4, <2>5, <2>6, SeqEqual
  <2> QED BY <2>1, <2>7
<1>14. Conf!valueOf(line) = v
  <2> DEFINE w == SubSeq(line, K + 2, K + 1 + V)
  <2>1. Conf!valueOf(line) = w
    <3>1. (K + 1) + 1 = K + 2
      BY <1>1
    <3> QED BY <1>3, <1>8, <3>1 DEF Conf!valueOf
  <2>2. K + 2 \in Nat /\ K + 1 + V \in Int /\ K + 2 >= 1 /\ K + 1 + V <= Len(line)
    BY <1>1, <1>3
  <2>3. /\ w \in Str /\ (K + 2 <= K + 1 + V => Len(w) = (K + 1 + V) - (K + 2) + 1)
        /\ (K + 2 > K + 1 + V => w = << >>)
        /\ \A i \in 1 .. (K + 1 + V) - (K + 2) + 1 : w[i] = line[(K + 2) + i - 1]
    BY <1>12, <2>2, Piece
  <2> HIDE DEF w
  <2>4. Len(w) = V
    <3>1. CASE V = 0
      <4>0. K + 2 > K + 1 + V
        BY <1>1, <3>1
      <4>1. w = << >>
        BY <2>3, <4>0
      <4> QED BY <3>1, <4>1
    <3>2. CASE V # 0
      <4>1. K + 2 <= K + 1 + V /\ (K + 1 + V) - (K + 2) + 1 = V
        BY <1>1, <3>2
      <4> QED BY <2>3, <4>1
    <3> QED BY <3>1, <3>2
  <2>5. ASSUME NEW i \in 1 .. V PROVE w[i] = v[i]
    <3>1. i \in 1 .. (K + 1 + V) - (K + 2) + 1 /\ (K + 2) + i - 1 = K + 1 + i
      BY <1>1
    <3>2. w[i] = line[K + 1 + i]
      BY <2>3, <3>1
    <3> QED BY <1>6, <3>2
  <2>6. w \in Seq(Char)
    BY <2>3 DEF Str
  <2>7. w = v
    BY <1>1, <2>4, <2>5, <2>6, SeqEqual
  <2> QED BY <2>1, <2>7
<1>15. line \in Str /\ KeyLine(line) /\ Conf!keyOf(line) = k /\ Conf!valueOf(line) = v
  BY <1>11, <1>12, <1>13, <1>14
<1> QED BY <1>15 DEF line, u, a


\* The lines of the settings of a section.
Printed(m) == {k \o <<"=">> \o m[k] : k \in DOMAIN m}

\* Reading them makes the settings again.
LEMMA KeysReadBack ==
    ASSUME NEW m \in Kvs, NEW c \in Configs, NEW s \in Str, NEW f \in BOOLEAN
    PROVE  LET q == Conf!SetToSeq(Printed(m))
           IN  /\ q \in Seq(Str)
               /\ Conf!onLines(Locals(c, Conf!Empty, s, f), q) = Locals(c, m, s, f)
<1> DEFINE q == Conf!SetToSeq(Printed(m))
           N == Len(q)
           st == Locals(c, Conf!Empty, s, f)
<1>1. IsFiniteSet(DOMAIN m) /\ DOMAIN m \subseteq GoodKeys /\ \A x \in DOMAIN m : m[x] \in Str
  BY MapIs DEF Kvs
<1>2. \A k \in DOMAIN m : LET line == k \o <<"=">> \o m[k]
                          IN  line \in Str /\ KeyLine(line) /\ Conf!keyOf(line) = k
                                /\ Conf!valueOf(line) = m[k]
  BY <1>1, PrintedKey
<1>3. IsFiniteSet(Printed(m))
  <2> DEFINE F == [k \in DOMAIN m |-> k \o <<"=">> \o m[k]]
  <2>1. F \in Surjection(DOMAIN m, Printed(m))
    BY DEF Surjection, Printed
  <2> HIDE DEF F
  <2> QED BY <1>1, <2>1, FS_Surjection
<1>4. q \in Seq(Printed(m)) /\ \A t \in Printed(m) : \E i \in 1 .. Len(q) : q[i] = t
  BY <1>3, SetSeq
<1> HIDE DEF q
<1>5. N \in Nat /\ \A i \in 1 .. N : q[i] \in Printed(m)
  BY <1>4
<1>6. \A t \in Printed(m) : /\ t \in Str /\ KeyLine(t) /\ Conf!keyOf(t) \in DOMAIN m
                            /\ Conf!valueOf(t) = m[Conf!keyOf(t)]
  BY <1>2 DEF Printed
<1>7. q \in Seq(Str)
  <2>1. Printed(m) \subseteq Str
    BY <1>6
  <2> QED BY <1>4, <2>1
<1>8. st \in States /\ Conf!Empty \in Kvs /\ DOMAIN Conf!Empty = {}
  <2>1. Conf!Empty \in Kvs /\ DOMAIN Conf!Empty = {}
    BY EmptyMap DEF Kvs
  <2> QED BY <2>1, IsState
<1>9. PICK g : IsReading(g, st, q) /\ Conf!onLines(st, q) = g[Len(q)]
  BY <1>7, <1>8, RunExists
<1> DEFINE Part(n, kv) ==
               /\ kv \in Kvs /\ DOMAIN kv = {Conf!keyOf(q[i]) : i \in 1 .. n}
               /\ \A x \in DOMAIN kv : kv[x] = m[x]
           S == {n \in Nat : \E kv : g[n] = Locals(c, kv, s, f) /\ Part(n, kv)}
<1>10. 0 \in S
  <2>1. g[0] = st
    BY <1>9 DEF IsReading
  <2>2. Part(0, Conf!Empty)
    BY <1>8
  <2> HIDE DEF Part
  <2> QED BY <2>1, <2>2
<1>11. ASSUME NEW n \in 0 .. N - 1, n \in S PROVE n + 1 \in S
  <2>1. PICK kv : g[n] = Locals(c, kv, s, f) /\ Part(n, kv)
    BY <1>11
  <2>2. n + 1 \in 1 .. N /\ (n + 1) - 1 = n /\ n + 1 \in Nat /\ 1 .. n + 1 = (1 .. n) \cup {n + 1}
    BY <1>5
  <2> DEFINE line == q[n + 1]
             k == Conf!keyOf(line)
             v == Conf!valueOf(line)
             kv2 == Conf!insert(kv, k, v)
  <2>3. line \in Str /\ KeyLine(line) /\ k \in DOMAIN m /\ v = m[k] /\ line \in Printed(m)
    BY <1>5, <1>6, <2>2
  <2>4. g[n + 1] = Conf!onLine(g[n], line)
    BY <1>9, <2>2 DEF IsReading
  <2>5. g[n + 1] = Locals(c, kv2, s, f)
    <3>1. Conf!onLine(Locals(c, kv, s, f), line) = Locals(c, kv2, s, f)
      BY <2>3, OnKey
    <3> QED BY <2>1, <2>4, <3>1
  <2>6. kv2 \in Kvs
    <3>1. kv \in Kvs /\ k \in GoodKeys /\ v \in Str
      BY <1>1, <2>1, <2>3
    <3> QED BY <3>1, InsertMaps DEF Kvs
  <2>7. DOMAIN kv2 = DOMAIN kv \cup {k} /\ \A x \in DOMAIN kv2 : kv2[x] = IF x \in DOMAIN kv THEN kv[x] ELSE v
    BY DEF Conf!insert
  <2> HIDE DEF kv2
  <2>8. DOMAIN kv2 = {Conf!keyOf(q[i]) : i \in 1 .. n + 1}
    BY <2>1, <2>2, <2>7
  <2>9. \A x \in DOMAIN kv2 : kv2[x] = m[x]
    BY <2>1, <2>3, <2>7
  <2>10. Part(n + 1, kv2)
    BY <2>6, <2>8, <2>9
  <2> HIDE DEF Part
  <2> QED BY <2>2, <2>5, <2>10
<1> HIDE DEF S, N
<1>12. N \in S
  <2>1. 0 .. N \subseteq S
    BY <1>5, <1>10, <1>11, UpTo
  <2> QED BY <1>5, <2>1
<1>13. PICK kv : g[N] = Locals(c, kv, s, f) /\ Part(N, kv)
  BY <1>12 DEF S
<1>14. kv = m
  <2>1. DOMAIN kv = DOMAIN m
    <3>1. ASSUME NEW x \in DOMAIN m PROVE x \in DOMAIN kv
      <4>1. PICK t \in Printed(m) : Conf!keyOf(t) = x
        BY <1>2 DEF Printed
      <4>2. PICK i \in 1 .. N : q[i] = t
        BY <1>4 DEF N
      <4> QED BY <1>13, <4>1, <4>2
    <3>2. ASSUME NEW x \in DOMAIN kv PROVE x \in DOMAIN m
      BY <1>5, <1>6, <1>13
    <3> QED BY <3>1, <3>2
  <2>2. kv \in MapsOf(GoodKeys, Str) /\ m \in MapsOf(GoodKeys, Str) /\ \A x \in DOMAIN kv : kv[x] = m[x]
    BY <1>13 DEF Kvs
  <2> QED BY <2>1, <2>2, MapsEqual
<1> QED BY <1>7, <1>9, <1>13, <1>14 DEF q, N

\* A section as it is printed.
LEMMA SectionReadBack ==
    ASSUME NEW map \in Configs, NEW s \in DOMAIN map, NEW c \in Configs, NEW t \in Str,
           NEW kv \in Kvs
    PROVE  /\ Conf!dumpSection(map, s) \in Seq(Str)
           /\ Conf!onLines(Locals(c, Conf!Empty, t, TRUE), Conf!dumpSection(map, s))
                = Locals(c, map[s], Pad(s), FALSE)
           /\ Conf!onLines(Locals(c, kv, t, FALSE), Conf!dumpSection(map, s))
                = Locals(Conf!insert(c, t, kv), map[s], Pad(s), FALSE)
<1> DEFINE line == <<"[", Conf!Blank>> \o s \o <<Conf!Blank, "]">>
           q == Conf!SetToSeq(Printed(map[s]))
<1>1. s \in Str /\ map[s] \in Kvs
  BY MapIs DEF Configs
<1>2. line \in Str /\ Conf!StartsWith(line, "[") /\ Conf!sectionName(line) = Pad(s)
  BY <1>1, PrintedHeader
<1>3. Conf!dumpSection(map, s) = <<line>> \o q
  BY DEF Conf!dumpSection, Printed
<1> HIDE DEF line, q
<1>p. Pad(s) \in Str
  BY <1>1, PadIs
<1>4. q \in Seq(Str)
  BY <1>1, KeysReadBack DEF q
<1>5. <<line>> \in Seq(Str)
  BY <1>2
<1>6. Conf!dumpSection(map, s) \in Seq(Str)
  BY <1>3, <1>4, <1>5, ConcatProperties
<1>e. Conf!Empty \in Kvs
  BY EmptyMap DEF Kvs
<1>7. ASSUME NEW st \in States, NEW d \in Configs,
             Conf!onLine(st, line) = Locals(d, Conf!Empty, Pad(s), FALSE)
      PROVE  Conf!onLines(st, Conf!dumpSection(map, s)) = Locals(d, map[s], Pad(s), FALSE)
  <2>1. Conf!onLines(st, <<line>>) = Locals(d, Conf!Empty, Pad(s), FALSE)
    BY <1>2, <1>7, RunShort
  <2>2. Conf!onLines(st, <<line>> \o q) = Conf!onLines(Locals(d, Conf!Empty, Pad(s), FALSE), q)
    <3>1. Conf!onLines(st, <<line>> \o q) = Conf!onLines(Conf!onLines(st, <<line>>), q)
      BY <1>4, <1>5, RunOn
    <3> QED BY ONLY <2>1, <3>1, Zenon
  <2>3. Conf!onLines(Locals(d, Conf!Empty, Pad(s), FALSE), q) = Locals(d, map[s], Pad(s), FALSE)
    BY <1>1, <1>p, KeysReadBack DEF q
  <2> QED BY <1>3, <2>2, <2>3
<1>8. Conf!onLines(Locals(c, Conf!Empty, t, TRUE), Conf!dumpSection(map, s))
        = Locals(c, map[s], Pad(s), FALSE)
  <2>1. Conf!onLine(Locals(c, Conf!Empty, t, TRUE), line) = Locals(c, Conf!Empty, Pad(s), FALSE)
    BY <1>2, OnFirstHeader
  <2>2. Locals(c, Conf!Empty, t, TRUE) \in States
    BY <1>e, IsState
  <2> QED BY <1>7, <2>1, <2>2
<1>9. Conf!onLines(Locals(c, kv, t, FALSE), Conf!dumpSection(map, s))
        = Locals(Conf!insert(c, t, kv), map[s], Pad(s), FALSE)
  <2>1. Conf!onLine(Locals(c, kv, t, FALSE), line)
          = Locals(Conf!insert(c, t, kv), Conf!Empty, Pad(s), FALSE)
    BY <1>2, OnHeader
  <2>2. Locals(c, kv, t, FALSE) \in States
    BY IsState
  <2>3. Conf!insert(c, t, kv) \in Configs
    BY InsertMaps DEF Configs
  <2> QED BY <1>7, <2>1, <2>2, <2>3
<1> QED BY <1>6, <1>8, <1>9

\* What getAllKey prints, section after section.
LEMMA DumpExists ==
    ASSUME NEW map \in Configs
    PROVE  LET names == Conf!SetToSeq(DOMAIN map)
           IN  /\ names \in Seq(DOMAIN map) /\ Len(names) \in Nat
               /\ \A t \in DOMAIN map : \E i \in 1 .. Len(names) : names[i] = t
               /\ \E out : /\ out[0] = << >> /\ Conf!getAllKey(map) = out[Len(names)]
                           /\ \A n \in 1 .. Len(names) :
                                  out[n] = out[n - 1] \o Conf!dumpSection(map, names[n])
<1> DEFINE names == Conf!SetToSeq(DOMAIN map)
           N == Len(names)
           step == [n \in 1 .. N |-> [x \in Seq(Str) |-> x \o Conf!dumpSection(map, names[n])]]
           Turns(g) == g = [n \in 0 .. N |-> IF n = 0 THEN Conf!Empty
                                             ELSE g[n - 1] \o Conf!dumpSection(map, names[n])]
           out == CHOOSE g : Turns(g)
<1>1. IsFiniteSet(DOMAIN map)
  BY MapIs DEF Configs
<1>2. names \in Seq(DOMAIN map) /\ \A t \in DOMAIN map : \E i \in 1 .. Len(names) : names[i] = t
  BY <1>1, SetSeq
<1>3. Conf!getAllKey(map) = out[N]
  BY DEF Conf!getAllKey
<1> HIDE DEF names
<1>4. N \in Nat /\ \A n \in 1 .. N : names[n] \in DOMAIN map
  BY <1>2
<1>5. PICK g \in [0 .. N -> Seq(Str)] : IsLoop(g, N, Conf!Empty, step)
  <2>1. ASSUME NEW n \in 1 .. N, NEW x \in Seq(Str) PROVE x \o Conf!dumpSection(map, names[n]) \in Seq(Str)
    <3>1. Conf!Empty \in Kvs /\ Conf!Empty \in Configs /\ << >> \in Str
      BY EmptyMap DEF Kvs, Configs, Str
    <3>2. Conf!dumpSection(map, names[n]) \in Seq(Str)
      BY <1>4, <3>1, SectionReadBack
    <3> QED BY <3>2, ConcatProperties
  <2>2. step \in [1 .. N -> [Seq(Str) -> Seq(Str)]]
    BY <2>1
  <2>3. Conf!Empty \in Seq(Str)
    BY DEF Conf!Empty
  <2> HIDE DEF step, N
  <2> QED BY <1>4, <2>2, <2>3, LoopExists
<1>6. Turns(g)
  <2>1. g = [n \in 0 .. N |-> IF n = 0 THEN Conf!Empty ELSE step[n][g[n - 1]]]
    BY <1>5 DEF IsLoop
  <2>2. \A n \in 0 .. N : n # 0 => g[n - 1] \in Seq(Str) /\ n \in 1 .. N
    BY <1>4, <1>5
  <2> HIDE DEF N
  <2> QED BY <2>1, <2>2
<1>7. Turns(out)
  BY <1>6, Zenon
<1> HIDE DEF out, N, step
<1>8. out[0] = << >> /\ \A n \in 1 .. N : out[n] = out[n - 1] \o Conf!dumpSection(map, names[n])
  BY <1>4, <1>7 DEF Conf!Empty
<1>9. /\ names \in Seq(DOMAIN map) /\ Len(names) \in Nat
      /\ \A t \in DOMAIN map : \E i \in 1 .. Len(names) : names[i] = t
  BY <1>2, <1>4 DEF N
<1> QED BY <1>3, <1>8, <1>9 DEF N, names


\* What is printed reads back.
LEMMA DumpReads ==
    ASSUME NEW map \in Configs
    PROVE  Conf!loadConfig2Map(Conf!getAllKey(map)) =
               IF map = Conf!Empty THEN Conf!insert(Conf!Empty, Conf!Empty, Conf!Empty)
               ELSE [x \in {Pad(t) : t \in DOMAIN map} |-> map[SubSeq(x, 2, Len(x) - 1)]]
<1> DEFINE names == Conf!SetToSeq(DOMAIN map)
           N == Len(names)
           st == Locals(Conf!Empty, Conf!Empty, Conf!Empty, TRUE)
           text1 == Conf!getAllKey(map)
<1>1. /\ names \in Seq(DOMAIN map) /\ N \in Nat
      /\ \A t \in DOMAIN map : \E i \in 1 .. N : names[i] = t
      /\ \E out : /\ out[0] = << >> /\ text1 = out[N]
                  /\ \A n \in 1 .. N : out[n] = out[n - 1] \o Conf!dumpSection(map, names[n])
  BY DumpExists
<1> HIDE DEF names, text1
<1>2. PICK out : /\ out[0] = << >> /\ text1 = out[N]
                 /\ \A n \in 1 .. N : out[n] = out[n - 1] \o Conf!dumpSection(map, names[n])
  BY <1>1
<1>3. \A n \in 1 .. N : names[n] \in DOMAIN map
  BY <1>1
<1>4. /\ DOMAIN map \subseteq Str /\ \A t \in DOMAIN map : map[t] \in Kvs
      /\ map = [x \in DOMAIN map |-> map[x]]
  BY MapIs DEF Configs
<1>5. Conf!Empty \in Configs /\ Conf!Empty \in Kvs /\ Conf!Empty \in Str /\ DOMAIN Conf!Empty = {}
  <2>1. Conf!Empty \in Str
    BY DEF Conf!Empty, Str
  <2> QED BY <2>1, EmptyMap DEF Configs, Kvs
<1>6. st \in States
  BY <1>5, IsState
<1>7. \A t \in DOMAIN map : Pad(t) \in Str /\ SubSeq(Pad(t), 2, Len(Pad(t)) - 1) = t
  BY <1>4, PadIs
<1>8. ASSUME NEW s, NEW c, NEW kv, Conf!onLines(st, text1) = Locals(c, kv, s, TRUE)
                                  \/ Conf!onLines(st, text1) = Locals(c, kv, s, FALSE)
      PROVE  Conf!loadConfig2Map(text1) = Conf!insert(c, s, kv)
  <2> DEFINE end == Conf!onLines(st, text1)
  <2>1. Conf!loadConfig2Map(text1) = Conf!insert(end.configMap, end.section, end.kvMap)
    BY DEF Conf!loadConfig2Map, Locals
  <2> HIDE DEF st
  <2>2. end.configMap = c /\ end.section = s /\ end.kvMap = kv
    <3> DEFINE E(b) == Locals(c, kv, s, b)
    <3>1. ASSUME NEW b PROVE E(b).configMap = c /\ E(b).section = s /\ E(b).kvMap = kv
      BY LocalsAre
    <3>2. end = E(TRUE) \/ end = E(FALSE)
      BY <1>8
    <3> HIDE DEF end, E
    <3>3. CASE end = E(TRUE)
      BY ONLY <3>1, <3>3, Zenon
    <3>4. CASE end = E(FALSE)
      BY ONLY <3>1, <3>4, Zenon
    <3> QED BY <3>2, <3>3, <3>4
  <2> HIDE DEF end
  <2> QED BY <2>1, <2>2
<1> HIDE DEF N
<1>9. CASE N = 0
  <2>1. map = Conf!Empty
    <3>1. DOMAIN map = {}
      BY <1>1, <1>9
    <3>2. map \in MapsOf(Str, Kvs) /\ Conf!Empty \in MapsOf(Str, Kvs)
      BY <1>5 DEF Configs
    <3> QED BY <1>5, <3>1, <3>2, MapsEqual
  <2>2. text1 = << >>
    BY <1>2, <1>9
  <2>3. Conf!onLines(st, << >>) = st
    BY <1>5, <1>6, RunShort
  <2>4. Conf!onLines(st, text1) = st
    BY <2>2, <2>3
  <2>5. Conf!loadConfig2Map(text1) = Conf!insert(Conf!Empty, Conf!Empty, Conf!Empty)
    BY <1>8, <2>4
  <2> QED BY <2>1, <2>5 DEF text1
<1>10. CASE N # 0
  <2> DEFINE Part(n, c) ==
                 /\ c \in Configs /\ DOMAIN c = {Pad(names[i]) : i \in 1 .. n - 1}
                 /\ \A i \in 1 .. n - 1 : c[Pad(names[i])] = map[names[i]]
             Mid(n) == /\ out[n] \in Seq(Str)
                       /\ n = 0 => Conf!onLines(st, out[n]) = st
                       /\ n # 0 => \E c : /\ Part(n, c)
                                          /\ Conf!onLines(st, out[n])
                                               = Locals(c, map[names[n]], Pad(names[n]), FALSE)
             S == {n \in Nat : Mid(n)}
  <2>0. ASSUME NEW c \in Configs, NEW n \in 1 .. N, Part(n, c)
        PROVE  LET d == Conf!insert(c, Pad(names[n]), map[names[n]])
               IN  Part(n + 1, d)
    <3> DEFINE p == Pad(names[n])
               m == map[names[n]]
               d == Conf!insert(c, p, m)
    <3>1. p \in Str /\ m \in Kvs
      BY <1>3, <1>4, <1>7
    <3>2. d \in Configs
      BY <3>1, InsertMaps DEF Configs
    <3>3. DOMAIN d = DOMAIN c \cup {p} /\ \A x \in DOMAIN d : d[x] = IF x \in DOMAIN c THEN c[x] ELSE m
      BY DEF Conf!insert
    <3>4. 1 .. (n + 1) - 1 = (1 .. n - 1) \cup {n}
      BY <1>1
    <3> HIDE DEF d
    <3>5. DOMAIN d = {Pad(names[i]) : i \in 1 .. (n + 1) - 1}
      BY <2>0, <3>3, <3>4
    <3>6. ASSUME NEW i \in 1 .. (n + 1) - 1 PROVE d[Pad(names[i])] = map[names[i]]
      <4>1. Pad(names[i]) \in DOMAIN d
        BY <3>5
      <4>2. CASE Pad(names[i]) \in DOMAIN c
        <5>1. PICK j \in 1 .. n - 1 : Pad(names[i]) = Pad(names[j])
          BY <2>0, <4>2
        <5>2. i \in 1 .. N /\ j \in 1 .. N
          BY <1>1
        <5>3. names[i] = names[j]
          BY <1>3, <1>7, <5>1, <5>2
        <5>4. c[Pad(names[j])] = map[names[j]]
          BY <2>0
        <5> QED BY <3>3, <4>1, <4>2, <5>1, <5>3, <5>4
      <4>3. CASE Pad(names[i]) \notin DOMAIN c
        <5>1. i = n
          BY <2>0, <3>4, <4>3
        <5> QED BY <3>3, <4>1, <4>3, <5>1
      <4> QED BY <4>2, <4>3
    <3> QED BY <3>2, <3>5, <3>6 DEF d
  <2> HIDE DEF Part
  <2>1. 0 \in S
    <3>1. Conf!onLines(st, << >>) = st
      BY <1>5, <1>6, RunShort
    <3>2. << >> \in Seq(Str)
      OBVIOUS
    <3> QED BY <1>2, <3>1, <3>2
  <2>2. ASSUME NEW n \in 0 .. N - 1, n \in S PROVE n + 1 \in S
    <3>1. Mid(n)
      BY <2>2
    <3> HIDE DEF st
    <3>2. n + 1 \in 1 .. N /\ (n + 1) - 1 = n /\ n + 1 \in Nat /\ n + 1 # 0 /\ n \in Nat
      BY <1>1
    <3> DEFINE s == names[n + 1]
               b == Conf!dumpSection(map, s)
    <3>3. s \in DOMAIN map
      BY <1>3, <3>2
    <3>4. out[n + 1] = out[n] \o b
      BY <1>2, <3>2
    <3>5. b \in Seq(Str)
      BY <1>5, <3>3, SectionReadBack
    <3> HIDE DEF s, b
    <3>6. out[n + 1] \in Seq(Str)
      BY <3>1, <3>4, <3>5, ConcatProperties
    <3>7. Conf!onLines(st, out[n + 1]) = Conf!onLines(Conf!onLines(st, out[n]), b)
      BY <1>6, <3>1, <3>4, <3>5, RunOn
    <3>8. \E c : Part(n + 1, c) /\ Conf!onLines(st, out[n + 1]) = Locals(c, map[s], Pad(s), FALSE)
      <4>1. CASE n = 0
        <5>1. Conf!onLines(st, out[n]) = st
          BY <3>1, <4>1
        <5>2. Conf!onLines(st, b) = Locals(Conf!Empty, map[s], Pad(s), FALSE)
          BY <1>5, <3>3, SectionReadBack DEF st, b
        <5>3. Part(n + 1, Conf!Empty)
          BY <1>5, <4>1 DEF Part
        <5> QED BY <3>7, <5>1, <5>2, <5>3
      <4>2. CASE n # 0
        <5>1. PICK c : Part(n, c) /\ Conf!onLines(st, out[n]) = Locals(c, map[names[n]], Pad(names[n]), FALSE)
          BY <3>1, <4>2
        <5> DEFINE d == Conf!insert(c, Pad(names[n]), map[names[n]])
        <5>2. n \in 1 .. N
          BY <1>1, <4>2
        <5>3. c \in Configs /\ names[n] \in DOMAIN map
          BY <1>3, <5>1, <5>2 DEF Part
        <5>4. Part(n + 1, d)
          BY <2>0, <5>1, <5>2, <5>3
        <5>5. Pad(names[n]) \in Str /\ map[names[n]] \in Kvs
          BY <1>4, <1>7, <5>3
        <5>6. Conf!onLines(Locals(c, map[names[n]], Pad(names[n]), FALSE), b) = Locals(d, map[s], Pad(s), FALSE)
          BY <3>3, <5>3, <5>5, SectionReadBack DEF b
        <5> HIDE DEF d
        <5> QED BY <3>7, <5>1, <5>4, <5>6
      <4> QED BY <4>1, <4>2
    <3>9. Mid(n + 1)
      BY <3>2, <3>6, <3>8 DEF s
    <3> HIDE DEF Mid
    <3> QED BY <3>2, <3>9
  <2>3. N \in S
    <3> HIDE DEF S
    <3>1. 0 .. N \subseteq S
      BY <1>1, <2>1, <2>2, UpTo
    <3> QED BY <1>1, <3>1
  <2>4. PICK c : Part(N, c) /\ Conf!onLines(st, out[N]) = Locals(c, map[names[N]], Pad(names[N]), FALSE)
    BY <1>10, <2>3
  <2> DEFINE d == Conf!insert(c, Pad(names[N]), map[names[N]])
  <2>5. Conf!loadConfig2Map(text1) = d
    BY <1>2, <1>8, <2>4
  <2>6. Part(N + 1, d)
    <3>1. c \in Configs /\ N \in 1 .. N
      BY <1>1, <1>10, <2>4 DEF Part
    <3> QED BY <2>0, <2>4, <3>1
  <2> HIDE DEF d
  <2>7. d \in Configs /\ DOMAIN d = {Pad(names[i]) : i \in 1 .. N} /\ \A i \in 1 .. N : d[Pad(names[i])] = map[names[i]]
    <3>1. (N + 1) - 1 = N
      BY <1>1
    <3> QED BY <2>6, <3>1 DEF Part
  <2>8. DOMAIN d = {Pad(t) : t \in DOMAIN map}
    BY <1>1, <1>3, <2>7
  <2>9. ASSUME NEW x \in DOMAIN d PROVE d[x] = map[SubSeq(x, 2, Len(x) - 1)]
    <3>1. PICK i \in 1 .. N : x = Pad(names[i])
      BY <2>7
    <3>2. SubSeq(Pad(names[i]), 2, Len(Pad(names[i])) - 1) = names[i]
      BY <1>3, <1>7
    <3> QED BY <2>7, <3>1, <3>2
  <2>10. d = [x \in DOMAIN d |-> d[x]]
    BY <2>7, MapIs DEF Configs
  <2>11. map # Conf!Empty
    <3>1. 1 \in 1 .. N
      BY <1>1, <1>10
    <3> QED BY <1>3, <1>5, <3>1
  <2>12. d = [x \in {Pad(t) : t \in DOMAIN map} |-> map[SubSeq(x, 2, Len(x) - 1)]]
    BY <2>8, <2>9, <2>10
  <2> QED BY <2>5, <2>11, <2>12 DEF text1
<1> QED BY <1>9, <1>10

\* The configuration is what the text that was read last says; files hold the lines of Lines.
ConfInv ==
    /\ DOMAIN disk \subseteq Files /\ \A f \in DOMAIN disk : disk[f] \in Seq(Lines)
    /\ filename \in Files \cup {""} /\ written \in 0 .. MaxLines
    /\ \/ text = {} /\ configMap = Conf!Empty
       \/ \E lines \in Seq(Lines) : text = {lines} /\ configMap = Conf!loadConfig2Map(lines)

\* It holds at first.
LEMMA ConfInit == Conf!Init => ConfInv
<1>1. DOMAIN Conf!Empty = {}
  BY DEF Conf!Empty
<1>2. 0 \in 0 .. MaxLines
  BY DataAssumption DEF Conf!ConfigAssumption
<1> QED BY <1>1, <1>2, Zenon DEF Conf!Init, ConfInv

\* Every step keeps it.
LEMMA ConfNext == ConfInv /\ [Conf!Next]_configVars => ConfInv'
<1> SUFFICES ASSUME ConfInv, [Conf!Next]_configVars PROVE ConfInv'
  OBVIOUS
<1>0. MaxLines \in Nat
  BY DataAssumption DEF Conf!ConfigAssumption
<1>i. /\ DOMAIN disk \subseteq Files /\ \A f \in DOMAIN disk : disk[f] \in Seq(Lines)
      /\ filename \in Files \cup {""} /\ written \in 0 .. MaxLines
  BY Zenon DEF ConfInv
<1>w. written \in 0 .. MaxLines
  BY <1>i, Zenon
<1>d. DOMAIN disk \subseteq Files /\ \A f \in DOMAIN disk : disk[f] \in Seq(Lines)
  BY <1>i, Zenon
<1>e. Conf!Empty \in Seq(Lines)
  BY DEF Conf!Empty
<1>c. \A f : Conf!Contents(f) \in Seq(Lines)
  BY <1>d, <1>e DEF Conf!Contents
<1>1. CASE Conf!reload
  BY <1>1, <1>c, <1>i, Zenon DEF Conf!reload, ConfInv
<1>2. CASE \E f \in Files : Conf!load(f)
  BY <1>2, <1>i, Zenon DEF Conf!load, ConfInv
<1>3. CASE \E f \in Files : Conf!Unlink(f)
  BY <1>3, Zenon DEF Conf!Unlink, ConfInv
<1>4. CASE \E f \in Files, line \in Lines : Conf!WriteLine(f, line)
  <2>1. PICK f \in Files, line \in Lines : Conf!WriteLine(f, line)
    BY <1>4
  <2>2. Append(Conf!Contents(f), line) \in Seq(Lines)
    BY <1>c, AppendProperties
  <2>3. disk' = [g \in DOMAIN disk \cup {f} |-> IF g = f THEN Append(Conf!Contents(f), line) ELSE disk[g]]
    BY <2>1 DEF Conf!WriteLine
  <2>4. DOMAIN disk' \subseteq Files /\ \A g \in DOMAIN disk' : disk'[g] \in Seq(Lines)
    BY <1>d, <2>2, <2>3
  <2>5. written' \in 0 .. MaxLines
    BY <1>0, <1>w, <2>1 DEF Conf!WriteLine
  <2>6. UNCHANGED <<filename, configMap, text>>
    BY <2>1 DEF Conf!WriteLine
  <2> QED BY <2>4, <2>5, <2>6, Zenon DEF ConfInv
<1>5. CASE UNCHANGED configVars
  BY <1>5, Zenon DEF configVars, ConfInv
<1> QED BY <1>1, <1>2, <1>3, <1>4, <1>5 DEF Conf!Next

\* It is enough.
LEMMA ConfRight == ConfInv => Conf!ConfigTypeOK /\ Conf!LookupIsFirst /\ Conf!DumpReadsBack
<1> SUFFICES ASSUME ConfInv PROVE Conf!ConfigTypeOK /\ Conf!LookupIsFirst /\ Conf!DumpReadsBack
  OBVIOUS
<1>0. Lines \subseteq Str /\ Seq(Lines) \subseteq Seq(Str)
  <2>1. Lines \subseteq Seq(STRING)
    BY DataAssumption DEF Conf!ConfigAssumption
  <2>2. Seq(STRING) \subseteq Seq(Char)
    BY DEF Char
  <2> QED BY <2>1, <2>2 DEF Str
<1>e. Conf!Empty \in Configs /\ DOMAIN Conf!Empty = {}
  BY EmptyMap DEF Configs
<1>1. configMap \in Configs
  <2>1. ASSUME NEW lines \in Seq(Lines), configMap = Conf!loadConfig2Map(lines) PROVE configMap \in Configs
    BY <1>0, <2>1, LoadReads DEF Loaded
  <2> QED BY <1>e, <2>1, Zenon DEF ConfInv
<1>2. Conf!ConfigTypeOK
  <2>1. /\ DOMAIN configMap \subseteq Conf!Sections
        /\ \A s \in DOMAIN configMap : \A k \in DOMAIN configMap[s] : k \in Conf!Keys /\ ~Conf!Contains(k, "=")
    <3>1. CASE configMap = Conf!Empty
      BY <1>e, <3>1
    <3>2. CASE \E lines \in Seq(Lines) : configMap = Conf!loadConfig2Map(lines)
      BY <1>0, <3>2, LoadedFrom
    <3> QED BY <3>1, <3>2, Zenon DEF ConfInv
  <2>2. text = {} => configMap = Conf!Empty
    BY Zenon DEF ConfInv
  <2> QED BY <2>1, <2>2, Zenon DEF Conf!ConfigTypeOK, ConfInv
<1>3. Conf!LookupIsFirst
  <2> SUFFICES ASSUME NEW lines \in text, NEW s \in Conf!Sections, NEW k \in Conf!Keys
               PROVE  LET ps == Conf!Positions(lines, s, k)
                      IN  Conf!getValueByKey(configMap, s, k)
                            = IF ps = {} THEN Conf!Empty ELSE Conf!valueOf(lines[Conf!Min(ps)])
    BY DEF Conf!LookupIsFirst
  <2>1. lines \in Seq(Str) /\ configMap = Conf!loadConfig2Map(lines)
    BY <1>0, Zenon DEF ConfInv
  <2>2. Loaded(configMap, lines)
    BY <2>1, LoadReads
  <2> QED BY <2>1, <2>2, LookupFinds
<1>4. Conf!DumpReadsBack
  BY <1>1, DumpReads DEF Conf!DumpReadsBack, Pad
<1> QED BY <1>2, <1>3, <1>4

-----------------------------------------------------------------------------
\* However reads and writes cut the stream and whichever call gives up, the tunnel loses no
\* byte but those a failed call held, keeps their order and leaves the task hooked.  The
\* first name a DNS object resolves is answered truly, no late answer turns up in a later
\* call, and a channel is destroyed once unless init() failed on an object in use.
THEOREM TunnelAndResolverRight == Spec => []CarriedAndResolved
<1>1. Init => TunnelInv /\ DnsInv
  BY TunnelInit, DnsInit DEF Init
<1>2. TunnelInv /\ DnsInv /\ [Next]_allVars => (TunnelInv /\ DnsInv)'
  BY TunnelNext, DnsNext, StepOfParts
<1>3. TunnelInv /\ DnsInv => CarriedAndResolved
  BY TunnelRight, DnsRight DEF CarriedAndResolved
<1> QED BY <1>1, <1>2, <1>3, PTL DEF Spec

\* Through every arrange, resize, insertion and receive a Buffer holds the bytes written and
\* not read, with real room behind end(), until a resize makes its vector smaller; a peek
\* counts as a read and a write of what it puts back, which for peekLong are other bytes.
\* The readers of a body get what was written, in order, across the spill to the file, until
\* a reset leaves unread bytes in the file; until then, and while the file is linked, a send
\* that reports success wrote the whole body unless a write to the peer returned 0.
THEOREM BytesKeptInOrder == Spec => []BytesKept
<1>1. Init => BufInv /\ BodyInv
  BY BufInit, BodyInit DEF Init
<1>2. BufInv /\ BodyInv /\ [Next]_allVars => (BufInv /\ BodyInv)'
  BY BufNext, BodyNext, StepOfParts
<1>3. BufInv /\ BodyInv => BytesKept
  BY BufRight, BodyTyped DEF BytesKept, BodyInv
<1> QED BY <1>1, <1>2, <1>3, PTL DEF Spec

\* However tasks begin and end, no two of them have the same identifier until an allocation
\* of one fails (after that only the number of identifiers in use is bounded), none is lost,
\* and the sweep of heap_push and the walk of heap_pop leave the smallest of those given back
\* first: the one alloc_cid takes once max_id of them have been made.  No push fails in this
\* model.  A get of the hash map finds what was put last, however often the map has
\* grown, and the count by which it grows is the number of the names in it.
THEOREM IdentifiersAndMapRight == Spec => []TablesRight
<1>1. Init => CidInv /\ MapInv
  BY CidInit, MapInit DEF Init
<1>2. CidInv /\ MapInv /\ [Next]_allVars => (CidInv /\ MapInv)'
  BY CidNext, MapNext, StepOfParts
<1>3. CidInv /\ MapInv => TablesRight
  BY CidRight, MapRight DEF TablesRight
<1> QED BY <1>1, <1>2, <1>3, PTL DEF Spec

\* Every text, with chars of either sign and of every length, is coded in radix 64 and decoded
\* to itself, and neither direction writes past the buffers that the _len functions size,
\* whatever is decoded.  For every set of threads and every width of the fields of an id,
\* UUID::get returns one twice only when calls overlapped, the wall clock was set back or a
\* number covered the bits of another.
THEOREM CodesAreRight == Spec => []CodesRight
<1>1. Init => UidInv /\ B64Inv
  BY UidInit, B64Init DEF Init
<1>2. UidInv /\ B64Inv /\ [Next]_allVars => (UidInv /\ B64Inv)'
  BY UidNext, B64Next, StepOfParts
<1>3. UidInv /\ B64Inv => CodesRight
  BY UidRight, B64Right DEF CodesRight
<1> QED BY <1>1, <1>2, <1>3, PTL DEF Spec

\* Whatever lines the files hold, with headers repeated, unclosed or missing, getValueByKey
\* finds the first value of a key in the first block of that name in the text that was read
\* last, however often files change, go and are read again; and what getAllKey prints of it
\* loadConfig2Map reads back as the same settings.
THEOREM LookupsAreRight == Spec => []LookupsRight
<1>1. Init => ConfInv
  BY ConfInit DEF Init
<1>2. ConfInv /\ [Next]_allVars => ConfInv'
  BY ConfNext, StepOfParts
<1>3. ConfInv => LookupsRight
  BY ConfRight DEF LookupsRight
<1> QED BY <1>1, <1>2, <1>3, PTL DEF Spec

=============================================================================
