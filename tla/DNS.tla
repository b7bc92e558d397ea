-------------------------------- MODULE DNS ---------------------------------
(***************************************************************************)
(* proto/dns/DNS.h: a task resolves host names with one DNS object, which  *)
(* drives a c-ares channel (external) with co_poll.  An answer may come    *)
(* while resolve() waits, later, or never; every wait ends after a second. *)
(***************************************************************************)
EXTENDS Integers, Sequences

CONSTANTS
    Hosts,
    MaxResolve, \* bound on the calls of resolve()
    MaxEvents   \* bound on the socket events of one query that answer nothing

DNSAssumption == MaxResolve \in Nat /\ MaxEvents \in Nat

VARIABLES
    bInited,
    channel,    \* "none", "live" or "freed"
    fResults,   \* the answers, as [host, call]: the query they answer
    pc,         \* "idle", "poll", or "gone" when the object is destroyed
    queries,    \* the queries that are open in the channel
    events,     \* socket events of the current query (bound)
    calls,      \* calls of resolve() so far, the current one included
    host,       \* the name the current call asks for
    returned,   \* what resolve() returned for each call: [host, ok, ip]
    heard,      \* the calls whose answer arrived (history)
    initFailed, \* ares_init_options has failed on an object that was in use (history)
    twice       \* a channel was destroyed twice (history)

hist == <<heard, initFailed, twice>>
vars == <<bInited, channel, fResults, pc, queries, events, calls, host, returned, hist>>

Answers == [host : Hosts, call : 1 .. MaxResolve]
NoIP == [host |-> "none", call |-> 0]

DnsTypeOK ==
    /\ bInited \in BOOLEAN /\ channel \in {"none", "live", "freed"}
    /\ \A i \in DOMAIN fResults : fResults[i] \in Answers
    /\ pc \in {"idle", "poll", "gone"} /\ queries \subseteq Answers
    /\ events \in 0 .. MaxEvents /\ calls \in 0 .. MaxResolve
    /\ Len(returned) = IF pc = "poll" THEN calls - 1 ELSE calls
    /\ pc = "poll" => channel = "live" /\ bInited

Init ==
    /\ bInited = FALSE /\ channel = "none" /\ fResults = << >>
    /\ pc = "idle" /\ queries = {} /\ events = 0 /\ calls = 0
    /\ host \in Hosts /\ returned = << >>
    /\ heard = {} /\ initFailed = FALSE /\ twice = FALSE

getPreferIP(results) == IF results = << >> THEN NoIP ELSE results[1]

Return(h, ok, results) ==
    returned' = Append(returned, [host |-> h, ok |-> ok, ip |-> getPreferIP(results)])

\* Mutant of destroy: the channel of the last call, with its queries, is used again.
keepChannel == queries

\* destroy() leaves no query open: each is told so, and __dns_callback ignores it.
destroy == IF bInited THEN {} ELSE queries

\* bInited is not set back by destroy().
Destroys == twice' = (twice \/ (bInited /\ channel = "freed"))

\* init(), and ares_query() at the start of query().
resolve(h) ==
    /\ pc = "idle" /\ calls < MaxResolve
    /\ calls' = calls + 1 /\ host' = h /\ events' = 0
    /\ queries' = destroy \cup {[host |-> h, call |-> calls + 1]}
    /\ Destroys
    /\ bInited' = TRUE
    /\ channel' = "live"
    /\ pc' = "poll"
    /\ UNCHANGED <<fResults, returned, heard, initFailed>>

\* init() fails: resolve() returns false, and the channel is gone.
resolveNoInit(h) ==
    /\ pc = "idle" /\ calls < MaxResolve
    /\ calls' = calls + 1 /\ host' = h
    /\ queries' = destroy
    /\ Destroys
    /\ channel' = IF bInited THEN "freed" ELSE channel
    /\ initFailed' = (initFailed \/ bInited)
    /\ Return(h, FALSE, fResults)
    /\ UNCHANGED <<bInited, fResults, pc, events, heard>>

\* ~DNS().
destruct ==
    /\ pc = "idle"
    /\ queries' = destroy
    /\ Destroys
    /\ channel' = IF bInited THEN "freed" ELSE channel
    /\ pc' = "gone"
    /\ UNCHANGED <<bInited, fResults, events, calls, host, returned, heard, initFailed>>

\* __dns_callback: addresses are added when the answer has some.
dns_callback(q, success) ==
    /\ fResults' = IF success THEN Append(fResults, q) ELSE fResults
    /\ heard' = IF success THEN heard \cup {q.call} ELSE heard

\* co_poll reports events and ares_process handles them: the callback is made for a query
\* that is open, which ends it, or for none.  The loop ends when the channel has no sockets.
query(q, success) ==
    /\ pc = "poll"
    /\ q \in queries
    /\ dns_callback(q, success)
    /\ queries' = queries \ {q}
    /\ pc' = IF queries' = {} THEN "idle" ELSE "poll"
    /\ queries' = {} => Return(host, fResults' # << >>, fResults')
    /\ queries' # {} => UNCHANGED returned
    /\ UNCHANGED <<bInited, channel, events, calls, host, initFailed, twice>>

\* Events that end no query.
queryNothing ==
    /\ pc = "poll" /\ events < MaxEvents
    /\ events' = events + 1
    /\ UNCHANGED <<bInited, channel, fResults, pc, queries, calls, host, returned, hist>>

\* Nothing for a second: the loop ends with the query open.
queryTimeout ==
    /\ pc = "poll"
    /\ pc' = "idle"
    /\ Return(host, fResults # << >>, fResults)
    /\ UNCHANGED <<bInited, channel, fResults, queries, events, calls, host, hist>>

Loop == queryTimeout \/ queryNothing
        \/ \E q \in queries, success \in BOOLEAN : query(q, success)

Next == Loop \/ destruct \/ \E h \in Hosts : resolve(h) \/ resolveNoInit(h)

\* co_poll returns after a second of silence; answers are not promised.
Spec == Init /\ [][Next]_vars /\ WF_vars(queryTimeout)

-----------------------------------------------------------------------------
\* The first name an object resolves is answered truly: true is returned only for an
\* answer that came in time, and the preferred address is that of the host.
FirstIsRight ==
    \A r \in {returned[i] : i \in DOMAIN returned \cap {1}} :
        r.ok => 1 \in heard /\ r.ip = [host |-> r.host, call |-> 1]

\* No answer to a query that timed out turns up in a later call: init() destroys the
\* channel with its open queries.
NoStrayAnswer == \A c \in heard \cap DOMAIN returned : returned[c].ok

\* A channel is destroyed once, unless ares_init_options failed on an object that was in
\* use: bInited then stands for a channel that is gone.
DestroyedOnce == twice => initFailed

\* resolve() returns, whatever becomes of the query.
ResolveReturns == (pc = "poll") ~> (pc = "idle")

=============================================================================
