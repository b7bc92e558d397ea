------------------------------- MODULE MCNet --------------------------------
(***************************************************************************)
(* Instances for TLC of the calls on a connection that must come to an     *)
(* end: the wait for a descriptor, the tunnel, the resolver, the HTTP      *)
(* server and the HTTP client.  They do not touch each other's state, and  *)
(* a behaviour moves one of them: part says which.                         *)
(***************************************************************************)
EXTENDS Integers, Sequences, FiniteSets

\* Requests with tokens of one and of two characters, with and without a body, of both
\* versions, and with a header that comes twice.
Plain == [uri |-> <<"a", "b">>, headers |-> <<<<(<<"H">>), <<"x", "y">>>>>>,
          body |-> << >>, version |-> "HTTP_11", keepalive |-> TRUE]
Posted == [uri |-> <<"c">>,
           headers |-> <<<<(<<"K", "L">>), <<"z">>>>, <<(<<"H">>), <<"v">>>>, <<(<<"H">>), <<"w">>>>>>,
           body |-> <<"1", "2">>, version |-> "HTTP_10", keepalive |-> TRUE]
Closing == [uri |-> <<"d">>, headers |-> << >>, body |-> <<"3">>,
            version |-> "HTTP_11", keepalive |-> FALSE]

\* Responses with a body, without one, and with one that lasts until the server closes.
Answers == {[status |-> 200, desc |-> <<"o", "k">>, body |-> <<"1", "2">>, delimited |-> TRUE],
            [status |-> 404, desc |-> <<"n">>, body |-> << >>, delimited |-> TRUE],
            [status |-> 201, desc |-> <<"o">>, body |-> <<"3">>, delimited |-> FALSE]}

VARIABLE part    \* the component that moves

\* event.c: two tasks that may wait for the same descriptor.
VARIABLES g_inner_fd_list, task, error, slot, registered, ready, loc, expired, pc_ev, on, ptr,
          age, shared, freed
Poll == INSTANCE EventPoll WITH
    Tasks <- {"a", "b"}, NoTask <- "NULL", Fds <- {1},
    Listening <- {}, Memory <- {1, 2}, Reports <- {{"read"}, {"err"}}, Size <- 5, MaxAge <- 3, pc <- pc_ev
pollVars == <<g_inner_fd_list, task, error, slot, registered, ready, loc, expired, pc_ev, on,
              ptr, age, shared, freed>>

\* SocketHelper.h: a tunnel with and without TLS.
VARIABLES use_ssl, sent, closed, rx_tu, buf, out_tu, lost, hooked, pipes, calls_tu, pc_tu,
          ret
Tun == INSTANCE Tunnel WITH
    MaxBytes <- 5, MaxCalls <- 3, rx <- rx_tu, out <- out_tu,
    calls <- calls_tu, pc <- pc_tu
tunnelVars == <<use_ssl, sent, closed, rx_tu, buf, out_tu, lost, hooked, pipes, calls_tu,
                pc_tu, ret>>

\* proto/dns/DNS.h: four calls on one object.
VARIABLES bInited, channel, fResults, pc_dns, queries, events, calls_dns, host, returned,
          heard, initFailed, twice
Dns == INSTANCE DNS WITH
    Hosts <- {"a", "b"}, MaxResolve <- 4, MaxEvents <- 3,
    pc <- pc_dns, calls <- calls_dns
dnsVars == <<bInited, channel, fResults, pc_dns, queries, events, calls_dns, host, returned,
             heard, initFailed, twice>>

\* The HTTP server with a client that waits for its answers.
VARIABLES msgs, rx_se, ceof, pc_se, request, response_se, out_se, torn_se
Serve == INSTANCE HttpServe WITH
    Messages <- {Plain, Posted, Closing}, MaxMsgs <- 3, kMemoryLimit <- 1,
    Pipelined <- FALSE, rx <- rx_se, pc <- pc_se, response <- response_se, out <- out_se,
    torn <- torn_se
serveVars == <<msgs, rx_se, ceof, pc_se, request, response_se, out_se, torn_se>>

\* The same with a client that sends ahead; it has the variables of Serve.
Ahead == INSTANCE HttpServe WITH
    Messages <- {Plain, Closing}, MaxMsgs <- 2, kMemoryLimit <- 1,
    Pipelined <- TRUE, rx <- rx_se, pc <- pc_se, response <- response_se, out <- out_se,
    torn <- torn_se

\* The HTTP client, which uses one HttpResponse for three requests.
VARIABLES asked, told, rx_fe, seof, pc_fe, response_fe, results, torn_fe, left
Fetch == INSTANCE HttpFetch WITH
    Responses <- Answers, MaxAsked <- 3, kMemoryLimit <- 1, rx <- rx_fe,
    pc <- pc_fe, response <- response_fe, torn <- torn_fe
fetchVars == <<asked, told, rx_fe, seof, pc_fe, response_fe, results, torn_fe, left>>

ASSUME NetAssumption ==
    /\ Poll!PollAssumption
    /\ Tun!TunnelAssumption
    /\ Dns!DNSAssumption
    /\ Serve!ServeAssumption
    /\ Ahead!ServeAssumption
    /\ Fetch!FetchAssumption

allVars == <<part, pollVars, tunnelVars, dnsVars, serveVars, fetchVars>>

Init ==
    /\ part \in {"poll", "tunnel", "dns", "serve", "ahead", "fetch"}
    /\ Poll!Init
    /\ Tun!Init
    /\ Dns!Init
    /\ Serve!Init
    /\ Fetch!Init
    /\ part # "tunnel" => ~use_ssl
    /\ part # "dns" => host = "a"

\* One component takes a step; the others stay as they are.
Next ==
    \/ /\ part = "poll" /\ Poll!Next
       /\ UNCHANGED <<part, tunnelVars, dnsVars, serveVars, fetchVars>>
    \/ /\ part = "tunnel" /\ Tun!Next
       /\ UNCHANGED <<part, pollVars, dnsVars, serveVars, fetchVars>>
    \/ /\ part = "dns" /\ Dns!Next
       /\ UNCHANGED <<part, pollVars, tunnelVars, serveVars, fetchVars>>
    \/ /\ part = "serve" /\ Serve!Next
       /\ UNCHANGED <<part, pollVars, tunnelVars, dnsVars, fetchVars>>
    \/ /\ part = "ahead" /\ Ahead!Next
       /\ UNCHANGED <<part, pollVars, tunnelVars, dnsVars, fetchVars>>
    \/ /\ part = "fetch" /\ Fetch!Next
       /\ UNCHANGED <<part, pollVars, tunnelVars, dnsVars, serveVars>>

\* Time passes, the wheel's task runs, and a task in the run queue has its turn; a tunnel, a
\* server and a client go on while they can; the timer of resolve() expires; and a server
\* that was asked answers or closes.
Spec ==
    /\ Init /\ [][Next]_allVars
    /\ WF_pollVars(part = "poll" /\ Poll!TimerExpires)
    /\ WF_pollVars(part = "poll" /\ Poll!timeout_task)
    /\ \A t \in {"a", "b"} :
         WF_pollVars(part = "poll" /\ (Poll!PollReturn(t) \/ Poll!PollReturnFreed(t)))
    /\ WF_tunnelVars(part = "tunnel" /\ Tun!Step)
    /\ WF_dnsVars(part = "dns" /\ Dns!queryTimeout)
    /\ WF_serveVars(part = "serve" /\ Serve!Server)
    /\ WF_serveVars(part = "ahead" /\ Ahead!Server)
    /\ WF_fetchVars(part = "fetch" /\ Fetch!Client)
    /\ WF_fetchVars(/\ part = "fetch"
                    /\ Fetch!ServerClose \/ \E r \in Answers : Fetch!ServerAnswer(r))

-----------------------------------------------------------------------------
\* HTTP messages are understood however the network cuts them.  A client that waits for its
\* answers has its heads understood, if no chunk ends in a token (else at least never mixed),
\* and its bodies whole; one that sends ahead gets no answer twice; and what the HTTP client
\* reports as received is the whole answer to that request.  A body that goes to the file
\* comes after earlier ones that nobody read there.
MessagesWhole ==
    /\ part = "serve" => Serve!HttpTypeOK /\ Serve!RequestIntact /\ Serve!TornToSuffixes
                       /\ Serve!BodyWhole
    /\ part = "ahead" => Ahead!HttpTypeOK /\ Ahead!OneAnswerEach
    /\ part = "fetch" => Fetch!FetchTypeOK /\ Fetch!ResponseWhole

\* Calls come to an end: a wait for a descriptor with a time-out, unless another task polls
\* it, closes it or returns through it; a tunnel whose client has closed; resolve(), whatever
\* becomes of the query; a request, by an answer or a close, and a session whose client has
\* closed; and recv() of the HTTP client, whatever the server does.
CallsEnd ==
    /\ part = "poll" => Poll!WaitEnds
    /\ part = "tunnel" => Tun!TunnelEnds
    /\ part = "dns" => Dns!ResolveReturns
    /\ part = "serve" => Serve!AnsweredOrClosed
    /\ part = "ahead" => Ahead!SessionEnds
    /\ part = "fetch" => Fetch!RecvReturns
=============================================================================
