---------------------------- MODULE LightServer ----------------------------
(***************************************************************************)
(* core/LightServer.cpp: a server whose thread accepts connections and     *)
(* gives each to a worker thread of its own, its clients, and the          *)
(* destructor: the derived object ends first, with the functions it has    *)
(* registered; only then is _stopping raised, and a connection made to the *)
(* own server so that the accepting thread looks at it.  Workers are       *)
(* detached and never deleted, so a worker keeps a pointer to the server   *)
(* and its descriptor for ever.  CC_CHECK only logs: after a socket, bind  *)
(* or accept that failed the thread goes on.                               *)
(*                                                                         *)
(* A message is one unit here; SocketChannel has the transfers.  The       *)
(* kernel's part (backlog, descriptors, the end of a connection) is        *)
(* external, modelled as the code relies on it.                            *)
(***************************************************************************)
EXTENDS Integers, Sequences, FiniteSets

CONSTANTS Clients,       \* clients, each with one connection
          Trigger,       \* the connection that the destructor makes
          NoConn,        \* accept has failed
          MaxFds,        \* descriptors the process has for connections
          MaxPending,    \* _max_pending_connections
          MaxRequests    \* bound: requests of a client

ASSUME ConnsAssumption == Trigger \notin Clients /\ NoConn \notin Clients \cup {Trigger}
ASSUME BoundsAssumption == MaxFds \in Nat /\ MaxPending \in Nat \ {0} /\ MaxRequests \in Nat

VARIABLES stopping,    \* _stopping
          listener,    \* _socket: "none", "bound", "unbound", "bad" (there is none:
                       \* -1), then "here" (listening at _port), "elsewhere" (at a
                       \* port nobody knows), "closed"
          apc,         \* where tcp_server is
          taken,       \* its local variable newsockfd
          backlog,     \* connections made and not accepted
          accepted,    \* connections that have a descriptor in this process
          wpc,         \* where the worker of each connection is
          dpc,         \* where the destructor is
          peer,        \* the client's end: "none", "open", "left", "reset"
          requests,    \* requests on their way to the worker
          responses,   \* responses on their way to the client
          got,         \* responses the client has received
          sent,        \* history: requests the client has sent
          crashed,     \* "no", "pipe" (killed by SIGPIPE), "dangling" (a worker used
                       \* the destroyed server), "host" (no address for a name, null
                       \* pointer), "string" (the name that line 126 has zeroed)
          missed,      \* history: the destructor's connect has failed
          early        \* history: the connections in use when _stopping was raised

serverVars == <<stopping, listener, apc, taken, backlog, accepted>>
clientVars == <<peer, requests, responses, got, sent>>
history == <<missed, early>>
vars == <<serverVars, clientVars, wpc, dpc, crashed, history>>

Conns == Clients \cup {Trigger}
Queued == {backlog[i] : i \in 1..Len(backlog)}

Init == /\ stopping = FALSE
        /\ listener = "none"
        /\ apc = "bind"
        /\ taken = NoConn
        /\ backlog = <<>>
        /\ accepted = {}
        /\ wpc = [c \in Clients |-> "none"]
        /\ dpc = "alive"
        /\ peer = [c \in Clients |-> "none"]
        /\ requests = [c \in Clients |-> 0]
        /\ responses = [c \in Clients |-> 0]
        /\ got = [c \in Clients |-> 0]
        /\ sent = [c \in Clients |-> 0]
        /\ crashed = "no"
        /\ missed = FALSE
        /\ early = {}

Up == crashed = "no"
-----------------------------------------------------------------------------
(* The accepting thread: tcp_server *)

Acceptor(from, to) == Up /\ apc = from /\ apc' = to
                      /\ UNCHANGED <<clientVars, wpc, dpc, crashed, history>>

\* socket and bind; a failure of either is logged, and so is that of gethostbyname
\* between them, but its result is used.
Bind == \/ /\ Acceptor("bind", "listen")
           /\ listener' \in {"bound", "unbound", "bad"}
           /\ UNCHANGED <<stopping, taken, backlog, accepted>>
        \/ /\ Up /\ apc = "bind"
           /\ crashed' = "host"
           /\ UNCHANGED <<serverVars, clientVars, wpc, dpc, history>>

\* listen on a socket without address makes the kernel choose a port.
Listen == /\ Acceptor("listen", "enter")
          /\ listener' = CASE listener = "bound" -> "here"
                           [] listener = "unbound" -> "elsewhere"
                           [] OTHER -> listener
          /\ UNCHANGED <<stopping, taken, backlog, accepted>>

\* accept reserves the descriptor before it waits for a connection ...
EnterAccept == /\ listener # "bad" /\ Cardinality(accepted) < MaxFds
               /\ Acceptor("enter", "accept")
               /\ UNCHANGED <<stopping, listener, taken, backlog, accepted>>

\* ... and fails at once when there is none left, or no socket to accept from.
AcceptFails == /\ listener = "bad" \/ Cardinality(accepted) >= MaxFds
               /\ Acceptor("enter", "check")
               /\ taken' = NoConn
               /\ UNCHANGED <<stopping, listener, backlog, accepted>>

Accept == /\ backlog # <<>>
          /\ Acceptor("accept", "check")
          /\ taken' = Head(backlog)
          /\ backlog' = Tail(backlog)
          /\ accepted' = accepted \cup {Head(backlog)}
          /\ UNCHANGED <<stopping, listener>>

\* (mutant of CheckStopping: the flag is not looked at after accept)
CheckNothing == /\ Acceptor("check", "spawn")
                /\ UNCHANGED <<stopping, listener, taken, backlog, accepted>>

\* What was accepted is dropped, with its descriptor open.
CheckStopping == /\ Acceptor("check", IF stopping THEN "close" ELSE "spawn")
                 /\ UNCHANGED <<stopping, listener, taken, backlog, accepted>>

\* A detached worker per connection.  That of a failed accept reads from -1 and
\* ends; it has no effect here.
Spawn == /\ Up /\ apc = "spawn" /\ apc' = "enter"
         /\ wpc' = IF taken \in Clients THEN [wpc EXCEPT ![taken] = "read"] ELSE wpc
         /\ UNCHANGED <<stopping, listener, taken, backlog, accepted, clientVars, dpc,
                        crashed, history>>

\* close(_socket) resets the connections that nobody accepted.
Close == /\ Up /\ apc = "close" /\ apc' = "exited"
         /\ listener' = "closed"
         /\ backlog' = <<>>
         /\ peer' = [c \in Clients |-> IF c \in Queued /\ peer[c] = "open"
                                       THEN "reset" ELSE peer[c]]
         /\ UNCHANGED <<stopping, taken, accepted, requests, responses, got, sent, wpc, dpc,
                        crashed, history>>

AcceptorStep == \/ Bind \/ Listen \/ EnterAccept \/ AcceptFails \/ Accept
                \/ CheckStopping \/ Spawn \/ Close
-----------------------------------------------------------------------------
(* A worker: SocketWorker::run *)

\* (mutant of Read: nothing to read is taken for the end of the connection)
ReadOrEnd(c) ==
    /\ Up
    /\ wpc[c] = "read"
    /\ requests' = [requests EXCEPT ![c] = IF @ > 0 THEN @ - 1 ELSE 0]
    /\ wpc' = [wpc EXCEPT ![c] = IF requests[c] > 0 THEN "handle" ELSE "ended"]
    /\ UNCHANGED <<serverVars, dpc, peer, responses, got, sent, crashed, history>>

\* read_message: a request, or the end of the connection once all are read.
Read(c) ==
    /\ Up
    /\ wpc[c] = "read"
    /\ IF requests[c] > 0
       THEN /\ requests' = [requests EXCEPT ![c] = @ - 1]
            /\ wpc' = [wpc EXCEPT ![c] = "handle"]
       ELSE /\ peer[c] # "open"
            /\ wpc' = [wpc EXCEPT ![c] = "ended"]
            /\ UNCHANGED requests
    /\ UNCHANGED <<serverVars, dpc, peer, responses, got, sent, crashed, history>>

\* (mutant of Handle: a request the server does not know is dropped)
HandleDropped(c) ==
    /\ Up
    /\ wpc[c] = "handle"
    /\ wpc' = [wpc EXCEPT ![c] = "read"]
    /\ UNCHANGED <<serverVars, clientVars, dpc, crashed, history>>

\* _server->handle_request, a virtual call into the derived object, which is the
\* first to go: what is left is a pure virtual function.
Handle(c) ==
    /\ Up
    /\ wpc[c] = "handle"
    /\ IF dpc = "alive" THEN wpc' = [wpc EXCEPT ![c] = "respond"] /\ UNCHANGED crashed
                        ELSE crashed' = "dangling" /\ UNCHANGED wpc
    /\ UNCHANGED <<serverVars, clientVars, dpc, history>>

\* The callback writes the response.  If the client has left, the data goes nowhere
\* or, when its reset has arrived, SIGPIPE ends the process.  If the server has gone
\* meanwhile, so has the function that is running, and this may go wrong.
Respond(c) ==
    /\ Up
    /\ wpc[c] = "respond"
    /\ \/ /\ wpc' = [wpc EXCEPT ![c] = "read"]
          /\ responses' = [responses EXCEPT ![c] = @ + 1]
          /\ UNCHANGED crashed
       \/ /\ \/ peer[c] = "left" /\ crashed' = "pipe"
             \/ dpc # "alive" /\ crashed' = "dangling"
          /\ UNCHANGED <<wpc, responses>>
    /\ UNCHANGED <<serverVars, dpc, peer, requests, got, sent, history>>

WorkerStep(c) == Read(c) \/ Handle(c) \/ Respond(c)
-----------------------------------------------------------------------------
(* The destructor *)

Destructor(from, to) == Up /\ dpc = from /\ dpc' = to
                        /\ UNCHANGED <<listener, apc, taken, accepted, clientVars, wpc>>

\* The derived object ends: its functions and thread-local times are gone, and a call
\* of handle_request finds no function.  _stopping is still down.
Destroy == /\ Destructor("alive", "flag")
           /\ UNCHANGED <<stopping, backlog, crashed, history>>

\* A worker has the connection, or the accepting thread is about to start one,
\* having found _stopping down.
InUse(c) == wpc[c] \notin {"none", "ended"} \/ (apc = "spawn" /\ taken = c)

RaiseStopping == /\ Destructor("flag", "trigger")
                 /\ stopping' = TRUE
                 /\ early' = {c \in Clients : InUse(c)}
                 /\ UNCHANGED <<backlog, crashed, missed>>

\* The trigger needs a descriptor besides the one that a waiting accept has.  The
\* address it uses is well-defined up to padding that the kernel ignores: line 126
\* means to clear it and clears the name instead.
CanConnect == /\ listener = "here"
              /\ Cardinality(accepted) + (IF apc = "accept" THEN 1 ELSE 0) < MaxFds

\* (mutant of TriggerConnect: no connection is made)
TriggerSkipped == /\ Destructor("trigger", "join")
                  /\ UNCHANGED <<backlog, crashed, missed, stopping, early>>

\* connect waits while the backlog is full; if it fails, that is logged.  The process
\* may not survive: a name without address is a null pointer, and the name, a
\* temporary of the destructor, is copied after line 126 has zeroed it, which some
\* implementations of std::string survive and others do not.
TriggerConnect ==
    /\ Destructor("trigger", "join")
    /\ \/ /\ CanConnect
          /\ Len(backlog) < MaxPending
          /\ backlog' = Append(backlog, Trigger)
          /\ UNCHANGED <<missed, crashed>>
       \/ /\ ~CanConnect
          /\ missed' = TRUE
          /\ UNCHANGED <<backlog, crashed>>
       \/ /\ crashed' \in {"host", "string"}
          /\ UNCHANGED <<backlog, missed>>
    /\ UNCHANGED <<stopping, early>>

Join == /\ apc = "exited"
        /\ Destructor("join", "done")
        /\ UNCHANGED <<backlog, crashed, missed, stopping, early>>

DestructorStep == RaiseStopping \/ TriggerConnect \/ Join
-----------------------------------------------------------------------------
(* Clients *)

\* A client connects once: line 126 leaves its name for the server empty.  One that
\* does not survive that (see TriggerConnect) connects and leaves.
Connect(c) ==
    /\ listener = "here"
    /\ peer[c] = "none"
    /\ Len(backlog) < MaxPending
    /\ peer' = [peer EXCEPT ![c] = "open"]
    /\ backlog' = Append(backlog, c)
    /\ UNCHANGED <<stopping, listener, apc, taken, accepted, requests, responses, got, sent,
                   wpc, dpc, crashed, history>>

Send(c) ==
    /\ peer[c] = "open"
    /\ sent[c] < MaxRequests
    /\ sent' = [sent EXCEPT ![c] = @ + 1]
    /\ requests' = [requests EXCEPT ![c] = @ + 1]
    /\ UNCHANGED <<serverVars, peer, responses, got, wpc, dpc, crashed, history>>

Receive(c) ==
    /\ peer[c] = "open"
    /\ responses[c] > 0
    /\ responses' = [responses EXCEPT ![c] = @ - 1]
    /\ got' = [got EXCEPT ![c] = @ + 1]
    /\ UNCHANGED <<serverVars, peer, requests, sent, wpc, dpc, crashed, history>>

Leave(c) ==
    /\ peer[c] = "open"
    /\ peer' = [peer EXCEPT ![c] = "left"]
    /\ UNCHANGED <<serverVars, requests, responses, got, sent, wpc, dpc, crashed, history>>

\* Without the process there is nobody to talk to.
Client(c) == Up /\ (Connect(c) \/ Send(c) \/ Receive(c) \/ Leave(c))
-----------------------------------------------------------------------------
Next == \/ AcceptorStep
        \/ \E c \in Clients : WorkerStep(c) \/ Client(c)
        \/ Destroy \/ DestructorStep

Spec == Init /\ [][Next]_vars

\* The threads of the process run; clients come, send, receive and leave as they like.
Fairness == /\ WF_vars(AcceptorStep)
            /\ \A c \in Clients : WF_vars(WorkerStep(c))
            /\ WF_vars(DestructorStep)

FairSpec == Spec /\ Fairness
-----------------------------------------------------------------------------
TypeOK ==
    /\ stopping \in BOOLEAN
    /\ listener \in {"none", "bound", "unbound", "bad", "here", "elsewhere", "closed"}
    /\ apc \in {"bind", "listen", "enter", "accept", "check", "spawn", "close", "exited"}
    /\ taken \in Conns \cup {NoConn}
    /\ backlog \in Seq(Conns) /\ Len(backlog) <= MaxPending
    /\ accepted \subseteq Conns
    /\ wpc \in [Clients -> {"none", "read", "handle", "respond", "ended"}]
    /\ dpc \in {"alive", "flag", "trigger", "join", "done"}
    /\ peer \in [Clients -> {"none", "open", "left", "reset"}]
    /\ requests \in [Clients -> Nat] /\ responses \in [Clients -> Nat]
    /\ got \in [Clients -> Nat] /\ sent \in [Clients -> Nat]
    /\ crashed \in {"no", "pipe", "dangling", "host", "string"}
    /\ missed \in BOOLEAN /\ early \subseteq Clients

\* Where a connection is, while the server is not being destroyed: waiting, in the
\* hand of the accepting thread, or with a worker; one of them, never two, and a
\* worker gives up no connection that its client still holds.
OnePlace ==
    \A c \in Clients :
        LET waiting == c \in Queued
            inHand == apc \in {"check", "spawn"} /\ taken = c
            served == wpc[c] # "none"
        IN  /\ ~(waiting /\ inHand) /\ ~(waiting /\ served) /\ ~(inHand /\ served)
            /\ peer[c] # "none" /\ ~stopping => waiting \/ inHand \/ served
            /\ peer[c] = "open" => wpc[c] # "ended"

\* No request is lost or answered twice between the client's send and its receive,
\* as long as the process lives.
AnsweredOnce ==
    \A c \in Clients :
        sent[c] = requests[c] + (IF wpc[c] \in {"handle", "respond"} THEN 1 ELSE 0)
                  + responses[c] + got[c]

\* The type invariant and the two above: connections and requests are accounted for.
AllAccounted == TypeOK /\ OnePlace /\ AnsweredOnce

\* Once _stopping is up no worker starts for a connection that was not in use already,
\* so that a server without any is not touched again, whoever connects meanwhile.  The
\* end of the derived object comes before that: until the flag is up a worker may still
\* start, on a server without functions.
QuietShutdown ==
    stopping => /\ \A c \in Clients : InUse(c) => c \in early
                /\ early = {} => crashed # "dangling"

\* The destructor returns, unless its own connect failed: because the server does not
\* listen yet, never got its port, or has no descriptor left to connect with.
DestructorReturns == dpc # "alive" ~> dpc = "done" \/ missed \/ ~Up

\* The client has sent a request that is not answered.
Waits(c) == sent[c] > responses[c] + got[c]

\* A connected client is answered, unless it leaves, the server is being destroyed,
\* or connections, none of which is ever closed, have taken all descriptors.
ClientsServed ==
    \A c \in Clients :
        Waits(c) ~> \/ ~Waits(c) \/ peer[c] # "open"
                    \/ stopping \/ ~Up \/ Cardinality(accepted) >= MaxFds
=============================================================================
