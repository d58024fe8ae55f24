------------------------- MODULE LightServerProofs -------------------------
(***************************************************************************)
(* For any clients, descriptors, requests and length of the backlog: every *)
(* connection is in one place, every request is answered once, and no      *)
(* worker starts once _stopping is up.                                     *)
(*                                                                         *)
(* The argument.  A connection without a client's end is nowhere; in the   *)
(* backlog a client is at most once, so that accept takes it out of there. *)
(* The accepting thread closes only when it has seen _stopping, which      *)
(* rises once, after the derived object has ended, and stays; who is in    *)
(* use then is remembered, and nobody else comes into use.                 *)
(***************************************************************************)
EXTENDS LightServer, SequenceTheorems, TLAPS

InHand(c) == apc \in {"check", "spawn"} /\ taken = c
Place(c) ==
    /\ ~(c \in Queued /\ InHand(c)) /\ ~(c \in Queued /\ wpc[c] # "none")
    /\ ~(InHand(c) /\ wpc[c] # "none")
    /\ peer[c] # "none" /\ ~stopping => c \in Queued \/ InHand(c) \/ wpc[c] # "none"
    /\ peer[c] = "open" => wpc[c] # "ended"
    /\ peer[c] = "none" => c \notin Queued /\ ~InHand(c) /\ wpc[c] = "none"

Busy(c) == IF wpc[c] \in {"handle", "respond"} THEN 1 ELSE 0
Account(c) == sent[c] = requests[c] + Busy(c) + responses[c] + got[c]

Once == \A i, j \in 1..Len(backlog) : backlog[i] = backlog[j] /\ backlog[i] \in Clients => i = j
Stopped == /\ stopping <=> dpc \notin {"alive", "flag"}
           /\ apc \in {"close", "exited"} => stopping
Using == \A c \in Clients : InUse(c) => c \in early
Quiet == stopping => Using /\ (early = {} => crashed # "dangling")

IInv == /\ TypeOK /\ Once /\ Stopped /\ Quiet
        /\ \A c \in Clients : Place(c) /\ Account(c)
-----------------------------------------------------------------------------
\* What is in the backlog after connect and after accept.
LEMMA QueuedAfterAppend ==
    ASSUME backlog \in Seq(Conns), NEW c \in Conns, backlog' = Append(backlog, c)
    PROVE  /\ backlog' \in Seq(Conns) /\ Len(backlog') = Len(backlog) + 1
           /\ Queued' = Queued \cup {c}
           /\ Once /\ (c \in Clients => c \notin Queued) => Once'
<1>1. /\ backlog' \in Seq(Conns) /\ Len(backlog) \in Nat /\ Len(backlog') = Len(backlog) + 1
      /\ \A i \in 1..Len(backlog) : backlog'[i] = backlog[i]
      /\ backlog'[Len(backlog) + 1] = c
  OBVIOUS
<1> DEFINE n == Len(backlog)
<1>2. n \in Nat /\ 1..Len(backlog') = 1..n \cup {n + 1} /\ n + 1 \notin 1..n
  BY <1>1
<1>3. Queued' = {backlog'[i] : i \in 1..n \cup {n + 1}}
  BY <1>2 DEF Queued
<1>4. Queued' = {backlog'[i] : i \in 1..n} \cup {backlog'[n + 1]}
  BY <1>3
<1>5. Queued' = Queued \cup {c}
  BY <1>1, <1>4 DEF Queued
<1>6. ASSUME Once, c \in Clients => c \notin Queued PROVE Once'
  <2> SUFFICES ASSUME NEW i \in 1..n \cup {n + 1}, NEW j \in 1..n \cup {n + 1},
                      backlog'[i] = backlog'[j], backlog'[i] \in Clients
               PROVE  i = j
    BY <1>2 DEF Once
  <2>1. CASE i \in 1..n /\ j \in 1..n
    BY <1>1, <1>6, <2>1 DEF Once
  <2>2. CASE i \in 1..n /\ j = n + 1
    BY <1>1, <1>6, <2>2 DEF Queued
  <2>3. CASE i = n + 1 /\ j \in 1..n
    BY <1>1, <1>6, <2>3 DEF Queued
  <2> QED BY <2>1, <2>2, <2>3
<1> QED BY <1>1, <1>5, <1>6

LEMMA QueuedAfterTail ==
    ASSUME backlog \in Seq(Conns), backlog # <<>>, backlog' = Tail(backlog)
    PROVE  /\ backlog' \in Seq(Conns) /\ Len(backlog') <= Len(backlog)
           /\ Head(backlog) \in Queued /\ Queued' \subseteq Queued
           /\ Queued \subseteq Queued' \cup {Head(backlog)}
           /\ Once => Once' /\ (Head(backlog) \in Clients => Head(backlog) \notin Queued')
<1> DEFINE n == Len(backlog)
<1>1. /\ n \in Nat \ {0} /\ backlog' \in Seq(Conns) /\ Len(backlog') = n - 1
      /\ \A i \in 1..n - 1 : backlog'[i] = backlog[i + 1]
      /\ Head(backlog) = backlog[1]
  BY HeadTailProperties, EmptySeq
<1> HIDE DEF n
<1>2. \A i \in 1..n - 1 : i + 1 \in 1..n /\ i + 1 # 1
  BY <1>1
<1>3. 1 \in 1..n /\ \A i \in 1..n : i = 1 \/ (i - 1 \in 1..n - 1 /\ (i - 1) + 1 = i)
  BY <1>1
<1>4. Queued = {backlog[i] : i \in 1..n} /\ Queued' = {backlog'[i] : i \in 1..n - 1}
  BY <1>1 DEF Queued, n
<1>5. Head(backlog) \in Queued /\ Queued' \subseteq Queued
  BY <1>1, <1>2, <1>3, <1>4
<1>6. Queued \subseteq Queued' \cup {Head(backlog)}
  BY <1>1, <1>3, <1>4
<1>7. Once <=> \A i, j \in 1..n : backlog[i] = backlog[j] /\ backlog[i] \in Clients => i = j
  BY DEF Once, n
<1>8. Once' <=> \A i, j \in 1..n - 1 : backlog'[i] = backlog'[j] /\ backlog'[i] \in Clients => i = j
  BY <1>1 DEF Once
<1>9. ASSUME Once PROVE Once'
  <2> SUFFICES ASSUME NEW i \in 1..n - 1, NEW j \in 1..n - 1,
                      backlog'[i] = backlog'[j], backlog'[i] \in Clients
               PROVE  i = j
    BY <1>8
  <2>1. i + 1 = j + 1
    BY <1>1, <1>2, <1>7, <1>9
  <2> QED BY <2>1
<1>10. ASSUME Once, Head(backlog) \in Clients PROVE Head(backlog) \notin Queued'
  <2> SUFFICES ASSUME NEW i \in 1..n - 1, backlog'[i] = backlog[1] PROVE FALSE
    BY <1>1, <1>4
  <2>1. i + 1 = 1
    BY <1>1, <1>2, <1>3, <1>7, <1>10
  <2> QED BY <1>2, <2>1
<1>11. Len(backlog') <= Len(backlog)
  BY <1>1 DEF n
<1> QED BY <1>1, <1>5, <1>6, <1>9, <1>10, <1>11

LEMMA InitIInv == Init => IInv
<1> SUFFICES ASSUME Init PROVE IInv
  OBVIOUS
<1>1. backlog \in Seq(Conns) /\ Len(backlog) = 0 /\ Queued = {}
  BY DEF Init, Queued
<1>2. NoConn \notin Clients
  BY ConnsAssumption
<1>3. /\ taken \in Conns \cup {NoConn} /\ accepted \subseteq Conns
      /\ Len(backlog) <= MaxPending
  BY <1>1, BoundsAssumption DEF Init
<1>4. /\ requests \in [Clients -> Nat] /\ responses \in [Clients -> Nat]
      /\ got \in [Clients -> Nat] /\ sent \in [Clients -> Nat]
      /\ wpc \in [Clients -> {"none", "read", "handle", "respond", "ended"}]
      /\ peer \in [Clients -> {"none", "open", "left", "reset"}]
  BY DEF Init
<1>5. stopping \in BOOLEAN /\ missed \in BOOLEAN /\ early \subseteq Clients
  BY DEF Init
<1>6. TypeOK
  BY <1>1, <1>3, <1>4, <1>5 DEF Init, TypeOK
<1> QED BY <1>1, <1>2, <1>6 DEF Init, IInv, Once, Stopped, Quiet, Place, Account, InHand, Busy
-----------------------------------------------------------------------------
\* Steps of the accepting thread that take no connection from anywhere.
LEMMA AcceptorStays ==
    ASSUME IInv, TypeOK', UNCHANGED <<stopping, backlog, clientVars, wpc, dpc, history>>,
           crashed' \in {crashed, "host"},
           \A c \in Clients : InHand(c)' => InHand(c),
           \A c \in Clients : InHand(c) => InHand(c)' \/ stopping,
           apc' \in {"close", "exited"} => stopping,
           apc' = "spawn" => ~stopping
    PROVE  IInv'
<1>1. Queued' = Queued /\ Once'
  BY DEF IInv, Queued, Once
<1>2. Stopped' /\ Quiet'
  <2>1. stopping => \A c \in Clients : InUse(c)' => InUse(c)
    BY DEF InUse
  <2> QED BY <2>1 DEF IInv, Stopped, Quiet, Using, history
<1>3. ASSUME NEW c \in Clients PROVE Place(c)' /\ Account(c)'
  <2>1. Place(c) /\ Account(c)
    BY DEF IInv
  <2>2. Place(c)'
    BY <1>1, <2>1 DEF Place, clientVars
  <2>3. Account(c)'
    BY <2>1 DEF Account, Busy, clientVars
  <2> QED BY <2>2, <2>3
<1> QED BY <1>1, <1>2, <1>3 DEF IInv

LEMMA AcceptorIdles ==
    ASSUME IInv, Bind \/ Listen \/ EnterAccept \/ AcceptFails \/ CheckStopping
    PROVE  IInv'
<1>1. /\ UNCHANGED <<stopping, backlog, accepted, clientVars, wpc, dpc, history>>
      /\ crashed' \in {crashed, "host"}
      /\ TypeOK /\ NoConn \notin Clients
  BY ConnsAssumption
  DEF Bind, Listen, EnterAccept, AcceptFails, CheckStopping, Acceptor, IInv, serverVars
<1>2. /\ listener' \in {"none", "bound", "unbound", "bad", "here", "elsewhere", "closed"}
      /\ apc' \in {"bind", "listen", "enter", "accept", "check", "spawn", "close", "exited"}
      /\ taken' \in Conns \cup {NoConn}
  BY <1>1 DEF TypeOK, Bind, Listen, EnterAccept, AcceptFails, CheckStopping, Acceptor, serverVars
<1>3. TypeOK'
  BY <1>1, <1>2 DEF TypeOK, clientVars, history
<1>4. /\ \A c \in Clients : InHand(c)' => InHand(c)
      /\ \A c \in Clients : InHand(c) => InHand(c)' \/ stopping
      /\ apc' \in {"close", "exited"} => stopping
      /\ apc' = "spawn" => ~stopping
  <2>1. CASE apc = "bind" /\ apc' \in {"bind", "listen"}
    BY <2>1 DEF InHand
  <2>2. CASE ~(apc = "bind" /\ apc' \in {"bind", "listen"})
    BY <1>1, <2>2
    DEF Bind, Listen, EnterAccept, AcceptFails, CheckStopping, Acceptor, InHand, serverVars
  <2> QED BY <2>1, <2>2
<1> QED BY <1>1, <1>3, <1>4, AcceptorStays

LEMMA AcceptStep ==
    ASSUME IInv, Accept
    PROVE  IInv'
<1>1. /\ apc = "accept" /\ apc' = "check" /\ taken' = Head(backlog)
      /\ backlog # <<>> /\ backlog' = Tail(backlog)
      /\ accepted' = accepted \cup {Head(backlog)}
      /\ UNCHANGED <<stopping, listener, clientVars, wpc, dpc, crashed, history>>
      /\ TypeOK /\ Once /\ backlog \in Seq(Conns)
  BY DEF Accept, Acceptor, IInv, TypeOK
<1>2. /\ backlog' \in Seq(Conns) /\ Len(backlog') <= Len(backlog)
      /\ Head(backlog) \in Queued /\ Queued' \subseteq Queued
      /\ Queued \subseteq Queued' \cup {Head(backlog)}
      /\ Once' /\ (Head(backlog) \in Clients => Head(backlog) \notin Queued')
  BY <1>1, QueuedAfterTail
<1>3. Head(backlog) \in Conns
  BY <1>1, HeadTailProperties
<1>4. TypeOK'
  <2>1. Len(backlog') <= MaxPending
    BY <1>1, <1>2, BoundsAssumption DEF TypeOK
  <2> QED BY <1>1, <1>2, <1>3, <2>1 DEF TypeOK, clientVars, history
<1>5. Stopped' /\ Quiet'
  BY <1>1 DEF IInv, Stopped, Quiet, Using, InUse, history
<1>6. ASSUME NEW c \in Clients PROVE Place(c)' /\ Account(c)'
  <2>1. Place(c) /\ Account(c)
    BY DEF IInv
  <2>2. /\ ~InHand(c) /\ (InHand(c)' <=> c = Head(backlog))
        /\ (c \in Queued <=> c \in Queued' \/ c = Head(backlog))
    BY <1>1, <1>2 DEF InHand
  <2>3. Place(c)'
    BY <1>1, <1>2, <2>1, <2>2 DEF Place, clientVars
  <2>4. Account(c)'
    BY <1>1, <2>1 DEF Account, Busy, clientVars
  <2> QED BY <2>3, <2>4
<1> QED BY <1>2, <1>4, <1>5, <1>6 DEF IInv

LEMMA SpawnStep ==
    ASSUME IInv, Spawn
    PROVE  IInv'
<1>1. /\ apc = "spawn" /\ apc' = "enter"
      /\ wpc' = IF taken \in Clients THEN [wpc EXCEPT ![taken] = "read"] ELSE wpc
      /\ UNCHANGED <<stopping, listener, taken, backlog, accepted, clientVars, dpc, crashed, history>>
      /\ TypeOK /\ Queued' = Queued
  BY DEF Spawn, IInv, Queued
<1>2. /\ wpc' \in [Clients -> {"none", "read", "handle", "respond", "ended"}]
      /\ \A c \in Clients : wpc'[c] = IF taken = c THEN "read" ELSE wpc[c]
  BY <1>1 DEF TypeOK
<1>3. TypeOK'
  BY <1>1, <1>2 DEF TypeOK, clientVars, history
<1>4. Once'
  BY <1>1 DEF IInv, Once
<1>5. Stopped' /\ Quiet'
  BY <1>1 DEF IInv, Stopped, Quiet, Using, InUse, history
<1>6. ASSUME NEW c \in Clients PROVE Place(c)' /\ Account(c)'
  <2>1. Place(c) /\ Account(c)
    BY DEF IInv
  <2>2. ~InHand(c)' /\ (InHand(c) <=> taken = c)
    BY <1>1 DEF InHand
  <2>3. Place(c)'
    BY <1>1, <1>2, <2>1, <2>2 DEF Place, clientVars
  <2>4. taken = c => wpc[c] = "none"
    BY <2>1, <2>2 DEF Place
  <2>5. Account(c)'
    BY <1>1, <1>2, <2>1, <2>4 DEF Account, Busy, clientVars
  <2> QED BY <2>3, <2>5
<1> QED BY <1>3, <1>4, <1>5, <1>6 DEF IInv

LEMMA CloseStep ==
    ASSUME IInv, Close
    PROVE  IInv'
<1>1. /\ apc = "close" /\ apc' = "exited" /\ listener' = "closed" /\ backlog' = <<>>
      /\ peer' = [c \in Clients |-> IF c \in Queued /\ peer[c] = "open" THEN "reset" ELSE peer[c]]
      /\ UNCHANGED <<stopping, taken, accepted, requests, responses, got, sent, wpc, dpc,
                     crashed, history>>
      /\ TypeOK
  BY DEF Close, IInv
<1>2. /\ peer' \in [Clients -> {"none", "open", "left", "reset"}]
      /\ \A c \in Clients : peer'[c] = peer[c] \/ (peer[c] = "open" /\ peer'[c] = "reset")
  BY <1>1 DEF TypeOK
<1>3. /\ backlog' \in Seq(Conns) /\ Len(backlog') = 0 /\ Queued' = {}
  BY <1>1 DEF Queued
<1>4. TypeOK'
  BY <1>1, <1>2, <1>3, BoundsAssumption DEF TypeOK, history
<1>5. Once'
  BY <1>3 DEF Once
<1>6. stopping /\ Stopped' /\ Quiet'
  BY <1>1 DEF IInv, Stopped, Quiet, Using, InUse, history
<1>7. ASSUME NEW c \in Clients PROVE Place(c)' /\ Account(c)'
  <2>1. Place(c) /\ Account(c) /\ ~InHand(c)'
    BY <1>1 DEF IInv, InHand
  <2>2. Place(c)'
    BY <1>1, <1>2, <1>3, <1>6, <2>1 DEF Place
  <2>3. Account(c)'
    BY <1>1, <2>1 DEF Account, Busy
  <2> QED BY <2>2, <2>3
<1> QED BY <1>4, <1>5, <1>6, <1>7 DEF IInv
-----------------------------------------------------------------------------
\* Steps of c's worker or client that leave the server's variables alone: the rest
\* follows from what is said of c.
LEMMA OneConnection ==
    ASSUME IInv, TypeOK', UNCHANGED <<stopping, apc, taken, backlog, dpc, history>>,
           NEW c \in Clients, Place(c)', Account(c)',
           \A d \in Clients \ {c} : /\ wpc'[d] = wpc[d] /\ peer'[d] = peer[d]
                                    /\ requests'[d] = requests[d] /\ responses'[d] = responses[d]
                                    /\ got'[d] = got[d] /\ sent'[d] = sent[d],
           InUse(c)' => InUse(c), stopping /\ early = {} => crashed' # "dangling"
    PROVE  IInv'
<1>1. Queued' = Queued /\ Once' /\ Stopped'
  BY DEF IInv, Queued, Once, Stopped
<1>2. Quiet'
  <2>1. \A d \in Clients : InUse(d)' => InUse(d)
    BY DEF InUse
  <2> QED BY <2>1 DEF IInv, Quiet, Using, history
<1>3. ASSUME NEW d \in Clients \ {c} PROVE Place(d)' /\ Account(d)'
  <2>1. Place(d) /\ Account(d)
    BY DEF IInv
  <2>2. Place(d)'
    BY <1>1, <2>1 DEF Place, InHand
  <2>3. Account(d)'
    BY <2>1 DEF Account, Busy
  <2> QED BY <2>2, <2>3
<1> QED BY <1>1, <1>2, <1>3 DEF IInv

\* What the counters of c are.
LEMMA Counters ==
    ASSUME TypeOK, NEW c \in Clients
    PROVE  requests[c] \in Nat /\ responses[c] \in Nat /\ got[c] \in Nat /\ sent[c] \in Nat
BY DEF TypeOK

LEMMA ReadStep ==
    ASSUME IInv, NEW c \in Clients, Read(c)
    PROVE  IInv'
<1>1. /\ wpc[c] = "read"
      /\ UNCHANGED <<serverVars, dpc, peer, responses, got, sent, crashed, history>>
      /\ TypeOK /\ Place(c) /\ Account(c)
  BY DEF Read, IInv
<1>2. InUse(c) /\ (stopping => early # {})
  BY <1>1 DEF IInv, Quiet, Using, InUse
<1>3. CASE requests[c] > 0
  <2>1. /\ requests' = [requests EXCEPT ![c] = @ - 1]
        /\ wpc' = [wpc EXCEPT ![c] = "handle"]
    BY <1>3 DEF Read
  <2>2. /\ requests[c] - 1 \in Nat /\ requests'[c] = requests[c] - 1 /\ wpc'[c] = "handle"
        /\ \A d \in Clients \ {c} : requests'[d] = requests[d] /\ wpc'[d] = wpc[d]
    BY <1>1, <1>3, <2>1, Counters DEF TypeOK
  <2>3. TypeOK'
    BY <1>1, <2>1, <2>2 DEF TypeOK, serverVars, history
  <2>4. Place(c)'
    BY <1>1, <2>2 DEF Place, InHand, Queued, serverVars
  <2>5. Account(c)'
    BY <1>1, <2>2, Counters DEF Account, Busy
  <2> QED BY <1>1, <1>2, <2>2, <2>3, <2>4, <2>5, OneConnection DEF serverVars
<1>4. CASE ~(requests[c] > 0)
  <2>1. peer[c] # "open" /\ wpc' = [wpc EXCEPT ![c] = "ended"] /\ requests' = requests
    BY <1>4 DEF Read
  <2>2. wpc'[c] = "ended" /\ \A d \in Clients \ {c} : wpc'[d] = wpc[d]
    BY <1>1, <2>1 DEF TypeOK
  <2>3. TypeOK'
    BY <1>1, <2>1 DEF TypeOK, serverVars, history
  <2>4. Place(c)'
    BY <1>1, <2>1, <2>2 DEF Place, InHand, Queued, serverVars
  <2>5. Account(c)'
    BY <1>1, <2>1, <2>2 DEF Account, Busy
  <2> QED BY <1>1, <1>2, <2>1, <2>2, <2>3, <2>4, <2>5, OneConnection DEF serverVars
<1> QED BY <1>3, <1>4

LEMMA HandleStep ==
    ASSUME IInv, NEW c \in Clients, Handle(c)
    PROVE  IInv'
<1>1. /\ wpc[c] = "handle"
      /\ UNCHANGED <<serverVars, clientVars, dpc, history>>
      /\ TypeOK /\ Place(c) /\ Account(c)
  BY DEF Handle, IInv
<1>2. InUse(c) /\ (stopping => early # {})
  BY <1>1 DEF IInv, Quiet, Using, InUse
<1>3. /\ wpc' \in [Clients -> {"none", "read", "handle", "respond", "ended"}]
      /\ crashed' \in {"no", "pipe", "dangling", "host", "string"}
      /\ wpc'[c] \in {"handle", "respond"} /\ \A d \in Clients \ {c} : wpc'[d] = wpc[d]
  BY <1>1 DEF Handle, TypeOK
<1>4. TypeOK'
  BY <1>1, <1>3 DEF TypeOK, serverVars, clientVars, history
<1>5. Place(c)'
  BY <1>1, <1>3 DEF Place, InHand, Queued, serverVars, clientVars
<1>6. Account(c)'
  BY <1>1, <1>3 DEF Account, Busy, clientVars
<1> QED BY <1>1, <1>2, <1>3, <1>4, <1>5, <1>6, OneConnection DEF serverVars, clientVars

LEMMA RespondStep ==
    ASSUME IInv, NEW c \in Clients, Respond(c)
    PROVE  IInv'
<1>1. /\ wpc[c] = "respond"
      /\ UNCHANGED <<serverVars, dpc, peer, requests, got, sent, history>>
      /\ TypeOK /\ Place(c) /\ Account(c)
  BY DEF Respond, IInv
<1>2. InUse(c) /\ (stopping => early # {})
  BY <1>1 DEF IInv, Quiet, Using, InUse
<1>3. CASE /\ wpc' = [wpc EXCEPT ![c] = "read"]
           /\ responses' = [responses EXCEPT ![c] = @ + 1]
           /\ UNCHANGED crashed
  <2>1. /\ wpc'[c] = "read" /\ responses'[c] = responses[c] + 1 /\ responses[c] + 1 \in Nat
        /\ \A d \in Clients \ {c} : responses'[d] = responses[d] /\ wpc'[d] = wpc[d]
    BY <1>1, <1>3, Counters DEF TypeOK
  <2>2. TypeOK'
    BY <1>1, <1>3, <2>1 DEF TypeOK, serverVars, history
  <2>3. Place(c)'
    BY <1>1, <2>1 DEF Place, InHand, Queued, serverVars
  <2>4. Account(c)'
    BY <1>1, <2>1, Counters DEF Account, Busy
  <2> QED BY <1>1, <1>2, <2>1, <2>2, <2>3, <2>4, OneConnection DEF serverVars
<1>4. CASE crashed' \in {"pipe", "dangling"} /\ UNCHANGED <<wpc, responses>>
  <2>1. TypeOK'
    BY <1>1, <1>4 DEF TypeOK, serverVars, history
  <2>2. Place(c)' /\ Account(c)'
    BY <1>1, <1>4 DEF Place, InHand, Queued, Account, Busy, serverVars
  <2> QED BY <1>1, <1>2, <1>4, <2>1, <2>2, OneConnection DEF serverVars
<1> QED BY <1>3, <1>4 DEF Respond
-----------------------------------------------------------------------------
LEMMA ConnectStep ==
    ASSUME IInv, NEW c \in Clients, Connect(c)
    PROVE  IInv'
<1>1. /\ peer[c] = "none" /\ Len(backlog) < MaxPending
      /\ peer' = [peer EXCEPT ![c] = "open"] /\ backlog' = Append(backlog, c)
      /\ UNCHANGED <<stopping, listener, apc, taken, accepted, requests, responses, got, sent,
                     wpc, dpc, crashed, history>>
      /\ TypeOK /\ Once /\ c \in Conns
  BY DEF Connect, IInv, Conns
<1>2. c \notin Queued /\ ~InHand(c) /\ wpc[c] = "none"
  BY <1>1 DEF IInv, Place
<1>3. backlog \in Seq(Conns)
  BY <1>1 DEF TypeOK
<1>4. /\ backlog' \in Seq(Conns) /\ Len(backlog') = Len(backlog) + 1
      /\ Queued' = Queued \cup {c} /\ Once'
  BY <1>1, <1>2, <1>3, QueuedAfterAppend
<1>5. peer'[c] = "open" /\ \A d \in Clients \ {c} : peer'[d] = peer[d]
  BY <1>1 DEF TypeOK
<1>6. TypeOK'
  <2>1. Len(backlog') <= MaxPending
    BY <1>1, <1>3, <1>4, BoundsAssumption
  <2> QED BY <1>1, <1>4, <2>1 DEF TypeOK, history
<1>7. Stopped' /\ Quiet'
  BY <1>1 DEF IInv, Stopped, Quiet, Using, InUse, history
<1>8. ASSUME NEW d \in Clients PROVE Place(d)' /\ Account(d)'
  <2>1. Place(d) /\ Account(d) /\ (InHand(d)' <=> InHand(d))
    BY <1>1 DEF IInv, InHand
  <2>2. Place(d)'
    BY <1>1, <1>2, <1>4, <1>5, <2>1 DEF Place
  <2>3. Account(d)'
    BY <1>1, <2>1 DEF Account, Busy
  <2> QED BY <2>2, <2>3
<1> QED BY <1>4, <1>6, <1>7, <1>8 DEF IInv

LEMMA ClientStep ==
    ASSUME IInv, NEW c \in Clients, Client(c)
    PROVE  IInv'
<1>1. /\ TypeOK /\ Place(c) /\ Account(c)
      /\ stopping /\ early = {} => crashed # "dangling"
  BY DEF IInv, Quiet
<1>2. CASE Send(c)
  <2>1. /\ sent' = [sent EXCEPT ![c] = @ + 1] /\ requests' = [requests EXCEPT ![c] = @ + 1]
        /\ UNCHANGED <<serverVars, peer, responses, got, wpc, dpc, crashed, history>>
    BY <1>2 DEF Send
  <2>2. /\ sent'[c] = sent[c] + 1 /\ requests'[c] = requests[c] + 1
        /\ sent[c] + 1 \in Nat /\ requests[c] + 1 \in Nat
        /\ \A d \in Clients \ {c} : sent'[d] = sent[d] /\ requests'[d] = requests[d]
    BY <1>1, <2>1, Counters DEF TypeOK
  <2>3. TypeOK'
    BY <1>1, <2>1, <2>2 DEF TypeOK, serverVars, history
  <2>4. Place(c)'
    BY <1>1, <2>1 DEF Place, InHand, Queued, serverVars
  <2>5. Account(c)'
    BY <1>1, <2>1, <2>2, Counters DEF Account, Busy
  <2> QED BY <1>1, <2>1, <2>2, <2>3, <2>4, <2>5, OneConnection DEF serverVars, InUse
<1>3. CASE Receive(c)
  <2>1. /\ responses[c] > 0
        /\ responses' = [responses EXCEPT ![c] = @ - 1] /\ got' = [got EXCEPT ![c] = @ + 1]
        /\ UNCHANGED <<serverVars, peer, requests, sent, wpc, dpc, crashed, history>>
    BY <1>3 DEF Receive
  <2>2. /\ responses'[c] = responses[c] - 1 /\ got'[c] = got[c] + 1
        /\ responses[c] - 1 \in Nat /\ got[c] + 1 \in Nat
        /\ \A d \in Clients \ {c} : responses'[d] = responses[d] /\ got'[d] = got[d]
    BY <1>1, <2>1, Counters DEF TypeOK
  <2>3. TypeOK'
    BY <1>1, <2>1, <2>2 DEF TypeOK, serverVars, history
  <2>4. Place(c)'
    BY <1>1, <2>1 DEF Place, InHand, Queued, serverVars
  <2>5. Account(c)'
    BY <1>1, <2>1, <2>2, Counters DEF Account, Busy
  <2> QED BY <1>1, <2>1, <2>2, <2>3, <2>4, <2>5, OneConnection DEF serverVars, InUse
<1>4. CASE Leave(c)
  <2>1. /\ peer[c] = "open" /\ peer' = [peer EXCEPT ![c] = "left"]
        /\ UNCHANGED <<serverVars, requests, responses, got, sent, wpc, dpc, crashed, history>>
    BY <1>4 DEF Leave
  <2>2. peer'[c] = "left" /\ \A d \in Clients \ {c} : peer'[d] = peer[d]
    BY <1>1, <2>1 DEF TypeOK
  <2>3. TypeOK'
    BY <1>1, <2>1 DEF TypeOK, serverVars, history
  <2>4. Place(c)'
    BY <1>1, <2>1, <2>2 DEF Place, InHand, Queued, serverVars
  <2>5. Account(c)'
    BY <1>1, <2>1 DEF Account, Busy
  <2> QED BY <1>1, <2>1, <2>2, <2>3, <2>4, <2>5, OneConnection DEF serverVars, InUse
<1> QED BY <1>2, <1>3, <1>4, ConnectStep DEF Client
-----------------------------------------------------------------------------
\* What the destructor leaves of every connection.
LEMMA ConnectionsStay ==
    ASSUME IInv, UNCHANGED <<apc, taken, clientVars, wpc>>, stopping => stopping',
           \A c \in Clients : c \in Queued' <=> c \in Queued
    PROVE  \A c \in Clients : Place(c)' /\ Account(c)'
<1> SUFFICES ASSUME NEW c \in Clients PROVE Place(c)' /\ Account(c)'
  OBVIOUS
<1>1. Place(c) /\ Account(c) /\ (InHand(c)' <=> InHand(c))
  BY DEF IInv, InHand
<1>2. Place(c)'
  BY <1>1 DEF Place, clientVars
<1>3. Account(c)'
  BY <1>1 DEF Account, Busy, clientVars
<1> QED BY <1>2, <1>3

LEMMA DestroyStep ==
    ASSUME IInv, Destroy
    PROVE  IInv'
<1>1. /\ dpc = "alive" /\ dpc' = "flag"
      /\ UNCHANGED <<serverVars, clientVars, wpc, crashed, history>>
      /\ TypeOK
  BY DEF Destroy, Destructor, IInv, serverVars
<1>2. TypeOK'
  BY <1>1 DEF TypeOK, serverVars, clientVars, history
<1>3. Queued' = Queued /\ Once' /\ Stopped' /\ Quiet'
  BY <1>1 DEF IInv, Queued, Once, Stopped, Quiet, Using, InUse, serverVars, history
<1>4. \A c \in Clients : Place(c)' /\ Account(c)'
  BY <1>1, <1>3, ConnectionsStay DEF serverVars
<1> QED BY <1>2, <1>3, <1>4 DEF IInv

LEMMA RaiseStep ==
    ASSUME IInv, RaiseStopping
    PROVE  IInv'
<1>1. /\ crashed = "no" /\ dpc = "flag" /\ dpc' = "trigger" /\ stopping' = TRUE
      /\ early' = {c \in Clients : InUse(c)}
      /\ UNCHANGED <<listener, apc, taken, accepted, clientVars, wpc, crashed, backlog, missed>>
      /\ TypeOK
  BY DEF RaiseStopping, Destructor, Up, IInv
<1>2. early' \subseteq Clients /\ stopping' \in BOOLEAN
  BY <1>1
<1>3. TypeOK'
  BY <1>1, <1>2 DEF TypeOK, clientVars
<1>4. Queued' = Queued /\ Once' /\ Stopped'
  BY <1>1 DEF IInv, Queued, Once, Stopped
<1>5. Quiet'
  BY <1>1 DEF Quiet, Using, InUse
<1>6. \A c \in Clients : Place(c)' /\ Account(c)'
  BY <1>1, <1>4, ConnectionsStay
<1> QED BY <1>3, <1>4, <1>5, <1>6 DEF IInv

LEMMA TriggerStep ==
    ASSUME IInv, TriggerConnect
    PROVE  IInv'
<1>1. /\ dpc = "trigger" /\ dpc' = "join"
      /\ UNCHANGED <<listener, apc, taken, accepted, clientVars, wpc, stopping, early>>
      /\ crashed' \in {crashed, "host", "string"}
      /\ TypeOK /\ Once /\ backlog \in Seq(Conns)
      /\ Trigger \in Conns /\ Trigger \notin Clients
  BY ConnsAssumption DEF TriggerConnect, Destructor, IInv, TypeOK, Conns
<1>2. Stopped' /\ Quiet'
  BY <1>1 DEF IInv, Stopped, Quiet, Using, InUse
<1>3. CASE Len(backlog) < MaxPending /\ backlog' = Append(backlog, Trigger) /\ missed' = missed
  <2>1. /\ backlog' \in Seq(Conns) /\ Len(backlog') = Len(backlog) + 1
        /\ Queued' = Queued \cup {Trigger} /\ Once'
    BY <1>1, <1>3, QueuedAfterAppend
  <2>2. Len(backlog') <= MaxPending
    BY <1>1, <1>3, <2>1, BoundsAssumption
  <2>3. TypeOK'
    BY <1>1, <1>3, <2>1, <2>2 DEF TypeOK, clientVars
  <2>4. \A c \in Clients : c \in Queued' <=> c \in Queued
    BY <1>1, <2>1
  <2>5. \A c \in Clients : Place(c)' /\ Account(c)'
    BY <1>1, <2>4, ConnectionsStay
  <2> QED BY <1>2, <2>1, <2>3, <2>5 DEF IInv
<1>4. CASE missed' \in BOOLEAN /\ backlog' = backlog
  <2>1. TypeOK'
    BY <1>1, <1>4 DEF TypeOK, clientVars
  <2>2. Queued' = Queued /\ Once'
    BY <1>1, <1>4 DEF Queued, Once
  <2>3. \A c \in Clients : Place(c)' /\ Account(c)'
    BY <1>1, <2>2, ConnectionsStay
  <2> QED BY <1>2, <2>1, <2>2, <2>3 DEF IInv
<1> QED BY <1>1, <1>3, <1>4 DEF TriggerConnect, TypeOK

LEMMA JoinStep ==
    ASSUME IInv, Join
    PROVE  IInv'
<1>1. /\ dpc = "join" /\ dpc' = "done"
      /\ UNCHANGED <<serverVars, clientVars, wpc, crashed, history>>
      /\ TypeOK
  BY DEF Join, Destructor, IInv, serverVars, history
<1>2. TypeOK'
  BY <1>1 DEF TypeOK, serverVars, clientVars, history
<1>3. Queued' = Queued /\ Once' /\ Stopped' /\ Quiet'
  BY <1>1 DEF IInv, Queued, Once, Stopped, Quiet, Using, InUse, serverVars, history
<1>4. \A c \in Clients : Place(c)' /\ Account(c)'
  BY <1>1, <1>3, ConnectionsStay DEF serverVars
<1> QED BY <1>2, <1>3, <1>4 DEF IInv

LEMMA NextIInv == IInv /\ [Next]_vars => IInv'
<1> SUFFICES ASSUME IInv, [Next]_vars PROVE IInv'
  OBVIOUS
<1>1. CASE AcceptorStep
  BY <1>1, AcceptorIdles, AcceptStep, SpawnStep, CloseStep DEF AcceptorStep
<1>2. ASSUME NEW c \in Clients, WorkerStep(c) \/ Client(c) PROVE IInv'
  BY <1>2, ReadStep, HandleStep, RespondStep, ClientStep DEF WorkerStep
<1>3. CASE Destroy \/ DestructorStep
  BY <1>3, DestroyStep, RaiseStep, TriggerStep, JoinStep DEF DestructorStep
<1>4. CASE UNCHANGED vars
  <2>1. UNCHANGED <<serverVars, clientVars, wpc, dpc, crashed, history>> /\ TypeOK
    BY <1>4 DEF vars, IInv
  <2>2. TypeOK'
    BY <2>1 DEF TypeOK, serverVars, clientVars, history
  <2>3. Queued' = Queued /\ Once' /\ Stopped' /\ Quiet'
    BY <2>1 DEF IInv, Queued, Once, Stopped, Quiet, Using, InUse, serverVars, history
  <2>4. \A c \in Clients : Place(c)' /\ Account(c)'
    BY <2>1, <2>3, ConnectionsStay DEF serverVars
  <2> QED BY <2>2, <2>3, <2>4 DEF IInv
<1> QED BY <1>1, <1>2, <1>3, <1>4 DEF Next

\* The invariant holds in every state the server and its clients get to.
THEOREM Inductive == Spec => []IInv
BY InitIInv, NextIInv, PTL DEF Spec
-----------------------------------------------------------------------------
\* Connections and requests are accounted for: a client that has connected waits, is in
\* the accepting thread's hand or has a worker, one of them, until the server is being
\* destroyed; and each of its requests is on its way, in the worker's hand or answered.
THEOREM NothingIsLost == Spec => []AllAccounted
<1>1. IInv => AllAccounted
  <2> SUFFICES ASSUME IInv PROVE AllAccounted
    OBVIOUS
  <2>1. OnePlace
    BY DEF IInv, OnePlace, Place, InHand
  <2>2. AnsweredOnce
    BY DEF IInv, AnsweredOnce, Account, Busy
  <2> QED BY <2>1, <2>2 DEF IInv, AllAccounted
<1> QED BY <1>1, Inductive, PTL

\* Once _stopping is up no worker starts for a connection that was not in use already,
\* and if none was, no worker uses what is left of the server.  Nothing of the kind is
\* said of the time between the end of the derived object and that flag.
THEOREM QuietIsSafe == Spec => []QuietShutdown
<1>1. IInv => QuietShutdown
  BY DEF IInv, Quiet, Using, QuietShutdown
<1> QED BY <1>1, Inductive, PTL
=============================================================================
