------------------------------ MODULE ProtoRpc ------------------------------
(***************************************************************************)
(* core/ProtoServer.cpp over the messages of core/SocketChannel.cpp: a     *)
(* client that sends requests and waits for each reply, and the worker of  *)
(* its connection.  A message is a header, the lengths of its blocks and   *)
(* the blocks, one after the other in the stream; the next header is found *)
(* only if every block was read, with its own length.                      *)
(*                                                                         *)
(* MessageReader::get_block_length returns the length after the one of the *)
(* block to be read.  For the last block that is what the memory behind    *)
(* the vector holds, an arbitrary number; on an empty vector the access    *)
(* is to address 8, which ends the process.                                *)
(***************************************************************************)
EXTENDS Integers, SequencesExt, FiniteSetsExt

CONSTANTS Octets,      \* what blocks are made of: records with the field byte
          Names,       \* function names a client may send: sequences of bytes
          Plain,       \* those registered with register_service_function
          Extended,    \* those registered with register_service_function_ex
          Contents,    \* serialized messages and user data: sequences of bytes
          MaxExtra,    \* bound: user blocks after the serialized message
          MaxCalls,    \* bound: requests of the client
          MaxGarbage   \* bound: the number found behind the lengths

ASSUME OctetsAssumption == \A b \in Octets : DOMAIN b = {"byte"}
ASSUME BlocksAssumption == Names \cup Contents \subseteq Seq(Octets)
ASSUME RegisteredAssumption == Plain \cap Extended = {}
ASSUME CallsAssumption == MaxExtra \in Nat /\ MaxCalls \in Nat /\ MaxGarbage \in Nat

VARIABLES up, down,    \* the two directions of the stream: headers and bytes
          spc, cpc,    \* where the worker and the client are
          sreader,     \* the worker's MessageReader
          creader,     \* the client's
          sread,       \* the blocks the worker has read of the message
          cread,       \* the blocks the client has read of the reply
          calls,       \* requests so far
          sent,        \* history: the blocks of the last request
          replied,     \* history: the blocks of the last reply
          exact,       \* history: every length asked of a reader was the block's own
          unread       \* history: a reader was destroyed before its last block

worker == <<spc, sreader, sread, replied>>
client == <<cpc, creader, cread, calls, sent>>
rpcVars == <<up, down, worker, client, exact, unread>>

ExtraBlocks == UNION {[1..n -> Contents] : n \in 0..MaxExtra}

\* write_message.  One unit stands for the header and the lengths that follow it.
Header(blocks) == [lengths |-> [i \in DOMAIN blocks |-> Len(blocks[i])]]
IsHeader(unit) == DOMAIN unit = {"lengths"}
Message(blocks) == <<Header(blocks)>> \o FlattenSeq(blocks)

\* get_block_length of the block with this index, counted from 0
BlockLength(lens, index) ==
    IF index + 1 < Len(lens) THEN {lens[index + 2]} ELSE 0..MaxGarbage

\* A reader, with what get_next_block_length will return.  Once all is read the length
\* is not asked for.
NoReader == [lens |-> <<>>, index |-> 0, length |-> 0]
AllRead(r) == r.index = Len(r.lens)
OwnLength(r) == r.index < Len(r.lens) => r.length = r.lens[r.index + 1]

Open(lens) == {[lens |-> lens, index |-> 0, length |-> n] : n \in BlockLength(lens, 0)}
Advance(r) ==
    LET next == [r EXCEPT !.index = @ + 1, !.length = 0]
    IN  IF next.index < Len(r.lens)
        THEN {[next EXCEPT !.length = n] : n \in BlockLength(r.lens, next.index)}
        ELSE {next}

\* (mutant of Registered: register_service_function_ex leaves the table alone)
RegisteredPlain == Plain

\* _name_to_function_map, which nobody changes once the server runs
Registered == Plain \cup Extended

RpcInit == /\ up = <<>> /\ down = <<>>
           /\ spc = "message" /\ cpc = "idle"
           /\ sreader = NoReader /\ creader = NoReader
           /\ sread = <<>> /\ cread = <<>>
           /\ calls = 0
           /\ sent = <<>> /\ replied = <<>>
           /\ exact = TRUE /\ unread = FALSE
-----------------------------------------------------------------------------
(* The client: send_recv, that is send and then recv *)

SendRequest ==
    /\ cpc = "idle"
    /\ calls < MaxCalls
    /\ \E name \in Names, content \in Contents, extra \in ExtraBlocks :
          /\ up' = up \o Message(<<name, content>> \o extra)
          /\ sent' = <<name, content>> \o extra
    /\ calls' = calls + 1
    /\ cpc' = "message"
    /\ cread' = <<>>
    /\ UNCHANGED <<down, worker, creader, unread>>

\* recv until the reader is there.  A reply without blocks passes the check of their
\* number, which only logs, and get_block_length reads address 8.  Where bytes are taken
\* for a header the code is lost.
ReadReply ==
    /\ cpc = "message"
    /\ down # <<>>
    /\ down' = Tail(down)
    /\ IF ~IsHeader(Head(down)) THEN cpc' = "lost" /\ UNCHANGED creader
       ELSE IF Head(down).lengths = <<>> THEN cpc' = "crashed" /\ UNCHANGED creader
       ELSE cpc' = "blocks" /\ creader' \in Open(Head(down).lengths)
    /\ UNCHANGED <<up, worker, calls, sent, cread, unread>>

\* The connection has ended with the server's process: read_message returns null, and recv
\* uses it.
ReadEnd ==
    /\ cpc = "message"
    /\ down = <<>>
    /\ spc = "dead"
    /\ cpc' = "crashed"
    /\ UNCHANGED <<up, down, worker, creader, cread, calls, sent, unread>>

\* The rest of recv reads the first block; the caller has the reader then and reads the
\* others before it lets it go.
ReadReplyBlock ==
    /\ cpc = "blocks"
    /\ creader.length <= Len(down)
    /\ cread' = Append(cread, SubSeq(down, 1, creader.length))
    /\ down' = SubSeq(down, creader.length + 1, Len(down))
    /\ \E r \in Advance(creader) :
          /\ creader' = IF AllRead(r) THEN NoReader ELSE r
          /\ cpc' = IF AllRead(r) THEN "idle" ELSE "blocks"
    /\ UNCHANGED <<up, worker, calls, sent, unread>>
-----------------------------------------------------------------------------
(* The worker: SocketWorker::run, ProtoServer::handle_request and the functions that   *)
(* the two registrations wrap around the user's                                        *)

ReadMessage ==
    /\ spc = "message"
    /\ up # <<>>
    /\ up' = Tail(up)
    /\ IF IsHeader(Head(up))
       THEN spc' = "name" /\ sreader' \in Open(Head(up).lengths)
       ELSE spc' = "lost" /\ UNCHANGED sreader
    /\ sread' = <<>>
    /\ UNCHANGED <<down, client, replied, unread>>

\* (mutant of ReadNextBlock: the block is left in the stream)
PeekNextBlock ==
    /\ sreader.length <= Len(up)
    /\ sread' = Append(sread, SubSeq(up, 1, sreader.length))
    /\ UNCHANGED up

\* read_next_block waits for as many bytes as it was told to read.
ReadNextBlock ==
    /\ sreader.length <= Len(up)
    /\ sread' = Append(sread, SubSeq(up, 1, sreader.length))
    /\ up' = SubSeq(up, sreader.length + 1, Len(up))

\* The reader goes, and what it has not read stays in the stream.
DestroyReader(r) == sreader' = NoReader /\ unread' = (unread \/ ~AllRead(r))

\* (mutant of Reply: an unknown function is not answered)
ReplyIfAny(blocks) ==
    /\ down' = IF blocks = <<>> THEN down ELSE down \o Message(blocks)
    /\ replied' = blocks
    /\ spc' = "message"

\* The callback, write_message, and the worker is ready for the next message.
Reply(blocks) ==
    /\ down' = down \o Message(blocks)
    /\ replied' = blocks
    /\ spc' = "message"

ReadName ==
    /\ spc = "name"
    /\ ReadNextBlock
    /\ \E r \in Advance(sreader) :
          IF Head(sread') \in Registered
          THEN sreader' = r /\ spc' = "proto" /\ UNCHANGED <<down, replied, unread>>
          ELSE DestroyReader(r) /\ Reply(<<>>)
    /\ UNCHANGED client

\* register_service_function: the reader is reset before the function is called.  The
\* function calls back once.
ReadProtoPlain ==
    /\ spc = "proto"
    /\ Head(sread) \in Plain
    /\ ReadNextBlock
    /\ \E r \in Advance(sreader) : DestroyReader(r)
    /\ \E out \in Contents : Reply(<<out>>)
    /\ UNCHANGED client

\* register_service_function_ex: the function has the reader.
ReadProtoExtended ==
    /\ spc = "proto"
    /\ Head(sread) \in Extended
    /\ ReadNextBlock
    /\ sreader' \in Advance(sreader)
    /\ spc' = "user"
    /\ UNCHANGED <<down, replied, client, unread>>

\* It reads every block, and calls back once.
ReadUserBlock ==
    /\ spc = "user"
    /\ ~AllRead(sreader)
    /\ ReadNextBlock
    /\ sreader' \in Advance(sreader)
    /\ UNCHANGED <<spc, down, replied, client, unread>>

CallBack ==
    /\ spc = "user"
    /\ AllRead(sreader)
    /\ \E out \in Contents, extra \in ExtraBlocks : Reply(<<out>> \o extra)
    /\ DestroyReader(sreader)
    /\ UNCHANGED <<up, sread, client>>

\* The process ends, between two messages of this connection to the client.
Die ==
    /\ spc # "dead"
    /\ spc' = "dead"
    /\ UNCHANGED <<up, down, sreader, sread, replied, client, unread>>
-----------------------------------------------------------------------------
ClientStep == SendRequest \/ ReadReply \/ ReadEnd \/ ReadReplyBlock
WorkerStep == \/ ReadMessage \/ ReadName \/ ReadProtoPlain
              \/ ReadProtoExtended \/ ReadUserBlock \/ CallBack

RpcNext == /\ ClientStep \/ WorkerStep \/ Die
           /\ exact' = (exact /\ OwnLength(sreader') /\ OwnLength(creader'))

RpcSpec == RpcInit /\ [][RpcNext]_rpcVars

\* The worker is a running thread, and the client does not stop waiting.
RpcFairness == /\ WF_rpcVars(WorkerStep /\ RpcNext)
               /\ WF_rpcVars((ReadReply \/ ReadEnd \/ ReadReplyBlock) /\ RpcNext)
RpcFairSpec == RpcSpec /\ RpcFairness
-----------------------------------------------------------------------------
BlockSeqs == Seq(Seq(Octets))
Readers == [lens : Seq(Nat), index : Nat, length : Nat]

\* Every variable has a value of its type, and readers are inside their messages.
RpcTypeOK ==
    /\ spc \in {"message", "name", "proto", "user", "lost", "dead"}
    /\ cpc \in {"idle", "message", "blocks", "crashed", "lost"}
    /\ \A s \in {up, down} : \A i \in DOMAIN s : IsHeader(s[i]) \/ s[i] \in Octets
    /\ \A r \in {sreader, creader} : r \in Readers /\ r.index <= Len(r.lens)
    /\ calls \in 0..MaxCalls
    /\ sent \in BlockSeqs /\ replied \in BlockSeqs
    /\ exact \in BOOLEAN /\ unread \in BOOLEAN

\* Units in front of the next header
BeforeHeader(stream) ==
    LET heads == {i \in DOMAIN stream : IsHeader(stream[i])}
    IN  IF heads = {} THEN Len(stream) ELSE Min(heads) - 1
Remaining(r) == FoldLeft(+, 0, SubSeq(r.lens, r.index + 1, Len(r.lens)))

\* As long as lengths are right and readers are read to their end, both sides stay at
\* message boundaries: what precedes the next header is what the reader has still to read.
BoundaryKept ==
    exact /\ ~unread => /\ spc # "lost" /\ cpc # "lost"
                        /\ BeforeHeader(up) = Remaining(sreader)
                        /\ BeforeHeader(down) = Remaining(creader)

\* As long as lengths are right, the worker has read the blocks of the request and the
\* client those of the reply, in their order: the function called is the one named, with
\* the message sent to it, and the reply that the caller gets is the one to its request.
RightBlocks ==
    exact => /\ spc \in {"name", "proto", "user"} => IsPrefix(sread, sent)
             /\ cpc = "blocks" => IsPrefix(cread, replied)
             /\ cpc = "idle" => cread = replied

Headers(stream) == Cardinality({i \in DOMAIN stream : IsHeader(stream[i])})
One(b) == IF b THEN 1 ELSE 0

\* As long as lengths are right, the client's process fails only when the server's has
\* ended or the function is unknown.
CrashesOnlyWhen ==
    cpc = "crashed" /\ exact => spc = "dead" \/ Head(sent) \notin Plain \cup Extended

\* As long as lengths are right and nobody is lost, a waiting client has exactly one message
\* on its way: its request, or in the hands of the worker, or its reply; and an idle client none.
InStep ==
    exact /\ {spc, cpc} \cap {"lost", "dead"} = {} =>
        Headers(up) + One(spc # "message") + Headers(down) + One(cpc \in {"blocks", "crashed"})
            = One(cpc # "idle")

\* The type invariant and what right lengths keep: boundaries, blocks and steps.
LengthsKeepAll == RpcTypeOK /\ BoundaryKept /\ RightBlocks /\ InStep

\* A request made while lengths were right and nothing was left unread is answered, one for
\* an unknown function too, unless a length goes wrong.
Answered ==
    (cpc = "message" /\ spc = "message" /\ exact /\ ~unread) ~> (cpc = "idle" \/ ~exact \/ cpc = "crashed")

\* handle_request: block "0 for funcation name" (ProtoServer.cpp:17).  A function is called
\* only by its name.
FunctionNamedIsCalled == spc \in {"proto", "user"} => Head(sread) = Head(sent)

=============================================================================
