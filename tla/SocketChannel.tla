--------------------------- MODULE SocketChannel ---------------------------
(***************************************************************************)
(* core/SocketChannel.cpp, one transfer over a stream socket.  "vector" is *)
(* readwritev, the loop behind readv and writev, which walks an array of   *)
(* blocks, changes the block it is in to skip what has been moved and sets *)
(* it back after the next call; "plain" is the loop of read and of write,  *)
(* over one buffer.  The two directions are the same algorithm: wire is    *)
(* what has gone out of, or come into, the blocks.                         *)
(*                                                                         *)
(* The system call moves any part of the window it is given, moves nothing *)
(* once the stream has ended, or fails with -1.  CC_CHECK only logs, so    *)
(* the loop goes on with the -1 in its unsigned arithmetic.                *)
(***************************************************************************)
EXTENDS Integers, SequencesExt

CONSTANTS MaxBlocks,     \* bound: blocks of a transfer
          MaxLength,     \* bound: bytes of a block
          MaxIovs,       \* max_iovs: blocks one system call takes (UIO_MAXIOV)
          MaxFailures,   \* bound: failing system calls
          SizeMax        \* SIZE_MAX; the arithmetic on size is modulo SizeMax + 1

ASSUME BoundsAssumption == /\ MaxBlocks \in Nat /\ MaxLength \in Nat
                           /\ MaxIovs \in Nat \ {0} /\ MaxFailures \in Nat
ASSUME SizeMaxAssumption == SizeMax \in Nat /\ SizeMax > MaxBlocks * MaxLength

VARIABLES op,         \* "vector" or "plain"
          lengths,    \* the lengths of the blocks, as passed
          base,       \* base[i]: iov_base of block i, from where it was as passed
          len,        \* len[i]: iov_len of block i
          current,    \* current_iov, counted from 1
          done,       \* current_iov_size_done
          size,       \* bytes counted so far: the result
          length,     \* the result of the call, then what is left of it
          pc,         \* "io", "skip" (passing blocks that are finished), "return"
          ended,      \* the stream has ended
          failures,   \* failing calls so far
          wire        \* history: the bytes moved, in order

vars == <<op, lengths, base, len, current, done, size, length, pc, ended, failures, wire>>

Blocks == 1..Len(lengths)

\* Byte o of block i, from 0, is <<i, o>>.
Bytes(i, from, n) == [k \in 1..n |-> <<i, from + k - 1>>]

\* The bytes the caller means, in their order; its length is the code's total.
Stream == FlattenSeq([i \in Blocks |-> Bytes(i, 0, lengths[i])])
Total == Len(Stream)

Init == /\ op \in {"vector", "plain"}
        /\ lengths \in BoundedSeq(0..MaxLength, MaxBlocks)
        /\ op = "plain" => Len(lengths) = 1
        /\ base = [i \in Blocks |-> 0]
        /\ len = lengths
        /\ current = 1
        /\ done = 0
        /\ size = 0
        /\ length = 0
        /\ pc = IF Total > 0 THEN "io" ELSE "return"
        /\ ended = FALSE
        /\ failures = 0
        /\ wire = <<>>

\* The blocks a system call is given: from the current one on, as many as it takes.
Given == [i \in 1..Min({MaxIovs, Len(lengths) - current + 1}) |-> current + i - 1]

\* (mutant of Window: the blocks as passed, without what has been skipped)
WholeWindow ==
    IF op = "plain" THEN SubSeq(Stream, size + 1, Total)
    ELSE FlattenSeq([i \in DOMAIN Given |-> Bytes(Given[i], 0, lengths[Given[i]])])

\* The bytes it may move: of these blocks, or of the rest of the buffer.
Window ==
    IF op = "plain" THEN SubSeq(Stream, size + 1, Total)
    ELSE FlattenSeq([i \in DOMAIN Given |-> Bytes(Given[i], base[Given[i]], len[Given[i]])])

\* The loop after a call that returned n: the sum, and the block it began in set
\* back as passed.  Beyond the last block this writes outside the array; done is 0
\* there, so what it writes is what was there.
Account(n) ==
    /\ size' = (size + n) % (SizeMax + 1)
    /\ IF current \in Blocks
       THEN /\ base' = [base EXCEPT ![current] = @ - done]
            /\ len' = [len EXCEPT ![current] = @ + done]
       ELSE UNCHANGED <<base, len>>
    /\ length' = n + done
    /\ pc' = "skip"

\* (mutant of AccountPlain: returns size, what was asked for)
AccountAsked(n) ==
    /\ size' = IF n > 0 THEN size + n ELSE Total
    /\ pc' = IF n > 0 /\ size' < Total THEN "io" ELSE "return"
    /\ UNCHANGED <<base, len, length>>

\* Plain loops return what they have on 0 or -1 and otherwise count.
AccountPlain(n) ==
    /\ size' = IF n > 0 THEN size + n ELSE size
    /\ pc' = IF n > 0 /\ size' < Total THEN "io" ELSE "return"
    /\ UNCHANGED <<base, len, length>>

Result(n) ==
    /\ pc = "io"
    /\ IF op = "vector" THEN Account(n) ELSE AccountPlain(n)
    /\ UNCHANGED <<op, lengths, current, done>>

Move(n) ==
    /\ ~ended
    /\ n <= Len(Window)
    /\ Result(n)
    /\ wire' = wire \o SubSeq(Window, 1, n)
    /\ UNCHANGED <<ended, failures>>

\* 0: the stream has ended, or the window holds no byte.
MoveNothing ==
    /\ ended \/ Window = <<>>
    /\ Result(0)
    /\ UNCHANGED <<ended, failures, wire>>

Fail ==
    /\ failures < MaxFailures
    /\ Result(-1)
    /\ failures' = failures + 1
    /\ UNCHANGED <<ended, wire>>

\* The peer closes the connection.
End ==
    /\ ~ended
    /\ pc # "return"
    /\ ended' = TRUE
    /\ UNCHANGED <<op, lengths, base, len, current, done, size, length, pc, failures, wire>>

\* (size_t)length < iov_len of the current block: a negative length is huge.
Inside == length \in 0..(len[current] - 1)

\* (mutant of SkipBlock: a block that is exactly finished is not passed)
SkipLess ==
    /\ pc = "skip"
    /\ current \in Blocks /\ ~Inside /\ length # len[current]
    /\ length' = length - len[current]
    /\ current' = current + 1
    /\ UNCHANGED <<op, lengths, base, len, done, size, pc, ended, failures, wire>>

SkipBlock ==
    /\ pc = "skip"
    /\ current \in Blocks /\ ~Inside
    /\ length' = length - len[current]
    /\ current' = current + 1
    /\ UNCHANGED <<op, lengths, base, len, done, size, pc, ended, failures, wire>>

\* (mutant of Settle: current_iov_size_done keeps the size of the last call)
SettleStale ==
    /\ pc = "skip"
    /\ current \in Blocks => Inside
    /\ IF current \in Blocks
       THEN /\ done' = done
            /\ base' = [base EXCEPT ![current] = @ + length]
            /\ len' = [len EXCEPT ![current] = @ - length]
       ELSE UNCHANGED <<done, base, len>>
    /\ pc' = IF size < Total THEN "io" ELSE "return"
    /\ UNCHANGED <<op, lengths, current, size, length, ended, failures, wire>>

\* In an unfinished block: skip what is moved of it.  Then the test of the loop.
Settle ==
    /\ pc = "skip"
    /\ current \in Blocks => Inside
    /\ IF current \in Blocks
       THEN /\ done' = length
            /\ base' = [base EXCEPT ![current] = @ + length]
            /\ len' = [len EXCEPT ![current] = @ - length]
       ELSE UNCHANGED <<done, base, len>>
    /\ pc' = IF size < Total THEN "io" ELSE "return"
    /\ UNCHANGED <<op, lengths, current, size, length, ended, failures, wire>>

MoveSome == \E n \in 1..(MaxBlocks * MaxLength) : Move(n)

Next == MoveSome \/ MoveNothing \/ Fail \/ End \/ SkipBlock \/ Settle

Spec == Init /\ [][Next]_vars

\* A call is repeated until the loop is done; while the stream is up it moves
\* something sooner or later.  Nothing makes the peer close or a call fail.
Fairness == WF_vars(MoveSome) /\ WF_vars(MoveNothing) /\ WF_vars(SkipBlock) /\ WF_vars(Settle)

FairSpec == Spec /\ Fairness
-----------------------------------------------------------------------------
TypeOK == /\ op \in {"vector", "plain"}
          /\ base \in [Blocks -> Nat]
          /\ len \in [Blocks -> Nat]
          /\ current \in 1..(Len(lengths) + 1)
          /\ done \in 0..MaxLength
          /\ size \in 0..SizeMax
          /\ length \in Int
          /\ pc \in {"io", "skip", "return"}
          /\ ended \in BOOLEAN
          /\ failures \in 0..MaxFailures

\* Without a failing call what has been moved is the beginning of what was meant:
\* no byte twice, none skipped, none out of order, and size is how many; and read
\* and write keep that whatever fails.
InOrder == failures = 0 \/ op = "plain" => wire = SubSeq(Stream, 1, size)

\* The position is lost: a call failed at the boundary of two blocks, the -1 ran
\* through all the blocks left, and the loop keeps calling with none.
Lost == pc = "io" /\ op = "vector" /\ current = Len(lengths) + 1

\* Before each call the count and the array agree: size is the bytes of the blocks
\* before the current one plus what is skipped of that one, and no other block is
\* changed.  A failing call inside a block keeps this, because it takes one off both.
\* Once the position is lost, nothing is skipped any more, so what the loop writes
\* past the end of the array is what was there.
PositionMatches ==
    /\ Lost => done = 0
    /\ pc = "io" /\ op = "vector" /\ ~Lost =>
        /\ size = Len(FlattenSeq([i \in 1..(current - 1) |-> Bytes(i, 0, lengths[i])])) + done
        /\ \A i \in Blocks : LET skipped == IF i = current THEN done ELSE 0 IN
              base[i] = skipped /\ len[i] = lengths[i] - skipped

\* writev takes a const array, casts that away and changes it: on return, even
\* after failures, every block is as it was passed.
ArrayRestored == pc = "return" => len = lengths /\ \A i \in Blocks : base[i] = 0

\* The type invariant and the two above: the loop never loses its place in the array.
PlaceKept == TypeOK /\ PositionMatches /\ ArrayRestored

\* A transfer that returns the total has moved every byte, and one of them twice
\* for each call that failed on the way: the count it returns hides that.
CompleteMeansAll ==
    pc = "return" /\ size = Total =>
        ToSet(wire) = ToSet(Stream) /\ Len(wire) = Total + failures

\* A transfer returns unless the stream ends or the position is lost; then
\* readwritev calls again for ever.
Returns == <>(pc = "return" \/ ended \/ Lost)
=============================================================================
