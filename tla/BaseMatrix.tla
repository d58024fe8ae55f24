----------------------------- MODULE BaseMatrix -----------------------------
(***************************************************************************)
(* math/BaseMatrix: matrices that do not own their data, and element-wise  *)
(* operations on one to four of them.  Every operation ends in one of the  *)
(* apply functions, which check the dimensions, compute the addresses at   *)
(* which each operand's window begins, and would hand them to a kernel;    *)
(* the kernel calls are commented out, so these operations change nothing. *)
(* kernel records the windows they arrive at.  Three operations have loops *)
(* of their own, and those are modelled element by element.                *)
(*                                                                         *)
(* A failed check is only logged: misfit if it was about dimensions,       *)
(* sparse if it took an operand for a sparse one.  Two names in the binary *)
(* apply do not exist: b._weight at line 77 is read as b._height, and the  *)
(* overload at line 54 as the call of the one at line 59 without broadcast *)
(* that the ternary one is.  Contents are abstracted to the set of initial *)
(* elements that a value was computed from.                                *)
(***************************************************************************)
EXTENDS Integers, Sequences, FiniteSets

CONSTANTS Matrices,   \* operands: [at, height, width, stride], at an index of memory
          Offsets,    \* column offsets that callers pass, negative ones included
          MemSize,    \* elements of memory
          WordSize    \* size_t holds 0..WordSize-1

ASSUME SizesAssumption == MemSize \in Nat /\ WordSize \in Nat \ {0}

VARIABLES kernel,   \* what the last apply function arrived at
          from,     \* from[i]: initial elements from which element i was computed
          pc, i,    \* the loop that runs, if any, and its index
          ops       \* its operands, the result first

vars == <<kernel, from, pc, i, ops>>

None == [call |-> <<"none">>, args |-> <<>>, given |-> <<>>,
         misfit |-> FALSE, sparse |-> FALSE]

Init == /\ kernel = None
        /\ from = [e \in 1..MemSize |-> {e}]
        /\ pc = "idle" /\ i = 0
        /\ ops = <<>>

Elements(m) == {m.at + r * m.stride + c : r \in 0..m.height - 1, c \in 0..m.width - 1}

\* Matrices are in memory; their sizes and the offsets are ints where they are passed on,
\* and size_t is wider than int.
ASSUME MatricesAssumption ==
    \A m \in Matrices : /\ m \in [at : Nat, height : Nat, width : Nat, stride : Nat]
                        /\ Elements(m) \subseteq 1..MemSize
                        /\ 2 * m.height < WordSize /\ 2 * m.width < WordSize
ASSUME OffsetsAssumption ==
    Offsets \subseteq Int /\ \A o \in Offsets : -WordSize < 2 * o /\ 2 * o < WordSize

SizeT(n) == n % WordSize
SameShape(m, n) == m.height = n.height /\ m.width = n.width

\* MatrixOffset: [col, row] per operand.  _aRow is initialised with bRow.
MatrixOffset(aCol, aRow, bCol, bRow) ==
    <<[col |-> SizeT(aCol), row |-> SizeT(bRow)], [col |-> SizeT(bCol), row |-> SizeT(bRow)],
      [col |-> 0, row |-> 0], [col |-> 0, row |-> 0]>>

NoOffset == MatrixOffset(0, 0, 0, 0)

\* CAL_MATRIX_START_ADDRESS: a start one past the last row or column passes.
StartFits(m, o) == o.col <= m.width /\ o.row <= m.height
Start(m, o) == m.at + o.row * m.stride + o.col

\* The window that a kernel gets of m.
Window(m, o, rows, cols) ==
    [at |-> Start(m, o), height |-> rows, width |-> cols, stride |-> m.stride]

RowsFit(m, o, rows) == SizeT(rows + o.row) <= m.height
ColsFit(m, o, cols) == SizeT(cols + o.col) <= m.width

\* is_sparse: virtual, and no matrix overrides it.
IsSparse(m) == FALSE

Arrive(call, given, args, misfit, sparse) ==
    kernel' = [call |-> call, given |-> given, args |-> args,
               misfit |-> misfit, sparse |-> sparse]

\* Without a complaint about sparse operands, as there are none.
Kernel(call, given, args, misfit) == Arrive(call, given, args, misfit, FALSE)

\* (mutant of ApplyUnary: the row count is checked twice)
ApplyUnaryRows(call, m, rows, cols, off) ==
    LET start == [col |-> off[1].col, row |-> off[2].row] IN
    Kernel(call, <<m>>, <<Window(m, start, rows, cols)>>,
           ~(StartFits(m, start) /\ RowsFit(m, off[1], rows)))

\* apply_unary: the row of the address is b's.
ApplyUnary(call, m, rows, cols, off) ==
    LET start == [col |-> off[1].col, row |-> off[2].row] IN
    Kernel(call, <<m>>, <<Window(m, start, rows, cols)>>,
           ~(StartFits(m, start) /\ RowsFit(m, off[1], rows) /\ ColsFit(m, off[1], cols)))

\* apply_binary, b being a row or a column that is repeated or neither.  The check
\* of a's columns adds b's offset; the one whether b is sparse is inverted.
ApplyBinary(call, m, n, rows, cols, off, row_vector, col_vector) ==
    LET start == [col |-> off[1].col, row |-> off[2].row] IN
    Arrive(call, <<m, n>>,
           <<Window(m, start, rows, cols),
             Window(n, off[2], IF row_vector THEN 1 ELSE rows, IF col_vector THEN 1 ELSE cols)>>,
           ~ /\ StartFits(m, start) /\ StartFits(n, off[2])
             /\ RowsFit(m, off[1], rows) /\ ColsFit(m, off[2], cols)
             /\ row_vector \/ RowsFit(n, off[2], rows)
             /\ col_vector \/ ColsFit(n, off[2], cols),
           IsSparse(m) \/ ~IsSparse(n))

\* (mutant of ApplyMany: rows and columns are mixed up)
ApplyManySwapped(call, ms) ==
    LET m == ms[1] IN
    Kernel(call, ms, [k \in DOMAIN ms |-> Window(ms[k], NoOffset[k], m.height, m.width)],
           ~ \A k \in DOMAIN ms : /\ SameShape(m, ms[k])
                                  /\ StartFits(ms[k], NoOffset[k])
                                  /\ RowsFit(ms[k], NoOffset[k], m.width)
                                  /\ ColsFit(ms[k], NoOffset[k], m.height))

\* apply_ternary and apply_quaternary on whole operands.
ApplyMany(call, ms) ==
    LET m == ms[1] IN
    Kernel(call, ms, [k \in DOMAIN ms |-> Window(ms[k], NoOffset[k], m.height, m.width)],
           ~ \A k \in DOMAIN ms : /\ SameShape(m, ms[k])
                                  /\ StartFits(ms[k], NoOffset[k])
                                  /\ RowsFit(ms[k], NoOffset[k], m.height)
                                  /\ ColsFit(ms[k], NoOffset[k], m.width))

Idle == kernel = None /\ UNCHANGED <<from, pc, i, ops>>
-----------------------------------------------------------------------------
\* For real numbers log, pow and apply_l1 do nothing; add and inv_sqrt look at the
\* dimensions and do nothing.
Unwritten ==
    /\ Idle
    /\ \E m, n \in Matrices, checked \in BOOLEAN :
          Kernel(<<"unwritten">>, <<m, n>>, <<>>, checked /\ ~SameShape(m, n))

\* neg, exp, sqrt, square, reciprocal, abs, sign, zero and the operations with
\* scalars.
Unary == /\ Idle
         /\ \E m \in Matrices : ApplyUnary(<<"unary">>, m, m.height, m.width, NoOffset)

\* zero_at_offset: the number of columns is the caller's, and signed; it is an int64_t
\* that is stored in an int, and Offsets are those that fit.
ZeroAtOffset ==
    /\ Idle
    /\ \E m \in Matrices, col, num \in Offsets :
          ApplyUnary(<<"zero_at_offset", col, num>>, m, m.height, num, MatrixOffset(col, 0, 0, 0))

\* apply_binary on whole operands, after the check that they have one shape; if they
\* have not, it goes on all the same.
ApplyToBoth(call) ==
    \E m, n \in Matrices :
        IF SameShape(m, n)
        THEN ApplyBinary(call, m, n, m.height, m.width, NoOffset, FALSE, FALSE)
        ELSE Arrive(call, <<m, n>>, <<Window(m, NoOffset[1], m.height, m.width),
                                      Window(n, NoOffset[2], m.height, m.width)>>,
                    TRUE, IsSparse(m) \/ ~IsSparse(n))

\* add with factors, add2, sub
AddScaled == Idle /\ ApplyToBoth(<<"add_scaled">>)

\* relu, soft_relu, brelu, square, tanh, scaled_tanh, abs and their derivatives
Activation == Idle /\ ApplyToBoth(<<"activation">>)

\* The derivatives of sigmoid and exp, sign, exp, sqrt, and b combined with a scalar
OfOther == Idle /\ ApplyToBoth(<<"of_other">>)

\* add_at_offset: num_cols is a's width in both branches; a third case only logs.
AddAtOffset ==
    /\ Idle
    /\ \E m, n \in Matrices, col \in Offsets :
          IF SizeT(col + n.width) <= m.width
          THEN ApplyBinary(<<"add_at_offset", col>>, m, n, m.height, m.width,
                           MatrixOffset(col, 0, 0, 0), FALSE, FALSE)
          ELSE IF SizeT(col + m.width) <= n.width
          THEN ApplyBinary(<<"add_at_offset", col>>, m, n, m.height, m.width,
                           MatrixOffset(0, 0, col, 0), FALSE, FALSE)
          ELSE Kernel(<<"add_at_offset", col>>, <<m, n>>, <<>>, TRUE)

\* add_col_vector
AddColVector ==
    /\ Idle
    /\ \E m, n \in Matrices :
          ApplyBinary(<<"add_col_vector">>, m, n, m.height, m.width, NoOffset, FALSE, TRUE)

\* add_row_vector and add_bias
AddRowVector ==
    /\ Idle
    /\ \E m, n \in Matrices :
          ApplyBinary(<<"add_row_vector">>, m, n, m.height, m.width, NoOffset, TRUE, FALSE)

\* The losses but one, add, sub, add2, dot_mul, dot_div, bigger_than.
Ternary == Idle /\ \E m, n, o \in Matrices : ApplyMany(<<"ternary">>, <<m, n, o>>)

\* sgd_update, rank_loss and rank_loss_bp
Quaternary ==
    Idle /\ \E m, n, o, p \in Matrices : ApplyMany(<<"quaternary">>, <<m, n, o, p>>)
-----------------------------------------------------------------------------
\* sigmoid(b), binary_label_cross_entropy(b, c) and apply_l2(lr) walk over
\* height * width consecutive elements, whatever the stride.  apply_l2 checks nothing.
Loop(name, given) ==
    /\ kernel = None
    /\ Kernel(<<name>>, given, <<>>,
              name # "apply_l2" /\ \E k \in DOMAIN given : ~SameShape(given[k], given[1]))
    /\ pc' = name /\ i' = 0
    /\ UNCHANGED from

CallSigmoid == \E m, n \in Matrices : Loop("sigmoid", <<m, n>>) /\ ops' = <<n, m>>
CallCrossEntropy == \E m, n, o \in Matrices :
    Loop("cross_entropy", <<m, n, o>>) /\ ops' = <<m, n, o>>
CallApplyL2 == \E m, n \in Matrices : Loop("apply_l2", <<m, n>>) /\ ops' = <<m, n>>

Count == kernel.given[1].height * kernel.given[1].width
InMemory(e) == e \in 1..MemSize
Source(e) == IF InMemory(e) THEN from[e] ELSE {}
Store(e, deps) == from' = IF InMemory(e) THEN [from EXCEPT ![e] = deps] ELSE from

\* One round of a loop: the result's element i from those that the statement names.
Round(name, deps) ==
    /\ pc = name /\ i < Count
    /\ Store(ops[1].at + i, deps)
    /\ i' = i + 1
    /\ UNCHANGED <<kernel, pc, ops>>

\* The first loop of sigmoid copies what it clips.
Clip == Round("sigmoid", Source(ops[2].at + i))

\* The second computes every element from out[1].
Squash == Round("squash", Source(ops[1].at + 1))

\* Both out and label are b's data; c is not read.
CrossEntropy == Round("cross_entropy", Source(ops[2].at + i))

\* (mutant of Decay: walks over the factors with the matrix's own stride)
DecayStrided == Round("apply_l2", Source(ops[1].at + i) \cup Source(ops[2].at + i * ops[2].stride))

\* Each element is scaled by a factor from lr's.
Decay == Round("apply_l2", Source(ops[1].at + i) \cup Source(ops[2].at + i))

Done == /\ pc # "idle" /\ i = Count
        /\ pc' = (IF pc = "sigmoid" THEN "squash" ELSE "idle") /\ i' = 0
        /\ UNCHANGED <<kernel, from, ops>>

Next == \/ Unwritten \/ Unary \/ ZeroAtOffset \/ AddScaled \/ Activation \/ OfOther
        \/ AddAtOffset \/ AddColVector \/ AddRowVector \/ Ternary \/ Quaternary
        \/ CallSigmoid \/ CallCrossEntropy \/ CallApplyL2
        \/ Clip \/ Squash \/ CrossEntropy \/ Decay \/ Done

Spec == Init /\ [][Next]_vars
-----------------------------------------------------------------------------
Name == kernel.call[1]
Given == kernel.given
Empty(m) == m.height = 0 \/ m.width = 0
AllSameShape == \A k \in DOMAIN Given : SameShape(Given[k], Given[1])

\* A call none of whose checks of dimensions complains, whatever the others say, gives
\* the kernel windows inside its operands.  (A repeated row or column that is empty is
\* the one thing not checked.)
SilentMeansInside ==
    ~kernel.misfit =>
        \A k \in DOMAIN kernel.args :
            \/ Elements(kernel.args[k]) \subseteq Elements(Given[k])
            \/ Name \in {"add_col_vector", "add_row_vector"} /\ Empty(Given[k])

\* What callers may pass: operands of one shape, vectors as long as the side they
\* are repeated along, columns that exist.
Legal ==
    CASE Name = "zero_at_offset" ->
             /\ kernel.call[2] >= 0 /\ kernel.call[3] >= 0
             /\ kernel.call[2] + kernel.call[3] <= Given[1].width
      [] Name = "add_at_offset" ->
             /\ Given[1].height = Given[2].height
             /\ kernel.call[2] >= 0
             /\ \/ kernel.call[2] + Given[2].width <= Given[1].width
                \/ kernel.call[2] + Given[1].width <= Given[2].width
      [] Name = "add_col_vector" -> Given[2].height = Given[1].height
      [] Name = "add_row_vector" -> Given[2].width = Given[1].width
      [] OTHER -> AllSameShape

BinaryCalls == {"add_scaled", "activation", "of_other",
                "add_at_offset", "add_col_vector", "add_row_vector"}

\* What a legal call is complained of: its dimensions only in add_at_offset, and there
\* in every call that needs it, because it is checked, and would work, on all columns of
\* both operands; and, in every call of the binary apply, that the second is sparse
\* ("Sparse Matrix/Vector is not support.", line 16), though no matrix is.
LegalCallsFit ==
    Legal =>
        /\ kernel.misfit <=> /\ Name = "add_at_offset"
                             /\ kernel.call[2] > 0 \/ Given[2].width < Given[1].width
        /\ kernel.sparse <=> Name \in BinaryCalls

Packed(m) == m.stride = m.width
Apart(m, n) == m = n \/ Elements(m) \cap Elements(n) = {}

\* The hand-written loops, on operands of one shape without gaps between the rows:
\* nothing changes outside the result, and an element depends on no other position
\* of the operands (sigmoid's do: all of them are computed from one).
LoopsStayInPlace ==
    ops # <<>> /\ AllSameShape /\ (\A k \in DOMAIN ops : Packed(ops[k]) /\ Apart(ops[1], ops[k])) =>
        /\ \A e \in 1..MemSize : from[e] # {e} => e \in Elements(ops[1])
        /\ Name # "sigmoid" =>
              \A n \in 0..Count - 1 : from[ops[1].at + n] \subseteq {ops[k].at + n : k \in DOMAIN ops}
=============================================================================
