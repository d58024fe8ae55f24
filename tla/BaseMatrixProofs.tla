-------------------------- MODULE BaseMatrixProofs --------------------------
(***************************************************************************)
(* The properties of BaseMatrix, for all matrices and offsets.             *)
(*                                                                         *)
(* What a call hands to its kernel, and whether it complains, is settled   *)
(* when it arrives there: SilentMeansInside and LegalCallsFit are proved   *)
(* action by action, from what the three kinds of apply function check     *)
(* (UnaryFacts, BinaryFacts, ManyFacts) and where a window lies            *)
(* (WindowInside).  Sums of sizes and offsets do not wrap around size_t    *)
(* because each is an int, less than half of it: SizeTFacts.               *)
(*                                                                         *)
(* The loops need an invariant, LInv: the result alone has changed, an     *)
(* element that was passed stems from its own position, and one that was   *)
(* not passed is as it was.  It is about operands without gaps, of which   *)
(* every index below height * width is an element (RowAndColumn).          *)
(***************************************************************************)
EXTENDS BaseMatrix, TLAPS

LEMMA MatrixFacts ==
    ASSUME NEW m \in Matrices
    PROVE  /\ m.at \in Nat /\ m.height \in Nat /\ m.width \in Nat /\ m.stride \in Nat
           /\ 2 * m.height < WordSize /\ 2 * m.width < WordSize
           /\ WordSize \in Nat \ {0}
           /\ m.height < WordSize /\ m.width < WordSize
<1>1. /\ m.at \in Nat /\ m.height \in Nat /\ m.width \in Nat /\ m.stride \in Nat
      /\ 2 * m.height < WordSize /\ 2 * m.width < WordSize
  BY MatricesAssumption
<1> QED BY <1>1, SizesAssumption

\* size_t of what an int can be: itself, or if negative more than any size.
LEMMA SizeTFacts ==
    ASSUME NEW n \in Int, -WordSize < n, n < WordSize
    PROVE  /\ SizeT(n) \in 0..WordSize - 1
           /\ n >= 0 => SizeT(n) = n
           /\ n < 0 => SizeT(n) = n + WordSize
<1>1. WordSize \in Nat \ {0}
  BY SizesAssumption
<1>2. n % WordSize \in 0..WordSize - 1
  BY <1>1
<1>3. ASSUME n >= 0 PROVE n % WordSize = n
  BY <1>1, <1>3
<1>4. ASSUME n < 0 PROVE n % WordSize = n + WordSize
  BY <1>1, <1>4
<1> QED BY <1>2, <1>3, <1>4 DEF SizeT

LEMMA NoOffsetFacts ==
    \A k \in 1..4 : NoOffset[k].col = 0 /\ NoOffset[k].row = 0
<1>1. SizeT(0) = 0
  BY SizeTFacts, SizesAssumption
<1> QED BY <1>1 DEF NoOffset, MatrixOffset

LEMMA ColOffsetFacts ==
    ASSUME NEW col \in Offsets
    PROVE  /\ MatrixOffset(col, 0, 0, 0)[1].col = SizeT(col) /\ MatrixOffset(col, 0, 0, 0)[1].row = 0
           /\ MatrixOffset(col, 0, 0, 0)[2].col = 0 /\ MatrixOffset(col, 0, 0, 0)[2].row = 0
           /\ MatrixOffset(0, 0, col, 0)[1].col = 0 /\ MatrixOffset(0, 0, col, 0)[1].row = 0
           /\ MatrixOffset(0, 0, col, 0)[2].col = SizeT(col) /\ MatrixOffset(0, 0, col, 0)[2].row = 0
           /\ col \in Int /\ SizeT(col) \in 0..WordSize - 1
           /\ -WordSize < 2 * col /\ 2 * col < WordSize
           /\ col >= 0 => SizeT(col) = col
           /\ col < 0 => SizeT(col) = col + WordSize
<1>1. SizeT(0) = 0
  BY SizeTFacts, SizesAssumption
<1>2. col \in Int /\ -WordSize < 2 * col /\ 2 * col < WordSize
  BY OffsetsAssumption
<1>3. -WordSize < col /\ col < WordSize
  BY <1>2, SizesAssumption
<1> QED BY <1>1, <1>2, <1>3, SizeTFacts DEF MatrixOffset

LEMMA Distributes ==
    ASSUME NEW a \in Int, NEW b \in Int, NEW c \in Int
    PROVE  (a + b) * c = a * c + b * c
OBVIOUS

\* The window that a kernel gets is inside the matrix if it begins and ends there.
LEMMA WindowInside ==
    ASSUME NEW m \in Matrices, NEW o, o.col \in Nat, o.row \in Nat, NEW rows \in Int, NEW cols \in Int,
           rows + o.row <= m.height \/ rows <= 0, cols + o.col <= m.width \/ cols <= 0
    PROVE  Elements(Window(m, o, rows, cols)) \subseteq Elements(m)
<1> DEFINE w == Window(m, o, rows, cols)
<1>1. /\ w.at = m.at + o.row * m.stride + o.col
      /\ w.height = rows /\ w.width = cols /\ w.stride = m.stride
  BY DEF Window, Start
<1> HIDE DEF w
<1>a. Elements(w) = {w.at + r * w.stride + c : r \in 0..rows - 1, c \in 0..cols - 1}
  BY <1>1 DEF Elements
<1>b. ASSUME NEW r \in 0..rows - 1, NEW c \in 0..cols - 1
      PROVE  w.at + r * w.stride + c \in Elements(m)
  <2>2. m.at \in Nat /\ m.height \in Nat /\ m.width \in Nat /\ m.stride \in Nat
    BY MatrixFacts
  <2>3. r \in Int /\ c \in Int /\ r + o.row \in 0..m.height - 1 /\ c + o.col \in 0..m.width - 1
    BY <2>2
  <2>4. (r + o.row) * m.stride = r * m.stride + o.row * m.stride
    <3> DEFINE q == o.row
               s == m.stride
    <3>1. r \in Int /\ q \in Int /\ s \in Int
      BY <2>2, <2>3
    <3> HIDE DEF q, s
    <3>2. (r + q) * s = r * s + q * s
      BY <3>1, Distributes
    <3> QED BY <3>2 DEF q, s
  <2>5. r * m.stride \in Int /\ o.row * m.stride \in Int
    BY <2>2, <2>3
  <2>6. w.at + r * w.stride + c = m.at + (r + o.row) * m.stride + (c + o.col)
    BY <1>1, <2>2, <2>3, <2>4, <2>5
  <2> QED BY <2>3, <2>6 DEF Elements
<1>c. Elements(w) \subseteq Elements(m)
  BY <1>a, <1>b
<1> QED BY <1>c DEF w

\* The fields of a recorded call.
LEMMA ArriveFacts ==
    ASSUME NEW call, NEW given, NEW args, NEW misfit, NEW sparse,
           Arrive(call, given, args, misfit, sparse)
    PROVE  /\ kernel'.call = call /\ kernel'.given = given /\ kernel'.args = args
           /\ kernel'.misfit <=> misfit
           /\ kernel'.sparse <=> sparse
<1>1. kernel' = [call |-> call, given |-> given, args |-> args,
                 misfit |-> misfit, sparse |-> sparse]
  BY DEF Arrive
<1>2. kernel'.call = call /\ kernel'.given = given /\ kernel'.args = args
  BY <1>1
<1>3. kernel'.misfit = misfit
  BY <1>1
<1>4. kernel'.sparse = sparse
  BY <1>1
<1> QED BY <1>2, <1>3, <1>4

LEMMA KernelFacts ==
    ASSUME NEW call, NEW given, NEW args, NEW misfit, Kernel(call, given, args, misfit)
    PROVE  /\ kernel'.call = call /\ kernel'.given = given /\ kernel'.args = args
           /\ kernel'.misfit <=> misfit
           /\ ~kernel'.sparse
<1>1. kernel' = [call |-> call, given |-> given, args |-> args,
                 misfit |-> misfit, sparse |-> FALSE]
  BY DEF Kernel, Arrive
<1>2. kernel'.call = call /\ kernel'.given = given /\ kernel'.args = args
  BY <1>1
<1>3. kernel'.misfit = misfit
  BY <1>1
<1>4. kernel'.sparse = FALSE
  BY <1>1
<1> QED BY <1>2, <1>3, <1>4

LEMMA SilentAfter ==
    ASSUME NEW call, NEW given, NEW args, NEW silent,
           kernel'.call = call /\ kernel'.given = given /\ kernel'.args = args,
           kernel'.misfit <=> ~silent,
           silent => \A k \in DOMAIN args :
               \/ Elements(args[k]) \subseteq Elements(given[k])
               \/ call[1] \in {"add_col_vector", "add_row_vector"} /\ Empty(given[k])
    PROVE  SilentMeansInside'
<1>1. (~kernel'.misfit =>
        \A k \in DOMAIN kernel'.args :
            \/ Elements(kernel'.args[k]) \subseteq Elements(kernel'.given[k])
            \/ kernel'.call[1] \in {"add_col_vector", "add_row_vector"} /\ Empty(kernel'.given[k]))
  OBVIOUS
<1> QED BY <1>1 DEF SilentMeansInside, Elements, Empty, Name, Given

\* What apply_unary arrives at from the first row.
LEMMA UnaryFacts ==
    ASSUME NEW call, NEW m \in Matrices, NEW cols \in Int, -WordSize < 2 * cols, 2 * cols < WordSize,
           NEW off, off[1].col \in 0..WordSize - 1, off[1].row = 0, off[2].row = 0,
           ApplyUnary(call, m, m.height, cols, off)
    PROVE  /\ kernel'.call = call /\ kernel'.given = <<m>>
           /\ kernel'.args = <<Window(m, [col |-> off[1].col, row |-> 0], m.height, cols)>>
           /\ kernel'.misfit <=> ~(off[1].col <= m.width /\ ColsFit(m, off[1], cols))
           /\ ~kernel'.sparse
<1> DEFINE start == [col |-> off[1].col, row |-> off[2].row]
<1>1. Kernel(call, <<m>>, <<Window(m, start, m.height, cols)>>,
             ~(StartFits(m, start) /\ RowsFit(m, off[1], m.height) /\ ColsFit(m, off[1], cols)))
  BY DEF ApplyUnary
<1>2. start = [col |-> off[1].col, row |-> 0]
  OBVIOUS
<1>3. StartFits(m, start) <=> off[1].col <= m.width
  BY MatrixFacts DEF StartFits
<1>4. RowsFit(m, off[1], m.height)
  <2>1. m.height \in Nat /\ m.height < WordSize /\ WordSize \in Nat
    BY MatrixFacts
  <2>2. SizeT(m.height) = m.height
    BY <2>1, SizeTFacts
  <2>3. m.height + off[1].row = m.height
    BY <2>1
  <2> QED BY <2>1, <2>2, <2>3 DEF RowsFit
<1> HIDE DEF start
<1>5. /\ kernel'.call = call /\ kernel'.given = <<m>>
      /\ kernel'.args = <<Window(m, start, m.height, cols)>>
      /\ kernel'.misfit <=>
            ~(StartFits(m, start) /\ RowsFit(m, off[1], m.height) /\ ColsFit(m, off[1], cols))
      /\ ~kernel'.sparse
  BY <1>1, KernelFacts
<1> QED BY <1>2, <1>3, <1>4, <1>5

\* What apply_binary checks, with the first operand's size and from the first row.
LEMMA BinaryFits ==
    ASSUME NEW m \in Matrices, NEW n \in Matrices,
           NEW off, off[1].col \in 0..WordSize - 1, off[2].col \in 0..WordSize - 1,
           off[1].row = 0, off[2].row = 0
    PROVE  /\ StartFits(m, [col |-> off[1].col, row |-> off[2].row]) <=> off[1].col <= m.width
           /\ StartFits(n, off[2]) <=> off[2].col <= n.width
           /\ RowsFit(m, off[1], m.height)
           /\ RowsFit(n, off[2], m.height) <=> m.height <= n.height
           /\ ColsFit(m, off[2], m.width) <=> SizeT(m.width + off[2].col) <= m.width
           /\ ColsFit(n, off[2], m.width) <=> SizeT(m.width + off[2].col) <= n.width
           /\ [col |-> off[1].col, row |-> off[2].row] = [col |-> off[1].col, row |-> 0]
<1>1. /\ m.height \in Nat /\ m.height < WordSize /\ WordSize \in Nat
      /\ n.height \in Nat
  BY MatrixFacts
<1>2. SizeT(m.height) = m.height
  BY <1>1, SizeTFacts
<1>3. m.height + off[1].row = m.height /\ m.height + off[2].row = m.height
  BY <1>1
<1>4. /\ StartFits(m, [col |-> off[1].col, row |-> off[2].row]) <=> off[1].col <= m.width
      /\ StartFits(n, off[2]) <=> off[2].col <= n.width
  BY <1>1 DEF StartFits
<1>5. /\ RowsFit(m, off[1], m.height)
      /\ RowsFit(n, off[2], m.height) <=> m.height <= n.height
  BY <1>1, <1>2, <1>3 DEF RowsFit
<1> QED BY <1>4, <1>5 DEF ColsFit

\* What it arrives at: with two matrices, and with a column and a row that is repeated.
LEMMA BinaryFacts ==
    ASSUME NEW call, NEW m \in Matrices, NEW n \in Matrices,
           NEW off, off[1].col \in 0..WordSize - 1, off[2].col \in 0..WordSize - 1,
           off[1].row = 0, off[2].row = 0,
           ApplyBinary(call, m, n, m.height, m.width, off, FALSE, FALSE)
    PROVE  /\ kernel'.call = call /\ kernel'.given = <<m, n>>
           /\ kernel'.args = <<Window(m, [col |-> off[1].col, row |-> 0], m.height, m.width),
                               Window(n, off[2], m.height, m.width)>>
           /\ kernel'.sparse
           /\ kernel'.misfit <=>
                ~ /\ off[1].col <= m.width /\ off[2].col <= n.width
                  /\ SizeT(m.width + off[2].col) <= m.width
                  /\ m.height <= n.height /\ SizeT(m.width + off[2].col) <= n.width
<1> DEFINE start == [col |-> off[1].col, row |-> off[2].row]
           args  == <<Window(m, start, m.height, m.width), Window(n, off[2], m.height, m.width)>>
           fit   == /\ StartFits(m, start) /\ StartFits(n, off[2])
                    /\ RowsFit(m, off[1], m.height) /\ ColsFit(m, off[2], m.width)
                    /\ RowsFit(n, off[2], m.height) /\ ColsFit(n, off[2], m.width)
<1>1. Arrive(call, <<m, n>>, args, ~fit, TRUE)
  BY DEF ApplyBinary, IsSparse
<1>2. /\ start = [col |-> off[1].col, row |-> 0]
      /\ fit <=> /\ off[1].col <= m.width /\ off[2].col <= n.width
                 /\ SizeT(m.width + off[2].col) <= m.width
                 /\ m.height <= n.height /\ SizeT(m.width + off[2].col) <= n.width
  BY BinaryFits
<1> HIDE DEF start, fit
<1>3. /\ kernel'.call = call /\ kernel'.given = <<m, n>> /\ kernel'.args = args
      /\ (kernel'.misfit <=> ~fit) /\ kernel'.sparse
  BY <1>1, ArriveFacts
<1> QED BY <1>2, <1>3

LEMMA ColVectorFacts ==
    ASSUME NEW call, NEW m \in Matrices, NEW n \in Matrices,
           ApplyBinary(call, m, n, m.height, m.width, NoOffset, FALSE, TRUE)
    PROVE  /\ kernel'.call = call /\ kernel'.given = <<m, n>>
           /\ kernel'.args = <<Window(m, [col |-> 0, row |-> 0], m.height, m.width),
                               Window(n, NoOffset[2], m.height, 1)>>
           /\ kernel'.sparse
           /\ kernel'.misfit <=> ~ (m.height <= n.height)
<1> DEFINE start == [col |-> NoOffset[1].col, row |-> NoOffset[2].row]
           args  == <<Window(m, start, m.height, m.width), Window(n, NoOffset[2], m.height, 1)>>
           fit   == /\ StartFits(m, start) /\ StartFits(n, NoOffset[2])
                    /\ RowsFit(m, NoOffset[1], m.height) /\ ColsFit(m, NoOffset[2], m.width)
                    /\ RowsFit(n, NoOffset[2], m.height)
<1>1. Arrive(call, <<m, n>>, args, ~fit, TRUE)
  BY DEF ApplyBinary, IsSparse
<1>2. start = [col |-> 0, row |-> 0]
  BY NoOffsetFacts
<1>3. fit <=> m.height <= n.height
  <2>1. /\ m.width \in Nat /\ m.width < WordSize /\ WordSize \in Nat \ {0} /\ n.width \in Nat
    BY MatrixFacts
  <2>2. /\ NoOffset[1].col = 0 /\ NoOffset[1].row = 0 /\ NoOffset[2].col = 0 /\ NoOffset[2].row = 0
        /\ NoOffset[1].col \in 0..WordSize - 1 /\ NoOffset[2].col \in 0..WordSize - 1
    BY <2>1, NoOffsetFacts
  <2>3. SizeT(m.width) = m.width /\ m.width + 0 = m.width
    BY <2>1, SizeTFacts
  <2>4. /\ StartFits(m, start) <=> NoOffset[1].col <= m.width
        /\ StartFits(n, NoOffset[2]) <=> NoOffset[2].col <= n.width
        /\ RowsFit(m, NoOffset[1], m.height)
        /\ RowsFit(n, NoOffset[2], m.height) <=> m.height <= n.height
        /\ ColsFit(m, NoOffset[2], m.width) <=> SizeT(m.width + NoOffset[2].col) <= m.width
    BY <2>2, BinaryFits
  <2> HIDE DEF start
  <2> QED BY <2>1, <2>2, <2>3, <2>4
<1> HIDE DEF start, fit
<1>4. /\ kernel'.call = call /\ kernel'.given = <<m, n>> /\ kernel'.args = args
      /\ (kernel'.misfit <=> ~fit) /\ kernel'.sparse
  BY <1>1, ArriveFacts
<1> QED BY <1>2, <1>3, <1>4

LEMMA RowVectorFacts ==
    ASSUME NEW call, NEW m \in Matrices, NEW n \in Matrices,
           ApplyBinary(call, m, n, m.height, m.width, NoOffset, TRUE, FALSE)
    PROVE  /\ kernel'.call = call /\ kernel'.given = <<m, n>>
           /\ kernel'.args = <<Window(m, [col |-> 0, row |-> 0], m.height, m.width),
                               Window(n, NoOffset[2], 1, m.width)>>
           /\ kernel'.sparse
           /\ kernel'.misfit <=> ~ (m.width <= n.width)
<1> DEFINE start == [col |-> NoOffset[1].col, row |-> NoOffset[2].row]
           args  == <<Window(m, start, m.height, m.width), Window(n, NoOffset[2], 1, m.width)>>
           fit   == /\ StartFits(m, start) /\ StartFits(n, NoOffset[2])
                    /\ RowsFit(m, NoOffset[1], m.height) /\ ColsFit(m, NoOffset[2], m.width)
                    /\ ColsFit(n, NoOffset[2], m.width)
<1>1. Arrive(call, <<m, n>>, args, ~fit, TRUE)
  BY DEF ApplyBinary, IsSparse
<1>2. start = [col |-> 0, row |-> 0]
  BY NoOffsetFacts
<1>3. fit <=> m.width <= n.width
  <2>1. /\ m.width \in Nat /\ m.width < WordSize /\ WordSize \in Nat \ {0} /\ n.width \in Nat
    BY MatrixFacts
  <2>2. /\ NoOffset[1].col = 0 /\ NoOffset[1].row = 0 /\ NoOffset[2].col = 0 /\ NoOffset[2].row = 0
        /\ NoOffset[1].col \in 0..WordSize - 1 /\ NoOffset[2].col \in 0..WordSize - 1
    BY <2>1, NoOffsetFacts
  <2>3. SizeT(m.width) = m.width /\ m.width + 0 = m.width
    BY <2>1, SizeTFacts
  <2>4. /\ StartFits(m, start) <=> NoOffset[1].col <= m.width
        /\ StartFits(n, NoOffset[2]) <=> NoOffset[2].col <= n.width
        /\ RowsFit(m, NoOffset[1], m.height)
        /\ ColsFit(m, NoOffset[2], m.width) <=> SizeT(m.width + NoOffset[2].col) <= m.width
        /\ ColsFit(n, NoOffset[2], m.width) <=> SizeT(m.width + NoOffset[2].col) <= n.width
    BY <2>2, BinaryFits
  <2> HIDE DEF start
  <2> QED BY <2>1, <2>2, <2>3, <2>4
<1> HIDE DEF start, fit
<1>4. /\ kernel'.call = call /\ kernel'.given = <<m, n>> /\ kernel'.args = args
      /\ (kernel'.misfit <=> ~fit) /\ kernel'.sparse
  BY <1>1, ArriveFacts
<1> QED BY <1>2, <1>3, <1>4

\* What the functions for three and four operands arrive at.
LEMMA ManyFacts ==
    ASSUME NEW call, NEW k \in {3, 4}, NEW ms \in [1..k -> Matrices], ApplyMany(call, ms)
    PROVE  /\ kernel'.call = call /\ kernel'.given = ms
           /\ DOMAIN kernel'.args = 1..k
           /\ \A j \in 1..k : kernel'.args[j] = Window(ms[j], NoOffset[j], ms[1].height, ms[1].width)
           /\ ~kernel'.sparse
           /\ kernel'.misfit <=> ~ \A j \in 1..k : SameShape(ms[j], ms[1])
<1> DEFINE args == [j \in DOMAIN ms |-> Window(ms[j], NoOffset[j], ms[1].height, ms[1].width)]
           fit  == \A j \in DOMAIN ms : /\ SameShape(ms[1], ms[j])
                                        /\ StartFits(ms[j], NoOffset[j])
                                        /\ RowsFit(ms[j], NoOffset[j], ms[1].height)
                                        /\ ColsFit(ms[j], NoOffset[j], ms[1].width)
<1>1. Kernel(call, ms, args, ~fit)
  BY DEF ApplyMany
<1>2. ASSUME NEW j \in 1..k, SameShape(ms[1], ms[j])
      PROVE  /\ StartFits(ms[j], NoOffset[j])
             /\ RowsFit(ms[j], NoOffset[j], ms[1].height)
             /\ ColsFit(ms[j], NoOffset[j], ms[1].width)
  <2>1. ms[j] \in Matrices
    OBVIOUS
  <2>2. /\ ms[j].height \in Nat /\ ms[j].height < WordSize
        /\ ms[j].width \in Nat /\ ms[j].width < WordSize
    BY <2>1, MatrixFacts
  <2>3. SizeT(ms[j].height) = ms[j].height /\ SizeT(ms[j].width) = ms[j].width
    BY <2>2, SizeTFacts, SizesAssumption
  <2>4. ms[1].height = ms[j].height /\ ms[1].width = ms[j].width
    BY <1>2 DEF SameShape
  <2>5. NoOffset[j].col = 0 /\ NoOffset[j].row = 0
    BY NoOffsetFacts
  <2>6. ms[1].height + 0 = ms[j].height /\ ms[1].width + 0 = ms[j].width
    BY <2>2, <2>4
  <2> QED BY <2>2, <2>3, <2>5, <2>6 DEF StartFits, RowsFit, ColsFit
<1>3. fit <=> \A j \in 1..k : SameShape(ms[j], ms[1])
  BY <1>2 DEF SameShape
<1>a. /\ DOMAIN args = 1..k
      /\ \A j \in 1..k : args[j] = Window(ms[j], NoOffset[j], ms[1].height, ms[1].width)
  OBVIOUS
<1> HIDE DEF args, fit
<1>4. /\ kernel'.call = call /\ kernel'.given = ms /\ kernel'.args = args
      /\ (kernel'.misfit <=> ~fit) /\ ~kernel'.sparse
  BY <1>1, KernelFacts
<1> QED BY <1>3, <1>4, <1>a

LEMMA LegalAfter ==
    ASSUME NEW call, NEW given,
           kernel'.call = call /\ kernel'.given = given,
           call[1] \notin {"zero_at_offset", "add_at_offset", "add_col_vector", "add_row_vector"},
           (\A k \in DOMAIN given : SameShape(given[k], given[1])) => ~kernel'.misfit,
           kernel'.sparse <=> call[1] \in BinaryCalls
    PROVE  LegalCallsFit'
<1>1. Name' = call[1] /\ Given' = given
  BY DEF Name, Given
<1>2. Legal' = AllSameShape'
  BY <1>1 DEF Legal
<1>3. AllSameShape' => ~kernel'.misfit
  BY <1>1 DEF AllSameShape, SameShape
<1> QED BY <1>1, <1>2, <1>3 DEF LegalCallsFit

\* A window of a whole operand.
LEMMA WholeInside ==
    ASSUME NEW m \in Matrices, NEW o, o.col = 0, o.row = 0,
           NEW rows \in Int, rows <= m.height, NEW cols \in Int, cols <= m.width
    PROVE  Elements(Window(m, o, rows, cols)) \subseteq Elements(m)
<1>1. o.col \in Nat /\ o.row \in Nat /\ rows + o.row <= m.height /\ cols + o.col <= m.width
  OBVIOUS
<1> QED BY <1>1, WindowInside

LEMMA UnaryStep ==
    ASSUME NEW m \in Matrices, ApplyUnary(<<"unary">>, m, m.height, m.width, NoOffset)
    PROVE  SilentMeansInside' /\ LegalCallsFit'
<1> DEFINE o == [col |-> NoOffset[1].col, row |-> 0]
           args == <<Window(m, o, m.height, m.width)>>
           silent == NoOffset[1].col <= m.width /\ ColsFit(m, NoOffset[1], m.width)
<1>1. /\ m.width \in Nat /\ m.height \in Nat /\ WordSize \in Nat \ {0} /\ m.width < WordSize
      /\ -WordSize < 2 * m.width /\ 2 * m.width < WordSize
  BY MatrixFacts
<1>2. NoOffset[1].col = 0 /\ NoOffset[1].row = 0 /\ NoOffset[2].row = 0
  BY NoOffsetFacts
<1>3. NoOffset[1].col \in 0..WordSize - 1 /\ m.width \in Int
  BY <1>1, <1>2
<1>4. /\ kernel'.call = <<"unary">> /\ kernel'.given = <<m>>
      /\ kernel'.args = args
      /\ kernel'.misfit <=> ~silent
      /\ ~kernel'.sparse
  BY <1>1, <1>2, <1>3, UnaryFacts
<1>5. SizeT(m.width) = m.width /\ m.width + 0 = m.width
  BY <1>1, SizeTFacts
<1>6. silent
  BY <1>1, <1>2, <1>5 DEF ColsFit
<1>7. o.col = 0 /\ o.row = 0
  BY <1>2
<1> HIDE DEF o
<1>8. Elements(Window(m, o, m.height, m.width)) \subseteq Elements(m)
  BY <1>1, <1>7, WholeInside
<1>9. \A k \in DOMAIN args : Elements(args[k]) \subseteq Elements(<<m>>[k])
  BY <1>8
<1> HIDE DEF args, silent
<1>10. SilentMeansInside'
  BY <1>4, <1>9, SilentAfter
<1>11. LegalCallsFit'
  <2>1. /\ <<"unary">>[1] \notin {"zero_at_offset", "add_at_offset", "add_col_vector", "add_row_vector"}
        /\ <<"unary">>[1] \notin BinaryCalls
    BY DEF BinaryCalls
  <2> QED BY <2>1, <1>4, <1>6, LegalAfter
<1> QED BY <1>10, <1>11

LEMMA ZeroAtOffsetStep ==
    ASSUME ZeroAtOffset
    PROVE  SilentMeansInside' /\ LegalCallsFit'
<1>1. PICK m \in Matrices, col \in Offsets, num \in Offsets :
          ApplyUnary(<<"zero_at_offset", col, num>>, m, m.height, num, MatrixOffset(col, 0, 0, 0))
  BY DEF ZeroAtOffset
<1> DEFINE call == <<"zero_at_offset", col, num>>
           off == MatrixOffset(col, 0, 0, 0)
           o == [col |-> off[1].col, row |-> 0]
           args == <<Window(m, o, m.height, num)>>
           silent == off[1].col <= m.width /\ ColsFit(m, off[1], num)
<1>2. /\ m.width \in Nat /\ m.height \in Nat /\ WordSize \in Nat \ {0} /\ m.width < WordSize
      /\ 2 * m.width < WordSize
  BY MatrixFacts
<1>3. /\ off[1].col = SizeT(col) /\ off[1].row = 0 /\ off[2].row = 0
      /\ num \in Int /\ -WordSize < 2 * num /\ 2 * num < WordSize
      /\ col \in Int /\ -WordSize < 2 * col /\ 2 * col < WordSize
      /\ SizeT(col) \in 0..WordSize - 1 /\ off[1].col \in 0..WordSize - 1
      /\ col >= 0 => SizeT(col) = col
      /\ col < 0 => SizeT(col) = col + WordSize
  BY ColOffsetFacts
<1>4. o.col = SizeT(col) /\ o.row = 0
  BY <1>3
<1> HIDE DEF off
<1>5. /\ kernel'.call = call /\ kernel'.given = <<m>> /\ kernel'.args = args
      /\ kernel'.misfit <=> ~silent
      /\ ~kernel'.sparse
  BY <1>1, <1>3, UnaryFacts DEF off
<1>6. silent <=> SizeT(col) <= m.width /\ SizeT(num + SizeT(col)) <= m.width
  BY <1>3 DEF ColsFit
<1> HIDE DEF o, args, silent
<1>7. ASSUME silent PROVE num + SizeT(col) <= m.width \/ num <= 0
  <2>1. CASE num > 0
    <3>1. 0 <= num + SizeT(col) /\ num + SizeT(col) < WordSize /\ -WordSize < num + SizeT(col)
      BY <1>2, <1>3, <1>6, <1>7, <2>1
    <3>2. SizeT(num + SizeT(col)) = num + SizeT(col)
      BY <1>3, <3>1, SizeTFacts
    <3> QED BY <1>6, <1>7, <3>2
  <2> QED BY <1>3, <2>1
<1>8. SilentMeansInside'
  <2>1. ASSUME silent PROVE Elements(Window(m, o, m.height, num)) \subseteq Elements(m)
    <3>1. o.col \in Nat /\ o.row \in Nat /\ m.height + o.row <= m.height /\ m.height \in Int
      BY <1>2, <1>3, <1>4
    <3>2. num + o.col <= m.width \/ num <= 0
      BY <1>4, <1>7, <2>1
    <3> QED BY <1>3, <3>1, <3>2, WindowInside
  <2>2. silent => \A k \in DOMAIN args : Elements(args[k]) \subseteq Elements(<<m>>[k])
    BY <2>1 DEF args
  <2> QED BY <1>5, <2>2, SilentAfter
<1>9. LegalCallsFit'
  <2>1. /\ Name' = "zero_at_offset" /\ kernel'.call[2] = col /\ kernel'.call[3] = num
        /\ Given'[1].width = m.width /\ Name' \notin BinaryCalls
    BY <1>5 DEF Name, Given, BinaryCalls
  <2>2. Legal' => col >= 0 /\ num >= 0 /\ col + num <= m.width
    BY <2>1 DEF Legal
  <2>3. ASSUME col >= 0, num >= 0, col + num <= m.width PROVE silent
    <3>1. SizeT(num + col) = num + col
      <4>1. num + col \in Int /\ -WordSize < num + col /\ num + col < WordSize /\ num + col >= 0
        BY <1>2, <1>3, <2>3
      <4> QED BY <4>1, SizeTFacts
    <3> QED BY <1>2, <1>3, <1>6, <2>3, <3>1
  <2> QED BY <1>5, <2>1, <2>2, <2>3 DEF LegalCallsFit
<1> QED BY <1>8, <1>9

LEMMA BothStep ==
    ASSUME NEW call, ApplyToBoth(call),
           call[1] \notin {"zero_at_offset", "add_at_offset", "add_col_vector", "add_row_vector"},
           call[1] \in BinaryCalls
    PROVE  SilentMeansInside' /\ LegalCallsFit'
<1>1. PICK m \in Matrices, n \in Matrices :
        IF SameShape(m, n)
        THEN ApplyBinary(call, m, n, m.height, m.width, NoOffset, FALSE, FALSE)
        ELSE Arrive(call, <<m, n>>, <<Window(m, NoOffset[1], m.height, m.width),
                                      Window(n, NoOffset[2], m.height, m.width)>>, TRUE, TRUE)
  BY DEF ApplyToBoth, IsSparse
<1>2. /\ m.width \in Nat /\ m.height \in Nat /\ WordSize \in Nat \ {0} /\ m.width < WordSize
      /\ n.width \in Nat /\ n.height \in Nat
  BY MatrixFacts
<1>3. CASE SameShape(m, n)
  <2> DEFINE o == [col |-> NoOffset[1].col, row |-> 0]
             args == <<Window(m, o, m.height, m.width), Window(n, NoOffset[2], m.height, m.width)>>
             silent == /\ NoOffset[1].col <= m.width /\ NoOffset[2].col <= n.width
                       /\ SizeT(m.width + NoOffset[2].col) <= m.width
                       /\ m.height <= n.height
                       /\ SizeT(m.width + NoOffset[2].col) <= n.width
  <2>1. /\ NoOffset[1].col = 0 /\ NoOffset[1].row = 0
        /\ NoOffset[2].col = 0 /\ NoOffset[2].row = 0
        /\ NoOffset[1].col \in 0..WordSize - 1 /\ NoOffset[2].col \in 0..WordSize - 1
    BY <1>2, NoOffsetFacts
  <2>2. ApplyBinary(call, m, n, m.height, m.width, NoOffset, FALSE, FALSE)
    BY <1>1, <1>3
  <2> HIDE DEF o, args, silent
  <2>a. /\ kernel'.call = call /\ kernel'.given = <<m, n>>
        /\ kernel'.args = <<Window(m, [col |-> NoOffset[1].col, row |-> 0], m.height, m.width),
                            Window(n, NoOffset[2], m.height, m.width)>>
        /\ kernel'.sparse
        /\ kernel'.misfit <=>
             ~ /\ NoOffset[1].col <= m.width /\ NoOffset[2].col <= n.width
               /\ SizeT(m.width + NoOffset[2].col) <= m.width
               /\ m.height <= n.height
               /\ SizeT(m.width + NoOffset[2].col) <= n.width
    BY <2>1, <2>2, BinaryFacts
  <2>3. /\ kernel'.call = call /\ kernel'.given = <<m, n>>
        /\ kernel'.args = args /\ (kernel'.misfit <=> ~silent) /\ kernel'.sparse
    BY <2>a DEF o, args, silent
  <2>4. SizeT(m.width) = m.width /\ m.width + 0 = m.width
    BY <1>2, SizeTFacts
  <2>5. m.height = n.height /\ m.width = n.width
    BY <1>3 DEF SameShape
  <2>6. silent
    BY <1>2, <2>1, <2>4, <2>5 DEF silent
  <2>7. o.col = 0 /\ o.row = 0
    BY <2>1 DEF o
  <2>8. /\ Elements(Window(m, o, m.height, m.width)) \subseteq Elements(m)
        /\ Elements(Window(n, NoOffset[2], m.height, m.width)) \subseteq Elements(n)
    <3>1. m.height \in Int /\ m.width \in Int /\ m.height <= n.height /\ m.width <= n.width
          /\ m.height <= m.height /\ m.width <= m.width
      BY <1>2, <2>5
    <3> QED BY <3>1, <2>1, <2>7, WholeInside
  <2>9. \A k \in DOMAIN args : Elements(args[k]) \subseteq Elements(<<m, n>>[k])
    BY <2>8 DEF args
  <2>10. SilentMeansInside'
    BY <2>3, <2>9, SilentAfter
  <2> QED BY <2>3, <2>6, <2>10, LegalAfter
<1>4. CASE ~SameShape(m, n)
  <2> DEFINE args == <<Window(m, NoOffset[1], m.height, m.width),
                       Window(n, NoOffset[2], m.height, m.width)>>
  <2> HIDE DEF args
  <2>1. Arrive(call, <<m, n>>, args, TRUE, TRUE)
    BY <1>1, <1>4 DEF args
  <2>2. /\ kernel'.call = call /\ kernel'.given = <<m, n>>
        /\ kernel'.args = args /\ (kernel'.misfit <=> ~FALSE) /\ kernel'.sparse
    BY <2>1, ArriveFacts
  <2>3. SilentMeansInside'
    BY <2>2, SilentAfter
  <2>4. ~ \A k \in DOMAIN <<m, n>> : SameShape(<<m, n>>[k], <<m, n>>[1])
    BY <1>4 DEF SameShape
  <2> HIDE DEF args
  <2> QED BY <2>2, <2>3, <2>4, LegalAfter
<1> QED BY <1>3, <1>4

LEMMA ColVectorStep ==
    ASSUME NEW m \in Matrices, NEW n \in Matrices,
           ApplyBinary(<<"add_col_vector">>, m, n, m.height, m.width, NoOffset, FALSE, TRUE)
    PROVE  SilentMeansInside' /\ LegalCallsFit'
<1> DEFINE call == <<"add_col_vector">>
           o == [col |-> 0, row |-> 0]
           args == <<Window(m, o, m.height, m.width), Window(n, NoOffset[2], m.height, 1)>>
           silent == m.height <= n.height
<1> HIDE DEF call
<1>1. /\ kernel'.call = call /\ kernel'.given = <<m, n>>
      /\ kernel'.args = args /\ (kernel'.misfit <=> ~silent) /\ kernel'.sparse
  BY ColVectorFacts DEF call
<1>2. /\ m.width \in Nat /\ m.height \in Nat /\ n.width \in Nat /\ n.height \in Nat
  BY MatrixFacts
<1>3. call[1] = "add_col_vector"
  BY DEF call
<1>4. SilentMeansInside'
  <2> HIDE DEF silent
  <2>1. Elements(Window(m, o, m.height, m.width)) \subseteq Elements(m)
    <3>1. o.col = 0 /\ o.row = 0
      OBVIOUS
    <3> HIDE DEF o
    <3> QED BY <1>2, <3>1, WholeInside
  <2>2. ASSUME silent, ~Empty(n) PROVE Elements(Window(n, NoOffset[2], m.height, 1)) \subseteq Elements(n)
    <3>1. 1 \in Int /\ m.height \in Int /\ 1 <= n.width /\ m.height <= n.height
      BY <1>2, <2>2 DEF Empty, silent
    <3>2. NoOffset[2].col = 0 /\ NoOffset[2].row = 0
      BY NoOffsetFacts
    <3> QED BY <3>1, <3>2, WholeInside
  <2> HIDE DEF o
  <2>3. silent => \A k \in DOMAIN args :
            \/ Elements(args[k]) \subseteq Elements(<<m, n>>[k])
            \/ call[1] \in {"add_col_vector", "add_row_vector"} /\ Empty(<<m, n>>[k])
    BY <1>3, <2>1, <2>2
  <2> HIDE DEF args
  <2> QED BY <1>1, <2>3, SilentAfter
<1>5. LegalCallsFit'
  <2>1. /\ Name' = "add_col_vector" /\ Given'[1] = m /\ Given'[2] = n
        /\ Name' \in BinaryCalls
    BY <1>1, <1>3 DEF Name, Given, BinaryCalls
  <2>2. Legal' => n.height = m.height
    BY <2>1 DEF Legal
  <2>3. Legal' => ~kernel'.misfit
    BY <1>1, <1>2, <2>2
  <2> QED BY <1>1, <2>1, <2>3 DEF LegalCallsFit
<1> QED BY <1>4, <1>5

LEMMA RowVectorStep ==
    ASSUME NEW m \in Matrices, NEW n \in Matrices,
           ApplyBinary(<<"add_row_vector">>, m, n, m.height, m.width, NoOffset, TRUE, FALSE)
    PROVE  SilentMeansInside' /\ LegalCallsFit'
<1> DEFINE call == <<"add_row_vector">>
           o == [col |-> 0, row |-> 0]
           args == <<Window(m, o, m.height, m.width), Window(n, NoOffset[2], 1, m.width)>>
           silent == m.width <= n.width
<1> HIDE DEF call
<1>1. /\ kernel'.call = call /\ kernel'.given = <<m, n>>
      /\ kernel'.args = args /\ (kernel'.misfit <=> ~silent) /\ kernel'.sparse
  BY RowVectorFacts DEF call
<1>2. /\ m.width \in Nat /\ m.height \in Nat /\ n.width \in Nat /\ n.height \in Nat
  BY MatrixFacts
<1>3. call[1] = "add_row_vector"
  BY DEF call
<1>4. SilentMeansInside'
  <2> HIDE DEF silent
  <2>1. Elements(Window(m, o, m.height, m.width)) \subseteq Elements(m)
    <3>1. o.col = 0 /\ o.row = 0
      OBVIOUS
    <3> HIDE DEF o
    <3> QED BY <1>2, <3>1, WholeInside
  <2>2. ASSUME silent, ~Empty(n) PROVE Elements(Window(n, NoOffset[2], 1, m.width)) \subseteq Elements(n)
    <3>1. 1 \in Int /\ m.width \in Int /\ 1 <= n.height /\ m.width <= n.width
      BY <1>2, <2>2 DEF Empty, silent
    <3>2. NoOffset[2].col = 0 /\ NoOffset[2].row = 0
      BY NoOffsetFacts
    <3> QED BY <3>1, <3>2, WholeInside
  <2> HIDE DEF o
  <2>3. silent => \A k \in DOMAIN args :
            \/ Elements(args[k]) \subseteq Elements(<<m, n>>[k])
            \/ call[1] \in {"add_col_vector", "add_row_vector"} /\ Empty(<<m, n>>[k])
    BY <1>3, <2>1, <2>2
  <2> HIDE DEF args
  <2> QED BY <1>1, <2>3, SilentAfter
<1>5. LegalCallsFit'
  <2>1. /\ Name' = "add_row_vector" /\ Given'[1] = m /\ Given'[2] = n
        /\ Name' \in BinaryCalls
    BY <1>1, <1>3 DEF Name, Given, BinaryCalls
  <2>2. Legal' => n.width = m.width
    BY <2>1 DEF Legal
  <2>3. Legal' => ~kernel'.misfit
    BY <1>1, <1>2, <2>2
  <2> QED BY <1>1, <2>1, <2>3 DEF LegalCallsFit
<1> QED BY <1>4, <1>5

\* add_at_offset: silence leaves no offset, and a first operand no wider than the second.
LEMMA AddAtOffsetStep ==
    ASSUME AddAtOffset
    PROVE  SilentMeansInside' /\ LegalCallsFit'
<1>1. PICK m \in Matrices, n \in Matrices, col \in Offsets :
          IF SizeT(col + n.width) <= m.width
          THEN ApplyBinary(<<"add_at_offset", col>>, m, n, m.height, m.width,
                           MatrixOffset(col, 0, 0, 0), FALSE, FALSE)
          ELSE IF SizeT(col + m.width) <= n.width
          THEN ApplyBinary(<<"add_at_offset", col>>, m, n, m.height, m.width,
                           MatrixOffset(0, 0, col, 0), FALSE, FALSE)
          ELSE Kernel(<<"add_at_offset", col>>, <<m, n>>, <<>>, TRUE)
  BY DEF AddAtOffset
<1> DEFINE call == <<"add_at_offset", col>>
<1>2. /\ m.width \in Nat /\ m.height \in Nat /\ WordSize \in Nat \ {0} /\ m.width < WordSize
      /\ n.width \in Nat /\ n.height \in Nat /\ n.width < WordSize
      /\ 2 * m.width < WordSize /\ 2 * n.width < WordSize
  BY MatrixFacts
<1>3. /\ col \in Int /\ SizeT(col) \in 0..WordSize - 1
      /\ -WordSize < 2 * col /\ 2 * col < WordSize
      /\ col >= 0 => SizeT(col) = col
      /\ col < 0 => SizeT(col) = col + WordSize
  BY ColOffsetFacts
<1>4. call[1] = "add_at_offset" /\ call[2] = col
  OBVIOUS
<1>5. SizeT(m.width) = m.width /\ m.width + 0 = m.width
  BY <1>2, SizeTFacts
<1>6. ASSUME col >= 0
      PROVE  SizeT(col + n.width) = col + n.width /\ SizeT(col + m.width) = col + m.width
  <2>1. /\ col + n.width \in Int /\ -WordSize < col + n.width /\ col + n.width < WordSize
        /\ col + n.width >= 0
        /\ col + m.width \in Int /\ -WordSize < col + m.width /\ col + m.width < WordSize
        /\ col + m.width >= 0
    BY <1>2, <1>3, <1>6
  <2> QED BY <2>1, SizeTFacts
<1> DEFINE first == SizeT(col + n.width) <= m.width
           second == SizeT(col + m.width) <= n.width
<1>7. ASSUME col >= 0
      PROVE  (first <=> col + n.width <= m.width) /\ (second <=> col + m.width <= n.width)
  BY <1>6, <1>7
\* What is legal, and what a legal call has to complain of, in terms of the operands.
<1>8. ASSUME kernel'.call = call, kernel'.given = <<m, n>>,
             Legal' => (kernel'.misfit <=> col > 0 \/ n.width < m.width),
             Legal' => kernel'.sparse
      PROVE  LegalCallsFit'
  <2>1. Name' = "add_at_offset" /\ kernel'.call[2] = col /\ Given'[1] = m /\ Given'[2] = n
    BY <1>4, <1>8 DEF Name, Given
  <2>2. Name' \in BinaryCalls
    BY <2>1 DEF BinaryCalls
  <2> QED BY <1>8, <2>1, <2>2 DEF LegalCallsFit
<1>9. ASSUME kernel'.call = call, kernel'.given = <<m, n>>
      PROVE  Legal' <=> /\ m.height = n.height /\ col >= 0
                        /\ col + n.width <= m.width \/ col + m.width <= n.width
  <2>1. Name' = "add_at_offset" /\ kernel'.call[2] = col /\ Given'[1] = m /\ Given'[2] = n
    BY <1>4, <1>9 DEF Name, Given
  <2> QED BY <2>1 DEF Legal
<1>10. CASE first
  <2> DEFINE off == MatrixOffset(col, 0, 0, 0)
             o == [col |-> off[1].col, row |-> 0]
             args == <<Window(m, o, m.height, m.width), Window(n, off[2], m.height, m.width)>>
             silent == /\ off[1].col <= m.width /\ off[2].col <= n.width
                       /\ SizeT(m.width + off[2].col) <= m.width
                       /\ m.height <= n.height /\ SizeT(m.width + off[2].col) <= n.width
  <2>1. off[1].col = SizeT(col) /\ off[1].row = 0 /\ off[2].col = 0 /\ off[2].row = 0
    BY ColOffsetFacts
  <2>2. ApplyBinary(call, m, n, m.height, m.width, off, FALSE, FALSE)
    BY <1>1, <1>10
  <2>3. o.col = SizeT(col) /\ o.row = 0
    BY <2>1
  <2> HIDE DEF off, call
  <2>4. off[1].col \in 0..WordSize - 1 /\ off[2].col \in 0..WordSize - 1
    BY <1>2, <1>3, <2>1
  <2> HIDE DEF o, args, silent
  <2>a. /\ kernel'.call = call /\ kernel'.given = <<m, n>>
        /\ kernel'.args = <<Window(m, [col |-> off[1].col, row |-> 0], m.height, m.width),
                            Window(n, off[2], m.height, m.width)>>
        /\ kernel'.sparse
        /\ kernel'.misfit <=>
             ~ /\ off[1].col <= m.width /\ off[2].col <= n.width
               /\ SizeT(m.width + off[2].col) <= m.width
               /\ m.height <= n.height /\ SizeT(m.width + off[2].col) <= n.width
    BY <2>1, <2>2, <2>4, BinaryFacts
  <2>5. /\ kernel'.call = call /\ kernel'.given = <<m, n>>
        /\ kernel'.args = args /\ (kernel'.misfit <=> ~silent) /\ kernel'.sparse
    BY <2>a DEF o, args, silent
  <2>6. silent <=> SizeT(col) <= m.width /\ m.height <= n.height /\ m.width <= n.width
    BY <1>2, <1>5, <2>1 DEF silent
  <2>7. ASSUME silent PROVE col = 0 /\ m.width <= n.width /\ m.height <= n.height
    <3>1. SizeT(col) <= m.width /\ m.height <= n.height /\ m.width <= n.width
      BY <2>6, <2>7
    <3>2. col >= 0
      BY <1>2, <1>3, <3>1
    <3>3. col + n.width <= m.width
      BY <1>7, <1>10, <3>2
    <3> QED BY <1>2, <1>3, <3>1, <3>2, <3>3
  <2>8. SilentMeansInside'
    <3>1. ASSUME silent
          PROVE  /\ Elements(Window(m, o, m.height, m.width)) \subseteq Elements(m)
                 /\ Elements(Window(n, off[2], m.height, m.width)) \subseteq Elements(n)
      <4>1. o.col = 0 /\ m.width <= n.width /\ m.height <= n.height
        BY <1>3, <2>3, <2>7, <3>1
      <4>2. m.height \in Int /\ m.width \in Int /\ m.height <= m.height /\ m.width <= m.width
        BY <1>2
      <4> QED BY <2>1, <2>3, <4>1, <4>2, WholeInside
    <3>2. silent => \A k \in DOMAIN args : Elements(args[k]) \subseteq Elements(<<m, n>>[k])
      BY <3>1 DEF args
    <3> QED BY <2>5, <3>2, SilentAfter
  <2>9. LegalCallsFit'
    <3>1. ASSUME Legal' PROVE kernel'.misfit <=> col > 0 \/ n.width < m.width
      <4>1. m.height = n.height /\ col >= 0
        BY <1>9, <2>5, <3>1
      <4>2. silent <=> SizeT(col) <= m.width /\ m.width <= n.width
        BY <1>2, <2>6, <4>1
      <4>3. col + n.width <= m.width
        BY <1>7, <1>10, <4>1
      <4>4. silent <=> ~(col > 0 \/ n.width < m.width)
        BY <1>2, <1>3, <4>1, <4>2, <4>3
      <4> QED BY <2>5, <4>4
    <3> QED BY <1>8, <2>5, <3>1
  <2> QED BY <2>8, <2>9
<1>11. CASE ~first /\ second
  <2> DEFINE off == MatrixOffset(0, 0, col, 0)
             o == [col |-> off[1].col, row |-> 0]
             args == <<Window(m, o, m.height, m.width), Window(n, off[2], m.height, m.width)>>
             silent == /\ off[1].col <= m.width /\ off[2].col <= n.width
                       /\ SizeT(m.width + off[2].col) <= m.width
                       /\ m.height <= n.height /\ SizeT(m.width + off[2].col) <= n.width
  <2>1. off[1].col = 0 /\ off[1].row = 0 /\ off[2].col = SizeT(col) /\ off[2].row = 0
    BY ColOffsetFacts
  <2>2. ApplyBinary(call, m, n, m.height, m.width, off, FALSE, FALSE)
    BY <1>1, <1>11
  <2>3. o.col = 0 /\ o.row = 0
    BY <2>1
  <2> HIDE DEF off, call
  <2>4. off[1].col \in 0..WordSize - 1 /\ off[2].col \in 0..WordSize - 1
    BY <1>2, <1>3, <2>1
  <2> HIDE DEF o, args, silent
  <2>a. /\ kernel'.call = call /\ kernel'.given = <<m, n>>
        /\ kernel'.args = <<Window(m, [col |-> off[1].col, row |-> 0], m.height, m.width),
                            Window(n, off[2], m.height, m.width)>>
        /\ kernel'.sparse
        /\ kernel'.misfit <=>
             ~ /\ off[1].col <= m.width /\ off[2].col <= n.width
               /\ SizeT(m.width + off[2].col) <= m.width
               /\ m.height <= n.height /\ SizeT(m.width + off[2].col) <= n.width
    BY <2>1, <2>2, <2>4, BinaryFacts
  <2>5. /\ kernel'.call = call /\ kernel'.given = <<m, n>>
        /\ kernel'.args = args /\ (kernel'.misfit <=> ~silent) /\ kernel'.sparse
    BY <2>a DEF o, args, silent
  <2>6. silent <=> /\ SizeT(col) <= n.width /\ SizeT(m.width + SizeT(col)) <= m.width
                   /\ m.height <= n.height /\ SizeT(m.width + SizeT(col)) <= n.width
    BY <1>2, <2>1 DEF silent
  <2>7. ASSUME col >= 0
        PROVE  SizeT(m.width + SizeT(col)) = m.width + col
    <3>1. SizeT(col) = col /\ m.width + col = col + m.width
      BY <1>2, <1>3, <2>7
    <3> QED BY <1>6, <2>7, <3>1
  <2>8. ASSUME silent PROVE col = 0 /\ m.width <= n.width /\ m.height <= n.height
    <3>1. col >= 0
      BY <1>2, <1>3, <2>6, <2>8
    <3>2. m.width + col <= m.width /\ m.width + col <= n.width /\ m.height <= n.height
      BY <2>6, <2>7, <2>8, <3>1
    <3> QED BY <1>2, <1>3, <3>1, <3>2
  <2>9. SilentMeansInside'
    <3>1. ASSUME silent
          PROVE  /\ Elements(Window(m, o, m.height, m.width)) \subseteq Elements(m)
                 /\ Elements(Window(n, off[2], m.height, m.width)) \subseteq Elements(n)
      <4>1. off[2].col = 0 /\ m.width <= n.width /\ m.height <= n.height
        BY <1>3, <2>1, <2>8, <3>1
      <4>2. m.height \in Int /\ m.width \in Int /\ m.height <= m.height /\ m.width <= m.width
        BY <1>2
      <4> QED BY <2>1, <2>3, <4>1, <4>2, WholeInside
    <3>2. silent => \A k \in DOMAIN args : Elements(args[k]) \subseteq Elements(<<m, n>>[k])
      BY <3>1 DEF args
    <3> QED BY <2>5, <3>2, SilentAfter
  <2>10. LegalCallsFit'
    <3>1. ASSUME Legal' PROVE kernel'.misfit <=> col > 0 \/ n.width < m.width
      <4>1. m.height = n.height /\ col >= 0 /\ SizeT(col) = col
        BY <1>3, <1>9, <2>5, <3>1
      <4>2. col + m.width <= n.width
        BY <1>7, <1>11, <4>1
      <4>3. silent <=> m.width + col <= m.width
        BY <1>2, <1>3, <2>6, <2>7, <4>1, <4>2
      <4>4. silent <=> ~(col > 0 \/ n.width < m.width)
        BY <1>2, <1>3, <4>1, <4>2, <4>3
      <4> QED BY <2>5, <4>4
    <3> QED BY <1>8, <2>5, <3>1
  <2> QED BY <2>9, <2>10
<1>12. CASE ~first /\ ~second
  <2>1. Kernel(call, <<m, n>>, <<>>, TRUE)
    BY <1>1, <1>12
  <2> HIDE DEF call
  <2>2. /\ kernel'.call = call /\ kernel'.given = <<m, n>>
        /\ kernel'.args = <<>> /\ (kernel'.misfit <=> ~FALSE)
    BY <2>1, KernelFacts
  <2>3. SilentMeansInside'
    BY <2>2, SilentAfter
  <2>4. ~Legal'
    BY <1>7, <1>9, <1>12, <2>2
  <2> QED BY <1>8, <2>2, <2>3, <2>4
<1> QED BY <1>10, <1>11, <1>12

LEMMA ManyStep ==
    ASSUME NEW call, NEW k \in {3, 4}, NEW ms \in [1..k -> Matrices], ApplyMany(call, ms),
           call[1] \notin {"zero_at_offset", "add_at_offset", "add_col_vector", "add_row_vector"},
           call[1] \notin BinaryCalls
    PROVE  SilentMeansInside' /\ LegalCallsFit'
<1> DEFINE silent == \A j \in 1..k : SameShape(ms[j], ms[1])
<1>b. /\ kernel'.call = call /\ kernel'.given = ms /\ ~kernel'.sparse
      /\ kernel'.misfit <=> ~ \A j \in 1..k : SameShape(ms[j], ms[1])
      /\ DOMAIN kernel'.args = 1..k
      /\ \A j \in 1..k : kernel'.args[j] = Window(ms[j], NoOffset[j], ms[1].height, ms[1].width)
  BY ManyFacts
<1> HIDE DEF silent
<1>a. PICK args : kernel'.args = args
  OBVIOUS
<1>c. /\ DOMAIN args = 1..k
      /\ \A j \in 1..k : args[j] = Window(ms[j], NoOffset[j], ms[1].height, ms[1].width)
  BY <1>a, <1>b
<1>1. /\ kernel'.call = call /\ kernel'.given = ms
      /\ kernel'.args = args /\ (kernel'.misfit <=> ~silent)
  BY <1>a, <1>b DEF silent
<1>2. ASSUME silent, NEW j \in 1..k
      PROVE  Elements(Window(ms[j], NoOffset[j], ms[1].height, ms[1].width)) \subseteq Elements(ms[j])
  <2>1. ms[j] \in Matrices /\ ms[1] \in Matrices
    OBVIOUS
  <2>2. ms[1].height = ms[j].height /\ ms[1].width = ms[j].width
    BY <1>2 DEF SameShape, silent
  <2>3. ms[1].height \in Int /\ ms[1].width \in Int /\ ms[1].height <= ms[j].height
        /\ ms[1].width <= ms[j].width
    BY <2>1, <2>2, MatrixFacts
  <2>4. NoOffset[j].col = 0 /\ NoOffset[j].row = 0
    BY NoOffsetFacts
  <2> QED BY <2>1, <2>3, <2>4, WholeInside
<1>3. silent => \A j \in DOMAIN args : Elements(args[j]) \subseteq Elements(ms[j])
  BY <1>c, <1>2
<1>4. (\A j \in DOMAIN ms : SameShape(ms[j], ms[1])) => silent
  BY DEF silent
<1>5. SilentMeansInside'
  BY <1>1, <1>3, SilentAfter
<1> QED BY <1>b, <1>1, <1>4, <1>5, LegalAfter

LEMMA UnwrittenStep ==
    ASSUME Unwritten
    PROVE  SilentMeansInside' /\ LegalCallsFit'
<1>1. PICK m \in Matrices, n \in Matrices, checked \in BOOLEAN :
        Kernel(<<"unwritten">>, <<m, n>>, <<>>, checked /\ ~SameShape(m, n))
  BY DEF Unwritten
<1> DEFINE call == <<"unwritten">>
           silent == ~(checked /\ ~SameShape(m, n))
<1>2. /\ call[1] \notin {"zero_at_offset", "add_at_offset", "add_col_vector", "add_row_vector"}
      /\ call[1] \notin BinaryCalls
  BY DEF BinaryCalls
<1> HIDE DEF call
<1>3. /\ kernel'.call = call /\ kernel'.given = <<m, n>> /\ kernel'.args = <<>> /\ ~kernel'.sparse
      /\ kernel'.misfit <=> (checked /\ ~SameShape(m, n))
  BY <1>1, KernelFacts DEF call
<1>4. kernel'.misfit <=> ~silent
  BY <1>3
<1>5. (\A k \in DOMAIN <<m, n>> : SameShape(<<m, n>>[k], <<m, n>>[1])) => silent
  BY DEF SameShape
<1> HIDE DEF silent
<1>6. SilentMeansInside'
  <2>1. \A k \in DOMAIN <<>> : FALSE
    OBVIOUS
  <2> QED BY <1>3, <1>4, <2>1, SilentAfter
<1> QED BY <1>2, <1>3, <1>4, <1>5, <1>6, LegalAfter

LEMMA LoopStep ==
    ASSUME NEW name \in {"sigmoid", "cross_entropy", "apply_l2"}, NEW given, Loop(name, given)
    PROVE  SilentMeansInside' /\ LegalCallsFit'
<1> DEFINE call == <<name>>
           shaped == \A k \in DOMAIN given : SameShape(given[k], given[1])
           misfit == name # "apply_l2" /\ \E k \in DOMAIN given : ~SameShape(given[k], given[1])
           silent == ~misfit
<1>1. Kernel(call, given, <<>>, misfit)
  BY DEF Loop
<1>2. /\ call[1] \notin {"zero_at_offset", "add_at_offset", "add_col_vector", "add_row_vector"}
      /\ call[1] \notin BinaryCalls
  BY DEF BinaryCalls
<1>3. shaped => ~misfit
  OBVIOUS
<1> HIDE DEF call, misfit
<1>4. /\ kernel'.call = call /\ kernel'.given = given /\ kernel'.args = <<>> /\ ~kernel'.sparse
      /\ kernel'.misfit <=> misfit
  BY <1>1, KernelFacts
<1>5. kernel'.misfit <=> ~silent
  BY <1>4
<1> HIDE DEF silent
<1>6. SilentMeansInside'
  BY <1>4, <1>5, SilentAfter
<1>7. (\A k \in DOMAIN given : SameShape(given[k], given[1])) => ~kernel'.misfit
  BY <1>3, <1>4
<1> QED BY <1>2, <1>4, <1>6, <1>7, LegalAfter

LEMMA SameKernel ==
    ASSUME SilentMeansInside, LegalCallsFit, UNCHANGED kernel
    PROVE  SilentMeansInside' /\ LegalCallsFit'
<1>1. SilentMeansInside'
  BY DEF SilentMeansInside, Name, Given, Elements, Empty
<1>2. Name' = Name /\ Given' = Given
  BY DEF Name, Given
<1>3. Legal' <=> Legal
  BY <1>2 DEF Legal, AllSameShape, SameShape
<1>4. LegalCallsFit'
  BY <1>2, <1>3 DEF LegalCallsFit
<1> QED BY <1>1, <1>4

LEMMA InitCall == Init => SilentMeansInside /\ LegalCallsFit
<1> SUFFICES ASSUME Init PROVE SilentMeansInside /\ LegalCallsFit
  OBVIOUS
<1>1. /\ kernel.call = <<"none">> /\ kernel.args = <<>>
      /\ kernel.misfit = FALSE /\ kernel.sparse = FALSE
  BY DEF Init, None
<1>2. SilentMeansInside
  BY <1>1 DEF SilentMeansInside
<1>3. Name = "none"
  BY <1>1 DEF Name
<1>4. ~kernel.misfit /\ ~kernel.sparse
  BY <1>1
<1>5. Name # "add_at_offset" /\ Name \notin BinaryCalls
  BY <1>3 DEF BinaryCalls
<1>6. LegalCallsFit
  BY <1>4, <1>5 DEF LegalCallsFit
<1> QED BY <1>2, <1>6

LEMMA CallStep ==
    ASSUME SilentMeansInside, LegalCallsFit, [Next]_vars
    PROVE  SilentMeansInside' /\ LegalCallsFit'
<1>1. CASE Unwritten
  BY <1>1, UnwrittenStep
<1>2. CASE Unary
  BY <1>2, UnaryStep DEF Unary
<1>3. CASE ZeroAtOffset
  BY <1>3, ZeroAtOffsetStep
<1>4. CASE AddScaled \/ Activation \/ OfOther
  <2>1. PICK call \in {<<"add_scaled">>, <<"activation">>, <<"of_other">>} : ApplyToBoth(call)
    BY <1>4 DEF AddScaled, Activation, OfOther
  <2>2. /\ call[1] \notin {"zero_at_offset", "add_at_offset", "add_col_vector", "add_row_vector"}
        /\ call[1] \in BinaryCalls
    BY <2>1 DEF BinaryCalls
  <2> QED BY <2>1, <2>2, BothStep
<1>5. CASE AddAtOffset
  BY <1>5, AddAtOffsetStep
<1>6. CASE AddColVector
  BY <1>6, ColVectorStep DEF AddColVector
<1>7. CASE AddRowVector
  BY <1>7, RowVectorStep DEF AddRowVector
<1>8. CASE Ternary
  <2>1. PICK m \in Matrices, n \in Matrices, o \in Matrices : ApplyMany(<<"ternary">>, <<m, n, o>>)
    BY <1>8 DEF Ternary
  <2>2. /\ <<m, n, o>> \in [1..3 -> Matrices]
        /\ <<"ternary">>[1] \notin {"zero_at_offset", "add_at_offset", "add_col_vector", "add_row_vector"}
        /\ <<"ternary">>[1] \notin BinaryCalls
    BY DEF BinaryCalls
  <2> DEFINE ms == <<m, n, o>>
             call == <<"ternary">>
  <2> HIDE DEF ms, call
  <2> QED BY <2>1, <2>2, ManyStep DEF ms, call
<1>9. CASE Quaternary
  <2>1. PICK m \in Matrices, n \in Matrices, o \in Matrices, p \in Matrices :
          ApplyMany(<<"quaternary">>, <<m, n, o, p>>)
    BY <1>9 DEF Quaternary
  <2>2. /\ <<m, n, o, p>> \in [1..4 -> Matrices]
        /\ <<"quaternary">>[1] \notin {"zero_at_offset", "add_at_offset", "add_col_vector", "add_row_vector"}
        /\ <<"quaternary">>[1] \notin BinaryCalls
    BY DEF BinaryCalls
  <2> QED BY <2>1, <2>2, ManyStep
<1>10. CASE CallSigmoid \/ CallCrossEntropy \/ CallApplyL2
  <2>1. PICK name \in {"sigmoid", "cross_entropy", "apply_l2"} : \E given : Loop(name, given)
    BY <1>10 DEF CallSigmoid, CallCrossEntropy, CallApplyL2
  <2> QED BY <2>1, LoopStep
<1>11. CASE Clip \/ Squash \/ CrossEntropy \/ Decay \/ Done \/ UNCHANGED vars
  <2>1. UNCHANGED kernel
    BY <1>11 DEF Clip, Squash, CrossEntropy, Decay, Round, Done, vars
  <2> QED BY <2>1, SameKernel
<1> QED BY <1>1, <1>2, <1>3, <1>4, <1>5, <1>6, <1>7, <1>8, <1>9, <1>10, <1>11 DEF Next

\* A call that passes the checks of its dimensions gives the kernel only elements of its
\* operands, with any matrices and any offsets: the checks of the apply functions cannot be
\* passed by an offset that wraps around size_t.
THEOREM SilentMeansInsideHolds == Spec => []SilentMeansInside
<1>1. Init => SilentMeansInside /\ LegalCallsFit
  BY InitCall
<1>2. SilentMeansInside /\ LegalCallsFit /\ [Next]_vars => SilentMeansInside' /\ LegalCallsFit'
  BY CallStep
<1> QED BY <1>1, <1>2, PTL DEF Spec

\* Of legal calls only those of add_at_offset are complained of for their dimensions,
\* and of them exactly the ones that have an offset or a second operand narrower than
\* the first; and exactly the calls of the binary apply, which are legal on dense
\* matrices as well as the others, say that an operand is sparse.
THEOREM LegalCallsFitHolds == Spec => []LegalCallsFit
<1>1. Init => SilentMeansInside /\ LegalCallsFit
  BY InitCall
<1>2. SilentMeansInside /\ LegalCallsFit /\ [Next]_vars => SilentMeansInside' /\ LegalCallsFit'
  BY CallStep
<1> QED BY <1>1, <1>2, PTL DEF Spec
-----------------------------------------------------------------------------
\* Where the operands have their element n, if they are without gaps.
Positions(ms, n) == {ms[k].at + n : k \in DOMAIN ms}

Called(name, given) == Name = name /\ Given = given

\* Which loop runs, or ran, on which operands.
LoopCalled ==
    \/ ops = <<>> /\ pc = "idle" /\ from = [e \in 1..MemSize |-> {e}]
    \/ \E m, n \in Matrices : /\ Called("sigmoid", <<m, n>>) /\ ops = <<n, m>>
                              /\ pc \in {"sigmoid", "squash", "idle"}
    \/ \E m, n, o \in Matrices : /\ Called("cross_entropy", <<m, n, o>>) /\ ops = <<m, n, o>>
                                 /\ pc \in {"cross_entropy", "idle"}
    \/ \E m, n \in Matrices : /\ Called("apply_l2", <<m, n>>) /\ ops = <<m, n>>
                              /\ pc \in {"apply_l2", "idle"}

Plain == AllSameShape /\ \A k \in DOMAIN ops : Packed(ops[k]) /\ Apart(ops[1], ops[k])

\* The result alone has changed, and what has not been reached has not.
InPlace ==
    ops # <<>> /\ Plain =>
        /\ \A e \in 1..MemSize : from[e] # {e} => e \in Elements(ops[1])
        /\ Name # "sigmoid" =>
              \A n \in 0..Count - 1 :
                  /\ from[ops[1].at + n] \subseteq Positions(ops, n)
                  /\ pc # "idle" /\ n >= i => from[ops[1].at + n] = {ops[1].at + n}

LInv == /\ i \in Nat
        /\ kernel = None => ops = <<>>
        /\ DOMAIN from = 1..MemSize
        /\ LoopCalled
        /\ InPlace

\* Every index below height * width is a row and a column.
LEMMA RowAndColumn ==
    ASSUME NEW h \in Nat, NEW w \in Nat, NEW k \in 0..h * w - 1
    PROVE  \E r \in 0..h - 1, c \in 0..w - 1 : k = r * w + c
<1>1. w # 0
  OBVIOUS
<1> DEFINE r == k \div w
           c == k % w
<1>2. r \in Nat /\ c \in 0..w - 1 /\ k = r * w + c
  <2>1. k \in Nat /\ w \in Nat \ {0}
    BY <1>1
  <2>2. r \in Int /\ c \in 0..w - 1
    BY <2>1
  <2>3. k = w * r + c
    BY <2>1
  <2>4. w * r = r * w
    BY <2>2
  <2>5. r >= 0
    BY <2>1
  <2> QED BY <2>2, <2>3, <2>4, <2>5
<1> HIDE DEF r, c
<1>3. r < h
  <2>1. SUFFICES ASSUME r >= h PROVE FALSE
    BY <1>2
  <2>2. PICK d \in Nat : r = h + d
    <3>1. r - h \in Nat /\ r = h + (r - h)
      BY <1>2, <2>1
    <3> QED BY <3>1
  <2>3. r * w = h * w + d * w
    BY <2>2, Distributes
  <2>4. d * w \in Nat /\ h * w \in Nat
    OBVIOUS
  <2> QED BY <1>2, <2>3, <2>4
<1> QED BY <1>2, <1>3

\* In a matrix without gaps, consecutive elements are elements.
LEMMA PackedElement ==
    ASSUME NEW m \in Matrices, Packed(m), NEW k \in 0..m.height * m.width - 1
    PROVE  m.at + k \in Elements(m) /\ m.at + k \in 1..MemSize
<1>1. m.at \in Nat /\ m.height \in Nat /\ m.width \in Nat /\ m.stride \in Nat
  BY MatrixFacts
<1>2. PICK r \in 0..m.height - 1, c \in 0..m.width - 1 : k = r * m.width + c
  BY <1>1, RowAndColumn
<1>3. r * m.width \in Int /\ r * m.stride = r * m.width
  BY <1>1 DEF Packed
<1>4. m.at + k = m.at + r * m.stride + c
  BY <1>1, <1>2, <1>3
<1>5. m.at + k \in Elements(m)
  BY <1>2, <1>4 DEF Elements
<1> QED BY <1>5, MatricesAssumption

LEMMA OperandFacts ==
    ASSUME LInv, ops # <<>>
    PROVE  /\ 1 \in DOMAIN ops /\ 2 \in DOMAIN ops /\ 1 \in DOMAIN Given
           /\ Given[1] \in Matrices
           /\ \A k \in DOMAIN ops : ops[k] \in Matrices
           /\ AllSameShape => \A k \in DOMAIN ops : SameShape(ops[k], Given[1])
<1>1. CASE \E m, n \in Matrices : Given = <<m, n>> /\ ops = <<n, m>>
  BY <1>1 DEF AllSameShape
<1>2. CASE \E m, n, o \in Matrices : Given = <<m, n, o>> /\ ops = <<m, n, o>>
  BY <1>2 DEF AllSameShape
<1>3. CASE \E m, n \in Matrices : Given = <<m, n>> /\ ops = <<m, n>>
  BY <1>3 DEF AllSameShape
<1> QED BY <1>1, <1>2, <1>3 DEF LInv, LoopCalled, Called

LEMMA CountNat ==
    ASSUME LInv, ops # <<>>
    PROVE  Count \in Nat
<1>1. Given[1].height \in Nat /\ Given[1].width \in Nat
  BY OperandFacts, MatrixFacts
<1> QED BY <1>1 DEF Count, Given

LEMMA OperandElement ==
    ASSUME LInv, ops # <<>>, Plain, NEW k \in DOMAIN ops, NEW n \in 0..Count - 1
    PROVE  ops[k].at + n \in Elements(ops[k]) /\ ops[k].at + n \in 1..MemSize
<1>1. PICK m \in Matrices : m = ops[k]
  BY OperandFacts
<1>2. SameShape(m, Given[1]) /\ Packed(m)
  BY <1>1, OperandFacts DEF Plain
<1>3. n \in 0..m.height * m.width - 1
  BY <1>2 DEF SameShape, Count, Given
<1> QED BY <1>1, <1>2, <1>3, PackedElement

LEMMA CallKept ==
    ASSUME UNCHANGED <<kernel, ops>>
    PROVE  Name' = Name /\ Given' = Given /\ Count' = Count /\ (Plain' <=> Plain)
<1>1. Name' = Name /\ Given' = Given /\ Count' = Count
  BY DEF Name, Given, Count
<1>2. AllSameShape' <=> AllSameShape
  BY <1>1 DEF AllSameShape, SameShape
<1>3. Plain' <=> Plain
  <2>1. PICK o : o = ops
    OBVIOUS
  <2>2. ops' = o
    BY <2>1
  <2>3. Plain <=> AllSameShape /\ \A k \in DOMAIN o : Packed(o[k]) /\ Apart(o[1], o[k])
    BY <2>1 DEF Plain
  <2>4. Plain' <=> AllSameShape' /\ \A k \in DOMAIN o : Packed(o[k]) /\ Apart(o[1], o[k])
    BY <2>2 DEF Plain
  <2> QED BY <1>2, <2>3, <2>4
<1> QED BY <1>1, <1>3

\* One round of a loop whose statement reads no other position of the operands.
LEMMA RoundStep ==
    ASSUME LInv, ops # <<>>, pc # "idle", i < Count, NEW deps,
           from' = IF InMemory(ops[1].at + i) THEN [from EXCEPT ![ops[1].at + i] = deps] ELSE from,
           i' = i + 1, UNCHANGED <<kernel, pc, ops>>,
           Plain /\ Name # "sigmoid" => deps \subseteq Positions(ops, i)
    PROVE  LInv'
<1>1. Name' = Name /\ Given' = Given /\ Count' = Count /\ (Plain' <=> Plain)
  BY CallKept
<1>2. i \in Nat /\ (kernel = None => ops = <<>>) /\ DOMAIN from = 1..MemSize /\ LoopCalled /\ InPlace
  BY DEF LInv
<1>3. i' \in Nat /\ (kernel' = None => ops' = <<>>) /\ DOMAIN from' = 1..MemSize
  BY <1>2
<1>4. LoopCalled'
  BY <1>1, <1>2 DEF LoopCalled, Called
<1>5. InPlace'
  <2> SUFFICES ASSUME Plain
               PROVE  /\ \A e \in 1..MemSize : from'[e] # {e} => e \in Elements(ops[1])
                      /\ Name # "sigmoid" =>
                            \A n \in 0..Count - 1 :
                                /\ from'[ops[1].at + n] \subseteq Positions(ops, n)
                                /\ n >= i + 1 => from'[ops[1].at + n] = {ops[1].at + n}
    <3>1. PICK o, c, j : o = ops /\ c = Count /\ j = i + 1
      OBVIOUS
    <3>2. ops' = o /\ Count' = c /\ i' = j
      BY <1>1, <3>1
    <3>3. ~Plain' => InPlace'
      BY DEF InPlace
    <3>4. (/\ \A e \in 1..MemSize : from'[e] # {e} => e \in Elements(o[1])
           /\ Name' # "sigmoid" =>
                 \A n \in 0..c - 1 :
                     /\ from'[o[1].at + n] \subseteq Positions(o, n)
                     /\ pc' # "idle" /\ n >= j => from'[o[1].at + n] = {o[1].at + n})
          => InPlace'
      BY <3>2 DEF InPlace
    <3> QED BY <1>1, <3>1, <3>3, <3>4
  <2>1. /\ \A e \in 1..MemSize : from[e] # {e} => e \in Elements(ops[1])
        /\ Name # "sigmoid" =>
              \A n \in 0..Count - 1 :
                  /\ from[ops[1].at + n] \subseteq Positions(ops, n)
                  /\ n >= i => from[ops[1].at + n] = {ops[1].at + n}
    BY <1>2 DEF InPlace
  <2>2. 1 \in DOMAIN ops /\ ops[1] \in Matrices /\ Given[1] \in Matrices
    BY OperandFacts
  <2>3. ops[1].at \in Nat /\ Count \in Nat
    BY <2>2, MatrixFacts, CountNat
  <2>4. i \in 0..Count - 1
    BY <1>2, <2>3
  <2>5. ops[1].at + i \in Elements(ops[1]) /\ ops[1].at + i \in 1..MemSize
    BY <2>2, <2>4, OperandElement
  <2>6. from' = [from EXCEPT ![ops[1].at + i] = deps]
    BY <2>5 DEF InMemory
  <2>7. \A e \in 1..MemSize : from'[e] # {e} => e \in Elements(ops[1])
    BY <1>2, <2>1, <2>5, <2>6
  <2>8. ASSUME Name # "sigmoid", NEW n \in 0..Count - 1
        PROVE  /\ from'[ops[1].at + n] \subseteq Positions(ops, n)
               /\ n >= i + 1 => from'[ops[1].at + n] = {ops[1].at + n}
    <3>1. CASE n = i
      <4>1. from'[ops[1].at + i] = deps
        BY <1>2, <2>5, <2>6
      <4>2. ~(i >= i + 1)
        BY <1>2
      <4> QED BY <2>8, <3>1, <4>1, <4>2
    <3>2. CASE n # i
      <4>1. ops[1].at + n # ops[1].at + i
        BY <1>2, <2>3, <3>2
      <4>2. ops[1].at + n \in 1..MemSize
        BY <2>2, OperandElement
      <4>3. from'[ops[1].at + n] = from[ops[1].at + n]
        BY <1>2, <2>6, <4>1, <4>2
      <4>4. n >= i + 1 => n >= i
        BY <1>2
      <4> QED BY <2>1, <2>8, <4>3, <4>4
    <3> QED BY <3>1, <3>2
  <2> QED BY <2>7, <2>8
<1> QED BY <1>3, <1>4, <1>5 DEF LInv

\* What a loop reads of an operand that is in place.
LEMMA SourceInPlace ==
    ASSUME LInv, ops # <<>>, pc # "idle", i < Count, Plain, Name # "sigmoid", NEW k \in {1, 2}
    PROVE  Source(ops[k].at + i) = {ops[k].at + i}
<1>1. i \in Nat /\ DOMAIN from = 1..MemSize /\ InPlace
  BY DEF LInv
<1>2. /\ \A e \in 1..MemSize : from[e] # {e} => e \in Elements(ops[1])
      /\ \A n \in 0..Count - 1 : n >= i => from[ops[1].at + n] = {ops[1].at + n}
  BY <1>1 DEF InPlace
<1>3. /\ 1 \in DOMAIN ops /\ k \in DOMAIN ops /\ Given[1] \in Matrices
      /\ ops[1] \in Matrices /\ ops[k] \in Matrices
  BY OperandFacts
<1>4. Count \in Nat
  BY CountNat
<1>5. i \in 0..Count - 1
  BY <1>1, <1>4
<1>6. ops[k].at + i \in Elements(ops[k]) /\ ops[k].at + i \in 1..MemSize
  BY <1>3, <1>5, OperandElement
<1>7. Source(ops[k].at + i) = from[ops[k].at + i]
  BY <1>6 DEF Source, InMemory
<1>8. Apart(ops[1], ops[k])
  BY <1>3 DEF Plain
<1>9. CASE ops[1] = ops[k]
  <2>1. i >= i
    BY <1>1
  <2> QED BY <1>2, <1>5, <1>7, <1>9, <2>1
<1>10. CASE Elements(ops[1]) \cap Elements(ops[k]) = {}
  BY <1>2, <1>6, <1>7, <1>10
<1> QED BY <1>8, <1>9, <1>10 DEF Apart

LEMMA BeforeCall ==
    ASSUME LInv, ops = <<>>
    PROVE  pc = "idle" /\ from = [e \in 1..MemSize |-> {e}]
<1>1. \A m, n, o : <<m, n>> # <<>> /\ <<m, n, o>> # <<>>
  OBVIOUS
<1> QED BY <1>1 DEF LInv, LoopCalled

LEMMA NoLoopStep ==
    ASSUME LInv, ops = <<>>, UNCHANGED <<from, pc, i, ops>>
    PROVE  LInv'
<1>1. pc = "idle" /\ from = [e \in 1..MemSize |-> {e}] /\ i \in Nat
  BY BeforeCall DEF LInv
<1>2. LoopCalled'
  BY <1>1 DEF LoopCalled
<1>3. InPlace'
  BY DEF InPlace
<1> QED BY <1>1, <1>2, <1>3 DEF LInv

LEMMA LoopCallStep ==
    ASSUME LInv, NEW name \in {"sigmoid", "cross_entropy", "apply_l2"}, NEW given, NEW list,
           Loop(name, given), ops' = list, 1 \in DOMAIN list, list[1] \in Matrices,
           (\A k \in DOMAIN given : SameShape(given[k], given[1])) => SameShape(list[1], given[1]),
           Called(name, given)' => LoopCalled'
    PROVE  LInv'
<1>1. kernel = None /\ ops = <<>> /\ from' = from /\ i' = 0 /\ pc' = name
  BY DEF Loop, LInv
<1>2. from' = [e \in 1..MemSize |-> {e}]
  BY <1>1, BeforeCall
<1>3. kernel'.call = <<name>> /\ kernel'.given = given
  <2>1. PICK misfit : Kernel(<<name>>, given, <<>>, misfit)
    BY DEF Loop
  <2> QED BY <2>1, KernelFacts
<1>4. kernel' # None
  <2>1. None.call = <<"none">>
    BY DEF None
  <2> QED BY <1>3, <2>1
<1>5. LoopCalled'
  BY <1>3 DEF Called, Name, Given
<1>6. ASSUME Plain'
      PROVE  /\ \A e \in 1..MemSize : from'[e] # {e} => e \in Elements(list[1])
             /\ \A n \in 0..Count' - 1 :
                   /\ from'[list[1].at + n] \subseteq Positions(list, n)
                   /\ from'[list[1].at + n] = {list[1].at + n}
  <2>1. PICK r \in Matrices : r = list[1]
    OBVIOUS
  <2>2. SameShape(r, given[1])
    BY <1>3, <1>6, <2>1 DEF Plain, AllSameShape, SameShape, Given
  <2>3. Packed(r)
    BY <1>6, <2>1 DEF Plain, Packed
  <2>4. Count' = r.height * r.width
    BY <1>3, <2>2 DEF Count, SameShape
  <2>5. \A e \in 1..MemSize : from'[e] = {e}
    BY <1>2
  <2>6. ASSUME NEW n \in 0..Count' - 1
        PROVE  /\ from'[r.at + n] \subseteq Positions(list, n)
               /\ from'[r.at + n] = {r.at + n}
    <3>1. r.at + n \in 1..MemSize
      BY <2>3, <2>4, PackedElement
    <3>2. from'[r.at + n] = {r.at + n}
      BY <2>5, <3>1
    <3>3. r.at + n \in Positions(list, n)
      BY <2>1 DEF Positions
    <3> QED BY <3>2, <3>3
  <2> QED BY <2>1, <2>5, <2>6
<1>7. InPlace'
  BY <1>6 DEF InPlace
<1>8. i' \in Nat /\ DOMAIN from' = 1..MemSize
  BY <1>1, <1>2
<1> QED BY <1>4, <1>5, <1>7, <1>8 DEF LInv

LEMMA RoundsStep ==
    ASSUME LInv, Clip \/ Squash \/ CrossEntropy \/ Decay
    PROVE  LInv'
<1>1. pc # "idle" /\ i < Count /\ i' = i + 1 /\ UNCHANGED <<kernel, pc, ops>>
  BY DEF Clip, Squash, CrossEntropy, Decay, Round
<1>2. ops # <<>>
  BY <1>1, BeforeCall
<1>3. 1 \in DOMAIN ops /\ 2 \in DOMAIN ops
  BY <1>2, OperandFacts
<1>4. CASE Clip \/ Squash
  <2>1. PICK deps : from' = IF InMemory(ops[1].at + i) THEN [from EXCEPT ![ops[1].at + i] = deps] ELSE from
    BY <1>4 DEF Clip, Squash, Round, Store
  <2>2. pc \in {"sigmoid", "squash"}
    BY <1>4 DEF Clip, Squash, Round
  <2>3. Name = "sigmoid"
    BY <1>2, <2>2 DEF LInv, LoopCalled, Called
  <2> QED BY <1>1, <1>2, <2>1, <2>3, RoundStep
<1>5. CASE CrossEntropy
  <2>1. PICK deps : deps = Source(ops[2].at + i)
    OBVIOUS
  <2>2. from' = IF InMemory(ops[1].at + i) THEN [from EXCEPT ![ops[1].at + i] = deps] ELSE from
    BY <1>5, <2>1 DEF CrossEntropy, Round, Store
  <2>3. ASSUME Plain, Name # "sigmoid" PROVE deps \subseteq Positions(ops, i)
    <3>1. deps = {ops[2].at + i}
      BY <1>1, <1>2, <2>1, <2>3, SourceInPlace
    <3> QED BY <1>3, <3>1 DEF Positions
  <2> QED BY <1>1, <1>2, <2>2, <2>3, RoundStep
<1>6. CASE Decay
  <2>1. PICK deps : deps = Source(ops[1].at + i) \cup Source(ops[2].at + i)
    OBVIOUS
  <2>2. from' = IF InMemory(ops[1].at + i) THEN [from EXCEPT ![ops[1].at + i] = deps] ELSE from
    BY <1>6, <2>1 DEF Decay, Round, Store
  <2>3. ASSUME Plain, Name # "sigmoid" PROVE deps \subseteq Positions(ops, i)
    <3>1. /\ Source(ops[1].at + i) = {ops[1].at + i}
          /\ Source(ops[2].at + i) = {ops[2].at + i}
      BY <1>1, <1>2, <2>3, SourceInPlace
    <3>2. deps = {ops[1].at + i, ops[2].at + i}
      BY <2>1, <3>1
    <3> QED BY <1>3, <3>2 DEF Positions
  <2> QED BY <1>1, <1>2, <2>2, <2>3, RoundStep
<1> QED BY <1>4, <1>5, <1>6

LEMMA DoneStep ==
    ASSUME LInv, Done
    PROVE  LInv'
<1>1. /\ pc # "idle" /\ i' = 0 /\ UNCHANGED <<kernel, from, ops>>
      /\ pc' = IF pc = "sigmoid" THEN "squash" ELSE "idle"
  BY DEF Done
<1>2. Name' = Name /\ Given' = Given /\ Count' = Count /\ (Plain' <=> Plain)
  BY <1>1, CallKept
<1>3. ops # <<>>
  BY <1>1, BeforeCall
<1>4. LoopCalled /\ InPlace /\ DOMAIN from = 1..MemSize /\ (kernel = None => ops = <<>>)
  BY DEF LInv
<1>5. LoopCalled'
  BY <1>1, <1>2, <1>3, <1>4 DEF LoopCalled, Called
<1>6. pc' = "idle" \/ Name = "sigmoid"
  BY <1>1, <1>3, <1>4 DEF LoopCalled, Called
<1>7. InPlace'
  <2>1. PICK o, c : o = ops /\ c = Count
    OBVIOUS
  <2>2. ops' = o /\ Count' = c /\ from' = from
    BY <1>1, <1>2, <2>1
  <2>3. Plain => /\ \A e \in 1..MemSize : from[e] # {e} => e \in Elements(o[1])
                 /\ Name # "sigmoid" =>
                       \A n \in 0..c - 1 : from[o[1].at + n] \subseteq Positions(o, n)
    BY <1>3, <1>4, <2>1 DEF InPlace
  <2>4. Plain' => /\ \A e \in 1..MemSize : from'[e] # {e} => e \in Elements(o[1])
                  /\ Name' # "sigmoid" =>
                       \A n \in 0..c - 1 : /\ from'[o[1].at + n] \subseteq Positions(o, n)
                                           /\ pc' = "idle"
    BY <1>2, <1>6, <2>2, <2>3
  <2> QED BY <2>2, <2>4 DEF InPlace
<1> QED BY <1>1, <1>4, <1>5, <1>7 DEF LInv

LEMMA LInvStep ==
    ASSUME LInv, [Next]_vars
    PROVE  LInv'
<1>1. CASE \/ Unwritten \/ Unary \/ ZeroAtOffset \/ AddScaled \/ Activation \/ OfOther
           \/ AddAtOffset \/ AddColVector \/ AddRowVector \/ Ternary \/ Quaternary
  <2>1. Idle
    BY <1>1 DEF Unwritten, Unary, ZeroAtOffset, AddScaled, Activation, OfOther, AddAtOffset,
                AddColVector, AddRowVector, Ternary, Quaternary
  <2>2. ops = <<>> /\ UNCHANGED <<from, pc, i, ops>>
    BY <2>1 DEF Idle, LInv
  <2> QED BY <2>2, NoLoopStep
<1>2. CASE CallSigmoid
  <2>1. PICK m \in Matrices, n \in Matrices : Loop("sigmoid", <<m, n>>) /\ ops' = <<n, m>>
    BY <1>2 DEF CallSigmoid
  <2>2. pc' = "sigmoid"
    BY <2>1 DEF Loop
  <2>3. Called("sigmoid", <<m, n>>)' => LoopCalled'
    BY <2>1, <2>2 DEF LoopCalled
  <2> DEFINE given == <<m, n>>
             list == <<n, m>>
  <2>4. /\ 1 \in DOMAIN list /\ list[1] \in Matrices
        /\ (\A k \in DOMAIN given : SameShape(given[k], given[1])) => SameShape(list[1], given[1])
    OBVIOUS
  <2> HIDE DEF given, list
  <2> QED BY <2>1, <2>3, <2>4, LoopCallStep DEF given, list
<1>3. CASE CallCrossEntropy
  <2>1. PICK m \in Matrices, n \in Matrices, o \in Matrices :
          Loop("cross_entropy", <<m, n, o>>) /\ ops' = <<m, n, o>>
    BY <1>3 DEF CallCrossEntropy
  <2>2. pc' = "cross_entropy"
    BY <2>1 DEF Loop
  <2>3. Called("cross_entropy", <<m, n, o>>)' => LoopCalled'
    BY <2>1, <2>2 DEF LoopCalled
  <2> DEFINE given == <<m, n, o>>
             list == <<m, n, o>>
  <2>4. /\ 1 \in DOMAIN list /\ list[1] \in Matrices
        /\ (\A k \in DOMAIN given : SameShape(given[k], given[1])) => SameShape(list[1], given[1])
    BY DEF SameShape
  <2> HIDE DEF given, list
  <2> QED BY <2>1, <2>3, <2>4, LoopCallStep DEF given, list
<1>4. CASE CallApplyL2
  <2>1. PICK m \in Matrices, n \in Matrices : Loop("apply_l2", <<m, n>>) /\ ops' = <<m, n>>
    BY <1>4 DEF CallApplyL2
  <2>2. pc' = "apply_l2"
    BY <2>1 DEF Loop
  <2>3. Called("apply_l2", <<m, n>>)' => LoopCalled'
    BY <2>1, <2>2 DEF LoopCalled
  <2> DEFINE given == <<m, n>>
             list == <<m, n>>
  <2>4. /\ 1 \in DOMAIN list /\ list[1] \in Matrices
        /\ (\A k \in DOMAIN given : SameShape(given[k], given[1])) => SameShape(list[1], given[1])
    BY DEF SameShape
  <2> HIDE DEF given, list
  <2> QED BY <2>1, <2>3, <2>4, LoopCallStep DEF given, list
<1>5. CASE Clip \/ Squash \/ CrossEntropy \/ Decay
  BY <1>5, RoundsStep
<1>6. CASE Done
  BY <1>6, DoneStep
<1>7. CASE UNCHANGED vars
  <2>1. UNCHANGED <<kernel, from, pc, i, ops>>
    BY <1>7 DEF vars
  <2>2. Name' = Name /\ Given' = Given /\ Count' = Count /\ (Plain' <=> Plain)
    BY <2>1, CallKept
  <2>3. LoopCalled /\ InPlace /\ i \in Nat /\ DOMAIN from = 1..MemSize /\ (kernel = None => ops = <<>>)
    BY DEF LInv
  <2>4. LoopCalled'
    BY <2>1, <2>2, <2>3 DEF LoopCalled, Called
  <2>5. InPlace'
    BY <2>1, <2>2, <2>3 DEF InPlace
  <2> QED BY <2>1, <2>3, <2>4, <2>5 DEF LInv
<1> QED BY <1>1, <1>2, <1>3, <1>4, <1>5, <1>6, <1>7 DEF Next

\* The loops of sigmoid, binary_label_cross_entropy and apply_l2, on operands of one
\* shape without gaps that are equal or have no element in common, change nothing
\* but the result, and the last two mix no two positions.
THEOREM LoopsStayInPlaceHolds == Spec => []LoopsStayInPlace
<1>1. Init => LInv
  BY DEF Init, LInv, LoopCalled, InPlace
<1>2. LInv /\ [Next]_vars => LInv'
  BY LInvStep
<1>3. LInv => LoopsStayInPlace
  BY DEF LInv, InPlace, Plain, Positions, LoopsStayInPlace
<1> QED BY <1>1, <1>2, <1>3, PTL DEF Spec
=============================================================================
