----------------------------- MODULE StringUtils -----------------------------
(***************************************************************************)
(* utils/StringUtils: pure functions.  A string is a sequence of tokens, a *)
(* token being a character or a word that nothing takes apart.             *)
(***************************************************************************)
EXTENDS Integers, SequencesExt

CONSTANTS Numeral,   \* words that are numbers: the number each of them denotes
          Width      \* bits of the integer types

ASSUME NumeralAssumption == \A word \in DOMAIN Numeral : Numeral[word] \in Int
ASSUME WidthAssumption == \A type \in {"int32", "int64", "uint64"} : Width[type] \in Nat \ {0}

IsSequence(s) == s \in Seq(Range(s))

StartsWith(str, prefix) == IsPrefix(prefix, str)

\* The pieces between separators, of which only the last is dropped when it is empty.
Split(str, sep) ==
    LET stops == {i \in DOMAIN str : str[i] = sep} \cup {Len(str) + 1}
        start(stop) == Max({i \in stops \cup {0} : i < stop}) + 1
        pieces == [k \in 1..Cardinality(stops) |->
                      LET stop == SetToSortSeq(stops, <)[k]
                      IN  SubSeq(str, start(stop), stop - 1)]
    IN  IF Last(pieces) = <<>> THEN Front(pieces) ELSE pieces

\* to_with_status: the value, none if the stream fails or does not come to its end.  A
\* number that does not fit fails, but an unsigned one may have a sign, and wraps.
ToWithStatus(type, str) ==
    LET numbers == {Numeral[word] : word \in {w \in DOMAIN Numeral : str = <<w>>}}
        bound == 2^(Width[type] - 1)
    IN  IF type = "uint64" THEN {n % (2 * bound) : n \in {m \in numbers : m \in -2 * bound + 1..2 * bound - 1}}
        ELSE {n \in numbers : n \in -bound..bound - 1}
=============================================================================
