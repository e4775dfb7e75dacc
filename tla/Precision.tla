----------------------------- MODULE Precision ------------------------------
(***************************************************************************)
(* papryka/detail/precision.h for size_t.  round_ multiplies by a power of  *)
(* ten in the arithmetic of size_t and rounds with std::floor, which takes  *)
(* and answers a double: the product is converted to a double and back, and *)
(* then divided.                                                           *)
(*                                                                         *)
(* Every integer up to Exact is a double.  Beyond, up to twice, four times, *)
(* ... as much, doubles are 2, 4, ... apart, and a conversion takes the     *)
(* nearest, of two that are equally near the even one.  For a size_t of 64  *)
(* bits and doubles of IEEE 754, Word is 2^64, Exact 2^53, and Spacings are *)
(* the powers of two up to 2^11.                                           *)
(***************************************************************************)
EXTENDS Integers, FiniteSetsExt

CONSTANTS
    Word,         \* size_t arithmetic is modulo Word
    Scale,        \* pow(10, precision)
    Exact,
    Spacings,
    Casts         \* what the target may do with doubles that are no size_t

ASSUME PrecisionAssumption ==
    /\ Word \in Nat \ {0} /\ Scale \in Nat \ {0} /\ Exact \in 1 .. Word - 1
    /\ Spacings \subseteq Nat \ {0} /\ 1 \in Spacings
    /\ \E s \in Spacings : Word <= Exact * s
    /\ Casts \subseteq {"wraps", "saturates"} /\ Casts # {}

\* How far the doubles next to a size_t are apart.
Spacing(n) == Min({s \in Spacings : n <= Exact * s})

\* A size_t converted to a double.
Double(n) ==
    LET s == Spacing(n)
        over == n % s
        below == n - over
        nearBelow == 2 * over < s \/ (2 * over = s /\ (n \div s) % 2 = 0)
    IN  IF nearBelow THEN below ELSE below + s

(***************************************************************************)
(* An integral double converted to size_t.  C++ does not define what a      *)
(* negative one becomes, or one too large: code for x86-64 wraps it, other  *)
(* targets, and compilers that fold constants, saturate.                   *)
(***************************************************************************)
ToSize(x, cast) ==
    IF x \in 0 .. Word - 1 THEN x
    ELSE IF cast = "wraps" THEN x % Word
    ELSE IF x < 0 THEN 0 ELSE Word - 1

\* Slip: rounds to Scale instead of 1 / Scale.
RoundWord_Coarse(n, cast) == ((n % Word) \div Scale) * Scale

\* Slip: a signed count.
RoundWord_Signed(n, cast) ==
    IF n % Word < Word \div 2 THEN n % Word ELSE (n % Word) - Word

\* precision_.round on size_t.
RoundWord(n, cast) == ToSize(Double(((n % Word) * Scale) % Word), cast) \div Scale
=============================================================================
