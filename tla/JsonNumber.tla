----------------------------- MODULE JsonNumber -----------------------------
(***************************************************************************)
(* How the JSON reader turns the characters of a number into a value       *)
(* (GenericReader::ParseNumber) and what the document says of that value   *)
(* (the number constructors of GenericValue, IsInt64, GetInt64, ...),      *)
(* which is what Config::is_int64 and get_int64 answer.                    *)
(*                                                                         *)
(* The parser accumulates digits in a 32-bit integer, moves to 64 bits     *)
(* and then to a double when the next digit would overflow, keeps the      *)
(* fraction's digits while they are significant, and caps the exponent.    *)
(* All of this is a matter of thresholds, and every threshold is a         *)
(* constant here so that TLC reaches it: W32 and W64 are the widths of     *)
(* unsigned and uint64_t, WExp that of the exponent's int.  The value of   *)
(* a double is kept as the exact significand and the power of ten, before  *)
(* the rounding of the multiplication by Pow10.                            *)
(***************************************************************************)
EXTENDS Integers, Sequences

CONSTANTS
    Digits,     \* the digits a text may hold
    MaxInt,     \* bound on the digits before the point
    MaxFrac,    \* bound on the digits of the fraction
    MaxExp,     \* bound on the digits of the exponent
    W32, W64,   \* widths of unsigned and of uint64_t
    WExp,       \* width of int, which holds the exponent
    Fast,       \* 2^53 - 1: significands below it take the fast path
    SigMax,     \* 17: significant digits that are kept
    DblLimit,   \* DBL_MAX / 10
    MaxPow      \* 308: the largest argument of Pow10

\* The relations between the thresholds that the real ones satisfy
ConstantsOK ==
    /\ Digits \subseteq 0 .. 9
    /\ W32 \in Nat /\ W64 \in Nat /\ WExp \in Nat
    /\ 2^(W32 - 1) >= 10 /\ 10 * 2^W32 < 2^W64
    /\ Fast \in Nat /\ 10 * Fast + 9 < 2^W64
    /\ DblLimit >= 2^W64 /\ MaxPow >= 9
    /\ SigMax \in Nat \ {0} /\ 10^SigMax <= 2^(W64 - 1) \div 10
    /\ 2^(WExp - 1) > 100

VARIABLES
    phase,      \* the part of the number that is being read
    minus, i, i64, use64bit, useDouble, d, significandDigit,
    expFrac, expMinus, exp,
    result,     \* the handler call, or the error
    g           \* ghost: the digits read, exactly

vars == <<phase, minus, i, i64, use64bit, useDouble, d, significandDigit, expFrac,
          expMinus, exp, result, g>>

NoResult == [kind |-> "None"]
Error(code) == [kind |-> "Error", code |-> code]

Init == /\ phase = "begin" /\ minus = FALSE /\ i = 0 /\ i64 = 0
        /\ use64bit = FALSE /\ useDouble = FALSE /\ d = 0 /\ significandDigit = 0
        /\ expFrac = 0 /\ expMinus = FALSE /\ exp = 0 /\ result = NoResult
        /\ g = [int |-> 0, nint |-> 0, frac |-> 0, nfrac |-> 0, exp |-> 0, nexp |-> 0]

GhostDigit(part, npart, c) == g' = [g EXCEPT ![part] = 10 * @ + c, ![npart] = @ + 1]
-----------------------------------------------------------------------------
(* Sign and integer part *)

Minus == /\ phase = "begin" /\ phase' = "first" /\ minus' = TRUE
         /\ UNCHANGED <<i, i64, use64bit, useDouble, d, significandDigit, expFrac,
                        expMinus, exp, result, g>>

\* A leading zero is the whole integer part
FirstDigit(c) ==
    /\ phase \in {"begin", "first"}
    /\ i' = c /\ phase' = IF c = 0 THEN "zero" ELSE "int"
    /\ GhostDigit("int", "nint", c)
    /\ UNCHANGED <<minus, i64, use64bit, useDouble, d, significandDigit, expFrac,
                   expMinus, exp, result>>

\* The largest magnitude of a w-bit number: 2^(w-1) with a sign, 2^w - 1 without
Limit(w) == IF minus THEN 2^(w - 1) ELSE 2^w - 1
\* v can take one more digit: v < limit / 10, or equal and the digit fits
Fits(v, c, w) == ~(v >= Limit(w) \div 10 /\ (v # Limit(w) \div 10 \/ c > Limit(w) % 10))

IntDigit32(c) ==
    /\ phase = "int" /\ Fits(i, c, W32)
    /\ i' = (10 * i + c) % 2^W32 /\ significandDigit' = significandDigit + 1
    /\ GhostDigit("int", "nint", c)
    /\ UNCHANGED <<phase, minus, i64, use64bit, useDouble, d, expFrac, expMinus, exp, result>>

\* The digit does not fit 32 bits, or 64 bits are in use already
IntDigit64(c) ==
    LET v == IF use64bit THEN i64 ELSE i
    IN  /\ \/ phase = "int" /\ ~Fits(i, c, W32)
           \/ phase = "int64"
        /\ Fits(v, c, W64)
        /\ i64' = (10 * v + c) % 2^W64 /\ use64bit' = TRUE /\ phase' = "int64"
        /\ significandDigit' = significandDigit + 1
        /\ GhostDigit("int", "nint", c)
        /\ UNCHANGED <<minus, i, useDouble, d, expFrac, expMinus, exp, result>>

\* One more digit would take the double past DBL_MAX
TooBig(v) == v >= DblLimit

\* Nor 64 bits: the rest of the integer is accumulated in a double
IntDigitBig(c) ==
    LET v == IF phase = "big" THEN d ELSE i64
    IN  /\ \/ phase = "int64" /\ ~Fits(i64, c, W64)
           \/ phase = "big"
        /\ useDouble' = TRUE
        /\ IF TooBig(v)
           THEN phase' = "done" /\ result' = Error("NumberTooBig") /\ UNCHANGED <<d, g>>
           ELSE /\ d' = 10 * v + c /\ phase' = "big" /\ UNCHANGED result
                /\ GhostDigit("int", "nint", c)
        /\ UNCHANGED <<minus, i, i64, use64bit, significandDigit, expFrac, expMinus, exp>>
-----------------------------------------------------------------------------
(* Fraction *)

AfterInt == {"zero", "int", "int64", "big"}

\* The point: the significand moves to i64 unless it is a double already
Point ==
    /\ phase \in AfterInt /\ phase' = "point"
    /\ i64' = IF useDouble \/ use64bit THEN i64 ELSE i
    /\ UNCHANGED <<minus, i, use64bit, useDouble, d, significandDigit, expFrac, expMinus,
                   exp, result, g>>

\* The fast loop: digits go to i64 while it is at most Fast
FracFast(c) ==
    /\ \/ phase = "point" /\ ~useDouble
       \/ phase = "fracfast"
    /\ i64 <= Fast
    /\ i64' = (10 * i64 + c) % 2^W64 /\ expFrac' = expFrac - 1
    /\ significandDigit' = IF i64' # 0 THEN significandDigit + 1 ELSE significandDigit
    /\ phase' = "fracfast"
    /\ GhostDigit("frac", "nfrac", c)
    /\ UNCHANGED <<minus, i, use64bit, useDouble, d, expMinus, exp, result>>

\* A digit of the slow loop: kept while fewer than SigMax are significant
KeepDigit(c, v, sig) ==
    IF sig < SigMax
    THEN [d |-> 10 * v + c, expFrac |-> expFrac - 1,
          sig |-> IF 10 * v + c > 0 THEN sig + 1 ELSE sig]
    ELSE [d |-> v, expFrac |-> expFrac, sig |-> sig]

FracSlow(c) ==
    LET v == IF useDouble THEN d ELSE i64
        k == KeepDigit(c, v, significandDigit)
    IN  /\ \/ phase = "point" /\ useDouble
           \/ phase \in {"point", "fracfast"} /\ ~useDouble /\ i64 > Fast
           \/ phase = "fracslow"
        /\ d' = k.d /\ expFrac' = k.expFrac /\ significandDigit' = k.sig
        /\ useDouble' = TRUE /\ phase' = "fracslow"
        /\ GhostDigit("frac", "nfrac", c)
        /\ UNCHANGED <<minus, i, i64, use64bit, expMinus, exp, result>>
-----------------------------------------------------------------------------
(* Exponent *)

\* The significand when the digits end: the fraction's fast loop and the
\* exponent make it a double
Significand == CASE useDouble            -> d
                 [] phase = "fracfast"   -> i64
                 [] use64bit             -> i64
                 [] OTHER                -> i

E == /\ phase \in AfterInt \cup {"fracfast", "fracslow"} /\ phase' = "e"
     /\ d' = Significand /\ useDouble' = TRUE
     /\ UNCHANGED <<minus, i, i64, use64bit, significandDigit, expFrac, expMinus, exp, result, g>>

ExpSign(neg) ==
    /\ phase = "e" /\ phase' = "esign" /\ expMinus' = neg
    /\ UNCHANGED <<minus, i, i64, use64bit, useDouble, d, significandDigit, expFrac, exp,
                   result, g>>

ExpFirst(c) ==
    /\ phase \in {"e", "esign"} /\ phase' = "exp" /\ exp' = c
    /\ GhostDigit("exp", "nexp", c)
    /\ UNCHANGED <<minus, i, i64, use64bit, useDouble, d, significandDigit, expFrac,
                   expMinus, result>>

\* A negative exponent: once it reaches the cap, the other digits are dropped
ExpDigitMinus(c) ==
    /\ phase \in {"exp", "drain"} /\ expMinus
    /\ IF phase = "drain" THEN UNCHANGED <<exp, phase>>
       ELSE /\ exp' = 10 * exp + c
            /\ phase' = IF exp' >= 2^(WExp - 1) \div 10 THEN "drain" ELSE "exp"
    /\ GhostDigit("exp", "nexp", c)
    /\ UNCHANGED <<minus, i, i64, use64bit, useDouble, d, significandDigit, expFrac,
                   expMinus, result>>

\* maxExp
MaxExponent == MaxPow - expFrac

ExpDigitPlus(c) ==
    /\ phase = "exp" /\ ~expMinus
    /\ exp' = 10 * exp + c
    /\ GhostDigit("exp", "nexp", c)
    /\ IF exp' > MaxExponent
       THEN phase' = "done" /\ result' = Error("NumberTooBig")
       ELSE UNCHANGED <<phase, result>>
    /\ UNCHANGED <<minus, i, i64, use64bit, useDouble, d, significandDigit, expFrac, expMinus>>
-----------------------------------------------------------------------------
(* The end of the number: any other character *)

Signed(v, w) == IF v % 2^w >= 2^(w - 1) THEN (v % 2^w) - 2^w ELSE v % 2^w

\* ~v + 1 as a signed number for a negative text
Magnitude(v, w) == IF minus THEN Signed(2^w - v, w) ELSE v

\* p, the power of ten: an int, which wraps around where the sum overflows
Power == Signed((IF expMinus THEN -exp ELSE exp) + expFrac, WExp)

Finish ==
    /\ phase # "done" /\ phase' = "done"
    /\ result' =
         CASE phase \in {"begin", "first"} -> Error("ValueInvalid")
           [] phase = "point" -> Error("NumberMissFraction")
           [] phase \in {"e", "esign"} -> Error("NumberMissExponent")
           [] phase \in {"fracfast", "fracslow", "exp", "drain", "big"} ->
                [kind |-> "Double", d |-> Significand, p |-> Power]
           [] phase = "int64" -> [kind |-> IF minus THEN "Int64" ELSE "Uint64",
                                  v |-> Magnitude(i64, W64)]
           [] OTHER -> [kind |-> IF minus THEN "Int" ELSE "Uint", v |-> Magnitude(i, W32)]
    /\ UNCHANGED <<minus, i, i64, use64bit, useDouble, d, significandDigit, expFrac,
                   expMinus, exp, g>>

Next == \/ Minus \/ Point \/ E \/ Finish
        \/ \E neg \in BOOLEAN : ExpSign(neg)
        \/ \E c \in Digits :
              \/ g.nint < MaxInt /\ (FirstDigit(c) \/ IntDigit32(c) \/ IntDigit64(c)
                                       \/ IntDigitBig(c))
              \/ g.nfrac < MaxFrac /\ (FracFast(c) \/ FracSlow(c))
              \/ g.nexp < MaxExp /\ (ExpFirst(c) \/ ExpDigitMinus(c) \/ ExpDigitPlus(c))

Spec == Init /\ [][Next]_vars
-----------------------------------------------------------------------------
(* The value the document stores *)

\* u & mask = 0 for the masks of the high bits: u < 2^bits
Below(v, bits) == v >= 0 /\ v < 2^bits

\* GenericValue(int), (unsigned), (int64_t), (uint64_t): the type flags
IntFlags(v)    == {"Int", "Int64"} \cup (IF v >= 0 THEN {"Uint", "Uint64"} ELSE {})
UintFlags(v)   == {"Uint", "Uint64", "Int64"} \cup (IF Below(v, W32 - 1) THEN {"Int"} ELSE {})
Int64Flags(v)  ==
    {"Int64"} \cup (IF v >= 0 THEN {"Uint64"} ELSE {})
      \cup (IF Below(v, W32) THEN {"Uint"} ELSE {})
      \cup (IF Below(v, W32 - 1) \/ (v < 0 /\ v >= -2^(W32 - 1)) THEN {"Int"} ELSE {})
\* Mutant: a value is taken for a signed one if its low half is.
Uint64Flags_LowBit(v) ==
    {"Uint64"} \cup (IF Below(v % 2^W32, W64 - 1) THEN {"Int64"} ELSE {})
      \cup (IF Below(v, W32) THEN {"Uint"} ELSE {})
      \cup (IF Below(v, W32 - 1) THEN {"Int"} ELSE {})
Uint64Flags(v) ==
    {"Uint64"} \cup (IF Below(v, W64 - 1) THEN {"Int64"} ELSE {})
      \cup (IF Below(v, W32) THEN {"Uint"} ELSE {})
      \cup (IF Below(v, W32 - 1) THEN {"Int"} ELSE {})

\* GenericDocument's handler: the value pushed for the handler call
Flags(r) == CASE r.kind = "Int"    -> IntFlags(r.v)
              [] r.kind = "Uint"   -> UintFlags(r.v)
              [] r.kind = "Int64"  -> Int64Flags(r.v)
              [] r.kind = "Uint64" -> Uint64Flags(r.v)
              [] OTHER             -> {"Double"}

\* GenericValue::Accept: the handler call the stored number is printed with
AcceptKind(r) == CASE "Int" \in Flags(r)    -> "Int"
                   [] "Uint" \in Flags(r)   -> "Uint"
                   [] "Int64" \in Flags(r)  -> "Int64"
                   [] "Uint64" \in Flags(r) -> "Uint64"
                   [] OTHER                 -> "Double"
-----------------------------------------------------------------------------
(* Properties *)

\* The integers keep their width, and the double is at most DBL_MAX.
TypeOK ==
    /\ phase \in AfterInt \cup {"begin", "first", "point", "fracfast", "fracslow",
                                "e", "esign", "exp", "drain", "done"}
    /\ i \in 0 .. 2^W32 - 1 /\ i64 \in 0 .. 2^W64 - 1
    /\ d \in 0 .. 10 * DblLimit + 9 /\ expFrac \in Int /\ exp \in Nat
    /\ {minus, use64bit, useDouble, expMinus} \subseteq BOOLEAN

Integral == phase = "done" /\ g.nint > 0 /\ g.nfrac = 0 /\ g.nexp = 0
                /\ result.kind # "Error"
Exact == IF minus THEN -g.int ELSE g.int
Range(lo, hi) == lo <= Exact /\ Exact <= hi

\* The digit-by-digit overflow tests of ParseNumber are exact at every
\* boundary: an integer text is reported with its own value, in the
\* narrowest of the types its sign allows, and becomes a double only when
\* 64 bits do not hold it - and then without losing a digit.
IntegersExact ==
    Integral =>
        /\ result.kind # "Double" => result.v = Exact
        /\ result.kind = "Int"    => minus /\ Range(-2^(W32 - 1), 0)
        /\ result.kind = "Uint"   => ~minus /\ Range(0, 2^W32 - 1)
        /\ result.kind = "Int64"  => minus /\ Range(-2^(W64 - 1), -2^(W32 - 1) - 1)
        /\ result.kind = "Uint64" => ~minus /\ Range(2^W32, 2^W64 - 1)
        /\ result.kind = "Double" => /\ result.d = g.int
                                     /\ ~Range(-2^(W64 - 1), 2^W64 - 1)

\* Config::is_int64 and is_uint64 hold exactly for the integers those types
\* hold, whichever constructor stored them, and a number is printed from a
\* type that holds it: a configured size above 2^63 is not a negative one.
FlagsExact ==
    Integral /\ result.kind # "Double" =>
        /\ "Int64" \in Flags(result) <=> Range(-2^(W64 - 1), 2^(W64 - 1) - 1)
        /\ "Uint64" \in Flags(result) <=> Range(0, 2^W64 - 1)
        /\ AcceptKind(result) = "Int"  => Range(-2^(W32 - 1), 2^(W32 - 1) - 1)
        /\ AcceptKind(result) = "Uint" => Range(0, 2^W32 - 1)

\* A fraction is cut, never shifted: the significand that is kept is the
\* number's leading digits, the power of ten counts exactly the fraction's
\* digits among them, and digits are dropped only behind SigMax
\* significant ones.
FractionTruncated ==
    phase = "done" /\ result.kind = "Double" =>
        LET kept == -expFrac
            all  == g.int * 10^g.nfrac + g.frac
        IN  /\ 0 <= kept /\ kept <= g.nfrac
            /\ result.d = all \div 10^(g.nfrac - kept)
            /\ kept < g.nfrac => result.d >= 10^(SigMax - 1)

\* Pow10 asserts 0 <= n <= 308.  StrtodNormalPrecision calls it with p, or
\* with -308 and p + 308; a p below -2 * 308 gives 0 without a call.  The power
\* is in the table and is the one the text says, or both give 0, the digits that
\* the cap on a negative exponent drops included.  The cap does not leave room
\* for the fraction: with an exponent just below the least int and enough
\* digits behind the point their sum overflows, and p may be anything.
PowerInTable ==
    phase = "done" /\ result.kind = "Double" =>
        LET said == (IF expMinus THEN -g.exp ELSE g.exp) + expFrac
        IN  \/ /\ result.p <= MaxPow
               /\ result.p = said \/ (result.p < -2 * MaxPow /\ said < -2 * MaxPow)
            \/ expMinus /\ expFrac - exp < -2^(WExp - 1)
=============================================================================
