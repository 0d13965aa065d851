-------------------------------- MODULE Float --------------------------------
(***************************************************************************)
(* IEEE-754 binary64 values as the fold pass and the program compute them. *)
(* A finite value is an exact rational s * n / d (reduced, with the sign   *)
(* of zero kept); the others are +-infinity and NaN.  Rounding is left     *)
(* out: the folder evaluates the same operation on the same operands as   *)
(* the program does at run time, so both round alike and exact results    *)
(* tell the same values apart.                                            *)
(*                                                                         *)
(* The constant pool and the reference semantics hold a float as an       *)
(* integer code (Enc / Dec), the model's counterpart of the 8 bytes that   *)
(* to_ne_bytes interns; codes are >= 0, -0.0 and +0.0 have distinct codes. *)
(* A value outside the bounds of the code (a large power), or a pow with  *)
(* a non-integral exponent, is the absorbing Opaque value: folding and the *)
(* program then compute the same Opaque, so it is never told apart.       *)
(***************************************************************************)
EXTENDS Integers

NumBound == 2^14    \* numerators and denominators of encodable values

RECURSIVE Gcd(_, _)
Gcd(a, b) == IF b = 0 THEN a ELSE Gcd(b, a % b)

\* x^k, or NumBound when it reaches the bound (then the value is Opaque).
RECURSIVE CapPow(_, _)
CapPow(x, k) == CASE k = 0 -> 1
                  [] x < 2 -> x
                  [] k >= 14 -> NumBound
                  [] OTHER -> LET r == CapPow(x, k - 1)
                              IN IF r * x >= NumBound THEN NumBound ELSE r * x

Fin(s, n, d) == LET g == Gcd(n, d) IN [t |-> "fin", s |-> s, n |-> n \div g, d |-> d \div g]
Inf(s)  == [t |-> "inf", s |-> s, n |-> 0, d |-> 1]
NaN     == [t |-> "nan", s |-> 1, n |-> 0, d |-> 1]
Opaque  == [t |-> "opq", s |-> 1, n |-> 0, d |-> 1]
Zero(s) == Fin(s, 0, 1)
One     == Fin(1, 1, 1)

\* i as f64 (exact for the magnitudes of the model)
FromInt(i) == Fin(IF i < 0 THEN -1 ELSE 1, IF i < 0 THEN -i ELSE i, 1)

IsZero(f) == f.t = "fin" /\ f.n = 0
IsInt(f)  == f.t = "fin" /\ f.d = 1
IsOdd(f)  == IsInt(f) /\ f.n % 2 = 1
Neg(f)    == IF f.t = "nan" THEN f ELSE [f EXCEPT !.s = -f.s]
\* |f| < 1 for a finite f
Below1(f) == f.t = "fin" /\ f.n < f.d

Enc(f) == CASE f.t = "fin" /\ f.n < NumBound /\ f.d < NumBound ->
                 4 * (f.n * NumBound + f.d) + (IF f.s = 1 THEN 0 ELSE 1)
            [] f.t = "inf" -> 4 * (IF f.s = 1 THEN 0 ELSE 1) + 2
            [] f.t = "nan" -> 4 * 2 + 2
            [] OTHER -> 3
Dec(c) == LET tag == c % 4
              q   == c \div 4
          IN CASE tag \in {0, 1} -> [t |-> "fin", s |-> IF tag = 0 THEN 1 ELSE -1,
                                     n |-> q \div NumBound, d |-> q % NumBound]
               [] tag = 2 /\ q < 2 -> Inf(IF q = 0 THEN 1 ELSE -1)
               [] tag = 2 -> NaN
               [] OTHER -> Opaque

(* Round-to-nearest addition: a zero sum is +0 unless both terms are -0. *)
FAdd(a, b) ==
  CASE a.t = "opq" \/ b.t = "opq" -> Opaque
    [] a.t = "nan" \/ b.t = "nan" -> NaN
    [] a.t = "inf" /\ b.t = "inf" -> IF a.s = b.s THEN a ELSE NaN
    [] a.t = "inf" -> a
    [] b.t = "inf" -> b
    [] OTHER ->
         LET num == a.s * a.n * b.d + b.s * b.n * a.d
         IN IF num = 0 THEN Zero(IF a.s = -1 /\ b.s = -1 THEN -1 ELSE 1)
            ELSE Fin(IF num < 0 THEN -1 ELSE 1, IF num < 0 THEN -num ELSE num, a.d * b.d)

FSub(a, b) == FAdd(a, Neg(b))

FMul(a, b) ==
  CASE a.t = "opq" \/ b.t = "opq" -> Opaque
    [] a.t = "nan" \/ b.t = "nan" -> NaN
    [] (a.t = "inf" /\ IsZero(b)) \/ (IsZero(a) /\ b.t = "inf") -> NaN
    [] a.t = "inf" \/ b.t = "inf" -> Inf(a.s * b.s)
    [] OTHER -> Fin(a.s * b.s, a.n * b.n, a.d * b.d)

FDiv(a, b) ==
  CASE a.t = "opq" \/ b.t = "opq" -> Opaque
    [] a.t = "nan" \/ b.t = "nan" -> NaN
    [] (a.t = "inf" /\ b.t = "inf") \/ (IsZero(a) /\ IsZero(b)) -> NaN
    [] a.t = "inf" \/ IsZero(b) -> Inf(a.s * b.s)
    [] b.t = "inf" -> Zero(a.s * b.s)
    [] OTHER -> Fin(a.s * b.s, a.n * b.d, a.d * b.n)

(* f64::powf, following the special cases of C pow. *)
FPow(a, b) ==
  CASE a.t = "opq" \/ b.t = "opq" -> Opaque
    [] IsZero(b) \/ a = One -> One
    [] a.t = "nan" \/ b.t = "nan" -> NaN
    [] b.t = "inf" ->
         CASE a = Neg(One) -> One
           [] Below1(a) -> IF b.s = 1 THEN Zero(1) ELSE Inf(1)
           [] OTHER -> IF b.s = 1 THEN Inf(1) ELSE Zero(1)
    [] a.t = "inf" ->
         LET s == IF a.s = -1 /\ IsOdd(b) THEN -1 ELSE 1
         IN IF b.s = 1 THEN Inf(s) ELSE Zero(s)
    [] IsZero(a) ->
         LET s == IF IsOdd(b) THEN a.s ELSE 1
         IN IF b.s = 1 THEN Zero(s) ELSE Inf(s)
    [] ~IsInt(b) -> IF a.s = -1 THEN NaN ELSE Opaque
    [] OTHER ->
         LET s == IF a.s = -1 /\ IsOdd(b) THEN -1 ELSE 1
             n == CapPow(a.n, b.n)
             d == CapPow(a.d, b.n)
         IN CASE n >= NumBound \/ d >= NumBound -> Opaque
              [] b.s = 1 -> Fin(s, n, d)
              [] OTHER -> Fin(s, d, n)
=============================================================================
