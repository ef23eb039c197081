--------------------------------- MODULE Lcg ---------------------------------
(***************************************************************************)
(* The linear congruential generators of week6/multi_process.c (modulo     *)
(* 2^31) and week3/genrand.c (modulo 2^32), at full width.  TLC's integers *)
(* end at 2^31 - 1, so a state is kept as three digits of base 2^11, the   *)
(* least significant first; the last digit is as wide as the modulus       *)
(* leaves it.                                                              *)
(***************************************************************************)
EXTENDS Integers, Sequences

B == 2048

Digits(n) == <<n % B, (n \div B) % B, n \div (B * B)>>

\* a * x + c, with the last digit modulo top.
MulAdd(a, x, c, top) ==
    LET s1 == a[1] * x[1] + c[1]
        s2 == a[1] * x[2] + a[2] * x[1] + c[2] + s1 \div B
        s3 == a[1] * x[3] + a[2] * x[2] + a[3] * x[1] + c[3] + s2 \div B
    IN  <<s1 % B, s2 % B, s3 % top>>

\* x % m for m < 2^20, which never builds the number itself.
Mod(x, m) == (((x[3] * B + x[2]) % m) * B + x[1]) % m

\* multi_process.c: & 0x7fffffff leaves 31 bits, 9 of them in the last digit.
lcg_rand(x) == MulAdd(Digits(1103515245), x, Digits(12345), 512)

\* Reduced to the range from what lcg_rand has just returned.
lcg_rand_range(r, minVal, maxVal) == Mod(r, maxVal - minVal + 1) + minVal

\* MUTANT of lcg: an even increment.
lcg_even(x) == MulAdd(Digits(1664525), x, Digits(1013904222), 1024)

\* genrand.c: unsigned arithmetic leaves 32 bits.
lcg(x) == MulAdd(Digits(1664525), x, Digits(1013904223), 1024)

\* genRand, from what lcg has just returned.
genRand(r, min, max) ==
    LET lo == IF min > max THEN max ELSE min
        hi == IF min > max THEN min ELSE max
    IN  Mod(r, hi - lo + 1) + lo

\* The state after n more calls of Op.
After(Op(_), x, n) ==
    LET at[k \in 0 .. n] == IF k = 0 THEN x ELSE Op(at[k - 1]) IN at[n]
=============================================================================
