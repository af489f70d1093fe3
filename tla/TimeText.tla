------------------------------ MODULE TimeText ------------------------------
(***************************************************************************)
(* The fraction of a second as time.RFC3339Nano writes it, and the order   *)
(* in which a database column of such text sorts.                          *)
(*                                                                         *)
(* The format writes a point and the digits of the fraction without the    *)
(* trailing zeros, nothing at all when the fraction is zero, and then Z.   *)
(* A point sorts before the digits and the digits before Z, so that "5.1Z" *)
(* sorts after "5.15Z" and "5Z" after both.                                *)
(***************************************************************************)
EXTENDS Integers, Sequences, FiniteSetsExt

\* Character codes in their order: point, the digits, Z.
Point == 0
DigitCode(d) == d + 1
Zulu(base) == base + 1

\* The fraction f / base^n in n digits.
Digits(f, base, n) == [i \in 1 .. n |-> (f \div base ^ (n - i)) % base]

\* The digits that are written: up to the last one that is not zero.
Kept(digits) == Max({0} \cup {i \in DOMAIN digits : digits[i] # 0})

FractionText(f, base, n) ==
    LET digits == Digits(f, base, n)
        kept == Kept(digits)
        codes == [i \in 1 .. kept |-> DigitCode(digits[i])]
    IN  (IF kept = 0 THEN << >> ELSE <<Point>> \o codes) \o <<Zulu(base)>>

\* Text order; no fraction's text is the beginning of another's.
TextLess(a, b) ==
    \E i \in DOMAIN a \cap DOMAIN b :
        /\ a[i] < b[i]
        /\ \A k \in 1 .. i - 1 : a[k] = b[k]

\* The place of every fraction in text order.
TextRank(base, n) ==
    [f \in 0 .. base ^ n - 1 |->
        Cardinality({g \in 0 .. base ^ n - 1 :
            TextLess(FractionText(g, base, n), FractionText(f, base, n))})]
=============================================================================
