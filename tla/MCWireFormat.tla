---------------------------- MODULE MCWireFormat -----------------------------
(***************************************************************************)
(* Instances of WireFormat for TLC.                                        *)
(***************************************************************************)
EXTENDS WireFormat

\* Zero, the largest integer that cjson keeps, the next, and the largest int64.
EdgeNumbers == {0, MaxExact, MaxExact + 1, MaxInt}

Fraction(num, den) == [num |-> num, den |-> den]

\* The numbers of at most three significant binary digits, which stand for the
\* fourteen decimal ones, as far as the other constants reach.
ThreeDigits ==
    {Whole(n * 2 ^ e) : n \in 0..7, e \in 0..5}
        \cup UNION {{Fraction(n, den) : n \in {1, 3, 5, 7}} : den \in {2, 4, 8}}

\* A float that is integral, one that is not, and one of too many digits.
EdgeFloats == {Whole(2), Fraction(3, 2), Fraction(19, 16)}

\* Zero; less and more than one; one of too many digits, which cjson makes an
\* integer; one whose products leave int64, and one whose powers leave double.
EdgeMultipliers ==
    {Whole(0), Fraction(7, 8), Fraction(3, 2), Fraction(17, 16),
     Whole(14), Whole(24)}

=============================================================================
