---------------------------- MODULE MCPercentiles ----------------------------
(* Ensembles of up to fifty-one members on two points.                         *)
EXTENDS Percentiles

CONSTANTS Sizes, Factors

\* Rising, falling and shuffled values, with and without equal ones.
MCBaseData ==
    {[m \in 1..n |-> [g \in Points |-> (a * m + g * m * m) % 7]] :
        n \in Sizes, a \in Factors}

\* The first member alone, or the mean of the first two.
MCMiddles == {<<1, 1>>, <<1, 2>>}

=============================================================================
