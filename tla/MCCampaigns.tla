---------------------------- MODULE MCCampaigns ------------------------------
(* Values for the constants of Campaigns: two or three people, one of them in *)
(* a country that is not allowed, at prices that make a quote round up.       *)
EXTENDS Campaigns, TLC

CONSTANTS a, b, x, p1, p2

Symmetry == Permutations(Procs)

PriceOf(p) == IF p = a THEN 2 ELSE 3

SmallAudiences == {<<>>, <<a>>, <<a, b>>}
ForeignAudiences == {<<>>, <<a, x>>, <<x, a, b>>}

\* Allowed countries at their rates; the others are not charged.
CostOf(members) ==
    LET prices == [i \in DOMAIN members |->
                      IF members[i] \in Allowed THEN PriceOf(members[i]) ELSE 0]
        sum[n \in 0..Len(members)] == IF n = 0 THEN 0 ELSE sum[n - 1] + prices[n]
    IN sum[Len(members)]

Costs == [members \in Audiences |-> CostOf(members)]

=============================================================================
