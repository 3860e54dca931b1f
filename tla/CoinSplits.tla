----------------------------- MODULE CoinSplits -----------------------------
(***************************************************************************)
(* The distribution a caller hands to settle or refund: a list of          *)
(* (recipient, amount) pairs.  Recipients are ids: users, resident purses  *)
(* ("treasury:<slug>"), the sink, or an id no row has.                     *)
(***************************************************************************)
EXTENDS Integers, Sequences, Functions

\* The coins a distribution gives out.
Total(splits) == SumFunction([i \in DOMAIN splits |-> splits[i].amt])

Recipients(splits) == {splits[i].to : i \in DOMAIN splits}

\* What validate_distribution accepts: a non-empty list of positive amounts
\* to distinct recipients that gives out exactly the amount held.
ValidDistribution(splits, amount) ==
    /\ splits # <<>>
    /\ \A i \in DOMAIN splits : splits[i].amt > 0
    /\ \A i, j \in DOMAIN splits : splits[i].to = splits[j].to => i = j
    /\ Total(splits) = amount

\* The coins a validated distribution gives to one recipient.
Share(splits, r) ==
    IF r \in Recipients(splits)
    THEN splits[CHOOSE i \in DOMAIN splits : splits[i].to = r].amt
    ELSE 0
=============================================================================
