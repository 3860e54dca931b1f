--------------------------- MODULE MCCoinService ---------------------------
(* Instances of CoinService for TLC: two users, two purses, two sessions.  *)
EXTENDS CoinService, TLC

CONSTANTS s1, s2

Sessions12 == {s1, s2}
SessionSymmetry == Permutations(Sessions12)

Split(r, a) == [to |-> r, amt |-> a]

\* Exact splits between two users and with the sink, and the invalid ones that
\* validate_distribution rejects (short, duplicate, non-positive) or that the
\* locks do (an account without a row).
UserDistributions == {
    <<Split(1, 1), Split(2, 1)>>,
    <<Split(2, 1), Split(Sink, 1)>>,
    <<Split(2, 1), Split(2, 1)>>,
    <<Split(2, 2), Split(1, 0)>>,
    <<Split(Ghost, 2)>>,
    <<Split(1, 1)>> }

\* A split over two purses, and one over a user and a purse.
PurseDistributions == {
    <<Split(12, 1), Split(11, 1)>>,
    <<Split(11, 1), Split(1, 1)>> }
=============================================================================
