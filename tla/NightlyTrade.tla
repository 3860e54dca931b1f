---------------------------- MODULE NightlyTrade ----------------------------
(* The commission board and the town's trade over the same purses.  Between the
   posting of an errand and the night that settles it its issuer earns, eats and is
   paid a wage; the settlement, one transaction of the nightly job, waits for the
   purses that a trade has locked. *)
EXTENDS Commission

CONSTANTS Sessions, Author, Casts, Price, Levy, Scale, Wage, Floor, Meal, Carried, Chest,
          Scenes    \* which boards and which trades meet in a behaviour

Roles == [op : {"none", "shop", "caravan", "npc", "wage", "meal"}, who : Residents]

ASSUME SceneShape == /\ Author \in Residents
                     /\ Casts \subseteq [units : Nat, does : [Sessions -> Roles]]
                     /\ Scenes \subseteq Environments \X Casts
                     /\ IsFiniteSet(Sessions) /\ IsFiniteSet(Residents)
                     /\ {"item", "carry", "town"} \cap Residents = {}
\* A sale is taxed with no more than its price
ASSUME TradeNumbers == /\ {Floor, Chest} \subseteq Nat /\ Carried \in 0 .. Scale - 1
                       /\ {Price, Levy, Scale, Wage, Meal} \subseteq Nat \ {0}
                       /\ Levy <= Scale * Price

VARIABLES cast, stock, carry, town, at

Town == INSTANCE TownTrade WITH purse <- wallet

shop == <<cast, stock, carry, town, at>>

TownInit == Init /\ Town!Init /\ <<env, cast>> \in Scenes

\* the settle pass debits the issuer's purse and credits the taker's in one transaction: two
\* statements (treasury_debit_pending, treasury_credit_pending), here one step that waits for
\* both rows, so its own order of locks is outside what is said of deadlocks
PursesFree == \A r \in Residents : wallet'[r] # wallet[r] => ~Town!Locked(r)

BoardStep == Next /\ PursesFree /\ UNCHANGED shop
TradeStep == Town!TradeNext /\ UNCHANGED <<env, board, late, alive, post, req, night, paid, missed>>

TownSpec == TownInit /\ [][BoardStep \/ TradeStep]_<<vars, shop>>
FairTown == TownSpec /\ Fairness /\ Town!TradeFairness

SalesAddUp == Town!SalesAddUp
TaxAddsUp == Town!TaxAddsUp
OnlyNightBuysAndMealsDeadlock == Town!OnlyNightBuysAndMealsDeadlock
=============================================================================
