----------------------------- MODULE TownTrade -----------------------------
(* One work for sale in the town, and everyone whose money moves with it: the
   player who buys it in the shop (shop_service.py, shop_effects.py), the resident
   who buys it at night (npc_trade_service.py), the caravan that buys it on its
   visit (caravan_service.py), the wage the town pays and the meal it is paid for.
   The four tables they meet in are the item's stock (item_stock.py), the carried
   tax and the town's account (treasury_service.py) and the residents' purses.

   Each of them is a session that runs the statements of its transactions one by
   one.  A statement takes the lock of the row it writes, and its write is seen by
   the others at COMMIT, which is one step with the last statement.  A row that is
   locked does not change, so what a transaction has written is known from the
   statements it has executed.

   The column path of the stock and the carried tax are modelled, not the older
   ones behind closed gates.  Wallet caches, memories and feeds are left out: they
   follow the money, and the resident rows they write are no part of the locks
   below. *)
EXTENDS Integers, Sequences, FiniteSets, SequencesExt

CONSTANTS Sessions, Residents,
          Author,          \* the resident who made the work
          Casts,           \* [units, does]: how many are for sale, who does what
          Price,           \* of the work
          Levy, Scale,     \* tax on one sale in parts of a coin, and the parts of a coin
          Wage, Floor,     \* of a duty, and what the town keeps when it pays one
          Meal,            \* the price of a meal the town is paid for
          Carried,         \* parts of a coin that earlier sales have left
          Chest, Wealth    \* the coins the town and a resident start with

VARIABLES cast,        \* chosen once
          stock,       \* items.stock; the listing is active as long as there is any
          carry,       \* town_tax_carry_milli
          town,        \* town_treasuries.balance_sc
          purse,       \* resident_treasuries.balance_sc
          at           \* at[s]: its transaction, the statements done, the tax it levied

trade == <<cast, stock, carry, town, purse, at>>

Op(s) == cast.does[s].op
Who(s) == cast.does[s].who

\* Mutant: a wage is credited before the town's row is locked
MutScript == [goods   |-> <<"take", "accrue", "levy">>,
              earn    |-> <<"credit">>,
              caravan |-> <<"take", "accrue", "levy", "credit">>,
              npc     |-> <<"accrue", "levy", "debit", "take", "credit">>,
              wage    |-> <<"credit", "fund">>,
              meal    |-> <<"debit", "tax">>]

\* The statements of a transaction, in the order of the code
Script == [goods   |-> <<"take", "accrue", "levy">>,
           earn    |-> <<"credit">>,
           caravan |-> <<"take", "accrue", "levy", "credit">>,
           npc     |-> <<"accrue", "levy", "debit", "take", "credit">>,
           wage    |-> <<"fund", "credit">>,
           meal    |-> <<"debit", "tax">>]

Fresh(tx) == [tx |-> tx, done |-> 0, cut |-> 0]

Init == /\ cast \in Casts
        /\ stock = cast.units /\ carry = Carried /\ town = Chest
        /\ purse = [r \in Residents |-> Wealth]
        /\ at = [s \in Sessions |-> Fresh("idle")]

In(s, txs) == at[s].tx \in txs
Busy(s) == In(s, DOMAIN Script)
Todo(s) == Script[at[s].tx]
Statement(s) == Todo(s)[at[s].done + 1]
LastOne(s) == at[s].done + 1 = Len(Todo(s))
Does(s, st) == IF st \in ToSet(Todo(s)) THEN 1 ELSE 0

\* _skim: the carry is added to, read back and exchanged for whole coins under one lock
Cut == LET due == (carry + Levy) \div Scale IN IF due < Price THEN due ELSE Price

Cost(s) == IF In(s, {"meal"}) THEN Meal ELSE Price
Earner(s) == IF In(s, {"wage"}) THEN Who(s) ELSE Author
Earned(s) == IF In(s, {"wage"}) THEN Wage
             ELSE Price - (IF In(s, {"earn"}) THEN at[s].cut ELSE Cut)

\* The row a statement writes, and locks until COMMIT
Row(s, st) == CASE st = "take" -> "item"
                [] st = "accrue" -> "carry"
                [] st = "levy" -> IF Cut > 0 THEN "town" ELSE "carry"
                [] st \in {"fund", "tax"} -> "town"
                [] st = "debit" -> Who(s)
                [] OTHER -> Earner(s)   \* "credit"

Held(s) == IF Busy(s) THEN {Row(s, Todo(s)[i]) : i \in 1 .. at[s].done} ELSE {}
Locked(row) == \E s \in Sessions : row \in Held(s)
WaitsFor(s, t) == s # t /\ Busy(s) /\ Row(s, Statement(s)) \in Held(t)
Granted(s) == \A t \in Sessions : ~WaitsFor(s, t)

\* Mutant: the stock is reduced whatever is left of it, as behind the closed gate
MutFinds(s) == CASE Statement(s) = "debit" -> purse[Who(s)] >= Cost(s)
                 [] Statement(s) = "fund" -> town >= Wage + Floor
                 [] OTHER -> TRUE

\* What the statement's WHERE, or the check before it, asks for
Finds(s) == CASE Statement(s) = "take" -> stock > 0
              [] Statement(s) = "debit" -> purse[Who(s)] >= Cost(s)
              [] Statement(s) = "fund" -> town >= Wage + Floor
              [] OTHER -> TRUE

-----------------------------------------------------------------------------
Begins(s, tx) == /\ In(s, {"idle"})
                 /\ at' = [at EXCEPT ![s] = Fresh(tx)]
                 /\ UNCHANGED <<cast, stock, carry, town, purse>>

\* purchase: the player is charged, and that is committed, before the effect runs
Shop(s) == Op(s) = "shop" /\ stock > 0 /\ Begins(s, "goods")

CaravanBuys(s) == Op(s) = "caravan" /\ stock > 0 /\ Begins(s, "caravan")

\* run_consumption_pass: somebody who would keep something after buying
NpcBuys(s) == Op(s) = "npc" /\ stock > 0 /\ purse[Who(s)] > Price /\ Begins(s, "npc")

PayWage(s) == Op(s) = "wage" /\ Begins(s, "wage")
Eat(s) == Op(s) = "meal" /\ Begins(s, "meal")

Executes(s) ==
    /\ Busy(s) /\ Finds(s) /\ Granted(s) /\ ~LastOne(s)
    /\ at' = [at EXCEPT ![s].done = @ + 1]
    /\ UNCHANGED <<cast, stock, carry, town, purse>>

\* In the shop the skim commits by itself, and the stock with it; the author is
\* credited in a transaction of its own.
After(s) == CASE In(s, {"goods"}) -> [tx |-> "earn", done |-> 0, cut |-> Cut]
              [] In(s, {"wage", "meal"}) -> Fresh("paid")
              [] OTHER -> Fresh("sold")

\* The last statement and COMMIT
Commits(s) ==
    /\ Busy(s) /\ Finds(s) /\ Granted(s) /\ LastOne(s)
    /\ stock' = stock - Does(s, "take")
    /\ carry' = carry + Does(s, "accrue") * Levy - Does(s, "levy") * Cut * Scale
    /\ town' = town + Does(s, "levy") * Cut + Does(s, "tax") * Meal - Does(s, "fund") * Wage
    /\ purse' = [r \in Residents |->
                    purse[r] + (IF r = Earner(s) THEN Does(s, "credit") * Earned(s) ELSE 0)
                             - (IF r = Who(s) THEN Does(s, "debit") * Cost(s) ELSE 0)]
    /\ at' = [at EXCEPT ![s] = After(s)]
    /\ UNCHANGED cast

\* Sold out, too poor, no budget.  A guarded UPDATE that finds no row waits for none;
\* the wage is judged behind SELECT FOR UPDATE.
Short(s) == /\ Busy(s) /\ ~Finds(s)
            /\ Statement(s) = "fund" => Granted(s)
            /\ at' = [at EXCEPT ![s] = Fresh(IF @.tx = "goods" THEN "refund" ELSE "refused")]

\* Mutant: the tax levied before the debit failed is left for the next commit
MutRefused(s) ==
    /\ Short(s)
    /\ IF "levy" \in {Todo(s)[i] : i \in 1 .. at[s].done}
       THEN carry' = carry + Levy - Cut * Scale /\ town' = town + Cut
       ELSE UNCHANGED <<carry, town>>
    /\ UNCHANGED <<cast, stock, purse>>

\* The transaction is rolled back, with what it has levied
Refused(s) == Short(s) /\ UNCHANGED <<cast, stock, carry, town, purse>>

\* The player has paid already, and is paid back
Refunds(s) == /\ In(s, {"refund"})
              /\ at' = [at EXCEPT ![s] = Fresh("refunded")]
              /\ UNCHANGED <<cast, stock, carry, town, purse>>

\* A statement raises, or the process dies: rolled back.  apply_effect gives up the
\* shop's effect wherever it was: the player has paid for nothing ("lost"), or the
\* author is not paid ("unpaid").
Aborts(s) ==
    /\ Busy(s) \/ In(s, {"refund"})
    /\ at' = [at EXCEPT ![s] = CASE @.tx \in {"goods", "refund"} -> Fresh("lost")
                                [] @.tx = "earn" -> [@ EXCEPT !.tx = "unpaid"]
                                [] OTHER -> Fresh("failed")]
    /\ UNCHANGED <<cast, stock, carry, town, purse>>

Cycle(C) == /\ C # {}
            /\ \A s \in C : (\E t \in C : WaitsFor(s, t)) /\ (\E t \in C : WaitsFor(t, s))

\* PostgreSQL's deadlock detector aborts one session of a circle
Victim(s) == (\E C \in SUBSET Sessions : s \in C /\ Cycle(C)) /\ Aborts(s)

Step(s) == Executes(s) \/ Commits(s) \/ Refused(s) \/ Refunds(s)

TradeNext == \E s \in Sessions :
    \/ Shop(s) \/ CaravanBuys(s) \/ NpcBuys(s) \/ PayWage(s) \/ Eat(s)
    \/ Step(s) \/ Aborts(s) \/ Victim(s)

\* A request or a job runs on, a lock is granted in the end, a deadlock is broken
TradeFairness == \A s \in Sessions : WF_trade(Step(s)) /\ WF_trade(Victim(s))

-----------------------------------------------------------------------------
Levied == {s \in Sessions : In(s, {"earn", "unpaid", "sold"})}
Paid(op) == Cardinality({s \in Sessions : Op(s) = op /\ In(s, {"paid"})})

\* The coins that a purchase from outside has brought to the town and its residents
Brought(s) == IF In(s, {"earn", "unpaid"}) THEN at[s].cut
              ELSE IF In(s, {"sold"}) /\ Op(s) # "npc" THEN Price ELSE 0

\* No unit is sold twice, and no buyer overdrawn.
NothingOversold == /\ stock >= 0 /\ stock + Cardinality(Levied) = cast.units
                   /\ \A r \in Residents : purse[r] >= 0

\* A unit is sold once and a sale moves its price once, whatever else moves the same
\* purses meanwhile: shop, caravan, nightly buys, wages, meals, and the settlement
\* of errands neither make coins nor lose any, and overdraw nobody.
SalesAddUp ==
    /\ NothingOversold
    /\ town + SumFunction(purse) =
         Chest + Wealth * Cardinality(Residents) + SumFunction([s \in Sessions |-> Brought(s)])

\* Every committed sale, and no other, is taxed: what the town took, with the part of
\* a coin that is carried, is the levy of the sales made (_skim, town_to_resident).
TaxAddsUp ==
    /\ town >= 0 /\ carry \in 0 .. Scale - 1
    /\ carry + Scale * town = Scale * (Chest + Meal * Paid("meal") - Wage * Paid("wage"))
                               + Carried + Levy * Cardinality(Levied)

\* Whoever waits in a circle waits with a resident's nightly purchase, which locks the
\* carried tax before the item, or with a meal, which locks a purse before the town
\* (npc_trade_service.py:193, treasury_service.py:22): shop, caravan and wages alone
\* cannot deadlock.
OnlyNightBuysAndMealsDeadlock == \A C \in SUBSET Sessions :
    Cycle(C) => \E s \in C : Op(s) \in {"npc", "meal"}
=============================================================================
