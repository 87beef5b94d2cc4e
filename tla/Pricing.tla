------------------------------- MODULE Pricing -------------------------------
(***************************************************************************)
(* The summary of recorded energy by periods and its cost under dated      *)
(* prices (src/history.rs, tariffs and summary). A price holds from its    *)
(* minute until the next one; energy from before the first price has none. *)
(* Periods are a function of the minute: the calendar is left out.         *)
(***************************************************************************)
EXTENDS Listing, Sequences, FiniteSetsExt

CONSTANTS
    Minutes,        \* minutes that may have energy, and the times of prices
    PeriodOf,       \* the period of each minute
    Prices,         \* micro units of the currency per kilowatt-hour
    Currencies,
    None,           \* no price, or no energy
    MaxTariffs,     \* MAX_TARIFFS
    MaxBuckets,     \* MAX_SUMMARY_BUCKETS
    Unit            \* microjoules in a kilowatt-hour

Tariff == [price : Prices, currency : Currencies]
\* A row has no more time with an estimated input than time at all (record).
Energy == {e \in [output : Nat, input : Nat, observed : Nat, inputObserved : Nat] :
              e.inputObserved <= e.observed}

ASSUME PricingAssumption ==
    /\ IsFiniteSet(Minutes) /\ Minutes \subseteq Nat
    /\ DOMAIN PeriodOf = Minutes
    /\ Prices \subseteq Nat
    /\ None \notin Tariff /\ None \notin Energy
    /\ MaxTariffs \in Nat \ {0} /\ MaxBuckets \in Nat \ {0}
    /\ Unit \in Nat \ {0}

\* The table of prices and the ledger of one device, by minute.
Tariffs == [Minutes -> Tariff \cup {None}]
Ledger == [Minutes -> Energy \cup {None}]
Present(table) == {m \in DOMAIN table : table[m] # None}

\* The rows of the table in the order of the query.
Dated(table) ==
    LET times == Present(table)
    IN  [n \in 1 .. Cardinality(times) |->
            [effective |-> Nth(times, n), tariff |-> table[Nth(times, n)]]]

\* partition_point: how many rows, from the first on, are in effect at a minute.
BegunBefore(row, at) == row.effective < at
Begun(row, at) == row.effective <= at
RateIndex(rows, at) ==
    Cardinality({n \in DOMAIN rows : \A m \in 1 .. n : Begun(rows[m], at)})

Cost(energy, rows, at) ==
    LET n == RateIndex(rows, at)
    IN  IF n = 0 THEN 0 ELSE energy.input * rows[n].tariff.price
Priced(energy, rows, at) == IF RateIndex(rows, at) = 0 THEN 0 ELSE energy.inputObserved

Total(minutes, of(_)) == SumFunctionOnSet([m \in minutes |-> of(m)], minutes)

\* The cost is rounded to the nearest micro unit, a half upward.
Round(n) == (n + Unit \div 2) \div Unit

IncompleteOfInput(total) == total.priced < total.inputObserved
Incomplete(total) == total.priced < total.observed

Bucket(minutes, ledger, rows) ==
    LET total == [output |-> Total(minutes, LAMBDA m : ledger[m].output),
                  input |-> Total(minutes, LAMBDA m : ledger[m].input),
                  observed |-> Total(minutes, LAMBDA m : ledger[m].observed),
                  inputObserved |-> Total(minutes, LAMBDA m : ledger[m].inputObserved),
                  priced |-> Total(minutes, LAMBDA m : Priced(ledger[m], rows, m))]
    IN  [total |-> total,
         incomplete |-> Incomplete(total),
         cost |-> IF total.priced > 0
                  THEN Round(Total(minutes, LAMBDA m : Cost(ledger[m], rows, m)))
                  ELSE None]

\* The answer: a bucket for every period with energy in the range, or an error
\* when there are too many of them.
Summary(range, ledger, rows) ==
    LET minutes == Present(ledger) \cap range
        periods == {PeriodOf[m] : m \in minutes}
    IN  IF Cardinality(periods) > MaxBuckets THEN None
        ELSE [p \in periods |-> Bucket({m \in minutes : PeriodOf[m] = p}, ledger, rows)]

-----------------------------------------------------------------------------
\* What the summary promises, said without rows, indexes and sums of time.

\* The price in effect at a minute is the latest one not after it.
InEffect(table, at) ==
    LET begun == {m \in Present(table) : m <= at}
    IN  IF begun = {} THEN None ELSE table[Max(begun)]

PricedAtRateInEffect(range, ledger, table, summary) ==
    summary # None =>
        \A p \in DOMAIN summary :
            LET minutes == {m \in Present(ledger) \cap range : PeriodOf[m] = p}
                priced == {m \in minutes : InEffect(table, m) # None}
                exact == Total(priced, LAMBDA m : ledger[m].input * InEffect(table, m).price)
            IN  summary[p].cost # None =>
                    /\ 2 * summary[p].cost * Unit <= 2 * exact + Unit
                    /\ 2 * exact < 2 * summary[p].cost * Unit + Unit

CompleteIsComplete(range, ledger, table, summary) ==
    summary # None =>
        \A p \in DOMAIN summary :
            ~summary[p].incomplete <=>
                \A m \in {m \in Present(ledger) \cap range : PeriodOf[m] = p} :
                    /\ InEffect(table, m) # None \/ ledger[m].observed = 0
                    /\ ledger[m].inputObserved = ledger[m].observed
=============================================================================
