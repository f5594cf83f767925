------------------------------ MODULE QuoteTerms ------------------------------
(***************************************************************************)
(* The charges and the exchange rate of an FX quote, as the details of a   *)
(* transfer (src/lib/model/Transfer.js) and those of a conversion          *)
(* (FxpConversion.js) compute them from the same fxQuoteResponse.          *)
(*                                                                         *)
(* Amounts are texts in JSON: a whole number here, Text for one that is no *)
(* number, Missing for one left out or empty, None if the object that      *)
(* would hold it is not there.  A rate is a number of ten thousandths, or  *)
(* what the division of JavaScript makes of it otherwise.                  *)
(***************************************************************************)
EXTENDS Integers, SequencesExt

CONSTANTS
    Quotes,   \* the conversion terms considered
    None,     \* what is not there
    Missing,  \* an object without amount
    Text,     \* an amount that is no number, terms that do not parse
    NaN,
    Infinity  \* of either sign

Money == [amount : Nat \cup {Text}, currency : {"source", "target", "other"}]

Charge == [sourceAmount : Money \cup {None}, targetAmount : Money \cup {None}]

Terms ==
    [sourceAmount : Nat \cup {Missing, Text, None}, targetAmount : Nat \cup {Missing, Text, None},
     charges : {None} \cup Seq(Charge)]

ASSUME QuotesAssumption == (\A q \in Quotes : q \in Terms) /\ {None, Text} \cap Quotes = {}

ASSUME NumbersAssumption ==
    /\ \A v \in {None, Missing, Text, NaN, Infinity} : v \notin Int
    /\ None \notin {Missing, Text, NaN, Infinity}
    /\ Missing # Text

-----------------------------------------------------------------------------
(* _getConversionTermsFromFxQuoteResponse parses terms that are a text and *)
(* takes the currencies of both amounts for the charges.                   *)
TermsThrow(terms) ==
    \/ terms = Text
    \/ terms # None /\ None \in {terms.sourceAmount, terms.targetAmount}

parseFloat(amount) == IF amount = Text THEN NaN ELSE amount

Plus(a, b) == IF NaN \in {a, b} THEN NaN ELSE a + b

Minus(a, b) == IF NaN \in {a, b} THEN NaN ELSE a - b

(* Mutant: a charge in another currency counts.                            *)
Counted_AnyCurrency(money, currency) == IF money = None THEN 0 ELSE parseFloat(money.amount)

(* What a charge adds to the total in a currency.                          *)
Counted(money, currency) ==
    IF money # None /\ money.currency = currency THEN parseFloat(money.amount) ELSE 0

(* parseFloat of the '' that stands for no charges is NaN too.             *)
SourceCharges(q) ==
    IF q.charges = None THEN NaN
    ELSE FoldLeft(LAMBDA sum, c : Plus(sum, Counted(c.sourceAmount, "source")), 0, q.charges)

TargetCharges(q) ==
    IF q.charges = None THEN NaN
    ELSE FoldLeft(LAMBDA sum, c : Plus(sum, Counted(c.targetAmount, "target")), 0, q.charges)

Abs(n) == IF n < 0 THEN -n ELSE n

(* (a / b).toFixed(4): halves are rounded away from zero.                  *)
ToFixed(a, b) ==
    CASE NaN \in {a, b} \/ (a = 0 /\ b = 0) -> NaN
      [] b = 0   -> Infinity
      [] OTHER   -> LET r == (20000 * Abs(a) + Abs(b)) \div (2 * Abs(b))
                    IN IF (a < 0) = (b < 0) THEN r ELSE -r

(* No rate is computed: an amount is missing or the divisor is zero.       *)
NoRate(q) ==
    \/ Missing \in {q.sourceAmount, q.targetAmount}
    \/ Minus(parseFloat(q.sourceAmount), SourceCharges(q)) = 0

OrZero(n) == IF n = NaN THEN 0 ELSE n

(* The division, given the totals of the charges.                          *)
RateOf(q, source, target) ==
    IF NoRate(q) THEN None
    ELSE ToFixed(Minus(parseFloat(q.targetAmount), target),
                 Minus(parseFloat(q.sourceAmount), source))

(* Mutant: there is no rate unless the charges are numbers.                *)
TransferRate_NeedsCharges(q) ==
    IF NaN \in {SourceCharges(q), TargetCharges(q)} THEN None
    ELSE RateOf(q, SourceCharges(q), TargetCharges(q))

(* Transfer._calculateExchangeRate.                                        *)
TransferRate(q) == RateOf(q, OrZero(SourceCharges(q)), OrZero(TargetCharges(q)))

(* FxpConversion._calculateExchangeRate.                                   *)
ConversionRate(q) == RateOf(q, SourceCharges(q), TargetCharges(q))

-----------------------------------------------------------------------------
(* The reference for the totals: the amounts of the charges that count,    *)
(* whatever their order.                                                   *)
MoneyOf(q, i, side) ==
    IF side = "source" THEN q.charges[i].sourceAmount ELSE q.charges[i].targetAmount

CountedCharges(q, side) ==
    {i \in DOMAIN q.charges : MoneyOf(q, i, side) # None /\ MoneyOf(q, i, side).currency = side}

Reference(q, side) ==
    SumFunctionOnSet([i \in CountedCharges(q, side) |-> MoneyOf(q, i, side).amount],
                     CountedCharges(q, side))

(* There are charges, and those that count are numbers. *)
Summable(q, side) ==
    q.charges # None /\ \A i \in CountedCharges(q, side) : MoneyOf(q, i, side).amount # Text

NumericAmounts(q) == q.sourceAmount \in Nat /\ q.targetAmount \in Nat

(* What the charges take off an amount: nothing if they cannot be added.   *)
Due(q, side) == IF Summable(q, side) THEN Reference(q, side) ELSE 0
=============================================================================
