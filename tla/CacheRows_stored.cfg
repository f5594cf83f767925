\* Every outbound, inbound and FX record, with MySQL in either mode.
CONSTANTS
    Records <- AllRecords
    SqlModes = {"strict", "lenient"}
    Quotes <- AllQuotes
    None = None
    Missing = Missing
    Text = Text
    NaN = NaN
    Infinity = Infinity
SPECIFICATION Spec
INVARIANTS TypeOK ConversionStateShown StatusAgrees EndedRowsComplete PartsIndependent
           DetailsAnswered RatesAgree RateShown
