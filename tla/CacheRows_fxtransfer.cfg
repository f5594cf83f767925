\* MySQL refusing wrong types: looks for a violation of FxTransferStored.
CONSTANTS
    Records <- AllRecords
    SqlModes = {"strict"}
    Quotes <- AllQuotes
    None = None
    Missing = Missing
    Text = Text
    NaN = NaN
    Infinity = Infinity
SPECIFICATION Spec
INVARIANTS FxTransferStored
