SPECIFICATION FairBrokerSpec
CONSTANTS
    c1 = c1  c2 = c2  Clients = {c1, c2}
    MaxCalls <- MCMaxCalls  Meters = {"tokens", "cost"}  Limit <- MCLimit  Usages <- MCUsages
    Timeout = 2  MaxClock = 3  MaxRequests = 3
INVARIANTS BrokerTypeOK CallsAccounted SpendBounded ReceiptHonest
PROPERTIES BrokerEnds RequestsReturn
CHECK_DEADLOCK FALSE
