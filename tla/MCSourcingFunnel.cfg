SPECIFICATION Spec
CONSTANTS
    Client = {c1, c2}
    Number = {1, 2}
    NumberOf <- MCNumberOf
    Supplier = {"s"}
    Currency = {"IDR", "USD"}
    Item = {"i"}
    Method = {"none", "stock_moves", "manual", "by_post"}
    Wants <- MCWants
    Offers <- MCOffers
    Quotes <- MCQuotes
    Invitations <- MCInvitations
    Supplied = {0}
    TaxRates = {1100}
    Bound <- MCBound
SYMMETRY Symmetry
INVARIANTS
    TypeOK
    ConvertedOrdersAgree
    RateNeverSilent
    EventsFollowCommits
PROPERTIES
    ImplementsChain
