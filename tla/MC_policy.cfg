SPECIFICATION Spec
CONSTANTS
    chair = chair
    table = table
    tip = tip
    furniture = furniture
    food = food
    shop = shop
    stall = stall
    None = None
    DefaultTtl = 2
    Unlimited = 9
    Merchants <- MCMerchants
    Skus <- MCSkus
    Categories <- MCCategories
    Currencies <- MCCurrencies
    TipSkus <- MCTipSkus
    Inputs <- MCInputs
CHECK_DEADLOCK FALSE
INVARIANTS
    AllowedIsAuthorized
    ReconsentIsAboutTheBudget
    GuardsBlockAlone
    TighterAllowsNoMore
    ItemOrderIrrelevant
    StatedIntentEnforced
    DoorsAgree
