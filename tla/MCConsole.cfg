SPECIFICATION Spec
CONSTANTS
    Attributes = {"item.attr.colour"}
    Offers <- MCOffers
    Seller <- MCSeller
    AgentProposes <- ProposeFrom
    AgentProposesStated <- ProposeStated
    Slots = {c1, c2}
    Limit = 2
    maxReadings = 2
    readingLifetime = 2
    Sentences <- MCSentences
    Picks <- MCPicks
    Baskets <- MCBaskets
    MaxTime = 2
SYMMETRY SlotsMayBeSwapped
INVARIANTS
    PlacesAccounted
    ReadingsAgree
    ProposalIsHonest
    NoPriceSkipped
CHECK_DEADLOCK FALSE
