\* Plans of up to three stages on two machines, loaded and rotated.
SPECIFICATION Spec
CONSTANTS
    ann = ann  bob = bob  old = old  new = new
    NLayers = 4
    LayerCost <- Costs
    CacheCost = 4
    EmbedCost = 20
    HeadCost = 0
    Tied = TRUE
    Capacity <- Memory
    Pipelines <- Requested
    Parts = 12
    Slots = {1, 2, 3}
    Commits = {1, 2}
    Repo <- Repository
    Branch = 0
    Tokens = {old, new}
    Old = old
    New = new
    FirstFile <- OldOnly
    MaxEdits = 3
    InPlace = TRUE
    Whole = Whole
    MaxLoading = 1
INVARIANTS
    TypeOK
    PlanCovers
    Balanced
    OneModel
    WholeModel
    CacheCoherent
PROPERTIES
    NoDowntime
CHECK_DEADLOCK FALSE
