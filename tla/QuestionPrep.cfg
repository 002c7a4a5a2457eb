\* Four tables in a chain of foreign keys, three of them fit; two chunks are retrieved.
CONSTANTS
    orders = orders
    order_lines = order_lines
    regions = regions
    zones = zones
    Tables <- MCTables
    Synthetic = synthetic
    Invented = invented
    TableOrder <- ByName
    ShortFirst <- ByLength
    ForeignKeys <- Fks
    NameWords <- Names
    SegmentWords <- Segments
    PartWords <- Parts
    Verbatim <- Spelled
    Columns <- Cols
    FactNamed = {}
    MeasureAsks = {"revenue"}
    DefaultHops = 1
    MaxTables = 3
    Questions <- MCQuestions
    Rewordings <- Reworded
    Confidences = {40, 90}
    Trust = 55
    PreferLlm = TRUE
    TopK = 2
    EntityReplies <- Lists
    PriorSqls <- Earlier
SPECIFICATION Spec
INVARIANTS
    RefusalsJustified
    PriorSqlFollowed
    PriorTablesLinked
    LinkedNearestFirst
PROPERTIES
    ImplementsGraph
CHECK_DEADLOCK FALSE
