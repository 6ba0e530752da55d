SPECIFICATION Spec
CONSTANTS
    d1 = d1
    d2 = d2
    d3 = d3
    Devices <- Pair
    Others = others
    MaxLog = 3
    MaxDocs = 3
SYMMETRY SwapPair
INVARIANTS
    TypeOK
    
PROPERTIES
    
    
    DecisionStands
CHECK_DEADLOCK FALSE
