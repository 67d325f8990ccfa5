SPECIFICATION BoardSpec
CONSTANTS
    Starts <- MCStarts
    MaxLine = 2
INVARIANTS
    HashIdentifiesThePosition
    TakingBackRestores
    PositionIsSound
    MovesFollowOneRule
    TextsNameTheirMove
    
    VerdictsAreFair
