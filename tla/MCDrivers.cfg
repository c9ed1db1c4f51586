CONSTANTS
    Item <- MCItem
    LEN = 3
    MaxRead = 3
    Blank = Blank
    Keys <- AllKeys
    Moves <- MCMoves
    WireCap = 2
    MaxDown = 2
    Width = 6
    Height = 3
SPECIFICATION DSpec
PROPERTIES ImplementsLossyQueue CharsAsTyped PointerFollows
