SPECIFICATION MCSpec
CONSTANTS
    WordBits = 4
    Weight <- WeightOf4
    Width = 8
    Small = 5
    Large = 6
    Size = 4
    SIZE_MAX = 5
    NULL = NULL
    HeapStart = 8
    HeapEnd = 14
    Requests = {0, 1, 2, 3, 5, 6, 18, 24, 26, 31}
    AddressSpace = 32
    Char = {0, 1, 2}
INVARIANTS RoutinesCorrect WideDivisionCorrect ProductsCorrect StringsCorrect HeapCorrect FunctionsCorrect
