SPECIFICATION FairSpec
CONSTANTS
    None = None
    original = original
    exact = exact
    device = device
    pdf = pdf
    other = other
    Copies <- MCCopies
    Names <- MCCopies
    Places <- MCPlaces
    PlaceOf <- MCPlaceOf
    Variants <- MCVariants
    Contents <- MCContents
    Size <- MCSize
    Readers <- MCReaders
    Total = 6
    MaxWord = 7
INVARIANTS
    TypeOK
    InBudget
    SleepersAreShort
    TwinsAreOneBook
    BooksHangTogether
    NothingIsLost
PROPERTY
    EveryCopyIsRead
