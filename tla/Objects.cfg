\* Five objects of five kinds of program; volumes of two channels; bytes of two bits, and
\* words of six values, so that every level there is meets every other.
CONSTANTS
    PA_CHANNELS_MAX = 2
    PA_VOLUME_NORM = 1
    PA_VOLUME_MAX = 2
    ByteRange = 4
    WordRange = 6
    Garbage = Garbage
    Limit = 5
    text = text
    key = key
    badkey = badkey
    Key = {key, badkey}
    ValidKey = {key}
    Text = {text}
    Binary = Binary
    Nil = Nil
    Programs <- MCPrograms
    ServerVolume <- MCServerVolume
    Info <- MCInfo
SPECIFICATION Spec
INVARIANTS
    TypeOK
    Initialised
    NegativesOnly
    ListsOwned
    NumbersReach
    CarefulIsSafe
PROPERTY
    ImplementsValues
\* The program may end.
CHECK_DEADLOCK FALSE
