\* What the server tells is asked for again with the numbers it told.
CONSTANTS
    PA_CHANNELS_MAX = 2
    PA_VOLUME_NORM = 1
    PA_VOLUME_MAX = 2
    ByteRange = 4
    WordRange = 6
    Garbage = Garbage
    Limit = 5
    text = text
    key = key
    badkey = badkey
    Key = {key, badkey}
    ValidKey = {key}
    Text = {text}
    Binary = Binary
    Nil = Nil
    Programs <- MCPrograms
    ServerVolume <- MCServerVolume
    Info <- MCInfo
SPECIFICATION Spec
INVARIANT ReferencesReach
\* The program may end.
CHECK_DEADLOCK FALSE
