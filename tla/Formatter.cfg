\* Sizes 19, 20 and 26 end inside the header or the message of a special format.
SPECIFICATION FairSpec
CONSTANTS
    Directives <- AllDirectives
    Formats <- SomeFormats
    Texts <- SomeTexts
    Sizes = {1, 3, 5, 19, 20, 26}
    MaxLines = 1
INVARIANTS TypeOK StaysInBuffer NothingUnset LineIsMeant PositionsInOrder
PROPERTIES ParsingEnds
\* The program may stop logging, and a second %M may crash it.
CHECK_DEADLOCK FALSE
