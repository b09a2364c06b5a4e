SPECIFICATION Spec
CONSTANTS
    Count <- MCCount
    Vanilla <- MCVanilla
    TwoCount <- MCTwoCount
    Two <- MCTwo
    Start <- MCStart
    Return <- MCReturn
    PoolStart <- MCPoolStart
    PoolEnd <- MCPoolEnd
    CustomRam <- MCCustomRam
    CustomRom <- MCCustomRom
    CustomSize <- MCCustomSize
    DanceLength <- MCDanceLength
INVARIANTS
    TypeOK
    ShownAnimLoaded
    BootLoadsResident
    PeaceSignInDance
