SPECIFICATION FairSpec
INVARIANTS TypeOK ButtonShowsMode NeverRefused
PROPERTIES ModeIsShown
