SPECIFICATION FairSpec
CONSTANTS
    Watched <- All
    Drops <- All
    Early <- Baselined
    Lossless <- Restarting
    Loud <- Telling
    MaxValue = 2
    MaxWrites = 3
    MaxDrops = 2
PROPERTIES Converges  EndsOnCancel
CHECK_DEADLOCK FALSE
