SPECIFICATION FairSpec
CONSTANTS
    Windows <- MCWindows
    MaxWindows = 2
    Unparsable = Unparsable
    Minute = 1
    Active = 1
    Poll = 5
    Soon = 7
    MaxLate = 1
    Boot = 24
    Horizon = 60
    None = None
INVARIANTS TypeOK NoWindowMissed
PROPERTIES VerdictIsRight CheckReturns
