SPECIFICATION FairSpec
CONSTANTS
    Windows <- WithNever
    MaxWindows = 2
    Unparsable = Unparsable
    Minute = 1
    Active = 1
    Poll = 5
    Soon = 7
    MaxLate = 1
    Boot = 24
    Horizon = 60
    None = None
PROPERTY CheckReturns
