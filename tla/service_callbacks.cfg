SPECIFICATION Spec
CONSTANTS
    Mtus = {23, 65, 247}
INVARIANTS
    TypeOK
    ReadyFollowsNotifications
    ReadyMeansUsable
    TimerInitOnce
    NothingStaleSent
