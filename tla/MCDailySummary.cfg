SPECIFICATION Spec
CONSTANTS
    Company = {1, 2, 3}
    Cron = {k1}
    PageSize = 2
    DayLength = 4
    Offset = 1
    KeepDays = 1
    TopLimit = 1
    Event <- MCEvent
    Names <- MCNames
    Namings <- MCNamings
    FirstInstant = 6
    MaxClock = 11
    Default = Default
    constructor = constructor
    Inherited = {constructor}
    Proto = Proto
    Text = Text
INVARIANTS
    StoredSummariesAddUp
    EveryTenantOnce
PROPERTIES
    DefaultDelivery
    DeliveryIsBlind
CHECK_DEADLOCK FALSE
