SPECIFICATION Spec
CONSTANTS
    NoSeat = NoSeat
    Nothing = Nothing
    NotOurs = NotOurs
INVARIANTS DraftSound ArchiveSound LabSound
PROPERTY StepsFollow
CHECK_DEADLOCK FALSE
