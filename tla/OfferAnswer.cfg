SPECIFICATION Spec
CONSTANTS
    Offers <- MCOffers
    Cameras <- MCCameras
    Garbage = {0, 9, 96, 99}
INVARIANTS
    CallTypeOK
    AcceptsGrammar
    PrintsWhatWasParsed
    AnsweredAsOffered
    OfferedIsAnswered
    DirectionMirrored
CHECK_DEADLOCK FALSE
