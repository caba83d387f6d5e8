SPECIFICATION MCSpec
CONSTANTS
    C = 2
    Emitters <- MCEmitters
    Stations <- MCStations
    Agents <- MCAgents
    Uncertainties = {0, 1, 3}
    MaxElapsed = 9
    MaxDelay = 3
    Proc = 1
    Num = 3
    Den = 5
    StationIds = {"s1", "s2"}
    StrangerId = "s3"
    PosOf <- MCPosOf
    UOf <- MCUOf
    ProcDelayOf <- MCUOf
    FibreNum = 3
    FibreDen = 5
    Places <- MCPlaces
    Claims = {4, 5}
    EmitTime = 5
    Earlier = 4
    Delays = {0, 2}
    Payload = "a"
    OtherPayload = "b"
    OtherPlace <- MCOtherPlace
    MaxReceipts = 2
    Emitter = {"E1", "E2", "E3"}
    HomeOf <- MCHomeOf
    BlockOf <- MCBlockOf
    BeaconTimes = {0, 3}
    MIN_SOURCES = 3
    MaxBlocks = 3
    Ships <- MCShips
    Bodies <- MCBodies
    Ground <- MCGround
    Radii = {0, 1, 2}
    ScanSteps = {1, 3, 100}
    Window = 9
    Centers <- MCCenters
    Ball <- MCBall
    MaxRadius = 2
    MaxLag = 4
    ClockPlaces <- MCClockPlaces
    a_max = 1
    v_unc = 1
    u_measured = 1
    Start = 1
    Track = 1
    v2 = 1
    phi <- MCphi
    Horizon = 3
    MaxEvents = 3
    P = 3
    K = 2
    Configs <- MCConfigs
INVARIANTS
    LoopsAreExact
    HonestSignalSurvives
    AdmittedIsResolved
    HonestProverAdmitted
    FartherProverRejected
    HonestFleetSurvives
    VerdictIsAboutThisEvent
    TelemetryIsPossible
    BlocksAreIndependent
    SignalsWaitForTheLink
    VerdictHoldsEverywhere
    ProviderIsCertain
    ShipStaysInside
    LineageSurvives
    AnswersAreIsolated
    OneOpeningPerBit
    OnlyTheTranscriptPasses
PROPERTIES
    VerdictOnlyWorsens
CHECK_DEADLOCK FALSE
