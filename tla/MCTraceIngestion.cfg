CONSTANTS
    u1 = u1
    shell = shell
    network = network
    Turns = {u1}
    NoTurn = NoTurn
    NoOp = NoOp
    None = None
    Nobody = Nobody
    NoSidecar = NoSidecar
    NoEvent = NoEvent
    Loop = Loop
    Worker = Worker
    Writers = {Loop, Worker}
    Notifications <- MCNotifications
    Controls <- MCControls
    Class <- MCClass
    Ids = {shell, network}
    NoEffect = None
    Reports <- MCReports
    MaxEffects = 4
    MaxRecords = 4
    MaxCrashes = 1
    MaxEpoch = 2
SPECIFICATION MCSpec
INVARIANTS SidecarTruthful AcknowledgedKept JournaledOnce LifecycleInOrder IndexesFollowJournal EffectsFaithful
CHECK_DEADLOCK FALSE
