SPECIFICATION FairSpec
CONSTANTS
    Clients = {"main", "dbus"}
    Main = "main"
    Tracks <- MCTracks
    NoTrack = NoTrack
    Remote = {"stream"}
    SampleFormat <- MCSampleFormat
    NoFormat = NoFormat
INVARIANTS NoBug PlaysTrackFormat InfoAgrees
PROPERTIES CommandsFinish
