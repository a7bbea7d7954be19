SPECIFICATION FairSpec
CONSTANTS
    Listener = listener
    Booter = booter
    Publisher = publisher
    Reader = reader
    Main = main
    Nobody = Nobody
    Topics = {users, orders}
    Relock = {"throws"}
    Slots = 2
INVARIANTS TypeOK StreamGuarded
PROPERTIES PublishReturns ListenerStops
CHECK_DEADLOCK FALSE
