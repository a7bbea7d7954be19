SPECIFICATION FairSpec
CONSTANTS
    Listener = listener
    Booter = booter
    Publisher = publisher
    Reader = reader
    Main = main
    Nobody = Nobody
    Topics = {users, orders}
    Relock = {"throws"}
    Slots = 2

PROPERTY Subscribed
CHECK_DEADLOCK FALSE
