SPECIFICATION FairSpec
CONSTANTS
    None = None
    Request = {r1, r2}
    Room = {11}
    Shelf = {21, 22}
    Layer = {}
    Cell = {}
    Copy = {51, 52}
    RoomOf <- RequestsRoomOf
    ShelfOf <- RequestsShelfOf
    LayerOf <- RequestsLayerOf
    Born <- RequestsBorn
    Kinds = {"set", "shelf", "intake", "room", "createCopy", "deleteCopy"}
    Flags = {}
INVARIANTS NoCircularWait
PROPERTY EveryRequestEnds
CHECK_DEADLOCK FALSE
