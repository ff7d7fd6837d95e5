SPECIFICATION Spec
CONSTANTS
    None = None
    Request = {r1, r2}
    Room = {11, 12}
    Shelf = {21, 22}
    Layer = {31, 32, 33}
    Cell = {41, 42, 43}
    Copy = {51}
    RoomOf <- HouseRoomOf
    ShelfOf <- HouseShelfOf
    LayerOf <- HouseLayerOf
    Born <- HouseBorn
    Kinds = {"set", "move", "layout", "shelf", "room", "createRoom", "createShelf"}
    Flags = {"edit", "archive", "restore"}
INVARIANTS PlacementSound RelianceHolds
PROPERTY ImplementsShelfMap
CHECK_DEADLOCK FALSE
