SPECIFICATION Spec
CONSTANTS
  GrubBoards = {"x60", "x200_8mb"}
  SeabiosBoards = {"kfsn4-dre"}
  Types <- MCTypes
  Keymaps = {"usqwerty"}
  BootBlockBoards = {"x60"}
  StrayFirst = {"x60"}
  DescriptorBoards = {"x200_8mb"}
  AddressFiles = {"none", "one word", "other"}
  MaxRuns = 3
  MaxStops = 2
INVARIANTS TypeOK ImagesAreOwn FullRunNeverAborts OneAddress
PROPERTIES ImplementsRomShelf
CHECK_DEADLOCK FALSE
