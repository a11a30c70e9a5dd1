CONSTANTS
  MATRIX_STACK_DEPTH = 2
  MAX_DISPLAY_LISTS = 3
  MAX_LIST_COMMANDS = 9
  VERTEX_BUFFER_SIZE = 8
  CountBits = 2
  MaxProduct = 1
  Points = {"p"}
  Colors = {"white", "black", "red", "blue"}
  Transforms = {"t"}
  Viewports = {"window", "half"}
  Commands <- McCommands
  Menus = {"any", "modes", "cube", "full", "lists", "caps", "matrices"}
SPECIFICATION McSpec
INVARIANTS TypeOK InactiveIsEmpty
PROPERTIES OpenPrimitiveKept ListsReplay
