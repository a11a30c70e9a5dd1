CONSTANTS
  SPU_CHAN = 1
  TACT = 1
  MaxUnits = 1
  Chunk = 2
  Freqs = {440}
  Volumes = {255}
SPECIFICATION Spec
PROPERTY NoteEndsAtRelease
