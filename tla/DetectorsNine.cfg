SPECIFICATION Spec
CONSTANTS
  Modes = {"usb"}
  ModuleCount = 8
  DGI_MAX_DATA_ITEMS = 8
  Layouts <- NineLayouts
  AskedFor = {}
  WifiBurst = 1
  MaxResumes <- NoResumes
  MaxChanges <- OneChange
INVARIANTS OccupationReported
