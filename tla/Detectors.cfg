SPECIFICATION Spec
CONSTANTS
  Modes = {"usb", "wifi", "emulation"}
  ModuleCount = 2
  DGI_MAX_DATA_ITEMS = 2
  Layouts <- SmallLayouts
  AskedFor = {1, 6, 16}
  WifiBurst = 3
  MaxResumes <- SmallResumes
  MaxChanges <- SmallChanges
INVARIANTS TypeOK StatesAgree OccupationReported ReportsWellFormed
