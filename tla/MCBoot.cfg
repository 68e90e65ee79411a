SPECIFICATION BootSpec
CONSTANTS
  KernelSizes <- MCKernelSizes
  InitrdSizes <- MCInitrdSizes
INVARIANTS BootTypeOK ReadsBack ImagesHandedOver AnnouncedAnswered
PROPERTIES StartsOrExits
