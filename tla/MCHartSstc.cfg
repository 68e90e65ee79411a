SPECIFICATION FairSpec
CONSTANTS
  PERIOD = 2
  HALF = 2
  LineIrqs <- MCLineIrqs
  MieValues <- MCMieValues
  MidelegValues <- MCMidelegValues
  MedelegValues <- MCMedelegValues
  MipValues <- MCMipValues
  MenvcfgValues = {FALSE, TRUE}
  StimecmpValues = {0}
  MsipValues = {FALSE}
  TimerValues = {2}
  MstatusValues <- MCMstatusValues
  Causes <- MCCauses
PROPERTY StipIsSoftware
