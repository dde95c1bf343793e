SPECIFICATION Spec
CONSTANTS
  Texts <- MCTexts
  MaxU32 = 100
  AddressLists = {"[a]", "[b]"}
  Hours = {"09:00", "17:00"}
  Dates = {"2025-01-01", "2025-02-01"}
  DaysOf <- MCDaysOf
  MaxFee = 100
  WalletTemplates = {"sigbashwd1"}
  Bands = {"[1,2]"}
  Configs <- MCConfigs
  Documents = {}
  SystemTemplate = "sigbashwd1"
  KeyTemplateInputs = {}
  Selections = {}
  Tamperings = {}
  MaxDepth = 4
INVARIANT UseNotIsHonoured
CHECK_DEADLOCK FALSE
