SPECIFICATION Spec
CONSTANTS
  Texts <- MCTexts
  MaxU32 = 100
  AddressLists = {"[a]", "[b]"}
  Hours = {"09:00", "17:00"}
  Dates = {"2025-01-01", "2025-02-01"}
  DaysOf <- MCDaysOf
  MaxFee = 100
  WalletTemplates = {"sigbashwd1"}
  Bands = {"[1,2]"}
  Configs <- MCConfigs
  Documents <- MCDocuments
  SystemTemplate = "sigbashwd1"
  KeyTemplateInputs <- MCKeyTemplateInputs
  Selections <- MCSelections
  Tamperings <- MCTamperings
  MaxDepth = 4
 
INVARIANT NormalForm
INVARIANT OneReqkey
INVARIANT ObjectsWhole
INVARIANT SelectionJudged
PROPERTY ReuseCompilesSame
CHECK_DEADLOCK FALSE
