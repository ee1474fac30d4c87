SPECIFICATION Spec
CONSTANTS
  Volumes = {0, 100}
  Enhancers = {e1}
  DefaultEnhancer = e0
  ErasedEnhancer = eFF
  ResetEnhancer = eReset
  StackBytes = {0, 7}
INVARIANTS
  SettingsAgree
  RestartKeepsSettings
