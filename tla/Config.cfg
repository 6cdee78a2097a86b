SPECIFICATION Spec
CONSTANTS
  Callers <- OptionCallers
  MaxBaggageAttributeKeys = 2
  MaxInt = 10007
  Changes <- SomeChanges
  MaxChanges = 2
  Measured <- SomeMeasured
  ScopeAttrs <- SomeScopeAttrs
  Overrides <- SomeOverrides
CHECK_DEADLOCK FALSE
INVARIANTS
  OptionsCompose
  LabelsDistinct
  BaggageSafe
  ValidatedAsUsed
  OneStream
