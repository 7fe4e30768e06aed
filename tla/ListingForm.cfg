SPECIFICATION Spec
CONSTANTS
  Boxes <- Choices
  PickerOf <- PickerOfChoice
  LevelOf <- LevelOfChoice
INVARIANTS
  
  ChoicesFitTheLevel
  ChipsAreTheChoices
  SeenIsUsable
