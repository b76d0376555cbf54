SPECIFICATION Spec
CONSTANTS
  Names = {chat}
  Users = {alice}
  Groups = {staff}
  Specs <- MCOneSpec
  MaxEdits = 2
PROPERTY LiveKeepKeys
CHECK_DEADLOCK FALSE
