SPECIFICATION FairSpec
CONSTANTS
  Names = {chat}
  Users = {alice, bob}
  Groups = {staff}
  Specs <- MCSpecs
  MaxEdits = 2
INVARIANT TypeOK OnlyRacesCollide OneFinalizer
PROPERTY OnlyStaleTwinsTakeKeys DeletionsEnd
CHECK_DEADLOCK FALSE
