\* Three processes open and close while the module is loaded and unloaded.
SPECIFICATION Spec
CONSTANTS
  Processes = {p1, p2, p3}
  MaxOpens = 4
  AddressSpaces <- MCAddressSpaces
  NoAnswer = NoAnswer
SYMMETRY ProcessSymmetry
INVARIANTS
  AllOrNothing
  CodeStaysMapped
  ReferencesBalance
  GuardWorksUnraced
  AddressSpaceReported
