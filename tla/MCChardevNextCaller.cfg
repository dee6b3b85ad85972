\* Two processes against the comment in device_release.
SPECIFICATION Spec
CONSTANTS
  Processes = {p1, p2}
  MaxOpens = 4
  AddressSpaces <- OneAddressSpace
  NoAnswer = NoAnswer
INVARIANT ReadyForNextCaller
