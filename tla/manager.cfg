SPECIFICATION Spec
CONSTANTS
  NodeTypes = {"work", "kubeedge", "other"}
INVARIANTS TypeOK DeprecatedStaysOut
PROPERTIES LaunchIsComplete DeprecateIsComplete MembershipSpec
