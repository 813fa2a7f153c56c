SPECIFICATION Spec
CONSTANTS
  Members <- MCMembers
  MemberSort <- MCMemberSort
  SSAValues <- MCSSAValues
  Name <- MCName
  Definition <- MCDefinition
  Operands <- MCOperands
  Subject <- MCSubject
  MaxSteps = 3
INVARIANTS
  TypeOK
  ConditionIsDeclared
  ThingsAreDeclaredOnce
  ClaimedMembersShareAConstant
  DivisionsAreDefined
  CachedTermsAreCurrent
CHECK_DEADLOCK FALSE
