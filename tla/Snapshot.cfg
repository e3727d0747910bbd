SPECIFICATION FairSpec
CONSTANTS
  identification = identification
  second = second
  password = password
  prompt = prompt
  policy1 = policy1
  policy2 = policy2
  field = field
  NoStage = NoStage
  Stages <- MCStages
  Policies = {policy1, policy2}
  Prompts = {field}
  FlowRows <- MCFlowRows
  StageRows <- MCStageRows
CHECK_DEADLOCK FALSE
INVARIANTS
  TypeOK
  Closed
PROPERTIES
  StartEnds
