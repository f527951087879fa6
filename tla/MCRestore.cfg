SPECIFICATION FairSpec
CONSTANTS
  f1 = f1 f2 = f2 f3 = f3 strange = strange
  assets = assets network = network futuregroup = futuregroup
  agent1 = agent1 agent2 = agent2
  r1 = r1 r2 = r2
  Initial = Initial Default = Default Undefined = Undefined None = None
  Feature <- MCFeature
  Group <- MCGroup
  Agent <- MCAgent
  Version <- MCVersion
  m_agent <- MCm_agent
  m_requiredIn <- MCm_requiredIn
  m_restart <- MCm_restart
  m_reset <- MCm_reset
  m_fp <- MCm_fp
  m_restoreOrder <- MCm_restoreOrder
  StrayFeature = {strange}
  StrayGroup = {futuregroup}
  Thread = {r1}
  Restores = {r1}
  Payload <- MCPayloadAll
  ReplyKind = {"ok", "failed", "malformed"}
  CanTimeOut = TRUE
  EnableReboot = TRUE
INVARIANTS
  TypeOK
  IInv
  AInv
  RefusedTouchesNothing
  CorrelatedReply
  SuccessMeansRestored
  FailedMeansRolledBack
  DependenciesFirst
  GroupOrder
  StatusHonest
  RestoredImpliesReboot
PROPERTY
  EveryRequestAnswered
