SPECIFICATION Spec
CONSTANTS
  r1 = r1 strange = strange futuregroup = futuregroup
  Initial = Initial Default = Default Undefined = Undefined None = None
  Feature <- srrFeatureMap
  Group <- srrGroupMap
  Agent <- agentToQueue
  Version <- Version4
  m_agent <- featureAgent
  m_requiredIn <- featureRequiredIn
  m_restart <- featureRestart
  m_reset <- featureReset
  m_fp <- groupFp
  m_restoreOrder <- groupRestoreOrder
  StrayFeature = {strange}
  StrayGroup = {futuregroup}
  Thread = {r1}
  Restores = {r1}
  Payload <- ShippedPayload
  ReplyKind = {"ok"}
  CanTimeOut = FALSE
  EnableReboot = TRUE
INVARIANTS
  SuccessMeansRestored
  DependenciesFirst
  GroupOrder
