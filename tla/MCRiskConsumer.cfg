\* One packet through both consumers, with one alteration on its way.
SPECIFICATION ConsumerSpec
CONSTANTS
  m1 = m1
  m2 = m2
  govPin = govPin
  otherPin = otherPin
  doraPin = doraPin
  g1 = g1
  g2 = g2
  d1 = d1
  d2 = d2
  ours = ours
  owner = owner
  tester = tester
  change = change
  Cases <- MCCases
  Policies = {policy}
  Materials = {m1, m2}
  GovContract = govPin
  OtherBinding = otherPin
  GovKeys <- MCGovKeys
  Material = {ours}
  UnknownKey = UnknownKey
  Time = {1, 2, 3, 4, 5, 6, 7}
  NoTime = NoTime
  NoPacket = NoPacket
  NoEnvelope = NoEnvelope
  NoMaterial = NoMaterial
  NoReceipt = NoReceipt
  Completions <- MCCompletions
  DoraContract = doraPin
  DoraKeys <- MCDoraKeys
  Reviewer = tester
  GovVerifiedAt = 5
  DoraCreatedAt = 5
  DoraUntil = 7
  NoRetest = NoRetest
  ProductionTimes = {1, 3}
  CreationTimes = {4}
  ExpiryTimes = {6, 7}
  SigningTimes = {3, 4}
  ConsumptionTimes = {5, 6}
CHECK_DEADLOCK FALSE
INVARIANTS
  GovReceiptIsEarned
  DoraReceiptIsEarned
  ClosedIsRetested
