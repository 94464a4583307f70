\* Two signings, any envelope made of their parts, two keys, of which one may be revoked.
SPECIFICATION Spec
CONSTANTS
  k1 = k1
  k2 = k2
  m1 = m1
  m2 = m2
  p1 = p1
  p2 = p2
  t1 = t1
  t2 = t2
  PayloadType = {t1, t2}
  Payload = {p1, p2}
  Material = {m1, m2}
  KeyId = {k1, k2}
  Algorithm <- MCAlgorithm
  Time = {1, 2}
  NoTime = NoTime
  KeyRecord <- MCKeyRecord
  NoSignature = NoSignature
  NoEnvelope = NoEnvelope
  ReceiptId = {r1}
  NoReceipt = NoReceipt
  MaxSignings = 2
  MaxRevocations = 1
SYMMETRY ContentSymmetry
INVARIANTS
  VerdictIsExact
  ResultIsConsistent
PROPERTIES
  OnlyRevocationInvalidates
  ImplementsRegister
