\* Any record that passes the constructor, verified again as time passes.
SPECIFICATION Spec
CONSTANTS
  datagovops = datagovops
  doraops = doraops
  toDataGov = toDataGov
  toDora = toDora
  dossier = dossier
  report = report
  pinA = pinA
  pinB = pinB
  blobA = blobA
  blobB = blobB
  Profile = {datagovops, doraops}
  Route = {toDataGov, toDora}
  PayloadType = {dossier, report}
  Pin = {pinA, pinB}
  Blob = {blobA, blobB}
  Binding <- MCBinding
  Payload = {d1, d2}
  MaxTime = 3
  NoTime = NoTime
  NoHandoff = NoHandoff
  NoResult = NoResult
  Refused = Refused
INVARIANTS
  VerifiedAsBuilt
PROPERTIES
  TimeOnlyExpires
