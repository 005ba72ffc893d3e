SPECIFICATION Spec
CONSTANTS
  s1 = s1
  s2 = s2
  c1 = c1
  e1 = e1
  a1 = a1
  a2 = a2
  a3 = a3
  o1 = o1
  o2 = o2
  t1 = t1
  NoOwner = NoOwner
  Same = Same
  NoText = NoText
  Nobody = Nobody
  Sessions = {s1, s2}
  Changes = {}
  Asks = {a3}
  Serves <- Both
  Edits = {}
  Owners = {o1}
  Texts = {NoText, t1}
  Proposed <- OneAsk
PROPERTY OnlyPendingDecided
CHECK_DEADLOCK FALSE
