SPECIFICATION Spec
CONSTANTS
  s1 = s1
  s2 = s2
  c1 = c1
  e1 = e1
  a1 = a1
  a2 = a2
  a3 = a3
  o1 = o1
  o2 = o2
  t1 = t1
  NoOwner = NoOwner
  Same = Same
  NoText = NoText
  Nobody = Nobody
  Sessions = {s1, s2}
  Changes = {c1}
  Asks = {a1, a2}
  Serves <- SharedAndAlone
  Edits = {e1}
  Owners = {o1, o2}
  Texts = {NoText, t1}
  Proposed <- Proposals
INVARIANTS AppliedWasApproved OwnerExists OnePending RequestInv
PROPERTIES EffectWithDecision ImplementsLifeCycle
CHECK_DEADLOCK FALSE
