\* Two members send, answer, cancel, block, wish and chat, two requests at a time.
CONSTANTS
  u1 = u1  u2 = u2  w1 = w1  w2 = w2
  Users = {u1, u2}
  Workers = {w1, w2}
  Mixes = {{"send", "accept", "reject", "cancel", "block"}, {"send", "reject", "plan"},
           {"accept", "reject", "start", "post", "block"}, {"start", "read", "plan"},
           {"reject", "read", "connect", "say", "block"}, {"connect", "say", "plan"},
           {"accept", "plan"}, {"block", "toggle"}}
SYMMETRY MCSymmetry
SPECIFICATION Spec
INVARIANTS BothPendingOnlyIfCrossed BlockClearsWishes ChatChargedOnce
PROPERTIES BlockHolds ChatNeedsConsent
