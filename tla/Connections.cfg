CONSTANTS
  Members = {m1}
  Sources = {c}
  PeerMax = 1
  MaxEdits = 1
  MaxResizes = 1
  MaxFaults = 1
SPECIFICATION FairSpec
INVARIANTS TypeOK RestingData ReadyMembersReconnect
PROPERTIES ChangesArrive PeerConfigured
