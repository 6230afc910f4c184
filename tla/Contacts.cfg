\* Two logins that both have a room with one peer.
CONSTANTS
  c1 = c1  c2 = c2  r1 = r1  r2 = r2  p = p  own = own  j1 = j1  j2 = j2  j3 = j3
  Logins = {c1, c2}
  Numbers = {p, own}
  Owns <- MCOwns
  Rooms = {r1, r2}
  LoginOf <- MCLoginOf
  PeerOf <- MCPeerOf
  Names = {"Ann", "Bob"}
  Books <- MCBooks
  Jobs = {j1, j2}
  MaxEvents = 1
SPECIFICATION Spec
SYMMETRY MCAnyJob
INVARIANTS TypeOK FreshIsCurrent
PROPERTIES OneEntryEach NamesReach
CHECK_DEADLOCK FALSE
