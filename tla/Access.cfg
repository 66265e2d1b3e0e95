SPECIFICATION Spec
CONSTANTS
  PeerIDs = {p, q}
  Self = self
  Servers = {s, t}
  Invites = {i}
  Calls = {k, l}
  AutoDiscovery = TRUE
  Unknown = Unknown
  u = u
  v = v
  Users = {u, v}
  Names = {n}
  NameOf <- MCNameOf
  Totp = {v}
  Passwords = {p, q}
  Statuses = {"active", "suspended", "disabled"}
  Slots = {s, t}
  Challenges = {c}
  Sessions = {a}
  None = None
  Deleted = Deleted
  Cascade = TRUE
  MaxAttempts = 2
  ShiftLimit = 3
  MaxCount = 4
  People = {x}
  Checks = {k, l}
  MaxUpdates = 2
INVARIANT AccessInv
INVARIANT FederationInv
INVARIANT GuessesDelayed
INVARIANT TokenWithinRole
SYMMETRY Symmetry
CHECK_DEADLOCK FALSE
