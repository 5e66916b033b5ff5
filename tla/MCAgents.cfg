SPECIFICATION Spec
CONSTANTS
  Peers = {p1, p2}
  PerPeer = 1
  MailboxCap = 1
  MaxSessions = 3
INVARIANTS TypeOK OneWriter IdleIsTimed MessagesKept NoMailBehindAWait NoPoisonedReviver
PROPERTY PeersAreHeard
CHECK_DEADLOCK FALSE
