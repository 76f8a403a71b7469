\* Two clients, messages of one or two bytes.  A send buffer of one byte makes
\* writes partial or fail; one of two bytes holds a whole message.  The third
\* entry of the array lies past a block of 16 bytes.
CONSTANTS
  Client = {c1, c2}
  Sfd = sfd
  BufSize = 2
  Spaces = {1, 2}
  MaxSend = 2
  PollFd = 8
  MinBlock = 16
SPECIFICATION FairSpec
INVARIANTS ArrayTracksSockets ReadsAreReady EchoIsPrefix
PROPERTIES ClientIsRead LeaverIsClosed
\* The server can end while no client is connected.
CHECK_DEADLOCK FALSE
