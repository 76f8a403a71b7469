\* Two messages of one client; the second is not read.
CONSTANTS
  Client = {c1}
  Sfd = sfd
  BufSize = 2
  Spaces = {2}
  MaxSend = 2
  PollFd = 8
  MinBlock = 24
SPECIFICATION FairSpec
PROPERTY ReadsWhatIsSent
\* The server can end while no client is connected.
CHECK_DEADLOCK FALSE
