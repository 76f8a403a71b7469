\* Three clients that connect, stop sending or leave, and come back, in any
\* order: two of them suffice to overtake the third for ever if the server
\* let them.  They send nothing; the third grows the array once more.
CONSTANTS
  Client = {c1, c2, c3}
  Sfd = sfd
  BufSize = 1
  Spaces = {1}
  MaxSend = 0
  PollFd = 8
  MinBlock = 24
SPECIFICATION FairSpec
PROPERTY ClientIsAccepted
\* The server can end while no client is connected.
CHECK_DEADLOCK FALSE
