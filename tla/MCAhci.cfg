SPECIFICATION FairSpec
CONSTANTS
  Callers = {shell, syscall}
  Masked = {syscall}
  Lbas <- Sides
  Values = {v, w}
  Blank = v
  NoData = NoData
  Ports = {0}
  MAX_SATA_DISKS = 1
  Polls = 2
  Word = 8

PROPERTIES TransferTrue NoSuccessAfterError CallsReturn
