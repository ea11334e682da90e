SPECIFICATION Spec
CONSTANTS
  TxSize = 3
  Sync <- MCSync
  Reinit <- MCReinit
  Mailboxes = 2
  CountMod = 8
  Backlog = 6
INVARIANTS
  TypeOK
  CountCoversFull
  NoStall
  NoFrameLostInIsr
PROPERTY
  Drains
