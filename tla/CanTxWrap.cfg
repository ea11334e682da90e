SPECIFICATION Spec
CONSTANTS
  TxSize = 2
  Sync = {}
  Reinit = {}
  Mailboxes = 1
  CountMod = 65536
  Backlog = 65536
PROPERTY
  Drains
