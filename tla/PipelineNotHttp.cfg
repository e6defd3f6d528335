CONSTANTS
  Kinds = {"direct", "http", "socks5", "reject"}
  Protocols = {"tls", "tlsNoName", "http", "other"}
  MaxUp = 4
  MaxDown = 2
SPECIFICATION Spec
INVARIANT NotHttpIsDirect
CHECK_DEADLOCK FALSE
