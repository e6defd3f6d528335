CONSTANTS
  Kinds = {"direct", "http", "socks5", "reject"}
  Protocols = {"tls", "tlsNoName", "http", "other"}
  MaxUp = 4
  MaxDown = 2
  Threads = {"loop1", "loop2"}
  Names = {"a.com", "A.com", "b.com"}
  Key <- MCKey
  MaxCalls = 3
  Days = {0, 1, 12, 13}
SPECIFICATION MCSpec
INVARIANTS UpIntact ReplyFits GeneratedOnce
PROPERTY EndTogether
CHECK_DEADLOCK FALSE
