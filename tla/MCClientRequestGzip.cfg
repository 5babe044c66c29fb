\* A gzip stream that is corrupt behind its header.
CONSTANTS
  Calls = {c1, c2}
  Conns = 1
  Replies <- MCReplies
SPECIFICATION Safety
INVARIANT CorruptGzipIsTransportError
