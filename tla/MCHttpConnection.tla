--------------------------- MODULE MCHttpConnection ---------------------------
EXTENDS ConnectionInService

CONSTANTS
  MaxLength,  \* bound on Content-Length, but for
  Wrapped,    \* what std::stoul makes of "-1": more than any client sends
  MaxExcess   \* bound on the bytes sent behind the announced body

\* A request announces less, as much as, or more than its client sends; a
\* header may be longer than the client ever sends, up to beyond the limit.
MCRequest ==
  {r \in [hdr : 1 .. HeaderMax + HeaderChunk + 1, wellFormed : BOOLEAN,
          length : 0 .. MaxLength \cup {Wrapped, BadLength},
          total : 0 .. HeaderMax + HeaderChunk + 1 + MaxLength + MaxExcess] :
     r.total <= r.hdr + MaxLength + MaxExcess}
=============================================================================
