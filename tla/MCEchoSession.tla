---------------------------- MODULE MCEchoSession -----------------------------
EXTENDS EchoSession

K == INSTANCE Codec WITH MaxByte <- 3, TagR <- 2, TagI <- 3, Rejected <- "rejected"

MCChar       == 0 .. 3
MCCompress(s) == K!RleCompress(s)
MCMessage    == {<<1, 2>>, <<1, 1, 2>>}
MCMaxSize    == {1, 4}
=============================================================================
