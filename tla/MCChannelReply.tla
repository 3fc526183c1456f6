--------------------------- MODULE MCChannelReply ---------------------------
(* Two messages of one channel; two calls that go wrong in any way.          *)
EXTENDS ChannelReply

CONSTANTS m1, m2
MCArrivals == <<m1, m2>>
==============================================================================
