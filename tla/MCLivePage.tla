---------------------------- MODULE MCLivePage ----------------------------
(* The instance of LivePage that TLC checks: one page, its two streams.    *)
EXTENDS LivePage

MCChannels == <<"tick", "ohlcv">>
MCWanted == [k \in Streams |-> {IF k = Dashboard THEN "tick" ELSE "ohlcv"}]
MCMaxEvents == [tick |-> 2, ohlcv |-> 3]
=============================================================================
