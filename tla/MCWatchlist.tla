----------------------------- MODULE MCWatchlist -----------------------------
EXTENDS Watchlist

MCPoolLog == <<"b1", "nobody", "b2">>
=============================================================================
