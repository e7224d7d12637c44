---------------------------- MODULE MCFeedIngest ----------------------------
(***************************************************************************)
(* Two trades over a memory of one id, so that evictions happen, beside a  *)
(* crossed book.                                                           *)
(***************************************************************************)
EXTENDS FeedIngest

Msg(feed, id, odd) == [feed |-> feed, id |-> id, odd |-> odd]

Trades == {Msg("trade", i, FALSE) : i \in 1..2}

MCMessages == Trades \cup {Msg("book", 3, TRUE)}

=============================================================================
