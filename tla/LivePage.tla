------------------------------ MODULE LivePage ------------------------------
(***************************************************************************)
(* apps/web over MarketStream: one open page.  MarketDashboard shows the   *)
(* last price, from GET /market/latest and then from the tick events of    *)
(* its stream; PriceChart keeps the bars, from GET /market/history and the *)
(* ohlcv events of a stream of its own.  Each component asks for its first *)
(* answer and opens its stream at once; which comes first is open.         *)
(***************************************************************************)
EXTENDS MarketStream

CONSTANTS
    Dashboard, Chart,   \* the streams of the two components
    HistoryLimit,       \* the limit the chart asks for
    MaxBars             \* what PriceChart keeps

ASSUME LivePageAssumption ==
    /\ {Dashboard, Chart} \subseteq Streams /\ Dashboard # Chart
    /\ ChannelSet = {"tick", "ohlcv"}
    /\ "tick" \in Wanted[Dashboard] /\ "ohlcv" \in Wanted[Chart]
    /\ HistoryLimit \in Nat \ {0} /\ MaxBars \in Nat \ {0}

VARIABLES
    lastPrice,      \* the tick whose price is shown, 0 before the first
    snapshot,       \* the request for it: its answer, and what it met
    bars,           \* the chart's array: numbers of bars
    history         \* the request for it

pageVars == <<lastPrice, snapshot, bars, history>>
vars == <<streamVars, pageVars>>

\* A request: what was read, whether that was the whole table, whether the
\* component's stream listened by then with nothing under way, and whether the
\* answer came before any live event.  One that is rejected is never applied.
Asked == [step |-> "asked", read |-> 0, whole |-> FALSE, heard |-> FALSE, first |-> FALSE]

Init ==
    /\ StreamInit
    /\ lastPrice = 0
    /\ snapshot = Asked
    /\ bars = << >>
    /\ history = Asked

\* Every event the channel's stream was sent has reached its component.
Drained(k, c) == \A i \in DOMAIN pipe[k] : pipe[k][i].channel # c

\* getLatestMarketState: the newest stored tick.
ReadSnapshot ==
    /\ snapshot.step = "asked"
    /\ snapshot' = [snapshot EXCEPT
                        !.step = "answering", !.read = stored["tick"], !.whole = TRUE,
                        !.heard = Dashboard \in listeners["tick"] /\ Drained(Dashboard, "tick")]
    /\ UNCHANGED <<streamVars, lastPrice, bars, history>>

\* applyLatestSnapshot: without a trade in the answer the price stays.
ApplySnapshot ==
    /\ snapshot.step = "answering" /\ client[Dashboard] = "here"
    /\ snapshot' = [snapshot EXCEPT !.step = "applied", !.first = (lastPrice = 0)]
    /\ lastPrice' = IF snapshot.read = 0 THEN lastPrice ELSE snapshot.read
    /\ UNCHANGED <<streamVars, bars, history>>

\* getOhlcvHistory: ORDER BY "timestamp" ASC LIMIT, the number of bars read.
OldestBars(n) == IF n < HistoryLimit THEN n ELSE HistoryLimit

ReadHistory ==
    /\ history.step = "asked"
    /\ history' = [history EXCEPT
                        !.step = "answering", !.read = OldestBars(stored["ohlcv"]),
                        !.whole = (stored["ohlcv"] <= HistoryLimit),
                        !.heard = Chart \in listeners["ohlcv"] /\ Drained(Chart, "ohlcv")]
    /\ UNCHANGED <<streamVars, lastPrice, snapshot, bars>>

\* The answer is pushed behind whatever was streamed meanwhile.
ApplyHistory ==
    /\ history.step = "answering" /\ client[Chart] = "here"
    /\ history' = [history EXCEPT !.step = "applied", !.first = (bars = << >>)]
    /\ bars' = bars \o [i \in 1..history.read |-> i]
    /\ UNCHANGED <<streamVars, lastPrice, snapshot>>

\* Mutant of WithBar: a bar is never replaced.
AppendedBar(n) == Append(bars, n)

\* PriceChart's ohlcv listener: the same bar again replaces the last one, and
\* the oldest goes beyond MaxBars.
WithBar(n) ==
    IF bars # << >> /\ Last(bars) = n THEN bars
    ELSE IF Len(bars) >= MaxBars THEN Tail(Append(bars, n)) ELSE Append(bars, n)

\* Mutant of Received: ticks are not applied before the snapshot is.
ReceivedAfterSnapshot(k) ==
    /\ pipe[k] # << >>
    /\ pipe' = [pipe EXCEPT ![k] = Tail(@)]
    /\ LET event == Head(pipe[k])
       IN  /\ lastPrice' = IF k = Dashboard /\ event.channel = "tick" /\ snapshot.step # "applied"
                           THEN event.no ELSE lastPrice
           /\ bars' = IF k = Chart /\ event.channel = "ohlcv" THEN WithBar(event.no) ELSE bars
    /\ UNCHANGED <<hub, feed, snapshot, history>>

\* The next event of a stream reaches its component.
Received(k) ==
    /\ pipe[k] # << >>
    /\ pipe' = [pipe EXCEPT ![k] = Tail(@)]
    /\ LET event == Head(pipe[k])
       IN  /\ lastPrice' = IF k = Dashboard /\ event.channel = "tick" THEN event.no ELSE lastPrice
           /\ bars' = IF k = Chart /\ event.channel = "ohlcv" THEN WithBar(event.no) ELSE bars
    /\ UNCHANGED <<hub, feed, snapshot, history>>

Next ==
    \/ StreamNext /\ UNCHANGED pageVars
    \/ ReadSnapshot \/ ApplySnapshot
    \/ ReadHistory \/ ApplyHistory
    \/ \E k \in Streams : Received(k)

Spec == Init /\ [][Next]_vars

-----------------------------------------------------------------------------

Request ==
    [step : {"asked", "answering", "applied"}, read : Nat,
     whole : BOOLEAN, heard : BOOLEAN, first : BOOLEAN]

TypeOK ==
    /\ StreamTypeOK
    /\ \A k \in Streams : pipe[k] \in Seq([channel : ChannelSet, no : Nat])
    /\ lastPrice \in 0..stored["tick"]
    /\ bars \in Seq(1..stored["ohlcv"])
    /\ {snapshot, history} \subseteq Request

\* A first answer that cannot be out of step with the stream.
InStep(request, k, c) ==
    /\ request.step = "applied" /\ request.whole /\ request.heard /\ request.first
    /\ k \in listeners[c] /\ client[k] = "here"

\* When the stream was subscribed before the snapshot was read, the answer
\* came before any tick, and nobody unsubscribed the channel, the
\* dashboard that has received its events shows the newest published price.
\* Each hypothesis is needed: the code enforces none of them.
PriceIsCurrent ==
    InStep(snapshot, Dashboard, "tick") /\ Drained(Dashboard, "tick")
        => lastPrice >= published["tick"]

\* Under the same hypotheses, and as long as the table held no more bars than
\* the limit, the chart is the series of bars without gap, repetition or
\* disorder, up to the newest one published.
ChartIsTheSeries ==
    InStep(history, Chart, "ohlcv") =>
        /\ \A i \in 2..Len(bars) : bars[i] = bars[i - 1] + 1
        /\ Len(bars) < MaxBars /\ bars # << >> => bars[1] = 1
        /\ Drained(Chart, "ohlcv") /\ bars # << >> => Last(bars) >= published["ohlcv"]

=============================================================================
