----------------------------- MODULE FeedIngest -----------------------------
(***************************************************************************)
(* services/market-data: what happens to a parsed websocket message in     *)
(* main.ts.  Each arrival is judged and remembered synchronously, then its *)
(* handler awaits the insert into Postgres and the publication to Redis on *)
(* its own, so handlers overtake one another, and a failed one only leaves *)
(* a log line.  The exchange may deliver a message again, the process may  *)
(* crash and start afresh.                                                 *)
(***************************************************************************)
EXTENDS Integers, FiniteSets, SequencesExt

CONSTANTS
    Messages,           \* what the exchange sends: records [feed, id, odd]
    Window,             \* TRADE_ID_DEDUPE_WINDOW
    MaxArrivals,        \* bound on the messages received
    MaxFaults,          \* bound on failed statements and crashes
    NoRow               \* the key is not in the table

\* `odd' is a crossed book, or a funding rate or basis beyond its threshold;
\* a message is its natural key and, with it, one row of its table.
Message ==
    [feed : {"trade", "ohlcv", "book", "funding", "basis"}, id : Nat, odd : BOOLEAN]

ASSUME FeedIngestAssumption ==
    /\ Messages \subseteq Message
    /\ Window \in Nat \ {0} /\ MaxArrivals \in Nat /\ MaxFaults \in Nat
    /\ NoRow \notin {"ok", "suspect", "rejected"}

VARIABLES
    recent,         \* BoundedIdSet: the trades remembered, oldest first
    handlers,       \* the asynchronous handlers that have not ended
    rows,           \* quality_status of the row stored for each message
    published,      \* what went out on Redis, and for which arrival
    arrivals,       \* what was received and how it was judged, in order
    life,           \* which life of the process this is
    faults          \* failed statements and crashes so far

vars == <<recent, handlers, rows, published, arrivals, life, faults>>

-----------------------------------------------------------------------------
(* The quality gates; `late' is a timestamp outside the sanity window.     *)

TimestampSanity(late) == IF late THEN "suspect" ELSE "ok"

EvaluateQuality(m, late) ==
    CASE m.feed = "trade" /\ m \in ToSet(recent)        -> "rejected"
      [] m.feed = "book" /\ m.odd                       -> "rejected"
      [] m.feed \in {"funding", "basis"} /\ m.odd       -> "suspect"
      [] OTHER                                          -> TimestampSanity(late)

\* Mutants of Remember: no eviction; eviction one id early.
RememberForever(m) ==
    IF m.feed # "trade" \/ m \in ToSet(recent) THEN recent ELSE Append(recent, m)

RememberOneLess(m) ==
    LET longer == RememberForever(m)
    IN  IF Len(longer) >= Window THEN Tail(longer) ELSE longer

\* BoundedIdSet.add: an id that is already there keeps its age.
Remember(m) ==
    LET longer == Append(recent, m)
    IN  IF m.feed # "trade" \/ m \in ToSet(recent) THEN recent
        ELSE IF Len(longer) > Window THEN Tail(longer) ELSE longer

-----------------------------------------------------------------------------

Init ==
    /\ recent = << >>
    /\ handlers = {}
    /\ rows = [m \in Messages |-> NoRow]
    /\ published = {}
    /\ arrivals = << >>
    /\ life = 0
    /\ faults = 0

\* The synchronous part of onTrade, onOhlcv, onOrderBookSnapshot,
\* onFundingRate and onBasis, up to the first await.
Receive(m) ==
    /\ Len(arrivals) < MaxArrivals
    /\ \E late \in BOOLEAN :
        LET status == EvaluateQuality(m, late)
        IN  /\ arrivals' = Append(arrivals, [message |-> m, status |-> status, life |-> life])
            /\ handlers' = handlers \cup
                {[no |-> Len(arrivals'), message |-> m, status |-> status, step |-> "insert"]}
    /\ recent' = Remember(m)
    /\ UNCHANGED <<rows, published, life, faults>>

\* What is left of a handler once its insert is done: a rejected record is
\* only logged.
AfterInsert(h) == IF h.status = "rejected" THEN {} ELSE {[h EXCEPT !.step = "publish"]}

\* Mutant of Insert: rejected records are not stored.
InsertAccepted(h) ==
    /\ h.step = "insert"
    /\ rows' = [rows EXCEPT ![h.message] =
                    IF @ = NoRow /\ h.status # "rejected" THEN h.status ELSE @]
    /\ handlers' = (handlers \ {h}) \cup AfterInsert(h)
    /\ UNCHANGED <<recent, published, arrivals, life, faults>>

\* INSERT ... ON CONFLICT DO NOTHING: the row that is there stays.
Stored(h) == [rows EXCEPT ![h.message] = IF @ = NoRow THEN h.status ELSE @]

Insert(h) ==
    /\ h.step = "insert"
    /\ rows' = Stored(h)
    /\ handlers' = (handlers \ {h}) \cup AfterInsert(h)
    /\ UNCHANGED <<recent, published, arrivals, life, faults>>

\* Mutant of Publish: does not wait for the insert.
PublishAtOnce(h) ==
    /\ h.status # "rejected"
    /\ published' = published \cup {[message |-> h.message, status |-> h.status, no |-> h.no]}
    /\ handlers' = handlers \ {h}
    /\ UNCHANGED <<recent, rows, arrivals, life, faults>>

Publish(h) ==
    /\ h.step = "publish"
    /\ published' = published \cup {[message |-> h.message, status |-> h.status, no |-> h.no]}
    /\ handlers' = handlers \ {h}
    /\ UNCHANGED <<recent, rows, arrivals, life, faults>>

\* The statement rejects, before or after it took effect in the database;
\* .catch logs it and the handler is over.
Fail(h) ==
    /\ faults < MaxFaults
    /\ faults' = faults + 1
    /\ handlers' = handlers \ {h}
    /\ rows' \in {rows, Stored(h)}
    /\ UNCHANGED <<recent, published, arrivals, life>>

\* The process ends, by a crash or by shutdown(), with its handlers and its
\* memory of ids, and is started again.
Restart ==
    /\ faults < MaxFaults
    /\ faults' = faults + 1
    /\ life' = life + 1
    /\ recent' = << >>
    /\ handlers' = {}
    /\ UNCHANGED <<rows, published, arrivals>>

Next ==
    \/ \E m \in Messages : Receive(m)
    \/ \E h \in handlers : Insert(h) \/ Publish(h) \/ Fail(h)
    \/ Restart

\* The event loop settles every await of a live process.
Settle == \E h \in handlers : Insert(h) \/ Publish(h)
Spec == Init /\ [][Next]_vars /\ WF_vars(Settle)

-----------------------------------------------------------------------------
(* Properties                                                              *)

TypeOK ==
    /\ recent \in Seq({m \in Messages : m.feed = "trade"})
    /\ Len(recent) <= Window /\ IsInjective(recent)
    /\ rows \in [Messages -> {"ok", "suspect", "rejected", NoRow}]
    /\ \A h \in handlers :
        /\ h.message \in Messages /\ h.no \in DOMAIN arrivals
        /\ h.step = "publish" => h.status # "rejected"

\* What the dashboard was shown is in the database: no publication runs ahead
\* of its row, whatever failed, overtook it or was restarted in between.
PublishedIsStored ==
    \A p \in published : rows[p.message] # NoRow

\* The bounded memory of ids does its job in spite of evictions: in one life of
\* the process a trade passes the gate twice only if at least Window other
\* trades arrived in between.
DuplicatesAreCaughtWithinTheWindow ==
    \A i, j \in DOMAIN arrivals :
        (/\ i < j
         /\ arrivals[i].message = arrivals[j].message
         /\ arrivals[i].message.feed = "trade"
         /\ arrivals[i].life = arrivals[j].life
         /\ arrivals[i].status # "rejected" /\ arrivals[j].status # "rejected")
        => Cardinality({arrivals[k].message : k \in
                {n \in i..j : arrivals[n].message.feed = "trade"}} \ {arrivals[i].message})
            >= Window

\* A crossed book is shown to nobody: neither live nor, as a row that is not
\* rejected, to anyone who reads the table.
CrossedBooksStayOut ==
    \A m \in Messages : (m.feed = "book" /\ m.odd) =>
        /\ rows[m] \in {"rejected", NoRow}
        /\ \A p \in published : p.message # m

\* The first write decides: no later delivery, restart or failure changes or
\* removes a row.
RowsAreFinal ==
    [][\A m \in Messages : rows[m] # NoRow => rows'[m] = rows[m]]_vars

\* Nothing that was received goes missing quietly: unless a statement failed
\* or the process went down, it ends up in its table.
ReceivedIsStored ==
    \A m \in Messages :
        (\E i \in DOMAIN arrivals : arrivals[i].message = m)
            ~> (rows[m] # NoRow \/ faults > 0)

=============================================================================
