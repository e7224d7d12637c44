----------------------------- MODULE FeedProofs -----------------------------
(***************************************************************************)
(* What ingestion and the adapter under it guarantee: FeedIngest for every *)
(* set of messages, every size of the duplicate memory and any number of   *)
(* arrivals, failures and restarts; FeedConnection for any number of calls, *)
(* losses and stale events, and for the delays the adapter waits.          *)
(***************************************************************************)
EXTENDS FeedIngest, FeedConnection, DataLemmas, SequenceTheorems

-----------------------------------------------------------------------------
(* FeedIngest                                                              *)

Trades == {m \in Messages : m.feed = "trade"}
Statuses == {"ok", "suspect", "rejected"}

Arrival == [message : Messages, status : Statuses, life : Nat]
Handler == [no : Nat, message : Messages, status : Statuses, step : {"insert", "publish"}]

Crossed(m) == m.feed = "book" /\ m.odd

\* The variables, typed as far as the other invariants need.
Typed ==
    /\ recent \in Seq(Trades)
    /\ Len(recent) <= Window /\ IsInjective(recent)
    /\ rows \in [Messages -> Statuses \cup {NoRow}]
    /\ arrivals \in Seq(Arrival)
    /\ life \in Nat
    /\ \A k \in DOMAIN arrivals : arrivals[k].life <= life
    /\ \A h \in handlers :
        /\ h \in Handler /\ h.no \in DOMAIN arrivals
        /\ h.step = "publish" => h.status # "rejected"

\* A handler past its insert, and every publication, has its row.
Stores ==
    /\ \A h \in handlers : h.step = "publish" => rows[h.message] # NoRow
    /\ \A p \in published : p.message \in Messages /\ rows[p.message] # NoRow

\* Whatever is left of a crossed book in the system is marked rejected.
CrossedAreRejected ==
    /\ \A h \in handlers : Crossed(h.message) => h.status = "rejected"
    /\ \A m \in Messages : Crossed(m) => rows[m] \in {"rejected", NoRow}
    /\ \A p \in published : ~Crossed(p.message)

-----------------------------------------------------------------------------
(* The operators of the model                                              *)

LEMMA QualityIsAStatus ==
    ASSUME NEW m \in Messages, NEW late \in BOOLEAN
    PROVE  /\ EvaluateQuality(m, late) \in Statuses
           /\ Crossed(m) => EvaluateQuality(m, late) = "rejected"
           /\ m.feed = "trade" /\ m \in ToSet(recent) => EvaluateQuality(m, late) = "rejected"
BY DEF EvaluateQuality, TimestampSanity, Statuses, Crossed

\* add() appends a trade it does not hold, and evicts at most the oldest one.
LEMMA RememberMoves ==
    ASSUME Typed, NEW m \in Messages
    PROVE  /\ Remember(m) \in Seq(Trades)
           /\ Len(Remember(m)) <= Window
           /\ IsInjective(Remember(m))
<1> DEFINE longer == Append(recent, m)
<1>1. CASE m.feed # "trade" \/ m \in ToSet(recent)
  BY <1>1 DEF Remember, Typed
<1>2. CASE ~(m.feed # "trade" \/ m \in ToSet(recent))
  <2>1. m \in Trades
    BY <1>2 DEF Trades
  <2>2. longer \in Seq(Trades) /\ Len(longer) = Len(recent) + 1
    BY <2>1 DEF Typed
  <2>3. \A i \in 1..Len(recent) : longer[i] = recent[i] /\ longer[i] # m
    BY <1>2 DEF Typed, ToSet
  <2>4. longer[Len(longer)] = m
    BY <2>1 DEF Typed
  <2>5. IsInjective(longer)
    BY <2>2, <2>3, <2>4 DEF IsInjective, Typed
  <2> HIDE DEF longer
  <2>6. CASE Len(longer) > Window
    <3>1. Remember(m) = Tail(longer)
      BY <1>2, <2>6 DEF Remember, longer
    <3>2. Tail(longer) \in Seq(Trades) /\ Len(Tail(longer)) = Len(longer) - 1
      BY <2>2, <2>6, FeedIngestAssumption
    <3>3. \A i \in 1..(Len(longer) - 1) : Tail(longer)[i] = longer[i + 1]
      BY <2>2, <2>6, FeedIngestAssumption
    <3>4. IsInjective(Tail(longer))
      <4> SUFFICES ASSUME NEW a \in DOMAIN Tail(longer), NEW b \in DOMAIN Tail(longer),
                          Tail(longer)[a] = Tail(longer)[b]
                   PROVE  a = b
        BY DEF IsInjective
      <4>1. a \in 1..(Len(longer) - 1) /\ b \in 1..(Len(longer) - 1)
        BY <3>2
      <4>2. longer[a + 1] = longer[b + 1]
        BY <4>1, <3>3
      <4>3. a + 1 \in DOMAIN longer /\ b + 1 \in DOMAIN longer
        BY <4>1, <2>2
      <4> QED
        BY <4>1, <4>2, <4>3, <2>5 DEF IsInjective
    <3> QED
      BY <3>1, <3>2, <3>4, <2>2, FeedIngestAssumption DEF Typed
  <2>7. CASE ~(Len(longer) > Window)
    BY <1>2, <2>2, <2>5, <2>7, FeedIngestAssumption DEF Remember, Typed, longer
  <2> QED
    BY <2>6, <2>7
<1> QED
  BY <1>1, <1>2

-----------------------------------------------------------------------------
(* What was published is stored, and a row is final                        *)

IngestInv == Typed /\ Stores /\ CrossedAreRejected

LEMMA InitIngest == Init => IngestInv
BY FeedIngestAssumption DEF Init, IngestInv, Typed, Stores, CrossedAreRejected, IsInjective

\* The row an insert leaves is the one that was there, or the handler's.
LEMMA StoredRows ==
    ASSUME Typed, NEW h \in handlers
    PROVE  /\ Stored(h) \in [Messages -> Statuses \cup {NoRow}]
           /\ Stored(h)[h.message] # NoRow
           /\ \A m \in Messages : rows[m] # NoRow => Stored(h)[m] = rows[m]
           /\ \A m \in Messages : Stored(h)[m] = rows[m] \/ (m = h.message /\ Stored(h)[m] = h.status)
BY FeedIngestAssumption DEF Typed, Stored, Handler, Statuses

LEMMA ReceiveKeeps ==
    ASSUME IngestInv, NEW m \in Messages, Receive(m)
    PROVE  IngestInv'
<1> USE DEF IngestInv
<1>1. PICK late \in BOOLEAN :
        /\ arrivals' = Append(arrivals,
              [message |-> m, status |-> EvaluateQuality(m, late), life |-> life])
        /\ handlers' = handlers \cup
              {[no |-> Len(arrivals'), message |-> m, status |-> EvaluateQuality(m, late),
                step |-> "insert"]}
  BY DEF Receive
<1> DEFINE status == EvaluateQuality(m, late)
           new    == [no |-> Len(arrivals'), message |-> m, status |-> status, step |-> "insert"]
<1>2. status \in Statuses /\ (Crossed(m) => status = "rejected")
  BY QualityIsAStatus
<1> HIDE DEF status
<1>3. /\ UNCHANGED <<rows, published, life>>
      /\ recent' = Remember(m)
  BY DEF Receive
<1>4. /\ arrivals' \in Seq(Arrival)
      /\ Len(arrivals') = Len(arrivals) + 1
      /\ \A k \in DOMAIN arrivals' : arrivals'[k].life <= life
  <2>1. [message |-> m, status |-> status, life |-> life] \in Arrival
    BY <1>2 DEF Typed, Arrival
  <2> QED
    BY <1>1, <2>1 DEF Typed, status
<1>5. new \in Handler /\ new.no \in DOMAIN arrivals'
  BY <1>2, <1>4 DEF Handler, Typed
<1>6. Typed'
  <2>1. \A h \in handlers' : h \in Handler /\ h.no \in DOMAIN arrivals'
                                /\ (h.step = "publish" => h.status # "rejected")
    <3> SUFFICES ASSUME NEW h \in handlers'
                 PROVE  h \in Handler /\ h.no \in DOMAIN arrivals'
                            /\ (h.step = "publish" => h.status # "rejected")
      OBVIOUS
    <3>1. CASE h = new
      BY <3>1, <1>5
    <3>2. CASE h \in handlers
      BY <3>2, <1>4 DEF Typed
    <3> QED
      BY <3>1, <3>2, <1>1 DEF status
  <2> QED
    BY <2>1, <1>3, <1>4, RememberMoves DEF Typed
<1>7. Stores'
  BY <1>1, <1>3 DEF Stores
<1>8. CrossedAreRejected'
  BY <1>1, <1>2, <1>3 DEF CrossedAreRejected, Crossed, status
<1> QED
  BY <1>6, <1>7, <1>8

LEMMA InsertKeeps ==
    ASSUME IngestInv, NEW h \in handlers, Insert(h)
    PROVE  IngestInv'
<1> USE DEF IngestInv
<1>1. /\ rows' = Stored(h) /\ h.step = "insert"
      /\ UNCHANGED <<recent, published, arrivals, life>>
      /\ handlers' = (handlers \ {h}) \cup AfterInsert(h)
  BY DEF Insert
<1>2. h \in Handler /\ h.no \in DOMAIN arrivals
  BY DEF Typed
<1>3. \A g \in AfterInsert(h) :
        /\ g \in Handler /\ g.no = h.no /\ g.message = h.message /\ g.status = h.status
        /\ g.status # "rejected"
  BY <1>2 DEF AfterInsert, Handler
<1>4. Typed'
  <2>1. \A g \in handlers' : g \in Handler /\ g.no \in DOMAIN arrivals'
                                /\ (g.step = "publish" => g.status # "rejected")
    BY <1>1, <1>2, <1>3 DEF Typed
  <2> QED
    BY <2>1, <1>1, StoredRows DEF Typed
<1>5. Stores'
  <2>1. \A g \in handlers' : g.step = "publish" => rows'[g.message] # NoRow
    <3> SUFFICES ASSUME NEW g \in handlers', g.step = "publish"
                 PROVE  rows'[g.message] # NoRow
      OBVIOUS
    <3>1. CASE g \in handlers
      <4>1. g.message \in Messages /\ rows[g.message] # NoRow
        BY <3>1 DEF Typed, Stores, Handler
      <4> QED
        BY <4>1, <1>1, StoredRows
    <3>2. CASE g \in AfterInsert(h)
      BY <3>2, <1>1, <1>3, StoredRows
    <3> QED
      BY <1>1, <3>1, <3>2
  <2>2. \A p \in published' : p.message \in Messages /\ rows'[p.message] # NoRow
    BY <1>1, StoredRows DEF Stores
  <2> QED
    BY <2>1, <2>2 DEF Stores
<1>6. CrossedAreRejected'
  <2>1. \A g \in handlers' : Crossed(g.message) => g.status = "rejected"
    BY <1>1, <1>3 DEF CrossedAreRejected
  <2>2. \A m \in Messages : Crossed(m) => rows'[m] \in {"rejected", NoRow}
    BY <1>1, StoredRows DEF CrossedAreRejected
  <2> QED
    BY <2>1, <2>2, <1>1 DEF CrossedAreRejected
<1> QED
  BY <1>4, <1>5, <1>6

LEMMA PublishKeeps ==
    ASSUME IngestInv, NEW h \in handlers, Publish(h)
    PROVE  IngestInv'
<1> USE DEF IngestInv
<1>1. /\ h.step = "publish"
      /\ UNCHANGED <<recent, rows, arrivals, life>>
      /\ handlers' = handlers \ {h}
      /\ published' = published \cup
            {[message |-> h.message, status |-> h.status, no |-> h.no]}
  BY DEF Publish
<1>2. h.message \in Messages /\ rows[h.message] # NoRow /\ h.status # "rejected"
  BY <1>1 DEF Typed, Handler, Stores
<1>3. Typed'
  BY <1>1 DEF Typed
<1>4. Stores'
  BY <1>1, <1>2 DEF Stores
<1>5. ~Crossed(h.message)
  BY <1>2 DEF CrossedAreRejected
<1>6. CrossedAreRejected'
  BY <1>1, <1>5 DEF CrossedAreRejected
<1> QED
  BY <1>3, <1>4, <1>6

LEMMA FaultsKeep ==
    ASSUME IngestInv, (\E h \in handlers : Fail(h)) \/ Restart
    PROVE  IngestInv'
<1> USE DEF IngestInv
<1>1. ASSUME NEW h \in handlers, Fail(h) PROVE IngestInv'
  <2>1. /\ UNCHANGED <<recent, published, arrivals, life>>
        /\ handlers' = handlers \ {h}
        /\ rows' \in {rows, Stored(h)}
    BY <1>1 DEF Fail
  <2>2. /\ rows' \in [Messages -> Statuses \cup {NoRow}]
        /\ \A m \in Messages : rows[m] # NoRow => rows'[m] # NoRow
        /\ \A m \in Messages : rows'[m] = rows[m] \/ (m = h.message /\ rows'[m] = h.status)
    BY <2>1, StoredRows DEF Typed
  <2>3. Typed'
    BY <2>1, <2>2 DEF Typed
  <2>4. Stores'
    BY <2>1, <2>2 DEF Stores, Typed, Handler
  <2>5. CrossedAreRejected'
    BY <2>1, <2>2 DEF CrossedAreRejected
  <2> QED
    BY <2>3, <2>4, <2>5
<1>2. CASE Restart
  <2>1. recent' \in Seq(Trades) /\ Len(recent') <= Window /\ IsInjective(recent')
    BY <1>2, FeedIngestAssumption DEF Restart, IsInjective
  <2>2. \A k \in DOMAIN arrivals : arrivals[k].life <= life + 1
    <3> SUFFICES ASSUME NEW k \in DOMAIN arrivals PROVE arrivals[k].life <= life + 1
      OBVIOUS
    <3>1. arrivals[k] \in Arrival /\ arrivals[k].life <= life /\ life \in Nat
      BY DEF Typed
    <3> QED
      BY <3>1 DEF Arrival
  <2>3. Typed'
    BY <1>2, <2>1, <2>2 DEF Restart, Typed
  <2>4. Stores' /\ CrossedAreRejected'
    BY <1>2 DEF Restart, Stores, CrossedAreRejected
  <2> QED
    BY <2>3, <2>4
<1> QED
  BY <1>1, <1>2

LEMMA NextKeepsIngest == IngestInv /\ [Next]_vars => IngestInv'
<1> SUFFICES ASSUME IngestInv, [Next]_vars PROVE IngestInv'
  OBVIOUS
<1>1. CASE UNCHANGED vars
  BY <1>1 DEF IngestInv, vars, Typed, Stores, CrossedAreRejected
<1>2. CASE Next
  BY <1>2, ReceiveKeeps, InsertKeeps, PublishKeeps, FaultsKeep DEF Next
<1> QED
  BY <1>1, <1>2

LEMMA IngestInvHolds == Spec => []IngestInv
BY InitIngest, NextKeepsIngest, PTL DEF Spec

\* No publication runs ahead of its row, crossed books reach nobody, and the
\* memory of ids is bounded, however handlers, failures and restarts mix.
THEOREM IngestIsSafe == Spec => [](TypeOK /\ PublishedIsStored /\ CrossedBooksStayOut)
<1>1. IngestInv => TypeOK /\ PublishedIsStored /\ CrossedBooksStayOut
  <2> SUFFICES ASSUME IngestInv PROVE TypeOK /\ PublishedIsStored /\ CrossedBooksStayOut
    OBVIOUS
  <2>1. TypeOK
    BY DEF IngestInv, Typed, TypeOK, Trades, Statuses, Handler
  <2>2. PublishedIsStored
    BY DEF IngestInv, Stores, PublishedIsStored
  <2>3. CrossedBooksStayOut
    BY DEF IngestInv, CrossedAreRejected, CrossedBooksStayOut, Crossed
  <2> QED
    BY <2>1, <2>2, <2>3
<1> QED
  BY <1>1, IngestInvHolds, PTL

\* Of that, what the ingestion's memory, rows and handlers are made of: the
\* memory holds different trades, never more than its size, and a handler with
\* a message to publish has one that quality control let through.
THEOREM IngestTypes == Spec => []TypeOK
BY IngestIsSafe, PTL

\* The first write of a row is the last: no step changes or removes it.
THEOREM RowsStay == Spec => RowsAreFinal
<1>1. IngestInv /\ [Next]_vars =>
        [\A m \in Messages : rows[m] # NoRow => rows'[m] = rows[m]]_vars
  <2> SUFFICES ASSUME IngestInv, Next, NEW m \in Messages, rows[m] # NoRow
               PROVE  rows'[m] = rows[m]
    OBVIOUS
  <2>1. Typed
    BY DEF IngestInv
  <2>2. ASSUME NEW h \in handlers, Insert(h) \/ Publish(h) \/ Fail(h)
        PROVE  rows'[m] = rows[m]
    BY <2>1, <2>2, StoredRows DEF Insert, Publish, Fail
  <2> QED
    BY <2>2 DEF Next, Receive, Restart
<1> QED
  BY <1>1, IngestInvHolds, PTL DEF Spec, RowsAreFinal

-----------------------------------------------------------------------------
(* The duplicate memory                                                    *)

\* The other trades among the arrivals from i to j.
Others(i, j) ==
    {arrivals[k].message : k \in {n \in i..j : arrivals[n].message.feed = "trade"}}
        \ {arrivals[i].message}

Passed(i) == arrivals[i].message.feed = "trade" /\ arrivals[i].status # "rejected"

\* A trade that passed the gate in this life is remembered, and everything
\* remembered after it arrived after it; or at least Window others did.
OldestFirst ==
    \A i \in DOMAIN arrivals : Passed(i) /\ arrivals[i].life = life =>
        \/ \E p \in DOMAIN recent :
              /\ recent[p] = arrivals[i].message
              /\ \A q \in DOMAIN recent : q > p => recent[q] \in Others(i, Len(arrivals))
        \/ Cardinality(Others(i, Len(arrivals))) >= Window

DuplicatesInv == Typed /\ OldestFirst /\ DuplicatesAreCaughtWithinTheWindow

\* Others is finite, before a step and after it.
LEMMA OthersAreFinite ==
    ASSUME NEW s, NEW i \in Nat, NEW j \in Nat
    PROVE  IsFiniteSet({s[k].message : k \in {n \in i..j : s[n].message.feed = "trade"}}
                            \ {s[i].message})
<1> DEFINE K == {n \in i..j : s[n].message.feed = "trade"}
           T == {s[k].message : k \in K}
           f == [k \in K |-> s[k].message]
<1>1. IsFiniteSet(K)
  <2>1. IsFiniteSet(i..j)
    BY FS_Interval
  <2> QED
    BY <2>1, FS_Subset
<1>2. f \in Surjection(K, T)
  BY DEF Surjection
<1>3. IsFiniteSet(T)
  <2> HIDE DEF K, T, f
  <2> QED
    BY <1>1, <1>2, FS_Surjection
<1>4. IsFiniteSet(T \ {s[i].message})
  <2> HIDE DEF T
  <2> QED
    BY <1>3, FS_Subset
<1> QED
  BY <1>4

\* A set that contains all but the first element of a sequence without
\* repetitions has at least as many elements.
LEMMA DistinctTail ==
    ASSUME NEW S, NEW s \in Seq(S), IsInjective(s), Len(s) >= 1,
           NEW T, IsFiniteSet(T), \A q \in 2..Len(s) : s[q] \in T
    PROVE  Cardinality(T) >= Len(s) - 1
<1> DEFINE n == Len(s) - 1
           f == [q \in 1..n |-> s[q + 1]]
<1>1. n \in Nat /\ \A q \in 1..n : q + 1 \in 2..Len(s)
  OBVIOUS
<1>2. f \in [1..n -> T]
  BY <1>1
<1>3. IsInjective(f)
  BY <1>1 DEF IsInjective
<1>4. f \in Injection(1..n, T)
  BY <1>2, <1>3 DEF Injection
<1>5. Cardinality(1..n) = n
  <2>1. 1 \in Int /\ n \in Int
    BY <1>1
  <2>2. Cardinality(1..n) = IF 1 > n THEN 0 ELSE n - 1 + 1
    BY <2>1, FS_Interval
  <2> QED
    BY <1>1, <2>2
<1>6. Cardinality(1..n) <= Cardinality(T)
  <2> HIDE DEF f, n
  <2> QED
    BY <1>4, FS_Injection
<1> QED
  BY <1>5, <1>6

\* What an arrival adds: the earlier windows stay as they were, those that
\* reach up to it can only gain, and gain it if it is another trade.
LEMMA OthersGrow ==
    ASSUME Typed, NEW a \in Arrival, arrivals' = Append(arrivals, a)
    PROVE  /\ \A i, j \in DOMAIN arrivals : Others(i, j)' = Others(i, j)
           /\ \A i \in DOMAIN arrivals :
                /\ Others(i, Len(arrivals)) \subseteq Others(i, Len(arrivals))'
                /\ a.message.feed = "trade" /\ a.message # arrivals[i].message
                      => a.message \in Others(i, Len(arrivals))'
           /\ \A i \in DOMAIN arrivals : arrivals'[i] = arrivals[i]
           /\ Len(arrivals') = Len(arrivals) + 1
           /\ arrivals'[Len(arrivals')] = a
<1>1. /\ \A i \in DOMAIN arrivals : arrivals'[i] = arrivals[i]
      /\ Len(arrivals') = Len(arrivals) + 1
      /\ arrivals'[Len(arrivals')] = a
      /\ DOMAIN arrivals = 1..Len(arrivals) /\ Len(arrivals) \in Nat
  BY DEF Typed
<1>2. ASSUME NEW i \in DOMAIN arrivals, NEW j \in DOMAIN arrivals
      PROVE  Others(i, j)' = Others(i, j)
  <2>1. \A n \in i..j : n \in DOMAIN arrivals
    BY <1>1
  <2> QED
    BY <1>1, <2>1 DEF Others
<1>3. ASSUME NEW i \in DOMAIN arrivals
      PROVE  /\ Others(i, Len(arrivals)) \subseteq Others(i, Len(arrivals))'
             /\ a.message.feed = "trade" /\ a.message # arrivals[i].message
                      => a.message \in Others(i, Len(arrivals))'
  <2>1. \A n \in i..Len(arrivals) : n \in DOMAIN arrivals /\ n \in i..Len(arrivals')
    BY <1>1
  <2>2. Others(i, Len(arrivals)) \subseteq Others(i, Len(arrivals))'
    BY <1>1, <2>1 DEF Others
  <2>3. Len(arrivals') \in i..Len(arrivals')
    BY <1>1
  <2> QED
    BY <1>1, <2>2, <2>3 DEF Others
<1> QED
  BY <1>1, <1>2, <1>3

\* How an arrival leaves the memory: as it was, or longer by the trade, or
\* longer by the trade and shorter by the oldest, when it was full.
LEMMA RememberCases ==
    ASSUME Typed, NEW m \in Messages
    PROVE  \/ (m.feed # "trade" \/ m \in ToSet(recent)) /\ Remember(m) = recent
           \/ /\ m \in Trades /\ m \notin ToSet(recent)
              /\ Len(recent) < Window
              /\ Remember(m) = Append(recent, m)
           \/ /\ m \in Trades /\ m \notin ToSet(recent)
              /\ Len(recent) = Window
              /\ Remember(m) = Tail(Append(recent, m))
<1>1. CASE m.feed # "trade" \/ m \in ToSet(recent)
  BY <1>1 DEF Remember
<1>2. CASE ~(m.feed # "trade" \/ m \in ToSet(recent))
  <2>1. m \in Trades /\ m \notin ToSet(recent)
    BY <1>2 DEF Trades
  <2>2. Len(Append(recent, m)) = Len(recent) + 1 /\ Len(recent) \in Nat /\ Len(recent) <= Window
    BY <2>1 DEF Typed
  <2> QED
    BY <1>2, <2>1, <2>2, FeedIngestAssumption DEF Remember
<1> QED
  BY <1>1, <1>2

\* The same trades after a step.
LEMMA OthersAreFiniteAfter ==
    ASSUME NEW i \in Nat, Len(arrivals') \in Nat
    PROVE  IsFiniteSet(Others(i, Len(arrivals))')
<1>1. ASSUME NEW b \in Nat, NEW j \in Nat
      PROVE  IsFiniteSet({arrivals'[k].message : k \in
              {x \in b..j : arrivals'[x].message.feed = "trade"}} \ {arrivals'[b].message})
  BY OthersAreFinite
<1> QED
  BY <1>1 DEF Others

\* An earlier trade of this life stays remembered or is outnumbered.
LEMMA EarlierTradeKept ==
    ASSUME Typed, OldestFirst, NEW m \in Messages, recent' = Remember(m),
           NEW a \in Arrival, a.message = m, arrivals' = Append(arrivals, a),
           NEW i \in DOMAIN arrivals, Passed(i), arrivals[i].life = life
    PROVE  \/ \E p \in DOMAIN recent' :
                /\ recent'[p] = arrivals[i].message
                /\ \A q \in DOMAIN recent' :
                      q > p => recent'[q] \in Others(i, Len(arrivals))'
           \/ Cardinality(Others(i, Len(arrivals))') >= Window
<1> DEFINE old == Others(i, Len(arrivals))
           new == Others(i, Len(arrivals))'
<1>1. /\ old \subseteq new
      /\ m \in Trades /\ m # arrivals[i].message => m \in new
  BY OthersGrow DEF Trades
<1>2. IsFiniteSet(new) /\ Cardinality(new) \in Nat
  <2>1. Len(arrivals') = Len(arrivals) + 1
    BY OthersGrow
  <2>2. i \in Nat /\ Len(arrivals') \in Nat
    BY <2>1 DEF Typed
  <2>3. IsFiniteSet(new)
    BY <2>2, OthersAreFiniteAfter
  <2> QED
    BY <2>3, FS_CardinalityType
<1>3. CASE Cardinality(old) >= Window
  <2>1. Cardinality(old) <= Cardinality(new) /\ Cardinality(old) \in Nat
    <3> HIDE DEF old, new
    <3> QED
      BY <1>1, <1>2, FS_Subset, FS_CardinalityType
  <2> QED
    BY <1>2, <1>3, <2>1, FeedIngestAssumption
<1>4. ASSUME NEW p \in DOMAIN recent, recent[p] = arrivals[i].message,
             \A q \in DOMAIN recent : q > p => recent[q] \in old
      PROVE  \/ \E b \in DOMAIN recent' :
                  /\ recent'[b] = arrivals[i].message
                  /\ \A q \in DOMAIN recent' : q > b => recent'[q] \in new
             \/ Cardinality(new) >= Window
  <2> HIDE DEF old, new
  <2>1. CASE recent' = recent
    BY <1>1, <1>4, <2>1
  <2> DEFINE longer == Append(recent, m)
  <2>2. ASSUME m \in Trades, m \notin ToSet(recent)
        PROVE  /\ longer \in Seq(Trades) /\ Len(longer) = Len(recent) + 1
               /\ longer[p] = arrivals[i].message
               /\ \A q \in DOMAIN longer : q > p => longer[q] \in new
               /\ IsInjective(longer)
    <3>1. /\ longer \in Seq(Trades) /\ Len(longer) = Len(recent) + 1
          /\ longer[Len(recent) + 1] = m
          /\ \A q \in 1..Len(recent) : longer[q] = recent[q]
          /\ DOMAIN recent = 1..Len(recent) /\ Len(recent) \in Nat
      BY <2>2 DEF Typed
    <3>2. m # arrivals[i].message
      BY <1>4, <2>2 DEF ToSet
    <3>3. \A q \in DOMAIN longer : q > p => longer[q] \in new
      <4> HIDE DEF longer
      <4> SUFFICES ASSUME NEW q \in DOMAIN longer, q > p PROVE longer[q] \in new
        OBVIOUS
      <4>1. CASE q \in 1..Len(recent)
        BY <4>1, <3>1, <1>1, <1>4
      <4>2. CASE q = Len(recent) + 1
        BY <4>2, <3>1, <3>2, <1>1, <2>2
      <4> QED
        BY <4>1, <4>2, <3>1
    <3>4. IsInjective(longer)
      <4>1. \A q \in 1..Len(recent) : longer[q] # m
        BY <2>2, <3>1 DEF ToSet
      <4> HIDE DEF longer
      <4> QED
        BY <3>1, <4>1 DEF IsInjective, Typed
    <3> QED
      BY <3>1, <3>3, <3>4, <1>4
  <2>3. CASE m \in Trades /\ m \notin ToSet(recent) /\ recent' = longer
    BY <2>2, <2>3 DEF Typed
  <2>4. CASE /\ m \in Trades /\ m \notin ToSet(recent) /\ Len(recent) = Window
             /\ recent' = Tail(longer)
    <3> HIDE DEF longer
    <3>1. Len(longer) = Window + 1 /\ Window \in Nat
      BY <2>2, <2>4, FeedIngestAssumption
    <3>2. /\ DOMAIN recent' = 1..Window
          /\ \A q \in 1..Window : recent'[q] = longer[q + 1]
      BY <2>2, <2>4, <3>1
    <3>3. CASE p = 1
      <4>1. \A q \in 2..Len(longer) : longer[q] \in new
        BY <2>2, <2>4, <3>1, <3>3
      <4>2. longer \in Seq(Trades) /\ IsInjective(longer) /\ Len(longer) >= 1
        BY <2>2, <2>4, <3>1
      <4>3. Cardinality(new) >= Len(longer) - 1
        BY <4>1, <4>2, <1>2, DistinctTail
      <4> QED
        BY <4>3, <3>1, <1>2
    <3>4. CASE p > 1
      <4>1. p - 1 \in 1..Window /\ p \in Nat
        BY <2>4, <3>1, <3>4 DEF Typed
      <4>2. recent'[p - 1] = arrivals[i].message
        BY <4>1, <3>2, <2>2, <2>4
      <4>3. ASSUME NEW q \in 1..Window, q > p - 1 PROVE recent'[q] \in new
        <5>1. q + 1 \in DOMAIN longer /\ q + 1 > p
          BY <4>1, <4>3, <3>1, <2>2, <2>4
        <5> QED
          BY <5>1, <3>2, <2>2, <2>4
      <4> QED
        BY <4>1, <4>2, <4>3, <3>2
    <3> QED
      BY <3>3, <3>4, <1>4 DEF Typed
  <2> QED
    BY <2>1, <2>3, <2>4, RememberCases
<1> QED
  BY <1>3, <1>4 DEF OldestFirst

LEMMA ReceiveKeepsDuplicates ==
    ASSUME DuplicatesInv, Typed', NEW m \in Messages, Receive(m)
    PROVE  DuplicatesInv'
<1> USE DEF DuplicatesInv
<1>1. PICK late \in BOOLEAN : arrivals' = Append(arrivals,
              [message |-> m, status |-> EvaluateQuality(m, late), life |-> life])
  BY DEF Receive
<1> DEFINE a == [message |-> m, status |-> EvaluateQuality(m, late), life |-> life]
           n == Len(arrivals) + 1
<1>2. a \in Arrival /\ a.message = m /\ a.life = life
  BY QualityIsAStatus DEF Arrival, Typed
<1>3. m.feed = "trade" /\ m \in ToSet(recent) => a.status = "rejected"
  BY QualityIsAStatus
<1> HIDE DEF a
<1>4. recent' = Remember(m) /\ life' = life /\ arrivals' = Append(arrivals, a)
  BY <1>1 DEF Receive, a
<1>5. /\ \A i \in DOMAIN arrivals : arrivals'[i] = arrivals[i]
      /\ Len(arrivals') = n /\ arrivals'[n] = a
      /\ DOMAIN arrivals = 1..Len(arrivals) /\ DOMAIN arrivals' = 1..n
      /\ Len(arrivals) \in Nat
  BY <1>2, <1>4, OthersGrow DEF Typed
<1>6. OldestFirst'
  <2> SUFFICES ASSUME NEW i \in DOMAIN arrivals', Passed(i)', arrivals'[i].life = life
               PROVE  \/ \E p \in DOMAIN recent' :
                            /\ recent'[p] = arrivals'[i].message
                            /\ \A q \in DOMAIN recent' :
                                  q > p => recent'[q] \in Others(i, Len(arrivals))'
                      \/ Cardinality(Others(i, Len(arrivals))') >= Window
    BY <1>4 DEF OldestFirst
  <2>1. CASE i \in DOMAIN arrivals
    <3>1. Passed(i) /\ arrivals[i].life = life /\ arrivals'[i] = arrivals[i]
      BY <2>1, <1>5 DEF Passed
    <3> QED
      BY <2>1, <3>1, <1>2, <1>4, EarlierTradeKept
  <2>2. CASE i = n
    <3>1. m \in Trades /\ m \notin ToSet(recent)
      BY <2>2, <1>2, <1>3, <1>5 DEF Passed, Trades
    <3>2. /\ recent' \in Seq(Trades) /\ Len(recent') \in Nat
          /\ Len(recent') > 0 /\ recent'[Len(recent')] = m
      <4>1. CASE recent' = Append(recent, m)
        BY <3>1, <4>1 DEF Typed
      <4>2. CASE Len(recent) = Window /\ recent' = Tail(Append(recent, m))
        BY <3>1, <4>2, FeedIngestAssumption DEF Typed
      <4> QED
        BY <3>1, <4>1, <4>2, <1>4, RememberCases DEF Trades
    <3> QED
      BY <3>2, <2>2, <1>2, <1>5
  <2> QED
    BY <2>1, <2>2, <1>5
<1>7. DuplicatesAreCaughtWithinTheWindow'
  <2> SUFFICES ASSUME NEW i \in DOMAIN arrivals', NEW j \in DOMAIN arrivals', i < j,
                      arrivals'[i].message = arrivals'[j].message,
                      arrivals'[i].life = arrivals'[j].life,
                      Passed(i)', Passed(j)'
               PROVE  Cardinality(Others(i, j)') >= Window
    BY DEF DuplicatesAreCaughtWithinTheWindow, Passed, Others
  <2>1. i \in DOMAIN arrivals /\ Passed(i) /\ arrivals'[i] = arrivals[i]
    BY <1>5 DEF Passed
  <2>2. CASE j \in DOMAIN arrivals
    <3>1. Passed(j) /\ arrivals'[j] = arrivals[j]
      BY <2>2, <1>5 DEF Passed
    <3>2. Cardinality(Others(i, j)) >= Window
      BY <2>1, <2>2, <3>1 DEF DuplicatesAreCaughtWithinTheWindow, Passed, Others
    <3> QED
      BY <3>2, <2>1, <2>2, <1>2, <1>4, OthersGrow
  <2>3. CASE j = n
    <3>1. m \in Trades /\ m \notin ToSet(recent)
      BY <2>3, <1>2, <1>3, <1>5 DEF Passed, Trades
    <3>2. arrivals[i].message = m /\ arrivals[i].life = life
      BY <2>1, <2>3, <1>2, <1>5
    <3>3. Cardinality(Others(i, Len(arrivals))) >= Window
      BY <3>1, <3>2, <2>1 DEF OldestFirst, ToSet
    <3>4. Others(i, Len(arrivals)) \subseteq Others(i, Len(arrivals))'
      BY <2>1, <1>2, <1>4, OthersGrow
    <3>5. Others(i, Len(arrivals))' = Others(i, j)'
      BY <2>3, <1>5 DEF Others
    <3>6. IsFiniteSet(Others(i, j)')
      <4>1. i \in Nat /\ j \in Nat
        BY <1>5
      <4>2. IsFiniteSet({arrivals'[k].message : k \in
                {x \in i..j : arrivals'[x].message.feed = "trade"}} \ {arrivals'[i].message})
        BY <4>1, OthersAreFinite
      <4> QED
        BY <4>2 DEF Others
    <3>7. /\ Cardinality(Others(i, Len(arrivals))) \in Nat
          /\ Cardinality(Others(i, j)') \in Nat
          /\ Cardinality(Others(i, Len(arrivals))) <= Cardinality(Others(i, j)')
      <4> DEFINE old == Others(i, Len(arrivals))
                 new == Others(i, j)'
      <4>1. old \subseteq new /\ IsFiniteSet(new)
        BY <3>4, <3>5, <3>6
      <4> HIDE DEF old, new
      <4>2. IsFiniteSet(old) /\ Cardinality(old) <= Cardinality(new)
        BY <4>1, FS_Subset
      <4>3. Cardinality(old) \in Nat /\ Cardinality(new) \in Nat
        BY <4>1, <4>2, FS_CardinalityType
      <4> QED
        BY <4>2, <4>3 DEF old, new
    <3> QED
      BY <3>3, <3>7, FeedIngestAssumption
  <2> QED
    BY <2>2, <2>3, <1>5
<1> QED
  BY <1>6, <1>7

LEMMA NextKeepsDuplicates ==
    IngestInv /\ IngestInv' /\ DuplicatesInv /\ [Next]_vars => DuplicatesInv'
<1> SUFFICES ASSUME IngestInv, IngestInv', DuplicatesInv, [Next]_vars
             PROVE  DuplicatesInv'
  OBVIOUS
<1>1. Typed'
  BY DEF IngestInv
<1>2. ASSUME UNCHANGED <<recent, arrivals, life>> PROVE DuplicatesInv'
  BY <1>1, <1>2 DEF DuplicatesInv, OldestFirst, DuplicatesAreCaughtWithinTheWindow, Passed,
                    Others
<1>3. CASE Restart
  <2>1. OldestFirst'
    <3> SUFFICES ASSUME NEW i \in DOMAIN arrivals PROVE arrivals[i].life # life'
      BY <1>3 DEF Restart, OldestFirst
    <3>1. arrivals[i] \in Arrival /\ arrivals[i].life <= life /\ life \in Nat
      BY DEF DuplicatesInv, Typed
    <3> QED
      BY <3>1, <1>3 DEF Restart, Arrival
  <2>2. DuplicatesAreCaughtWithinTheWindow'
    BY <1>3 DEF Restart, DuplicatesInv, DuplicatesAreCaughtWithinTheWindow
  <2> QED
    BY <1>1, <2>1, <2>2 DEF DuplicatesInv
<1>4. CASE Next
  BY <1>1, <1>2, <1>3, <1>4, ReceiveKeepsDuplicates DEF Next, Insert, Publish, Fail
<1>5. CASE UNCHANGED vars
  BY <1>2, <1>5 DEF vars
<1> QED
  BY <1>4, <1>5

\* For every size of the memory: within one life of the process a trade that
\* passes the gate twice was followed by at least that many other trades in
\* between, evictions and repetitions notwithstanding.
THEOREM DuplicatesAreCaught == Spec => []DuplicatesAreCaughtWithinTheWindow
<1>1. Init => DuplicatesInv
  BY FeedIngestAssumption, InitIngest
     DEF Init, IngestInv, DuplicatesInv, OldestFirst, DuplicatesAreCaughtWithinTheWindow
<1>2. Spec => []DuplicatesInv
  BY <1>1, IngestInvHolds, NextKeepsDuplicates, PTL DEF Spec
<1>3. DuplicatesInv => DuplicatesAreCaughtWithinTheWindow
  BY DEF DuplicatesInv
<1> QED
  BY <1>2, <1>3, PTL

-----------------------------------------------------------------------------
(* FeedConnection                                                          *)

Phases == {"connecting", "open", "closing", "closed"}

ConnectionTyped ==
    /\ phase \in Seq(Phases)
    /\ IsFiniteSet(timers)
    /\ connects \in Nat

\* The link the adapter remembers while the caller wants it connected: the
\* newest socket, or the timer whose handle it keeps.
Remembers ==
    connects > 0 /\ ~closedByCaller =>
        socket \in Live \/ \E t \in timers : t.no = reconnectTimer

ConnectionInv == ConnectionTyped /\ Remembers /\ ReconnectsDoNotMultiply

-----------------------------------------------------------------------------
(* Counting                                                                *)

LEMMA CountsAreNumbers ==
    ASSUME ConnectionTyped
    PROVE  /\ IsFiniteSet(Unsettled) /\ IsFiniteSet(Live) /\ Live \subseteq Unsettled
           /\ Cardinality(Unsettled) \in Nat /\ Cardinality(Live) \in Nat
           /\ Cardinality(timers) \in Nat /\ Cardinality(Live) <= Cardinality(Unsettled)
<1>1. Sockets = 1..Len(phase) /\ Len(phase) \in Nat
  BY DEF ConnectionTyped, Sockets
<1>2. IsFiniteSet(Sockets)
  BY <1>1, FS_Interval
<1>3. Unsettled \subseteq Sockets /\ Live \subseteq Unsettled
  BY DEF Unsettled, Live
<1>4. IsFiniteSet(Unsettled) /\ IsFiniteSet(Live) /\ Cardinality(Live) <= Cardinality(Unsettled)
  BY <1>2, <1>3, FS_Subset
<1> QED
  BY <1>3, <1>4, FS_CardinalityType DEF ConnectionTyped

\* openSocket() adds one socket to those that may still report their end.
LEMMA OpeningAddsOne ==
    ASSUME ConnectionTyped, OpenSocket
    PROVE  /\ phase' \in Seq(Phases)
           /\ Unsettled' = Unsettled \cup {Len(phase) + 1}
           /\ Len(phase) + 1 \notin Unsettled
           /\ socket' \in Live'
<1>1. phase' = Append(phase, "connecting") /\ socket' = Len(phase')
  BY DEF OpenSocket
<1>2. /\ phase' \in Seq(Phases) /\ Len(phase') = Len(phase) + 1
      /\ DOMAIN phase = 1..Len(phase) /\ DOMAIN phase' = 1..(Len(phase) + 1)
      /\ Len(phase) \in Nat
      /\ phase'[Len(phase) + 1] = "connecting"
      /\ \A s \in DOMAIN phase : phase'[s] = phase[s]
  BY <1>1 DEF ConnectionTyped, Phases
<1>3. DOMAIN phase' = DOMAIN phase \cup {Len(phase) + 1} /\ Len(phase) + 1 \notin DOMAIN phase
  BY <1>2
<1>4. Unsettled' = Unsettled \cup {Len(phase) + 1}
  BY <1>2, <1>3 DEF Unsettled, Sockets
<1>5. socket' \in Live'
  BY <1>1, <1>2, <1>3 DEF Live, Sockets
<1> QED
  BY <1>2, <1>3, <1>4, <1>5 DEF Unsettled, Sockets

\* Giving a socket another phase leaves the others alone.
LEMMA OneSocketChanges ==
    ASSUME ConnectionTyped, NEW s \in Sockets, NEW p \in Phases, phase' = [phase EXCEPT ![s] = p]
    PROVE  /\ phase' \in Seq(Phases)
           /\ Sockets' = Sockets
           /\ Unsettled' = IF p = "closed" THEN Unsettled \ {s} ELSE Unsettled \cup {s}
           /\ Live' = IF p \in {"connecting", "open"} THEN Live \cup {s} ELSE Live \ {s}
<1>1. DOMAIN phase = 1..Len(phase) /\ Len(phase) \in Nat /\ phase \in [1..Len(phase) -> Phases]
  BY DEF ConnectionTyped
<1>2. phase' \in [1..Len(phase) -> Phases] /\ DOMAIN phase' = DOMAIN phase
  BY <1>1
<1>3. phase' \in Seq(Phases)
  BY <1>1, <1>2
<1>4. \A q \in Sockets : phase'[q] = IF q = s THEN p ELSE phase[q]
  BY <1>1 DEF Sockets
<1>5. Sockets' = Sockets
  BY <1>2 DEF Sockets
<1>6. Unsettled' = IF p = "closed" THEN Unsettled \ {s} ELSE Unsettled \cup {s}
  BY <1>4, <1>5 DEF Unsettled
<1>7. Live' = IF p \in {"connecting", "open"} THEN Live \cup {s} ELSE Live \ {s}
  BY <1>4, <1>5 DEF Live
<1> QED
  BY <1>3, <1>5, <1>6, <1>7

-----------------------------------------------------------------------------
(* The steps                                                               *)

LEMMA ConnectionInvInit == ConnectionInit => ConnectionInv
<1> SUFFICES ASSUME ConnectionInit
             PROVE  ConnectionInv
  OBVIOUS
<1>1. ConnectionTyped
  BY FS_EmptySet DEF ConnectionInit, ConnectionTyped
<1>2. Unsettled = {} /\ timers = {}
  BY DEF ConnectionInit, Unsettled, Sockets
<1>3. Links = 0
  BY <1>2, FS_EmptySet DEF Links
<1> QED
  BY <1>1, <1>3 DEF ConnectionInit, ConnectionInv, Remembers, ReconnectsDoNotMultiply

LEMMA ConnectStep == ASSUME ConnectionInv, Connect PROVE ConnectionInv'
<1>1. /\ OpenSocket /\ connects' = connects + 1 /\ closedByCaller' = FALSE
      /\ UNCHANGED timers
  BY DEF Connect
<1>2. ConnectionTyped /\ Links <= connects
  BY DEF ConnectionInv, ReconnectsDoNotMultiply
<1>3. ConnectionTyped'
  BY <1>1, <1>2, OpeningAddsOne DEF ConnectionTyped
<1>4. Cardinality(Unsettled') = Cardinality(Unsettled) + 1
  <2> DEFINE added == Len(phase) + 1
             before == Unsettled
  <2>1. Unsettled' = before \cup {added} /\ added \notin before
    BY <1>1, <1>2, OpeningAddsOne
  <2>2. IsFiniteSet(before)
    BY <1>2, CountsAreNumbers
  <2> HIDE DEF added, before
  <2>3. Cardinality(before \cup {added}) = Cardinality(before) + 1
    BY ONLY <2>1, <2>2, FS_AddElement
  <2> QED
    BY <2>1, <2>3 DEF before
<1>5. Links' <= connects'
  BY <1>1, <1>2, <1>4, CountsAreNumbers DEF Links, ConnectionTyped
<1>6. Remembers'
  BY <1>1, <1>2, OpeningAddsOne DEF Remembers
<1> QED
  BY <1>1, <1>3, <1>5, <1>6 DEF ConnectionInv, ReconnectsDoNotMultiply

LEMMA DisconnectStep == ASSUME ConnectionInv, Disconnect PROVE ConnectionInv'
<1>1. /\ closedByCaller' = TRUE /\ connects' = connects
      /\ timers' = {t \in timers : t.no # reconnectTimer}
      /\ phase' = IF socket \in Live THEN [phase EXCEPT ![socket] = "closing"] ELSE phase
  BY DEF Disconnect, Closing
<1>2. ConnectionTyped /\ Remembers /\ Links <= connects /\ connects \in Nat
  BY DEF ConnectionInv, ReconnectsDoNotMultiply, ConnectionTyped
<1>3. IsFiniteSet(timers') /\ Cardinality(timers') <= Cardinality(timers)
  BY <1>1, <1>2, FS_Subset DEF ConnectionTyped
<1>4. /\ phase' \in Seq(Phases) /\ Unsettled' = Unsettled
      /\ Live' = IF socket \in Live THEN Live \ {socket} ELSE Live
  <2>1. CASE socket \in Live
    <3>1. socket \in Sockets /\ socket \in Unsettled
      BY <2>1 DEF Live, Unsettled
    <3>2. phase' = [phase EXCEPT ![socket] = "closing"] /\ "closing" \in Phases
      BY <1>1, <2>1 DEF Phases
    <3>3. /\ phase' \in Seq(Phases) /\ Unsettled' = Unsettled \cup {socket}
          /\ Live' = Live \ {socket}
      BY <1>2, <3>1, <3>2, OneSocketChanges
    <3> QED
      BY <2>1, <3>1, <3>3
  <2>2. CASE socket \notin Live
    BY <1>1, <1>2, <2>2 DEF Unsettled, Live, Sockets, ConnectionTyped
  <2> QED
    BY <2>1, <2>2
<1>5. ConnectionTyped'
  BY <1>1, <1>2, <1>3, <1>4 DEF ConnectionTyped
<1>6. Links' <= connects'
  BY <1>1, <1>2, <1>3, <1>4, <1>5, CountsAreNumbers, FS_CardinalityType DEF Links, ConnectionTyped
<1>7. ASSUME connects > 0
      PROVE  Cardinality(Live') < connects
  <2> DEFINE u == Cardinality(Unsettled)
             l == Cardinality(Live)
             n == Cardinality(timers)
  <2>1. u \in Nat /\ l \in Nat /\ n \in Nat /\ l <= u /\ u + n <= connects
    BY <1>2, CountsAreNumbers DEF Links
  <2>2. Cardinality(Live') <= l /\ Cardinality(Live') \in Nat
    BY <1>2, <1>4, CountsAreNumbers, FS_Subset, FS_CardinalityType
  <2>3. CASE closedByCaller
    BY <1>2, <1>7, <2>1, <2>2, <2>3 DEF ConnectionInv, ReconnectsDoNotMultiply
  <2>4. CASE socket \in Live
    <3>1. Cardinality(Live') = l - 1
      BY <1>2, <1>4, <2>4, CountsAreNumbers, FS_RemoveElement
    <3> QED
      BY <1>2, <2>1, <3>1
  <2>5. CASE \E t \in timers : t.no = reconnectTimer
    <3>1. n # 0
      BY <1>2, <2>5, FS_EmptySet DEF ConnectionTyped
    <3> QED
      BY <1>2, <2>1, <2>2, <3>1
  <2> QED
    BY <1>2, <1>7, <2>3, <2>4, <2>5 DEF Remembers
<1> QED
  BY <1>1, <1>5, <1>6, <1>7 DEF ConnectionInv, Remembers, ReconnectsDoNotMultiply

\* The close listener trades the socket for at most one timer.
LEMMA CloseEventStep ==
    ASSUME ConnectionInv, NEW s \in Unsettled, CloseEvent(s)
    PROVE  ConnectionInv'
<1>1. ConnectionTyped /\ Links <= connects /\ s \in Sockets /\ connects \in Nat
  BY DEF ConnectionInv, ReconnectsDoNotMultiply, Unsettled, ConnectionTyped
<1>2. /\ phase' = [phase EXCEPT ![s] = "closed"] /\ "closed" \in Phases
      /\ UNCHANGED <<closedByCaller, connects>>
  BY DEF CloseEvent, Phases
<1>3. /\ phase' \in Seq(Phases) /\ Unsettled' = Unsettled \ {s} /\ Live' = Live \ {s}
  BY <1>1, <1>2, OneSocketChanges
<1>4. /\ Cardinality(Unsettled') = Cardinality(Unsettled) - 1
      /\ Cardinality(Unsettled) \in Nat /\ Cardinality(timers) \in Nat
  BY <1>1, <1>3, CountsAreNumbers, FS_RemoveElement
<1>5. Cardinality(Live') <= Cardinality(Live)
  BY <1>1, <1>3, CountsAreNumbers, FS_Subset
<1>6. CASE closedByCaller
  <2>1. UNCHANGED <<timers, socket, reconnectTimer>>
    BY <1>6 DEF CloseEvent
  <2>2. ConnectionTyped'
    BY <1>1, <1>2, <1>3, <2>1 DEF ConnectionTyped
  <2>3. Links' <= connects'
    BY <1>1, <1>2, <1>4, <2>1 DEF Links
  <2>4. connects' > 0 => Cardinality(Live') < connects'
    <3>1. Cardinality(Live) \in Nat /\ Cardinality(Live') \in Nat
      BY <1>1, <2>2, <1>3, CountsAreNumbers, FS_Subset, FS_CardinalityType
    <3> QED
      BY <1>1, <1>2, <1>5, <1>6, <3>1 DEF ConnectionInv, ReconnectsDoNotMultiply
  <2> QED
    BY <1>2, <1>6, <2>2, <2>3, <2>4 DEF ConnectionInv, Remembers, ReconnectsDoNotMultiply
<1>7. CASE ~closedByCaller
  <2> DEFINE t == [no |-> scheduled', delay |-> Backoff(reconnectAttempt)]
  <2>1. timers' = timers \cup {t} /\ reconnectTimer' = scheduled'
    BY <1>7 DEF CloseEvent, ScheduleReconnect
  <2> HIDE DEF t
  <2>2. IsFiniteSet(timers') /\ Cardinality(timers') <= Cardinality(timers) + 1
        /\ Cardinality(timers') \in Nat
    <3>1. IsFiniteSet(timers)
      BY <1>1 DEF ConnectionTyped
    <3>2. IsFiniteSet(timers') /\ Cardinality(timers') =
            IF t \in timers THEN Cardinality(timers) ELSE Cardinality(timers) + 1
      BY <2>1, <3>1, FS_AddElement
    <3> QED
      BY <1>4, <3>2
  <2>3. ConnectionTyped'
    BY <1>1, <1>2, <1>3, <2>2 DEF ConnectionTyped
  <2>4. Links' <= connects'
    BY <1>1, <1>2, <1>4, <2>2 DEF Links
  <2>5. t \in timers' /\ t.no = reconnectTimer'
    BY <2>1 DEF t
  <2>6. Remembers'
    BY <2>5 DEF Remembers
  <2> QED
    BY <1>2, <1>7, <2>3, <2>4, <2>6 DEF ConnectionInv, ReconnectsDoNotMultiply
<1> QED
  BY <1>6, <1>7

LEMMA OpenedStep ==
    ASSUME ConnectionInv, NEW s \in Sockets, Opened(s)
    PROVE  ConnectionInv'
<1>1. /\ phase[s] = "connecting" /\ phase' = [phase EXCEPT ![s] = "open"]
      /\ UNCHANGED <<socket, closedByCaller, timers, reconnectTimer, connects>>
      /\ "open" \in Phases
  BY DEF Opened, Phases
<1>2. s \in Unsettled /\ s \in Live /\ ConnectionTyped
  BY <1>1 DEF Unsettled, Live, ConnectionInv
<1>3. phase' \in Seq(Phases) /\ Unsettled' = Unsettled /\ Live' = Live
  <2>1. /\ phase' \in Seq(Phases) /\ Unsettled' = Unsettled \cup {s}
        /\ Live' = Live \cup {s}
    BY <1>1, <1>2, OneSocketChanges
  <2> QED
    BY <1>2, <2>1
<1> QED
  BY <1>1, <1>2, <1>3 DEF ConnectionInv, ConnectionTyped, Remembers, ReconnectsDoNotMultiply, Links

\* A timer is traded for at most one socket.
LEMMA TimerFiresStep ==
    ASSUME ConnectionInv, NEW t \in timers, TimerFires(t)
    PROVE  ConnectionInv'
<1>1. /\ timers' = timers \ {t} /\ UNCHANGED <<closedByCaller, reconnectTimer, connects>>
  BY DEF TimerFires
<1>2. ConnectionTyped /\ Links <= connects /\ connects \in Nat
  BY DEF ConnectionInv, ReconnectsDoNotMultiply, ConnectionTyped
<1>3. /\ IsFiniteSet(timers') /\ Cardinality(timers') = Cardinality(timers) - 1
      /\ Cardinality(timers) \in Nat /\ Cardinality(Unsettled) \in Nat
  BY <1>1, <1>2, CountsAreNumbers, FS_RemoveElement, FS_Subset DEF ConnectionTyped
<1>4. CASE closedByCaller
  <2>1. UNCHANGED <<phase, socket>>
    BY <1>4 DEF TimerFires
  <2>2. Unsettled' = Unsettled /\ Live' = Live
    BY <2>1 DEF Unsettled, Live, Sockets
  <2>3. ConnectionTyped'
    BY <1>1, <1>2, <1>3, <2>1 DEF ConnectionTyped
  <2>4. Links' <= connects'
    BY <1>1, <1>2, <1>3, <2>2 DEF Links
  <2> QED
    BY <1>1, <1>4, <2>2, <2>3, <2>4 DEF ConnectionInv, Remembers, ReconnectsDoNotMultiply
<1>5. CASE ~closedByCaller
  <2>1. OpenSocket
    BY <1>5 DEF TimerFires
  <2>2. Cardinality(Unsettled') = Cardinality(Unsettled) + 1
    BY <1>2, <2>1, OpeningAddsOne, CountsAreNumbers, FS_AddElement
  <2>3. ConnectionTyped'
    BY <1>1, <1>2, <1>3, <2>1, OpeningAddsOne DEF ConnectionTyped
  <2>4. Links' <= connects'
    BY <1>1, <1>2, <1>3, <2>2 DEF Links
  <2>5. Remembers'
    BY <1>2, <2>1, OpeningAddsOne DEF Remembers
  <2> QED
    BY <1>1, <1>5, <2>3, <2>4, <2>5 DEF ConnectionInv, ReconnectsDoNotMultiply
<1> QED
  BY <1>4, <1>5

LEMMA ConnectionInvStep == ConnectionInv /\ [ConnectionNext]_connectionVars => ConnectionInv'
<1> SUFFICES ASSUME ConnectionInv, [ConnectionNext]_connectionVars
             PROVE  ConnectionInv'
  OBVIOUS
<1>1. CASE Connect
  BY <1>1, ConnectStep
<1>2. CASE Disconnect
  BY <1>2, DisconnectStep
<1>3. ASSUME NEW s \in Sockets, Opened(s)
      PROVE  ConnectionInv'
  BY <1>3, OpenedStep
<1>4. ASSUME NEW s \in Sockets, Dropped(s)
      PROVE  ConnectionInv'
  <2>1. s \in Unsettled /\ CloseEvent(s)
    BY <1>4 DEF Dropped, Live, Unsettled
  <2> QED
    BY <2>1, CloseEventStep
<1>5. ASSUME NEW s \in Sockets, Closed(s)
      PROVE  ConnectionInv'
  <2>1. s \in Unsettled /\ CloseEvent(s)
    BY <1>5 DEF Closed, Unsettled
  <2> QED
    BY <2>1, CloseEventStep
<1>6. ASSUME NEW t \in timers, TimerFires(t)
      PROVE  ConnectionInv'
  BY <1>6, TimerFiresStep
<1>7. CASE UNCHANGED connectionVars
  BY <1>7 DEF connectionVars, adapter, ConnectionInv, ConnectionTyped, Remembers, ReconnectsDoNotMultiply, Links,
              Unsettled, Live, Sockets
<1> QED
  BY <1>1, <1>2, <1>3, <1>4, <1>5, <1>6, <1>7 DEF ConnectionNext

\* The adapters: however often they reconnect, and whatever stale close events
\* and overwritten timers do, there are never more connections than calls of
\* connect(), and one fewer once the caller disconnected.
THEOREM ConnectionsAreBounded == ConnectionSpec => []ReconnectsDoNotMultiply
<1>1. ConnectionInv => ReconnectsDoNotMultiply
  BY DEF ConnectionInv
<1> QED
  BY ConnectionInvInit, ConnectionInvStep, <1>1, PTL DEF ConnectionSpec

-----------------------------------------------------------------------------
(* The delays                                                              *)

\* The recursion of computeBackoffDelayMs, up to an attempt, and its solution.
Doubles(f, attempt) == f = [n \in 0..attempt |-> IF n = 0 THEN BaseDelay ELSE 2 * f[n - 1]]
Delays(attempt) == CHOOSE f : Doubles(f, attempt)

LEMMA DoublingGoesOn ==
    ASSUME NEW m \in Nat, NEW f, Doubles(f, m)
    PROVE  \E g : Doubles(g, m + 1)
<1> DEFINE g == [n \in 0..(m + 1) |-> IF n = 0 THEN BaseDelay ELSE 2 * f[n - 1]]
<1>1. \A n \in 0..m : f[n] = IF n = 0 THEN BaseDelay ELSE 2 * f[n - 1]
  BY DEF Doubles
<1>2. \A n \in 0..m : g[n] = f[n]
  <2>1. 0..m \subseteq 0..(m + 1)
    OBVIOUS
  <2> QED
    BY <1>1, <2>1
<1>3. \A n \in 0..(m + 1) : n # 0 => n - 1 \in 0..m
  OBVIOUS
<1>4. g = [n \in 0..(m + 1) |-> IF n = 0 THEN BaseDelay ELSE 2 * g[n - 1]]
  BY <1>2, <1>3
<1> HIDE DEF g
<1> QED
  BY <1>4 DEF Doubles

LEMMA DelaysExist ==
    ASSUME NEW attempt \in Nat
    PROVE  Doubles(Delays(attempt), attempt)
<1> DEFINE Bad == {m \in Nat : ~\E f : Doubles(f, m)}
<1>1. \E f : Doubles(f, 0)
  <2> DEFINE f == [n \in 0..0 |-> BaseDelay]
  <2>1. f = [n \in 0..0 |-> IF n = 0 THEN BaseDelay ELSE 2 * f[n - 1]]
    OBVIOUS
  <2> HIDE DEF f
  <2> QED
    BY <2>1 DEF Doubles
<1>2. ASSUME Bad # {}
      PROVE  FALSE
  <2>1. Bad \in SUBSET Nat
    OBVIOUS
  <2>2. PICK m \in Bad : \A k \in Bad : m <= k
    BY <1>2, <2>1, LeastNatural
  <2>3. m \in Nat /\ m # 0
    BY <1>1, <2>2
  <2>4. m - 1 \in Nat /\ m - 1 \notin Bad /\ (m - 1) + 1 = m
    BY <2>2, <2>3
  <2>5. PICK f : Doubles(f, m - 1)
    BY <2>4
  <2>6. \E g : Doubles(g, (m - 1) + 1)
    BY <2>4, <2>5, DoublingGoesOn
  <2> QED
    BY <2>2, <2>4, <2>6
<1>3. \E f : Doubles(f, attempt)
  BY <1>2
<1> QED
  BY <1>3 DEF Delays

LEMMA DelaysGrow ==
    ASSUME NEW attempt \in Nat
    PROVE  \A n \in 0..attempt : Delays(attempt)[n] \in Nat /\ Delays(attempt)[n] >= BaseDelay
<1> DEFINE d == Delays(attempt)
           Good(n) == d[n] \in Nat /\ d[n] >= BaseDelay
           Bad == {n \in 0..attempt : ~Good(n)}
<1>1. \A n \in 0..attempt : d[n] = IF n = 0 THEN BaseDelay ELSE 2 * d[n - 1]
  BY DelaysExist DEF Doubles
<1>2. BaseDelay \in Nat
  BY FeedConnectionAssumption
<1> SUFFICES ASSUME Bad # {}
             PROVE  FALSE
  OBVIOUS
<1>3. Bad \in SUBSET Nat
  OBVIOUS
<1>4. PICK n \in Bad : \A k \in Bad : n <= k
  BY <1>3, LeastNatural
<1>5. n \in 0..attempt /\ ~Good(n)
  OBVIOUS
<1> HIDE DEF d
<1>6. n # 0
  BY <1>1, <1>2, <1>5
<1>7. n - 1 \in 0..attempt /\ n - 1 \notin Bad
  BY <1>4, <1>5, <1>6
<1>8. d[n - 1] \in Nat /\ d[n - 1] >= BaseDelay
  BY <1>7
<1>9. d[n] = 2 * d[n - 1]
  BY <1>1, <1>5, <1>6
<1> QED
  BY <1>2, <1>5, <1>8, <1>9

\* The delay is never shorter than the first nor longer than the ceiling.
LEMMA BackoffIsBounded ==
    ASSUME NEW attempt \in Nat
    PROVE  Backoff(attempt) \in BaseDelay..MaxDelay
<1>1. Backoff(attempt) = IF Delays(attempt)[attempt] < MaxDelay
                         THEN Delays(attempt)[attempt] ELSE MaxDelay
  BY Zenon DEF Backoff, Delays, Doubles
<1>2. Delays(attempt)[attempt] \in Nat /\ Delays(attempt)[attempt] >= BaseDelay
  BY DelaysGrow
<1> QED
  BY <1>1, <1>2, FeedConnectionAssumption

-----------------------------------------------------------------------------

Counted ==
    /\ socket \in Sockets \cup {None} /\ closedByCaller \in BOOLEAN
    /\ timers \subseteq [no : 1..scheduled, delay : BaseDelay..MaxDelay]
    /\ reconnectTimer \in 0..scheduled
    /\ reconnectAttempt \in Nat /\ scheduled \in Nat
    /\ connects \in Nat /\ disconnects \in Nat /\ drops \in Nat

\* Sockets and timers are numbered on, so a handle is never one of another's.
LEMMA CountedStep ==
    ASSUME ConnectionInv, ConnectionInv', Counted, [ConnectionNext]_connectionVars
    PROVE  Counted'
<1> DEFINE Timer(n) == [no : 1..n, delay : BaseDelay..MaxDelay]
<1>1. ConnectionTyped /\ ConnectionTyped'
  BY DEF ConnectionInv
<1>2. Sockets = 1..Len(phase) /\ Len(phase) \in Nat
  BY <1>1 DEF Sockets, ConnectionTyped
<1>3. ASSUME OpenSocket
      PROVE  Sockets \subseteq Sockets' /\ socket' \in Sockets'
  BY <1>1, <1>3, OpeningAddsOne DEF OpenSocket, ConnectionTyped, Sockets, Live
<1>4. CASE Connect
  <2>1. /\ OpenSocket /\ connects' = connects + 1 /\ closedByCaller' = FALSE
        /\ UNCHANGED <<reconnectAttempt, timers, reconnectTimer, scheduled, disconnects, drops>>
    BY <1>4 DEF Connect
  <2>2. socket' \in Sockets'
    BY <1>3, <2>1
  <2>3. closedByCaller' \in BOOLEAN
    BY <2>1, Zenon
  <2> QED
    BY <2>1, <2>2, <2>3 DEF Counted
<1>5. CASE Disconnect
  <2>1. timers' \subseteq timers
    BY <1>5 DEF Disconnect
  <2> QED
    BY <1>5, <2>1 DEF Disconnect, Counted, None
<1>6. ASSUME NEW s \in Sockets, Opened(s)
      PROVE  Counted'
  <2>1. Sockets' = Sockets
    BY <1>1, <1>6 DEF Opened, Sockets
  <2> QED
    BY <1>6, <2>1 DEF Opened, Counted
<1>7. ASSUME NEW s \in Sockets, CloseEvent(s), drops' \in Nat
      PROVE  Counted'
  <2>1. Sockets' = Sockets
    BY <1>1, <1>7 DEF CloseEvent, Sockets
  <2>2. CASE closedByCaller
    BY <1>7, <2>1, <2>2 DEF CloseEvent, Counted
  <2>3. CASE ~closedByCaller
    <3> DEFINE t == [no |-> scheduled', delay |-> Backoff(reconnectAttempt)]
    <3>1. /\ scheduled' = scheduled + 1 /\ timers' = timers \cup {t}
          /\ reconnectTimer' = scheduled' /\ reconnectAttempt' = reconnectAttempt + 1
          /\ UNCHANGED <<socket, closedByCaller, connects, disconnects>>
      BY <1>7, <2>3 DEF CloseEvent, ScheduleReconnect
    <3>2. scheduled \in Nat /\ reconnectAttempt \in Nat /\ timers \subseteq Timer(scheduled)
      BY DEF Counted
    <3>3. scheduled' \in 1..scheduled' /\ 1..scheduled \subseteq 1..scheduled'
      BY <3>1, <3>2
    <3>4. t \in Timer(scheduled')
      BY <3>2, <3>3, BackoffIsBounded
    <3>5. Timer(scheduled) \subseteq Timer(scheduled')
      BY <3>3
    <3> HIDE DEF t, Timer
    <3>6. timers' \subseteq Timer(scheduled')
      BY <3>1, <3>2, <3>4, <3>5
    <3> QED
      BY <1>7, <2>1, <3>1, <3>2, <3>6 DEF Counted, Timer
  <2> QED
    BY <2>2, <2>3
<1>8. ASSUME NEW s \in Sockets, Dropped(s) \/ Closed(s)
      PROVE  Counted'
  <2>1. CloseEvent(s) /\ drops' \in Nat
    BY <1>8 DEF Dropped, Closed, Counted
  <2> QED
    BY <1>7, <2>1
<1>9. ASSUME NEW t \in timers, TimerFires(t)
      PROVE  Counted'
  <2>1. timers' \subseteq timers
    BY <1>9 DEF TimerFires
  <2>2. Sockets \subseteq Sockets' /\ socket' \in Sockets' \cup {None}
    BY <1>3, <1>9 DEF TimerFires, Sockets, Counted
  <2> QED
    BY <1>9, <2>1, <2>2 DEF TimerFires, Counted
<1>10. CASE UNCHANGED connectionVars
  BY <1>10 DEF connectionVars, adapter, Counted, Sockets
<1> QED
  BY <1>4, <1>5, <1>6, <1>8, <1>9, <1>10 DEF ConnectionNext

\* For every base delay, ceiling and number of losses, the adapter waits at
\* least the one and at most the other, and its handle is of a timer it set.
THEOREM DelaysAreBounded == ConnectionSpec => []ConnectionTypeOK
<1>1. ConnectionInit => Counted
  <2> SUFFICES ASSUME ConnectionInit
               PROVE  Counted
    OBVIOUS
  <2>1. closedByCaller \in BOOLEAN
    BY Zenon DEF ConnectionInit
  <2> QED
    BY <2>1 DEF ConnectionInit, Counted, None
<1>2. ConnectionInv /\ Counted => ConnectionTypeOK
  BY DEF ConnectionInv, ConnectionTyped, Phases, Counted, ConnectionTypeOK
<1>3. ConnectionInv /\ Counted /\ [ConnectionNext]_connectionVars => ConnectionInv' /\ Counted'
  BY ConnectionInvStep, CountedStep
<1> QED
  BY <1>1, <1>2, <1>3, ConnectionInvInit, PTL DEF ConnectionSpec

=============================================================================
