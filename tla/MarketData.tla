------------------------------- MODULE MarketData -------------------------------
(***************************************************************************)
(* The way of a tick into the agent: the feed's callback stamps it with the *)
(* time of its arrival and hands it, on the feed's own thread, to the       *)
(* aggregator (Orchestrator.start and _on_tick).  Stamping and ingesting    *)
(* are two steps, and no lock keeps two sockets of one feed apart: that the *)
(* aggregator sees one stream in order rests on there being one socket.     *)
(***************************************************************************)
EXTENDS LiveFeed, CandleAggregator

CONSTANTS
  Poller,       \* the polling thread
  NoTick,       \* a thread that is not handling a tick
  MaxClock,     \* bound: units of time
  MaxTicks      \* bound: ticks stamped

ASSUME MarketDataAssumption ==
  /\ Poller \notin Sockets
  /\ NoTick \notin [symbol : Symbols, ltp : Prices, volume : Nat, ts : Nat]
  /\ MaxClock \in Nat /\ MaxTicks \in Nat

VARIABLES
  clock,        \* the time
  handling,     \* per feed thread, the tick that it has stamped and not yet ingested
  ticks         \* history: the ticks in the order of their stamps

market == <<clock, handling, ticks>>
marketVars == <<feed, aggregator, market>>

FeedThreads == Sockets \cup {Poller}

MarketInit ==
  /\ FeedInit
  /\ AggregatorInit
  /\ clock = 0
  /\ handling = [t \in FeedThreads |-> NoTick]
  /\ ticks = <<>>

Delivers(t) ==
  \/ t = Poller /\ polling /\ keys
  \/ t \in Sockets /\ Usable(t) /\ subscribed[t]

(* A tick gets the time of its arrival.                                     *)
Stamp(t, volume) ==
  /\ Delivers(t)
  /\ handling[t] = NoTick
  /\ Len(ticks) < MaxTicks
  /\ \E x \in Symbols, p \in Prices :
       LET tick == [symbol |-> x, ltp |-> p, volume |-> volume, ts |-> clock]
       IN  handling' = [handling EXCEPT ![t] = tick] /\ ticks' = Append(ticks, tick)
  /\ UNCHANGED <<feed, aggregator, clock>>

(* A message of a socket carries the volume of the day so far: _on_data of  *)
(* AngelOne, _decode_protobuf_frame of Upstox.                              *)
OnData(s) == kind = "angelone" /\ Stamp(s, Len(ticks) + 1)
DecodeFrame(s) == kind = "upstox" /\ Stamp(s, Len(ticks) + 1)

(* _poll_ticks: the endpoint for last prices knows no volume.               *)
PollTicks == ~stop /\ Stamp(Poller, 0)

(* Orchestrator._on_tick hands it on.                                       *)
OnTick(t) ==
  /\ handling[t] # NoTick
  /\ Ingest(handling[t])
  /\ handling' = [handling EXCEPT ![t] = NoTick]
  /\ UNCHANGED <<feed, clock, ticks>>

Tock ==
  /\ clock < MaxClock
  /\ clock' = clock + 1
  /\ UNCHANGED <<feed, aggregator, handling, ticks>>

(* A thread of the feed that handles a tick does nothing else meanwhile.    *)
FeedStep ==
  \/ MainThread \/ Disconnect
  \/ \E s \in Sockets : Reconnection(s)
  \/ \E s \in Sockets : handling[s] = NoTick /\ Library(s)
  \/ handling[Poller] = NoTick /\ PollEnds

MarketNext ==
  \/ FeedStep /\ UNCHANGED <<aggregator, market>>
  \/ \E s \in Sockets : OnData(s) \/ DecodeFrame(s)
  \/ PollTicks
  \/ \E t \in FeedThreads : OnTick(t)
  \/ Tock

MarketSpec ==
  /\ MarketInit /\ [][MarketNext]_marketVars
  /\ FeedFairness
  /\ \A t \in FeedThreads : WF_marketVars(OnTick(t))

-----------------------------------------------------------------------------
(* However often the socket is lost, closed and replaced, there is never a  *)
(* second one that could deliver ticks beside it (_on_error, _on_close,     *)
(* _reconnect_with_backoff).                                                *)
OneSocket == Cardinality(Live) <= 1

(* The places, in the stream s, of the ticks of a symbol in the interval    *)
(* that starts at b.                                                        *)
TicksIn(s, k, b) ==
  {i \in DOMAIN s : s[i].symbol = k[1] /\ Floor(s[i].ts, k[2]) = b}

(* The candle c has the first, highest, lowest and last of the prices at    *)
(* these places, and the last volume.                                       *)
SumsUp(c, s, places) ==
  /\ \E i \in places : (\A j \in places : i <= j) /\ c.open = s[i].ltp
  /\ \E i \in places :
       (\A j \in places : j <= i) /\ c.close = s[i].ltp /\ c.volume = s[i].volume
  /\ \E i \in places : c.high = s[i].ltp
  /\ \E i \in places : c.low = s[i].ltp
  /\ \A i \in places : c.low <= s[i].ltp /\ s[i].ltp <= c.high

(* The intervals in which the symbol ticked, but for the last.              *)
PastIntervals(k) ==
  LET begun == {Floor(ticks[i].ts, k[2]) : i \in {j \in DOMAIN ticks : ticks[j].symbol = k[1]}}
  IN  {b \in begun : \E c \in begun : b < c}

(* Whenever no tick is in hand, the history has one candle for each past    *)
(* interval with ticks, oldest first, that sums up exactly its ticks, but   *)
(* for the oldest beyond HistoryMax: so it is across losses of the          *)
(* connection and reconnections (_ingest_one).                              *)
CandlesAreBuckets ==
  (\A t \in FeedThreads : handling[t] = NoTick) =>
    \A k \in Keys : LET h == history[k] IN
      /\ \A i \in DOMAIN h :
           /\ h[i].ts \in PastIntervals(k)
           /\ SumsUp(h[i], ticks, TicksIn(ticks, k, h[i].ts))
      /\ \A i, j \in DOMAIN h : i < j => h[i].ts < h[j].ts
      /\ Len(h) <= HistoryMax
      /\ \A b \in PastIntervals(k) :
           \/ \E i \in DOMAIN h : h[i].ts = b
           \/ Len(h) = HistoryMax /\ \A i \in DOMAIN h : b < h[i].ts

(* An open socket of a subscribed feed is subscribed, whichever of subscribe *)
(* and _on_open came first, once the main thread has sent what it noted.    *)
OpenIsSubscribed ==
  \A s \in Sockets : socket[s] = "open" /\ keys /\ main # "send" => subscribed[s]

Delivering == \E s \in Sockets : socket[s] = "open" /\ subscribed[s]
GaveUp == \E s \in Sockets : attempt[s] = MaxAttempts

(* One socket at most, and one that knows what to deliver.                  *)
SocketInOrder == OneSocket /\ OpenIsSubscribed

(* A running Upstox feed comes back after every loss, unless it is stopped  *)
(* or all its attempts to be authorized have failed.                        *)
ComesBack ==
  (kind = "upstox" /\ main = "running" /\ keys) ~> (Delivering \/ polling \/ stop \/ GaveUp)

(* After disconnect nothing delivers any more, unless a reconnection was    *)
(* already past its look at the stop event (_reconnect_with_backoff).       *)
QuietAfterDisconnect ==
  (main = "stopped" /\ ~raced) ~> [](\A t \in FeedThreads : ~Delivers(t))

(* A feed delivers while it is wanted and is silent once it is not.         *)
DeliversWhileWanted == ComesBack /\ QuietAfterDisconnect
=============================================================================
