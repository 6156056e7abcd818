------------------------------- MODULE InputProofs -------------------------------
(***************************************************************************)
(* Proofs about what reaches the agent from outside: the ticks of its feeds, *)
(* NSE's answers and the users' commands.                                   *)
(*                                                                          *)
(* The live feeds, for every number of sockets and attempts: there is one   *)
(* socket at most, and an open one is subscribed; so the aggregator sees    *)
(* the ticks in the order of their stamps and keeps its candles in order.   *)
(*                                                                          *)
(* NSE's limiter, breaker and caches, for any threads, sources, gap,        *)
(* threshold, lockout and lifetimes: refusals are bounded, fresh values are *)
(* fresh, and the passages implement a pacer.                               *)
(*                                                                          *)
(* The command queue, for every set of commands and producers, whatever the *)
(* number of crashes: commands take effect in order and at most once, the   *)
(* file says what became of them, and the limit in force has an author.     *)
(***************************************************************************)
EXTENDS MarketData, NseLimiter, CommandQueue, FiniteSetTheorems, SequenceTheorems, TLAPS

-----------------------------------------------------------------------------
(* The feed                                                                 *)

FeedTypeOK ==
  /\ kind \in {"angelone", "upstox"}
  /\ socket \in [Sockets -> {"free", "opening", "up", "open", "lost", "closing"}]
  /\ retry \in [Sockets -> {"no", "sleep", "authorize", "wait"}]
  /\ subscribed \in [Sockets -> BOOLEAN]
  /\ keys \in BOOLEAN /\ polling \in BOOLEAN
  /\ ws \in Sockets \cup {NoSocket}

(* A thread that answers for the connection: it has a socket, or is about   *)
(* to open one.                                                             *)
Answers(s) == socket[s] # "free" \/ retry[s] \in {"sleep", "authorize"}

OneAnswers ==
  /\ \A s, u \in Sockets : Answers(s) /\ Answers(u) => s = u
  /\ main \in {"login", "master", "authorize"} =>
       ~polling /\ ~keys /\ \A s \in Sockets : ~Answers(s)
  /\ polling => \A s \in Sockets : ~Answers(s)
  /\ \A s \in Sockets : socket[s] # "free" => ws = s /\ retry[s] = "no"

(* AngelOne's library remembers what was subscribed, Upstox' callback sends *)
(* it anew.                                                                 *)
Remembered ==
  /\ kind = "angelone" =>
       /\ \A s \in Sockets : retry[s] = "no"
       /\ main # "send"
       /\ keys => \A s \in Sockets : socket[s] # "free" => subscribed[s]
  /\ OpenIsSubscribed

FeedInv == FeedTypeOK /\ OneAnswers /\ Remembered

(* The feed begins in its invariant.                                        *)
LEMMA FeedInitInv == FeedInit => FeedInv
BY FeedAssumption
   DEF FeedInit, FeedInv, FeedTypeOK, OneAnswers, Answers, Remembered, OpenIsSubscribed

(* A subscription that is sent is remembered of the socket in use, and no   *)
(* other is forgotten.                                                      *)
LEMMA SendType ==
  ASSUME FeedTypeOK, SendSubscribe
  PROVE  /\ subscribed' \in [Sockets -> BOOLEAN]
         /\ \A s \in Sockets : subscribed[s] => subscribed'[s]
         /\ Usable(ws) => subscribed'[ws]
BY FeedAssumption DEF FeedTypeOK, SendSubscribe, Usable

(* A socket is opened where none is left.                                   *)
LEMMA OpensOne ==
  ASSUME FeedTypeOK, OpenWebsocket, \A s \in Sockets : socket[s] = "free"
  PROVE  /\ socket' \in [Sockets -> {"free", "opening", "up", "open", "lost", "closing"}]
         /\ subscribed' \in [Sockets -> BOOLEAN]
         /\ ws' \in Sockets /\ socket'[ws'] = "opening" /\ retry[ws'] = "no"
         /\ \A s \in Sockets : s # ws' => socket'[s] = "free"
BY DEF FeedTypeOK, OpenWebsocket

(* The main thread and a disconnect keep the invariant.                     *)
LEMMA MainStep ==
  ASSUME FeedInv, MainThread \/ Disconnect
  PROVE  FeedInv'
<1> USE DEF FeedInv
<1>1. CASE Login
  BY <1>1 DEF Login, FeedTypeOK, OneAnswers, Answers, Remembered, OpenIsSubscribed
<1>2. CASE Wait
  BY <1>2 DEF Wait, FeedTypeOK, OneAnswers, Answers, Remembered, OpenIsSubscribed
<1>3. CASE Disconnect
  BY <1>3 DEF Disconnect, FeedTypeOK, OneAnswers, Answers, Remembered, OpenIsSubscribed
<1>4. CASE LoadMaster
  <2>1. \A s \in Sockets : ~Answers(s)
    BY <1>4 DEF LoadMaster, OneAnswers
  <2>2. CASE main' = "dead" /\ UNCHANGED <<ws, socket, subscribed>>
    BY <1>4, <2>2
       DEF LoadMaster, FeedTypeOK, OneAnswers, Answers, Remembered, OpenIsSubscribed
  <2>3. CASE main' = "wait" /\ OpenWebsocket
    <3>1. /\ socket' \in [Sockets -> {"free", "opening", "up", "open", "lost", "closing"}]
          /\ subscribed' \in [Sockets -> BOOLEAN]
          /\ ws' \in Sockets /\ socket'[ws'] = "opening" /\ retry[ws'] = "no"
          /\ \A s \in Sockets : s # ws' => socket'[s] = "free"
      BY <2>1, <2>3, OpensOne DEF Answers
    <3>2. UNCHANGED <<kind, retry, keys, polling>>
      BY <1>4 DEF LoadMaster
    <3>3. FeedTypeOK'
      BY <3>1, <3>2 DEF FeedTypeOK
    <3>4. OneAnswers'
      <4>1. ~polling
        BY <1>4 DEF LoadMaster, OneAnswers
      <4> QED
        BY <2>1, <2>3, <3>1, <3>2, <4>1 DEF OneAnswers, Answers
    <3>5. ~keys
      BY <1>4 DEF LoadMaster, OneAnswers
    <3> QED
      BY <2>3, <3>1, <3>2, <3>3, <3>4, <3>5 DEF Remembered, OpenIsSubscribed
  <2> QED
    BY <1>4, <2>2, <2>3 DEF LoadMaster
<1>5. CASE Connect
  <2>1. /\ \A s \in Sockets : ~Answers(s)
        /\ ~polling /\ ~keys
    BY <1>5 DEF Connect, OneAnswers
  <2>2. CASE main' = "subscribe" /\ polling' = TRUE /\ UNCHANGED <<ws, socket, subscribed>>
    BY <1>5, <2>1, <2>2
       DEF Connect, FeedTypeOK, OneAnswers, Answers, Remembered, OpenIsSubscribed
  <2>3. CASE main' = "wait" /\ OpenWebsocket /\ UNCHANGED polling
    <3>1. /\ socket' \in [Sockets -> {"free", "opening", "up", "open", "lost", "closing"}]
          /\ subscribed' \in [Sockets -> BOOLEAN]
          /\ ws' \in Sockets /\ socket'[ws'] = "opening" /\ retry[ws'] = "no"
          /\ \A s \in Sockets : s # ws' => socket'[s] = "free"
      BY <2>1, <2>3, OpensOne DEF Answers
    <3>2. UNCHANGED <<kind, retry, keys, polling>>
      BY <1>5, <2>3 DEF Connect
    <3>3. FeedTypeOK'
      BY <3>1, <3>2 DEF FeedTypeOK
    <3>4. OneAnswers'
      BY <2>1, <2>3, <3>1, <3>2 DEF OneAnswers, Answers
    <3> QED
      BY <2>1, <2>3, <3>1, <3>2, <3>3, <3>4 DEF Remembered, OpenIsSubscribed
  <2> QED
    BY <1>5, <2>2, <2>3 DEF Connect
<1>6. CASE SubscribeAngelOne
  <2>1. UNCHANGED <<kind, retry, ws, socket, polling>> /\ main = "subscribe" /\ kind = "angelone"
    BY <1>6 DEF SubscribeAngelOne
  <2>2. CASE main' \in {"running", "dead"} /\ UNCHANGED <<subscribed, keys>>
    BY <2>1, <2>2 DEF FeedTypeOK, OneAnswers, Answers, Remembered, OpenIsSubscribed
  <2>3. CASE Usable(ws) /\ SendSubscribe /\ keys' = TRUE /\ main' = "running"
    <3>1. /\ subscribed' \in [Sockets -> BOOLEAN] /\ subscribed'[ws]
          /\ \A s \in Sockets : socket[s] # "free" => s = ws
      BY <2>3, SendType DEF OneAnswers
    <3> QED
      BY <2>1, <2>3, <3>1 DEF FeedTypeOK, OneAnswers, Answers, Remembered, OpenIsSubscribed
  <2> QED
    BY <1>6, <2>2, <2>3 DEF SubscribeAngelOne
<1>7. CASE Subscribe
  <2>1. /\ UNCHANGED <<kind, retry, ws, socket, subscribed, polling>> /\ kind = "upstox"
        /\ main = "subscribe"
        /\ \/ keys' = TRUE /\ main' = "send"
           \/ main' = "running" /\ UNCHANGED keys
    BY <1>7 DEF Subscribe
  <2>2. FeedTypeOK' /\ OneAnswers'
    BY <2>1 DEF FeedTypeOK, OneAnswers, Answers
  <2>3. OpenIsSubscribed'
    BY <2>1 DEF Remembered, OpenIsSubscribed
  <2> QED
    BY <2>1, <2>2, <2>3 DEF Remembered
<1>8. CASE Send
  <2>1. /\ subscribed' \in [Sockets -> BOOLEAN]
        /\ Usable(ws) => subscribed'[ws]
        /\ \A s \in Sockets : subscribed[s] => subscribed'[s]
    BY <1>8, SendType DEF Send
  <2>2. \A s \in Sockets : socket[s] = "open" => s = ws /\ Usable(ws)
    BY FeedAssumption DEF OneAnswers, Usable, FeedTypeOK
  <2>3. UNCHANGED <<kind, retry, ws, socket, keys, polling>> /\ main = "send" /\ main' = "running"
    BY <1>8 DEF Send
  <2>4. FeedTypeOK' /\ OneAnswers'
    BY <2>1, <2>3 DEF FeedTypeOK, OneAnswers, Answers
  <2>5. OpenIsSubscribed'
    BY <2>1, <2>2, <2>3 DEF OpenIsSubscribed
  <2>6. kind # "angelone"
    BY <2>3 DEF Remembered
  <2> QED
    BY <2>3, <2>4, <2>5, <2>6 DEF Remembered
<1>9. CASE CloseSocket
  <2>1. /\ UNCHANGED <<kind, retry, ws, subscribed, keys, polling>> /\ main' = "stopped"
        /\ socket' = IF ws \in Live THEN [socket EXCEPT ![ws] = "closing"] ELSE socket
    BY <1>9 DEF CloseSocket
  <2>2. /\ socket' \in [Sockets -> {"free", "opening", "up", "open", "lost", "closing"}]
        /\ \A s \in Sockets : (socket'[s] # "free" <=> socket[s] # "free")
        /\ \A s \in Sockets : socket'[s] = "open" => socket[s] = "open" /\ ws # s
    BY <2>1 DEF FeedTypeOK, Live, OneAnswers
  <2>3. \A s \in Sockets : socket'[s] # "open"
    BY <2>2 DEF OneAnswers
  <2> QED
    BY <2>1, <2>2, <2>3 DEF FeedTypeOK, OneAnswers, Answers, Remembered, OpenIsSubscribed
<1> QED
  BY <1>1, <1>2, <1>3, <1>4, <1>5, <1>6, <1>7, <1>8, <1>9 DEF MainThread

(* So does the library.                                                     *)
LEMMA LibraryStep ==
  ASSUME FeedInv, NEW s \in Sockets, Library(s)
  PROVE  FeedInv'
<1> USE DEF FeedInv
<1>1. CASE Handshake(s)
  BY <1>1 DEF Handshake, FeedTypeOK, OneAnswers, Answers, Remembered, OpenIsSubscribed
<1>2. CASE OnOpen(s)
  <2>1. /\ UNCHANGED <<kind, main, retry, ws, keys, polling>>
        /\ socket[s] = "up" /\ socket' = [socket EXCEPT ![s] = "open"] /\ ws = s /\ Usable(ws)
    BY <1>2, FeedAssumption DEF OnOpen, OneAnswers, Usable
  <2>2. /\ subscribed' \in [Sockets -> BOOLEAN]
        /\ \A u \in Sockets : subscribed[u] => subscribed'[u]
        /\ kind = "upstox" /\ keys => subscribed'[s]
    BY <1>2, <2>1, SendType DEF OnOpen, FeedTypeOK
  <2>3. kind = "angelone" /\ keys => subscribed'[s]
    BY <2>1, <2>2 DEF Remembered
  <2>4. keys => subscribed'[s]
    BY <2>2, <2>3 DEF FeedTypeOK
  <2>5. FeedTypeOK' /\ OneAnswers'
    <3>1. FeedTypeOK'
      BY <2>1, <2>2 DEF FeedTypeOK
    <3>2. \A u \in Sockets : socket'[u] # "free" <=> socket[u] # "free"
      BY <2>1 DEF FeedTypeOK
    <3> QED
      BY <2>1, <3>1, <3>2 DEF OneAnswers, Answers
  <2> QED
    BY <2>1, <2>2, <2>4, <2>5 DEF FeedTypeOK, Remembered, OpenIsSubscribed
<1>3. CASE OnError(s)
  BY <1>3 DEF OnError, FeedTypeOK, OneAnswers, Answers, Remembered, OpenIsSubscribed
<1>4. CASE LibraryRetries(s)
  BY <1>4 DEF LibraryRetries, FeedTypeOK, OneAnswers, Answers, Remembered, OpenIsSubscribed
<1>5. CASE OnClose(s)
  <2>1. /\ UNCHANGED <<kind, main, ws, keys, polling>> /\ socket[s] # "free"
        /\ socket' = [socket EXCEPT ![s] = "free"]
        /\ subscribed' = [subscribed EXCEPT ![s] = FALSE]
    BY <1>5 DEF OnClose
  <2>2. \/ UNCHANGED retry
        \/ kind = "upstox" /\ retry' = [retry EXCEPT ![s] = "sleep"]
    BY <1>5 DEF OnClose, StartReconnect
  <2>3. FeedTypeOK'
    BY <2>1, <2>2 DEF FeedTypeOK
  <2>4. OneAnswers'
    <3>1. \A u \in Sockets : Answers(u)' => Answers(u)
      BY <2>1, <2>2 DEF FeedTypeOK, Answers
    <3>2. \A u \in Sockets : socket'[u] # "free" => socket[u] # "free" /\ retry'[u] = retry[u]
      BY <2>1, <2>2 DEF FeedTypeOK
    <3> QED
      BY <2>1, <3>1, <3>2 DEF OneAnswers
  <2> QED
    BY <2>1, <2>2, <2>3, <2>4 DEF FeedTypeOK, Remembered, OpenIsSubscribed
<1> QED
  BY <1>1, <1>2, <1>3, <1>4, <1>5 DEF Library

(* So does the thread that reconnects.                                      *)
LEMMA ReconnectionStep ==
  ASSUME FeedInv, NEW s \in Sockets, Reconnection(s)
  PROVE  FeedInv'
<1> USE DEF FeedInv
<1>1. CASE RetryWakes(s)
  <2>1. /\ UNCHANGED <<kind, main, ws, socket, subscribed, keys, polling>>
        /\ retry[s] = "sleep"
        /\ retry' = [retry EXCEPT ![s] = "no"] \/ retry' = [retry EXCEPT ![s] = "authorize"]
    BY <1>1 DEF RetryWakes
  <2>2. \A u \in Sockets : Answers(u)' => Answers(u)
    BY <2>1 DEF FeedTypeOK, Answers
  <2>3. OneAnswers' /\ FeedTypeOK'
    BY <2>1, <2>2 DEF OneAnswers, FeedTypeOK
  <2> QED
    BY <2>1, <2>3 DEF FeedTypeOK, Remembered, OpenIsSubscribed
<1>2. CASE RetryAuthorize(s)
  <2>1. /\ UNCHANGED <<kind, main, keys, polling>> /\ retry[s] = "authorize"
    BY <1>2 DEF RetryAuthorize
  <2>2. /\ Answers(s) /\ ~polling /\ main \notin {"login", "master", "authorize"}
        /\ kind = "upstox"
    BY <2>1 DEF Answers, OneAnswers, Remembered, FeedTypeOK
  <2>3. CASE /\ UNCHANGED <<ws, socket, subscribed>>
             /\ \/ retry' = [retry EXCEPT ![s] = "no"]
                \/ retry' = [retry EXCEPT ![s] = "sleep"]
    <3>1. \A u \in Sockets : Answers(u)' => Answers(u)
      BY <2>1, <2>3 DEF FeedTypeOK, Answers
    <3>2. OneAnswers' /\ FeedTypeOK'
      BY <2>1, <2>3, <3>1 DEF OneAnswers, FeedTypeOK
    <3> QED
      BY <2>1, <2>2, <2>3, <3>2 DEF FeedTypeOK, Remembered, OpenIsSubscribed
  <2>4. CASE OpenWebsocket /\ retry' = [retry EXCEPT ![s] = "wait"]
    <3>0. \A u \in Sockets : u # s => ~Answers(u)
      BY <2>2 DEF OneAnswers
    <3>1. PICK u \in Sockets :
            /\ socket[u] = "free" /\ retry[u] = "no"
            /\ ws' = u /\ socket' = [socket EXCEPT ![u] = "opening"]
            /\ subscribed' = [subscribed EXCEPT ![u] = FALSE]
      BY <2>4 DEF OpenWebsocket
    <3>2. /\ \A v \in Sockets : socket[v] = "free"
          /\ \A v \in Sockets : v # s => retry[v] \notin {"sleep", "authorize"}
      BY <2>1, <3>0 DEF Answers, OneAnswers
    <3>3. /\ \A v \in Sockets : v # u => socket'[v] = "free"
          /\ \A v \in Sockets : retry'[v] \notin {"sleep", "authorize"}
          /\ retry'[u] = "no" /\ socket'[u] = "opening"
      BY <2>1, <2>4, <3>1, <3>2 DEF FeedTypeOK
    <3>4. FeedTypeOK'
      BY <2>1, <2>4, <3>1 DEF FeedTypeOK
    <3>5. OneAnswers'
      BY <2>1, <2>2, <3>1, <3>3 DEF OneAnswers, Answers
    <3> QED
      BY <2>1, <2>2, <3>1, <3>3, <3>4, <3>5 DEF Remembered, OpenIsSubscribed
  <2> QED
    BY <1>2, <2>3, <2>4 DEF RetryAuthorize
<1>3. CASE RetrySubscribes(s)
  <2>1. /\ UNCHANGED <<kind, main, ws, socket, keys, polling>> /\ retry[s] = "wait"
        /\ retry' = [retry EXCEPT ![s] = "no"]
    BY <1>3 DEF RetrySubscribes
  <2>2. /\ subscribed' \in [Sockets -> BOOLEAN]
        /\ \A u \in Sockets : subscribed[u] => subscribed'[u]
    BY <1>3, SendType DEF RetrySubscribes, FeedTypeOK
  <2>3. FeedTypeOK' /\ OneAnswers'
    <3>1. /\ \A u \in Sockets \ {s} : retry'[u] = retry[u]
          /\ retry'[s] = "no"
          /\ retry' \in [Sockets -> {"no", "sleep", "authorize", "wait"}]
      BY <2>1 DEF FeedTypeOK
    <3>2. FeedTypeOK'
      BY <2>1, <2>2, <3>1 DEF FeedTypeOK
    <3>3. \A u \in Sockets : Answers(u)' => Answers(u)
      BY <2>1, <3>1 DEF Answers
    <3>4. OneAnswers'
      BY <2>1, <3>1, <3>3 DEF OneAnswers
    <3> QED
      BY <3>2, <3>4
  <2>4. kind # "angelone"
    BY <2>1 DEF Remembered
  <2>5. OpenIsSubscribed'
    BY <2>1, <2>2 DEF Remembered, OpenIsSubscribed
  <2> QED
    BY <2>1, <2>3, <2>4, <2>5 DEF Remembered
<1> QED
  BY <1>1, <1>2, <1>3 DEF Reconnection

(* So does every step of the feed.                                          *)
LEMMA FeedSteps == FeedInv /\ [FeedStep]_feed => FeedInv'
<1> SUFFICES ASSUME FeedInv, [FeedStep]_feed PROVE FeedInv'
  OBVIOUS
<1>1. CASE PollEnds
  BY <1>1 DEF PollEnds, FeedInv, FeedTypeOK, OneAnswers, Answers, Remembered, OpenIsSubscribed
<1>2. CASE UNCHANGED feed
  BY <1>2 DEF feed, FeedInv, FeedTypeOK, OneAnswers, Answers, Remembered, OpenIsSubscribed
<1> QED
  BY <1>1, <1>2, MainStep, LibraryStep, ReconnectionStep DEF FeedStep

-----------------------------------------------------------------------------
(* The ticks in hand                                                        *)

StampedTick == [symbol : Symbols, ltp : Prices, volume : Nat, ts : Nat]

MarketTypeOK ==
  /\ clock \in Nat
  /\ ticks \in Seq(StampedTick)
  /\ handling \in [FeedThreads -> StampedTick \cup {NoTick}]

(* A tick is in the hand of one thread at most, which keeps its connection  *)
(* meanwhile, and it is the last that was stamped.                          *)
OneInHand ==
  /\ \A t, u \in FeedThreads : handling[t] # NoTick /\ handling[u] # NoTick => t = u
  /\ \A s \in Sockets : handling[s] # NoTick => socket[s] # "free"
  /\ handling[Poller] # NoTick => polling
  /\ \A t \in FeedThreads : handling[t] # NoTick =>
       ticks # <<>> /\ handling[t] = ticks[Len(ticks)]

MarketInv == FeedInv /\ MarketTypeOK /\ OneInHand

(* Who stamps a tick finds no other tick in hand.                           *)
LEMMA StampsAlone ==
  ASSUME MarketInv, NEW t \in FeedThreads, Delivers(t), handling[t] = NoTick
  PROVE  \A u \in FeedThreads : handling[u] = NoTick
<1> SUFFICES ASSUME NEW u \in FeedThreads, handling[u] # NoTick PROVE FALSE
  OBVIOUS
<1> USE DEF MarketInv, FeedInv, FeedThreads
<1>1. CASE t = Poller
  <2>1. polling /\ u \in Sockets /\ socket[u] # "free"
    BY <1>1, MarketDataAssumption DEF Delivers, OneInHand
  <2> QED
    BY <2>1 DEF OneAnswers, Answers
<1>2. CASE t \in Sockets
  <2>1. Answers(t)
    BY <1>2, MarketDataAssumption DEF Delivers, Usable, Answers
  <2>2. ~polling /\ \A s \in Sockets : Answers(s) => s = t
    BY <1>2, <2>1 DEF OneAnswers
  <2> QED
    BY <2>2 DEF OneInHand, Answers
<1> QED
  BY <1>1, <1>2

(* A thread of the feed that has a tick in hand keeps its connection.       *)
LEMMA FeedKeepsHands ==
  ASSUME MarketInv, FeedStep, UNCHANGED market
  PROVE  MarketTypeOK' /\ OneInHand'
<1> USE DEF MarketInv, FeedInv, FeedThreads
<1>1. handling[Poller] # NoTick => polling'
  BY DEF OneInHand, FeedStep, MainThread, Disconnect, Login, LoadMaster, Connect, Wait,
         SubscribeAngelOne, Subscribe, Send, CloseSocket, Reconnection, RetryWakes,
         RetryAuthorize, RetrySubscribes, Library, Handshake, OnOpen, OnError,
         LibraryRetries, OnClose, PollEnds
<1>2. ASSUME NEW s \in Sockets, handling[s] # NoTick
      PROVE  socket'[s] # "free"
  <2>1. socket[s] # "free"
    BY <1>2 DEF OneInHand
  <2>2. CASE UNCHANGED socket
    BY <2>1, <2>2
  <2>3. CASE OpenWebsocket
    BY <2>1, <2>3 DEF OpenWebsocket, FeedTypeOK
  <2>4. CASE CloseSocket
    BY <2>1, <2>4 DEF CloseSocket, FeedTypeOK, Live
  <2>5. ASSUME NEW u \in Sockets, handling[u] = NoTick, Library(u)
        PROVE  socket'[s] # "free"
    <3>1. s # u /\ \E c : socket' = [socket EXCEPT ![u] = c]
      BY <1>2, <2>5 DEF Library, Handshake, OnOpen, OnError, LibraryRetries, OnClose
    <3> QED
      BY <2>1, <3>1 DEF FeedTypeOK
  <2>6. FeedStep => \/ UNCHANGED socket \/ OpenWebsocket \/ CloseSocket
                    \/ \E u \in Sockets : handling[u] = NoTick /\ Library(u)
    BY DEF FeedStep, MainThread, Disconnect, Login, LoadMaster, Connect, Wait,
           SubscribeAngelOne, Subscribe, Send, Reconnection, RetryWakes,
           RetryAuthorize, RetrySubscribes, PollEnds
  <2> QED
    BY <2>2, <2>3, <2>4, <2>5, <2>6
<1>3. MarketTypeOK'
  BY DEF market, MarketTypeOK
<1> QED
  BY <1>1, <1>2, <1>3 DEF OneInHand, market

(* A tick is stamped by a thread that has none in hand.                     *)
LEMMA StampStep ==
  ASSUME MarketInv, NEW t \in FeedThreads, NEW v \in Nat, Stamp(t, v)
  PROVE  MarketTypeOK' /\ OneInHand'
<1> USE DEF MarketInv, FeedInv
<1>1. \A u \in FeedThreads : handling[u] = NoTick
  BY StampsAlone DEF Stamp
<1>2. PICK tick \in StampedTick : /\ handling' = [handling EXCEPT ![t] = tick]
                           /\ ticks' = Append(ticks, tick)
  BY DEF Stamp, StampedTick, MarketTypeOK
<1>3. UNCHANGED <<feed, clock>> /\ Delivers(t)
  BY DEF Stamp
<1>4. ticks' \in Seq(StampedTick) /\ ticks' # <<>> /\ ticks'[Len(ticks')] = tick
  BY <1>2 DEF MarketTypeOK
<1>5. /\ handling' \in [FeedThreads -> StampedTick \cup {NoTick}]
      /\ handling'[t] = tick /\ \A u \in FeedThreads : u # t => handling'[u] = NoTick
  BY <1>1, <1>2 DEF MarketTypeOK
<1>6. MarketTypeOK'
  BY <1>3, <1>4, <1>5 DEF MarketTypeOK
<1>7. /\ \A s \in Sockets : handling'[s] # NoTick => socket'[s] # "free"
      /\ handling'[Poller] # NoTick => polling'
  BY <1>3, <1>5, MarketDataAssumption DEF Delivers, Usable, feed, FeedThreads
<1> QED
  BY <1>4, <1>5, <1>6, <1>7 DEF OneInHand

(* A tick that was in hand is handed on.                                    *)
LEMMA HandOnStep ==
  ASSUME MarketInv, NEW t \in FeedThreads, OnTick(t)
  PROVE  MarketTypeOK' /\ OneInHand'
<1> USE DEF MarketInv, FeedInv
<1>1. /\ handling' = [handling EXCEPT ![t] = NoTick]
      /\ UNCHANGED <<feed, clock, ticks>>
  BY DEF OnTick
<1>2. MarketTypeOK'
  BY <1>1 DEF MarketTypeOK
<1> QED
  BY <1>1, <1>2 DEF OneInHand, MarketTypeOK, feed, FeedThreads

(* Every step keeps the invariant of the stream.                            *)
LEMMA MarketStep == MarketInv /\ [MarketNext]_marketVars => MarketInv'
<1> SUFFICES ASSUME MarketInv, [MarketNext]_marketVars PROVE MarketInv'
  OBVIOUS
<1>1. FeedInv'
  <2>1. [FeedStep]_feed
    BY DEF MarketNext, marketVars, OnData, DecodeFrame, PollTicks, Stamp, OnTick, Tock
  <2> QED
    BY <2>1, FeedSteps DEF MarketInv
<1>2. MarketTypeOK' /\ OneInHand'
  <2>1. CASE FeedStep /\ UNCHANGED <<aggregator, market>>
    BY <2>1, FeedKeepsHands
  <2>2. ASSUME NEW s \in Sockets, OnData(s) \/ DecodeFrame(s)
        PROVE  MarketTypeOK' /\ OneInHand'
    <3>1. Len(ticks) + 1 \in Nat /\ s \in FeedThreads
      BY DEF MarketInv, MarketTypeOK, FeedThreads
    <3> QED
      BY <2>2, <3>1, StampStep DEF OnData, DecodeFrame
  <2>3. CASE PollTicks
    BY <2>3, StampStep DEF PollTicks, FeedThreads
  <2>4. ASSUME NEW t \in FeedThreads, OnTick(t)
        PROVE  MarketTypeOK' /\ OneInHand'
    BY <2>4, HandOnStep
  <2>5. CASE Tock
    BY <2>5 DEF Tock, MarketInv, MarketTypeOK, OneInHand, feed
  <2>6. CASE UNCHANGED marketVars
    BY <2>6 DEF marketVars, market, MarketInv, MarketTypeOK, OneInHand, feed
  <2> QED
    BY <2>1, <2>2, <2>3, <2>4, <2>5, <2>6 DEF MarketNext
<1> QED
  BY <1>1, <1>2 DEF MarketInv

(* The stream begins in it.                                                 *)
LEMMA MarketInitInv == MarketInit => MarketInv
<1> SUFFICES ASSUME MarketInit PROVE MarketInv
  OBVIOUS
<1>1. FeedInv
  BY FeedInitInv DEF MarketInit
<1> QED
  BY <1>1 DEF MarketInit, MarketInv, MarketTypeOK, OneInHand, FeedThreads

(* It always holds.                                                         *)
LEMMA MarketAlways == MarketSpec => []MarketInv
<1> QED
  BY MarketInitInv, MarketStep, PTL DEF MarketSpec

(* One socket at most is live, whatever is lost, closed and opened again,   *)
(* and an open socket of a subscribed feed is subscribed (_on_error,        *)
(* _on_close, _reconnect_with_backoff, subscribe).                          *)
THEOREM SocketsInOrder == MarketSpec => []SocketInOrder
<1>1. MarketInv => SocketInOrder
  <2> SUFFICES ASSUME FeedInv PROVE OneSocket /\ OpenIsSubscribed
    BY DEF MarketInv, SocketInOrder
  <2>1. \A s, u \in Live : s = u
    BY DEF FeedInv, OneAnswers, Answers, Live
  <2>2. Live = {} \/ \E s \in Sockets : Live = {s}
    BY <2>1 DEF Live
  <2>3. Cardinality(Live) <= 1
    BY <2>2, FS_EmptySet, FS_Singleton
  <2> QED
    BY <2>3 DEF OneSocket, FeedInv, Remembered
<1> QED
  BY <1>1, MarketAlways, PTL

(* The aggregator ingests every tick before the next is stamped, on         *)
(* whichever thread: the stream of Orchestrator._on_tick is the stream of   *)
(* the stamps.                                                              *)
InStampOrder ==
  /\ ticks' # ticks => \A t \in FeedThreads : handling[t] = NoTick
  /\ \A t \in FeedThreads : OnTick(t) => handling[t] = ticks[Len(ticks)]

(* Every tick is stamped only when the one before it has been handled, and  *)
(* what is handled is the last that was stamped (_on_tick).                 *)
THEOREM StreamInOrder == MarketSpec => [][InStampOrder]_marketVars
<1>1. MarketInv /\ [MarketNext]_marketVars => [InStampOrder]_marketVars
  <2> SUFFICES ASSUME MarketInv, MarketNext PROVE InStampOrder
    BY DEF marketVars, market, feed, aggregator
  <2>1. \A t \in FeedThreads : OnTick(t) => handling[t] = ticks[Len(ticks)]
    BY DEF OnTick, MarketInv, OneInHand
  <2>2. ASSUME ticks' # ticks
        PROVE  \E t \in FeedThreads : Delivers(t) /\ handling[t] = NoTick
    BY <2>2 DEF MarketNext, market, OnData, DecodeFrame, PollTicks, Stamp, OnTick, Tock, FeedThreads
  <2> QED
    BY <2>1, <2>2, StampsAlone DEF InStampOrder
<1> QED
  BY <1>1, MarketAlways, PTL DEF MarketSpec
-----------------------------------------------------------------------------
(* The candles                                                              *)

(* The intervals are laid end to end: each instant is in one of them, an    *)
(* interval starts at its start, and a later instant is in the same one or  *)
(* in a later one.                                                          *)
LEMMA FloorIsStart ==
  ASSUME NEW a \in Nat, NEW w \in Nat \ {0}
  PROVE  /\ Floor(a, w) \in Nat /\ Floor(a, w) <= a /\ a < Floor(a, w) + w
         /\ Floor(a, w) = w * (a \div w) /\ a \div w \in Nat
<1>1. /\ a \div w \in Int /\ a % w \in 0 .. w - 1
      /\ a = w * (a \div w) + (a % w)
  OBVIOUS
<1>2. a \div w \in Nat
  <2> SUFFICES ASSUME a \div w <= -1 PROVE FALSE
    BY <1>1
  <2> DEFINE q == a \div w
  <2>1. q \in Int /\ a = w * q + (a % w)
    BY <1>1
  <2> HIDE DEF q
  <2>2. w * (-1 - q) >= 0
    BY <2>1, <1>1, SMT DEF q
  <2> QED
    BY <1>1, <2>1, <2>2, SMT
<1> QED
  BY <1>1, <1>2, SMT DEF Floor

(* Different multiples of a width are a width apart.                        *)
LEMMA MultiplesAreApart ==
  ASSUME NEW m \in Nat, NEW n \in Nat, NEW w \in Nat \ {0}, m < n
  PROVE  w * m + w <= w * n
<1>1. PICK d \in Nat : n = m + 1 + d
  <2>1. n - m - 1 \in Nat /\ n = m + 1 + (n - m - 1)
    OBVIOUS
  <2> QED
    BY <2>1
<1>2. w * n = w * m + w + w * d
  <2>1. w * n = w * (m + 1 + d) /\ w * (m + 1 + d) = w * m + w * 1 + w * d
    BY <1>1, SMT
  <2> QED
    BY <2>1, SMT
<1>3. w * d \in Nat /\ w * m \in Nat
  BY SMT
<1> QED
  BY <1>2, <1>3

(* A later moment is of no earlier interval.                                *)
LEMMA FloorIsMonotone ==
  ASSUME NEW a \in Nat, NEW b \in Nat, NEW w \in Nat \ {0}, a <= b
  PROVE  Floor(a, w) <= Floor(b, w)
<1> SUFFICES ASSUME Floor(b, w) < Floor(a, w) PROVE FALSE
  BY FloorIsStart
<1> DEFINE m == b \div w
           n == a \div w
<1>1. m \in Nat /\ n \in Nat /\ Floor(b, w) = w * m /\ Floor(a, w) = w * n
  BY FloorIsStart
<1> HIDE DEF m, n
<1>2. m < n
  <2> SUFFICES ASSUME n <= m PROVE FALSE
    BY <1>1
  <2>1. n = m \/ n < m
    BY <1>1
  <2>2. w * n <= w * m
    <3>1. w * n \in Nat /\ w * m \in Nat
      BY <1>1, FloorIsStart
    <3> QED
      BY <1>1, <2>1, <3>1, MultiplesAreApart
  <2> QED
    BY <1>1, <2>2, FloorIsStart
<1>3. w * m + w <= w * n
  BY <1>1, <1>2, MultiplesAreApart
<1>4. b < Floor(b, w) + w /\ Floor(a, w) <= a /\ Floor(a, w) \in Nat /\ Floor(b, w) \in Nat
  BY FloorIsStart
<1> QED
  BY <1>1, <1>3, <1>4

(* The beginning of an interval is of that interval.                        *)
LEMMA FloorOfFloor ==
  ASSUME NEW a \in Nat, NEW w \in Nat \ {0}
  PROVE  Floor(Floor(a, w), w) = Floor(a, w)
<1> DEFINE f == Floor(a, w)
           n == a \div w
           m == f \div w
<1>1. f \in Nat /\ f = w * n /\ n \in Nat
  BY FloorIsStart
<1>2. m \in Nat /\ Floor(f, w) = w * m /\ Floor(f, w) <= f /\ f < Floor(f, w) + w
      /\ Floor(f, w) \in Nat
  BY <1>1, FloorIsStart
<1> HIDE DEF f, n, m
<1>3. m = n
  <2>1. ~(m < n)
    BY <1>1, <1>2, MultiplesAreApart
  <2>2. ~(n < m)
    BY <1>1, <1>2, MultiplesAreApart
  <2> QED
    BY <1>1, <1>2, <2>1, <2>2
<1> QED
  BY <1>1, <1>2, <1>3 DEF f

Candle == [open : Nat, high : Nat, low : Nat, close : Nat, volume : Nat, ts : Nat]

(* A candle of an interval starts with it, and holds its own prices.        *)
IsCandle(c, w) ==
  /\ c \in Candle
  /\ c.low <= c.open /\ c.open <= c.high /\ c.low <= c.close /\ c.close <= c.high
  /\ Floor(c.ts, w) = c.ts

(* The closed candles of a symbol and an interval, oldest first, each of    *)
(* one interval; what is not closed yet is later than all of them.          *)
CandlesOf(k) ==
  /\ history[k] \in Seq(Candle)
  /\ Len(history[k]) <= HistoryMax
  /\ \A i \in 1 .. Len(history[k]) : IsCandle(history[k][i], k[2])
  /\ \A i, j \in 1 .. Len(history[k]) : i < j => history[k][i].ts < history[k][j].ts
  /\ history[k] # <<>> => buckets[k] # NoBucket
  /\ buckets[k] # NoBucket =>
       /\ IsCandle(buckets[k], k[2])
       /\ \A i \in 1 .. Len(history[k]) : history[k][i].ts < buckets[k].ts

CandlesInOrder == \A k \in Keys : CandlesOf(k)

(* No bucket is later than the time, nor than a tick that is still in hand. *)
NotYetPast ==
  \A k \in Keys : buckets[k] # NoBucket =>
    /\ buckets[k].ts <= clock
    /\ \A t \in FeedThreads : handling[t] # NoTick => buckets[k].ts <= handling[t].ts

StampedInTime == \A t \in FeedThreads : handling[t] # NoTick => handling[t].ts <= clock

CandleInv ==
  /\ buckets \in [Keys -> Candle \cup {NoBucket}]
  /\ DOMAIN history = Keys
  /\ CandlesInOrder /\ NotYetPast /\ StampedInTime

(* No candle is mistaken for a missing bucket.                              *)
LEMMA NoBucketIsNoCandle == NoBucket \notin Candle
BY DEF NoBucket, Candle

(* A key is a symbol and an interval.                                       *)
LEMMA WidthOf ==
  ASSUME NEW k \in Keys
  PROVE  k[1] \in Symbols /\ k[2] \in Nat \ {0}
<1>1. ToSet(Intervals) = {Intervals[i] : i \in DOMAIN Intervals}
  BY DEF ToSet
<1> QED
  BY <1>1, AggregatorAssumption DEF Keys

(* The last ones of a sequence are its tail end.                            *)
LEMMA LastOnesProperties ==
  ASSUME NEW S, NEW s \in Seq(S), NEW n \in Nat
  PROVE  /\ LastOnes(s, n) \in Seq(S) /\ Len(LastOnes(s, n)) <= n
         /\ \E d \in Nat : /\ Len(LastOnes(s, n)) + d = Len(s)
                           /\ \A i \in 1 .. Len(LastOnes(s, n)) : LastOnes(s, n)[i] = s[i + d]
<1>1. CASE Len(s) <= n
  <2>1. LastOnes(s, n) = s /\ Len(s) \in Nat
    BY <1>1 DEF LastOnes
  <2>2. 0 \in Nat /\ Len(s) + 0 = Len(s) /\ \A i \in 1 .. Len(s) : s[i] = s[i + 0]
    BY <2>1
  <2> QED
    BY <1>1, <2>1, <2>2
<1>2. CASE ~(Len(s) <= n)
  <2> DEFINE d == Len(s) - n
             r == SubSeq(s, d + 1, Len(s))
  <2>1. LastOnes(s, n) = r /\ d \in Nat /\ d + 1 \in 1 .. Len(s) + 1
    BY <1>2 DEF LastOnes
  <2>2. r \in Seq(S) /\ Len(r) = n /\ \A i \in 1 .. n : r[i] = s[d + 1 + i - 1]
    BY <1>2, SubSeqProperties
  <2>3. \A i \in 1 .. n : d + 1 + i - 1 = i + d
    BY <2>1
  <2> HIDE DEF r
  <2>4. \A i \in 1 .. Len(r) : r[i] = s[i + d]
    BY <2>2, <2>3
  <2>5. Len(r) + d = Len(s) /\ Len(r) <= n
    BY <2>2
  <2> HIDE DEF d
  <2> QED
    BY <2>1, <2>2, <2>4, <2>5
<1> QED
  BY <1>1, <1>2

(* A bucket that is opened has prices it can have.                          *)
LEMMA OpenedIsCandle ==
  ASSUME NEW tick \in StampedTick, NEW w \in Nat \ {0}
  PROVE  IsCandle(OpenBucket(tick, w), w)
<1>1. tick.ltp \in Nat /\ tick.volume \in Nat /\ tick.ts \in Nat
  BY AggregatorAssumption DEF StampedTick
<1>2. Floor(tick.ts, w) \in Nat /\ Floor(Floor(tick.ts, w), w) = Floor(tick.ts, w)
  BY <1>1, FloorIsStart, FloorOfFloor
<1> QED
  BY <1>1, <1>2 DEF IsCandle, OpenBucket, Candle

(* So has one that is extended, and it stays of its interval.               *)
LEMMA ExtendedIsCandle ==
  ASSUME NEW tick \in StampedTick, NEW w \in Nat \ {0}, NEW b, IsCandle(b, w)
  PROVE  IsCandle(Extend(b, tick), w) /\ Extend(b, tick).ts = b.ts
<1>1. tick.ltp \in Nat /\ tick.volume \in Nat
  BY AggregatorAssumption DEF StampedTick
<1>2. /\ b.open \in Nat /\ b.high \in Nat /\ b.low \in Nat /\ b.ts \in Nat
      /\ b.low <= b.open /\ b.open <= b.high /\ Floor(b.ts, w) = b.ts
  BY DEF IsCandle, Candle
<1> QED
  BY <1>1, <1>2 DEF Extend, IsCandle, Candle, HigherOf, LowerOf

(* Ingesting a tick that is not older than the open bucket.                 *)
LEMMA IngestKeepsOrder ==
  ASSUME CandleInv, NEW tick \in StampedTick, Ingest(tick), NEW k \in Keys,
         buckets[k] # NoBucket => buckets[k].ts <= tick.ts
  PROVE  /\ CandlesOf(k)' /\ buckets'[k] \in Candle \cup {NoBucket}
         /\ buckets'[k] = buckets[k] \/ buckets'[k].ts <= tick.ts
<1> DEFINE w == k[2]
           b == buckets[k]
<1>1. w \in Nat \ {0} /\ tick.ts \in Nat /\ Floor(tick.ts, w) \in Nat
      /\ Floor(tick.ts, w) <= tick.ts
  BY WidthOf, FloorIsStart DEF StampedTick
<1>2. CandlesOf(k) /\ b \in Candle \cup {NoBucket}
  BY DEF CandleInv, CandlesInOrder
<1>3. CASE k[1] # tick.symbol
  BY <1>2, <1>3 DEF Ingest, CandlesOf
<1>4. CASE k[1] = tick.symbol /\ b = NoBucket
  <2>1. buckets'[k] = OpenBucket(tick, w) /\ history'[k] = history[k] /\ history[k] = <<>>
    BY <1>2, <1>4 DEF Ingest, CandlesOf
  <2>2. IsCandle(OpenBucket(tick, w), w) /\ OpenBucket(tick, w).ts = Floor(tick.ts, w)
        /\ OpenBucket(tick, w) \in Candle
    BY <1>1, OpenedIsCandle DEF OpenBucket, IsCandle
  <2>3. OpenBucket(tick, w) # NoBucket
    BY <2>2, NoBucketIsNoCandle
  <2> QED
    BY <1>1, <1>2, <2>1, <2>2, <2>3 DEF CandlesOf
<1>5. CASE k[1] = tick.symbol /\ b # NoBucket /\ ~Rolls(b, tick, w)
  <2>1. buckets'[k] = Extend(b, tick) /\ history'[k] = history[k]
    BY <1>5 DEF Ingest
  <2>2. IsCandle(b, w)
    BY <1>2, <1>5 DEF CandlesOf
  <2>3. IsCandle(Extend(b, tick), w) /\ Extend(b, tick).ts = b.ts /\ Extend(b, tick) \in Candle
    BY <1>1, <2>2, ExtendedIsCandle DEF IsCandle
  <2>4. Extend(b, tick) # NoBucket
    BY <2>3, NoBucketIsNoCandle
  <2> HIDE DEF w
  <2> QED
    BY <1>2, <1>5, <2>1, <2>3, <2>4 DEF CandlesOf, w
<1>6. CASE k[1] = tick.symbol /\ b # NoBucket /\ Rolls(b, tick, w)
  <2> DEFINE c == OpenBucket(tick, w)
             all == Append(history[k], b)
             h == LastOnes(all, HistoryMax)
  <2>1. buckets'[k] = c /\ history'[k] = h
    BY <1>6 DEF Ingest
  <2>2. IsCandle(c, w) /\ c.ts = Floor(tick.ts, w) /\ c \in Candle /\ c # NoBucket
    BY <1>1, OpenedIsCandle, NoBucketIsNoCandle DEF OpenBucket, IsCandle
  <2>3. IsCandle(b, w) /\ b \in Candle /\ b.ts \in Nat /\ Floor(b.ts, w) = b.ts
    BY <1>2, <1>6 DEF CandlesOf, IsCandle, Candle
  <2>4. b.ts < c.ts
    <3>1. Floor(b.ts, w) <= Floor(tick.ts, w)
      BY <1>1, <1>6, <2>3, FloorIsMonotone
    <3>2. b.ts # Floor(tick.ts, w)
      BY <1>6 DEF Rolls
    <3> QED
      BY <1>1, <2>2, <2>3, <3>1, <3>2
  <2>5. /\ all \in Seq(Candle) /\ Len(all) = Len(history[k]) + 1
        /\ \A i \in 1 .. Len(history[k]) : all[i] = history[k][i]
        /\ all[Len(history[k]) + 1] = b
    BY <1>2, <2>3 DEF CandlesOf
  <2>6. /\ \A i \in 1 .. Len(all) : IsCandle(all[i], w) /\ all[i].ts < c.ts
        /\ \A i, j \in 1 .. Len(all) : i < j => all[i].ts < all[j].ts
    <3> DEFINE n == Len(history[k])
    <3>1. n \in Nat /\ \A i \in 1 .. Len(all) : i \in 1 .. n \/ i = n + 1
      BY <1>2, <2>5 DEF CandlesOf
    <3>2. /\ \A i \in 1 .. n : all[i].ts < b.ts /\ IsCandle(all[i], w) /\ all[i].ts \in Nat
          /\ all[n + 1] = b
      BY <1>2, <1>6, <2>5 DEF CandlesOf, IsCandle, Candle
    <3>3. c.ts \in Nat
      BY <1>1, <2>2
    <3>4. \A i \in 1 .. Len(all) : IsCandle(all[i], w) /\ all[i].ts < c.ts
      <4> HIDE DEF n, all, c, b, w
      <4> QED
        BY <2>3, <2>4, <3>1, <3>2, <3>3
    <3>5. \A i, j \in 1 .. Len(all) : i < j => all[i].ts < all[j].ts
      <4> SUFFICES ASSUME NEW i \in 1 .. Len(all), NEW j \in 1 .. Len(all), i < j
                   PROVE  all[i].ts < all[j].ts
        OBVIOUS
      <4>1. i \in 1 .. n
        BY <2>5, <3>1
      <4>2. CASE j \in 1 .. n
        BY <1>2, <2>5, <4>1, <4>2 DEF CandlesOf
      <4>3. CASE j = n + 1
        BY <3>2, <4>1, <4>3
      <4> QED
        BY <3>1, <4>2, <4>3
    <3> QED
      BY <3>4, <3>5
  <2> HIDE DEF c, all, b, w
  <2>7. h \in Seq(Candle) /\ Len(h) <= HistoryMax
    BY <2>5, AggregatorAssumption, LastOnesProperties
  <2>8. PICK d \in Nat : /\ Len(h) + d = Len(all)
                         /\ \A i \in 1 .. Len(h) : h[i] = all[i + d]
    <3>1. all \in Seq(Candle) /\ HistoryMax \in Nat
      BY <2>5, AggregatorAssumption
    <3> QED
      BY <3>1, LastOnesProperties, Zenon
  <2> HIDE DEF h
  <2>9. Len(h) \in Nat /\ \A i \in 1 .. Len(h) : i + d \in 1 .. Len(all)
    BY <2>5, <2>7, <2>8
  <2>10. /\ \A i \in 1 .. Len(h) : IsCandle(h[i], w) /\ h[i].ts < c.ts
         /\ \A i, j \in 1 .. Len(h) : i < j => h[i].ts < h[j].ts
    <3>1. \A i \in 1 .. Len(h) : IsCandle(h[i], w) /\ h[i].ts < c.ts
      BY <2>6, <2>8, <2>9
    <3>2. \A i, j \in 1 .. Len(h) : i < j => h[i].ts < h[j].ts
      <4> SUFFICES ASSUME NEW i \in 1 .. Len(h), NEW j \in 1 .. Len(h), i < j
                   PROVE  h[i].ts < h[j].ts
        OBVIOUS
      <4>1. i + d < j + d /\ i + d \in 1 .. Len(all) /\ j + d \in 1 .. Len(all)
        BY <2>9
      <4> QED
        BY <2>6, <2>8, <4>1
    <3> QED
      BY <3>1, <3>2
  <2>11. CandlesOf(k)'
    BY <2>1, <2>2, <2>7, <2>10 DEF CandlesOf, w
  <2> QED
    BY <1>1, <2>1, <2>2, <2>11 DEF w
<1> QED
  BY <1>3, <1>4, <1>5, <1>6

(* Every step keeps the history in order.                                   *)
LEMMA CandleStep == MarketInv /\ CandleInv /\ [MarketNext]_marketVars => CandleInv'
<1> SUFFICES ASSUME MarketInv, CandleInv, [MarketNext]_marketVars PROVE CandleInv'
  OBVIOUS
<1>1. /\ clock \in Nat /\ \A t \in FeedThreads : handling[t] \in StampedTick \cup {NoTick}
      /\ \A k \in Keys : buckets[k] # NoBucket => buckets[k].ts \in Nat
      /\ \A t \in FeedThreads : handling[t] # NoTick => handling[t].ts \in Nat
  BY DEF MarketInv, MarketTypeOK, StampedTick, CandleInv, CandlesInOrder, CandlesOf,
         IsCandle, Candle
<1>2. CASE UNCHANGED <<aggregator, market>>
  BY <1>2 DEF CandleInv, aggregator, market, CandlesInOrder, CandlesOf, NotYetPast, StampedInTime
<1>3. CASE Tock
  <2>1. UNCHANGED <<buckets, history, handling>> /\ clock' = clock + 1
    BY <1>3 DEF Tock, aggregator
  <2>2. CandlesInOrder'
    BY <2>1 DEF CandleInv, CandlesInOrder, CandlesOf
  <2>3. NotYetPast' /\ StampedInTime'
    BY <1>1, <2>1 DEF CandleInv, NotYetPast, StampedInTime
  <2> QED
    BY <2>1, <2>2, <2>3 DEF CandleInv
<1>4. ASSUME NEW t \in FeedThreads, NEW v, Stamp(t, v)
      PROVE  CandleInv'
  <2>1. PICK x \in Symbols, p \in Prices : handling' =
          [handling EXCEPT ![t] = [symbol |-> x, ltp |-> p, volume |-> v, ts |-> clock]]
    BY <1>4 DEF Stamp
  <2>2. UNCHANGED <<buckets, history, clock>>
    BY <1>4 DEF Stamp, aggregator
  <2>3. /\ \A u \in FeedThreads : handling'[u] = handling[u] \/ handling'[u].ts = clock
    BY <2>1 DEF MarketInv, MarketTypeOK
  <2>4. CandlesInOrder'
    BY <2>2 DEF CandleInv, CandlesInOrder, CandlesOf
  <2>5. NotYetPast' /\ StampedInTime'
    BY <1>1, <2>2, <2>3 DEF CandleInv, NotYetPast, StampedInTime
  <2> QED
    BY <2>2, <2>4, <2>5 DEF CandleInv
<1>5. ASSUME NEW t \in FeedThreads, OnTick(t)
      PROVE  CandleInv'
  <2> DEFINE tick == handling[t]
  <2>1. tick \in StampedTick /\ Ingest(tick) /\ UNCHANGED clock
        /\ handling' = [handling EXCEPT ![t] = NoTick]
    BY <1>1, <1>5 DEF OnTick
  <2>2. \A k \in Keys : buckets[k] # NoBucket => buckets[k].ts <= tick.ts
    BY <1>5 DEF OnTick, CandleInv, NotYetPast
  <2>3. \A u \in FeedThreads : handling'[u] = NoTick
    BY <1>5, <2>1 DEF MarketInv, MarketTypeOK, OneInHand, OnTick
  <2>4. tick.ts <= clock /\ tick.ts \in Nat
    BY <1>1, <1>5 DEF OnTick, CandleInv, StampedInTime
  <2>5. DOMAIN history' = Keys /\ DOMAIN buckets' = Keys
        /\ buckets' = [k \in Keys |-> buckets'[k]]
    BY <2>1 DEF Ingest
  <2> HIDE DEF tick
  <2>6. \A k \in Keys : /\ CandlesOf(k)' /\ buckets'[k] \in Candle \cup {NoBucket}
                        /\ buckets'[k] = buckets[k] \/ buckets'[k].ts <= tick.ts
    BY <2>1, <2>2, IngestKeepsOrder
  <2>7. NotYetPast' /\ StampedInTime'
    <3>1. \A k \in Keys : buckets'[k] # NoBucket => buckets'[k].ts <= clock
      <4> SUFFICES ASSUME NEW k \in Keys, buckets'[k] # NoBucket
                   PROVE  buckets'[k].ts <= clock
        OBVIOUS
      <4>1. CASE buckets'[k] = buckets[k]
        BY <4>1 DEF CandleInv, NotYetPast
      <4>2. CASE buckets'[k].ts <= tick.ts
        <5>1. buckets'[k].ts \in Nat
          BY <2>6 DEF Candle
        <5> QED
          BY <1>1, <2>4, <4>2, <5>1
      <4> QED
        BY <2>6, <4>1, <4>2
    <3> QED
      BY <2>1, <2>3, <3>1 DEF NotYetPast, StampedInTime
  <2> QED
    BY <2>5, <2>6, <2>7 DEF CandleInv, CandlesInOrder
<1>6. [MarketNext]_marketVars => \/ UNCHANGED <<aggregator, market>> \/ Tock
                     \/ \E t \in FeedThreads : OnTick(t) \/ \E v : Stamp(t, v)
  BY DEF MarketNext, marketVars, OnData, DecodeFrame, PollTicks, FeedThreads
<1> QED
  BY <1>2, <1>3, <1>4, <1>5, <1>6

(* There is no history at first.                                            *)
LEMMA CandleInitInv == MarketInit => CandleInv
<1> SUFFICES ASSUME MarketInit PROVE CandleInv
  OBVIOUS
<1>1. /\ \A k \in Keys : buckets[k] = NoBucket /\ history[k] = <<>>
      /\ DOMAIN history = Keys /\ buckets \in [Keys -> Candle \cup {NoBucket}]
      /\ \A t \in FeedThreads : handling[t] = NoTick
  BY DEF MarketInit, AggregatorInit
<1>2. ASSUME NEW k \in Keys
      PROVE  CandlesOf(k)
  <2>1. <<>> \in Seq(Candle) /\ Len(<<>>) = 0 /\ 0 <= HistoryMax
    BY AggregatorAssumption
  <2>2. history[k] = <<>> /\ buckets[k] = NoBucket
    BY <1>1
  <2>3. Len(history[k]) = 0 /\ 1 .. Len(history[k]) = {}
    BY <2>1, <2>2
  <2> QED
    BY <2>1, <2>2, <2>3 DEF CandlesOf
<1> QED
  BY <1>1, <1>2 DEF CandleInv, CandlesInOrder, NotYetPast, StampedInTime

(* However the feed loses and regains its connection, the candles that the  *)
(* aggregator keeps of a symbol and an interval are at most HistoryMax, one *)
(* for an interval of time and oldest first, each later one than all before *)
(* it, and each holds the prices it claims to hold (_ingest_one).           *)
THEOREM HistoryInOrder == MarketSpec => []CandlesInOrder
<1>1. CandleInv => CandlesInOrder
  BY DEF CandleInv
<1> QED
  BY <1>1, CandleInitInv, CandleStep, MarketAlways, PTL DEF MarketSpec

-----------------------------------------------------------------------------
(* What the candles sum up                                                  *)

(* How many ticks the aggregator has ingested: all but the one in hand.     *)
Ingested ==
  IF \E t \in FeedThreads : handling[t] # NoTick THEN Len(ticks) - 1 ELSE Len(ticks)

(* As TicksIn, of the first n ticks.                                        *)
UpTo(s, n, k, b) == {i \in 1 .. n : s[i].symbol = k[1] /\ Floor(s[i].ts, k[2]) = b}

(* The interval that starts at f has its candle in h, or is older than all  *)
(* of n candles.                                                            *)
Kept(f, h, n) ==
  \/ \E j \in 1 .. Len(h) : h[j].ts = f
  \/ Len(h) = n /\ \A j \in 1 .. Len(h) : f < h[j].ts

(* The candles h and the bucket b sum up the first n ticks of s: each that  *)
(* is there sums up its interval, and the interval of each tick is there,   *)
(* or was dropped.                                                          *)
Summed(k, h, b, s, n) ==
  /\ \A i \in 1 .. Len(h) : SumsUp(h[i], s, UpTo(s, n, k, h[i].ts))
  /\ b # NoBucket => SumsUp(b, s, UpTo(s, n, k, b.ts))
  /\ \A i \in 1 .. n : s[i].symbol = k[1] =>
       /\ b # NoBucket
       /\ Floor(s[i].ts, k[2]) <= b.ts
       /\ Floor(s[i].ts, k[2]) < b.ts => Kept(Floor(s[i].ts, k[2]), h, HistoryMax)

AllSummed == \A k \in Keys : Summed(k, history[k], buckets[k], ticks, Ingested)

(* The ticks of an interval with one more tick.                             *)
LEMMA OneMore ==
  ASSUME NEW s, NEW n \in Nat, NEW k, NEW b
  PROVE  UpTo(s, n + 1, k, b) =
           IF s[n + 1].symbol = k[1] /\ Floor(s[n + 1].ts, k[2]) = b
             THEN UpTo(s, n, k, b) \cup {n + 1} ELSE UpTo(s, n, k, b)
<1>1. \A i : i \in 1 .. n + 1 <=> i \in 1 .. n \/ i = n + 1
  OBVIOUS
<1> QED
  BY <1>1, Zenon DEF UpTo

(* A bucket that is opened sums up its tick.                                *)
LEMMA OneTickSummed ==
  ASSUME NEW s, NEW m \in Nat, NEW w, s[m].ltp \in Nat
  PROVE  SumsUp(OpenBucket(s[m], w), s, {m})
BY DEF SumsUp, OpenBucket

(* One that is extended sums up one more.                                   *)
LEMMA OneMoreSummed ==
  ASSUME NEW s, NEW n \in Nat, NEW P \in SUBSET (1 .. n), NEW b, SumsUp(b, s, P),
         \A i \in 1 .. n + 1 : s[i].ltp \in Nat
  PROVE  SumsUp(Extend(b, s[n + 1]), s, P \cup {n + 1})
<1> DEFINE e == Extend(b, s[n + 1])
           Q == P \cup {n + 1}
           p == s[n + 1].ltp
<1>1. /\ e.open = b.open /\ e.close = p /\ e.volume = s[n + 1].volume
      /\ e.high = HigherOf(b.high, p) /\ e.low = LowerOf(b.low, p)
  BY DEF Extend
<1> HIDE DEF e
<1>2. /\ \A i \in P : i \in 1 .. n /\ i \in Nat /\ i <= n + 1 /\ s[i].ltp \in Nat
      /\ n + 1 \in Nat /\ p \in Nat
  <2>1. n + 1 \in Nat /\ n + 1 \in 1 .. n + 1
    OBVIOUS
  <2>2. p \in Nat
    BY <2>1
  <2>3. \A i \in 1 .. n : i \in 1 .. n + 1 /\ i \in Nat /\ i <= n + 1
    OBVIOUS
  <2>4. \A i \in P : i \in 1 .. n
    OBVIOUS
  <2> HIDE DEF p
  <2> QED
    BY <2>1, <2>2, <2>3, <2>4
<1>3. \E i \in Q : (\A j \in Q : i <= j) /\ e.open = s[i].ltp
  <2>1. PICK i \in P : (\A j \in P : i <= j) /\ b.open = s[i].ltp
    BY DEF SumsUp
  <2>2. i \in Q /\ \A j \in Q : i <= j
    BY <1>2, <2>1
  <2> QED
    BY <1>1, <2>1, <2>2
<1>4. \E i \in Q : (\A j \in Q : j <= i) /\ e.close = s[i].ltp /\ e.volume = s[i].volume
  <2>1. n + 1 \in Q /\ \A j \in Q : j <= n + 1
    BY <1>2
  <2> QED
    BY <1>1, <2>1
<1>5. PICK i \in P : b.high = s[i].ltp
  BY DEF SumsUp
<1>6. PICK j \in P : b.low = s[j].ltp
  BY DEF SumsUp
<1>7. b.high \in Nat /\ b.low \in Nat /\ \A x \in P : b.low <= s[x].ltp /\ s[x].ltp <= b.high
  BY <1>2, <1>5, <1>6 DEF SumsUp
<1> HIDE DEF p
<1>8. \/ e.high = b.high /\ p <= b.high
      \/ e.high = p /\ b.high <= p
  BY <1>1, <1>2, <1>7 DEF HigherOf
<1>9. \/ e.low = b.low /\ b.low <= p
      \/ e.low = p /\ p <= b.low
  BY <1>1, <1>2, <1>7 DEF LowerOf
<1>10. (\E x \in Q : e.high = s[x].ltp) /\ (\E x \in Q : e.low = s[x].ltp)
  BY <1>5, <1>6, <1>8, <1>9 DEF p
<1>11. \A x \in Q : e.low <= s[x].ltp /\ s[x].ltp <= e.high
  <2>1. e.low <= p /\ p <= e.high /\ e.low <= b.low /\ b.high <= e.high
        /\ e.low \in Nat /\ e.high \in Nat
    BY <1>2, <1>7, <1>8, <1>9
  <2>2. \A x \in P : e.low <= s[x].ltp /\ s[x].ltp <= e.high
    BY <1>2, <1>7, <2>1
  <2> QED
    BY <2>1, <2>2 DEF p
<1> QED
  BY <1>3, <1>4, <1>10, <1>11 DEF SumsUp, e

(* What is dropped is older than all that is kept.                          *)
LEMMA DroppedIsOlder ==
  ASSUME NEW all \in Seq(Candle), NEW n \in Nat, NEW f \in Nat,
         \A i, j \in 1 .. Len(all) : i < j => all[i].ts < all[j].ts,
         \/ \E j \in 1 .. Len(all) : all[j].ts = f
         \/ Len(all) > n /\ \A j \in 1 .. Len(all) : f < all[j].ts
  PROVE  Kept(f, LastOnes(all, n), n)
<1> DEFINE h == LastOnes(all, n)
<1>1. h \in Seq(Candle) /\ Len(h) <= n /\ Len(h) \in Nat /\ Len(all) \in Nat
  BY LastOnesProperties
<1>2. PICK d \in Nat : /\ Len(h) + d = Len(all)
                       /\ \A i \in 1 .. Len(h) : h[i] = all[i + d]
  BY LastOnesProperties, Zenon
<1>3. d = 0 \/ Len(h) = n
  <2>1. CASE Len(all) <= n
    BY <1>2, <2>1 DEF LastOnes
  <2>2. CASE ~(Len(all) <= n)
    <3>1. h = SubSeq(all, Len(all) - n + 1, Len(all))
      BY <2>2 DEF LastOnes
    <3>2. Len(all) - n + 1 \in 1 .. Len(all) + 1
      BY <1>1, <2>2
    <3> QED
      BY <1>1, <3>1, <3>2, SubSeqProperties
  <2> QED
    BY <2>1, <2>2
<1> HIDE DEF h
<1>4. \A i \in 1 .. Len(h) : i + d \in 1 .. Len(all)
  BY <1>1, <1>2
<1>5. CASE Len(all) > n /\ \A j \in 1 .. Len(all) : f < all[j].ts
  <2>1. Len(h) = n
    BY <1>1, <1>2, <1>3, <1>5
  <2>2. \A i \in 1 .. Len(h) : f < h[i].ts
    BY <1>2, <1>4, <1>5
  <2> QED
    BY <2>1, <2>2 DEF Kept, h
<1>6. ASSUME NEW j \in 1 .. Len(all), all[j].ts = f
      PROVE  Kept(f, h, n)
  <2>1. CASE j <= d
    <3>1. Len(h) = n
      BY <1>3, <2>1
    <3>2. \A i \in 1 .. Len(h) : f < h[i].ts
      <4> SUFFICES ASSUME NEW i \in 1 .. Len(h) PROVE f < h[i].ts
        OBVIOUS
      <4>1. j < i + d /\ i + d \in 1 .. Len(all)
        BY <1>4, <2>1
      <4> QED
        BY <1>2, <1>6, <4>1
    <3> QED
      BY <3>1, <3>2 DEF Kept
  <2>2. CASE ~(j <= d)
    <3>1. j - d \in 1 .. Len(h) /\ j - d + d = j
      BY <1>1, <1>2, <2>2
    <3>2. h[j - d].ts = f
      BY <1>2, <1>6, <3>1
    <3> QED
      BY <3>1, <3>2 DEF Kept
  <2> QED
    BY <2>1, <2>2
<1> QED
  BY <1>5, <1>6 DEF h

(* A stamped tick has its numbers.                                          *)
LEMMA StampedIsTyped ==
  ASSUME NEW t \in StampedTick
  PROVE  t.ltp \in Nat /\ t.volume \in Nat /\ t.ts \in Nat
BY AggregatorAssumption DEF StampedTick

(* One more tick, which is not older than the open bucket, is summed up.    *)
LEMMA IngestSums ==
  ASSUME CandleInv, NEW s \in Seq(StampedTick), NEW n \in Nat, n + 1 <= Len(s),
         Ingest(s[n + 1]), NEW k \in Keys, Summed(k, history[k], buckets[k], s, n),
         buckets[k] # NoBucket => buckets[k].ts <= s[n + 1].ts
  PROVE  Summed(k, history'[k], buckets'[k], s, n + 1)
<1> DEFINE w == k[2]
           b == buckets[k]
           h == history[k]
           tick == s[n + 1]
           f == Floor(tick.ts, w)
<1>1. /\ \A i \in 1 .. n + 1 : i \in 1 .. n \/ i = n + 1
      /\ \A i \in 1 .. n : i \in 1 .. n + 1
      /\ n + 1 \in 1 .. n + 1 /\ n + 1 \in Nat
  OBVIOUS
<1>2. \A i \in 1 .. n + 1 : s[i] \in StampedTick /\ s[i].ltp \in Nat /\ s[i].ts \in Nat
  <2>1. \A i \in 1 .. n + 1 : s[i] \in StampedTick
    OBVIOUS
  <2> QED
    BY <2>1, StampedIsTyped
<1>3. w \in Nat \ {0} /\ \A i \in 1 .. n + 1 : Floor(s[i].ts, w) \in Nat
  <2>1. w \in Nat \ {0}
    BY WidthOf
  <2> HIDE DEF w
  <2>2. ASSUME NEW i \in 1 .. n + 1 PROVE Floor(s[i].ts, w) \in Nat
    BY <1>2, <2>1, FloorIsStart
  <2> QED
    BY <2>1, <2>2
<1>4. tick \in StampedTick /\ tick.ts \in Nat /\ tick.ltp \in Nat /\ f \in Nat
  BY <1>1, <1>2, <1>3
<1>5. \A c : UpTo(s, n + 1, k, c) =
         IF tick.symbol = k[1] /\ f = c THEN UpTo(s, n, k, c) \cup {n + 1} ELSE UpTo(s, n, k, c)
  BY OneMore
<1>6. CandlesOf(k) /\ (b # NoBucket => b.ts \in Nat)
  BY DEF CandleInv, CandlesInOrder, CandlesOf, IsCandle, Candle
<1>7. CASE k[1] # tick.symbol
  <2>1. history'[k] = h /\ buckets'[k] = b
    BY <1>7 DEF Ingest
  <2>2. \A c : UpTo(s, n + 1, k, c) = UpTo(s, n, k, c)
    BY <1>7, <1>5
  <2>3. \A i \in 1 .. n + 1 : s[i].symbol = k[1] => i \in 1 .. n
    BY <1>1, <1>7
  <2>4. /\ \A i \in 1 .. Len(h) : SumsUp(h[i], s, UpTo(s, n + 1, k, h[i].ts))
        /\ b # NoBucket => SumsUp(b, s, UpTo(s, n + 1, k, b.ts))
    BY <2>2 DEF Summed
  <2>5. \A i \in 1 .. n + 1 : s[i].symbol = k[1] =>
          /\ b # NoBucket
          /\ Floor(s[i].ts, k[2]) <= b.ts
          /\ Floor(s[i].ts, k[2]) < b.ts => Kept(Floor(s[i].ts, k[2]), h, HistoryMax)
    BY <2>3 DEF Summed
  <2> HIDE DEF h, b
  <2> QED
    BY <2>1, <2>4, <2>5 DEF Summed
<1>8. CASE k[1] = tick.symbol /\ b = NoBucket
  <2>1. buckets'[k] = OpenBucket(tick, w) /\ history'[k] = h /\ h = <<>>
    BY <1>6, <1>8 DEF Ingest, CandlesOf
  <2>2. OpenBucket(tick, w) # NoBucket /\ OpenBucket(tick, w).ts = f
    BY <1>1, <1>2, <1>3, <1>4, OpenedIsCandle, NoBucketIsNoCandle DEF IsCandle, OpenBucket
  <2>3. \A i \in 1 .. n : s[i].symbol # k[1]
    BY <1>8 DEF Summed
  <2>4. UpTo(s, n + 1, k, f) = {n + 1}
    <3>1. UpTo(s, n, k, f) = {}
      BY <2>3 DEF UpTo
    <3>2. UpTo(s, n + 1, k, f) = UpTo(s, n, k, f) \cup {n + 1}
      BY <1>8, <1>5
    <3> QED
      BY <3>1, <3>2
  <2>5. SumsUp(OpenBucket(tick, w), s, {n + 1})
    BY <1>1, <1>2, <1>3, <1>4, OneTickSummed
  <2>6. \A i \in 1 .. n + 1 : s[i].symbol = k[1] => Floor(s[i].ts, w) = f
    BY <1>2, <2>3
  <2>7. 1 .. Len(h) = {}
    BY <2>1
  <2> DEFINE c == OpenBucket(tick, w)
  <2>8. c # NoBucket /\ c.ts = f /\ f \in Nat /\ buckets'[k] = c
    BY <1>4, <2>1, <2>2
  <2>9. SumsUp(c, s, UpTo(s, n + 1, k, f))
    BY <2>4, <2>5
  <2> HIDE DEF f, h, c
  <2> QED
    BY <2>1, <2>6, <2>7, <2>8, <2>9 DEF Summed
<1>9. CASE k[1] = tick.symbol /\ b # NoBucket /\ ~Rolls(b, tick, w)
  <2> DEFINE e == Extend(b, tick)
  <2>1. buckets'[k] = e /\ history'[k] = h /\ f = b.ts
    BY <1>9 DEF Ingest, Rolls
  <2>2. e # NoBucket /\ e.ts = b.ts
    <3>1. IsCandle(b, w)
      BY <1>6, <1>9 DEF CandlesOf
    <3> QED
      BY <1>1, <1>2, <1>3, <1>4, <3>1, ExtendedIsCandle, NoBucketIsNoCandle DEF IsCandle
  <2>3. UpTo(s, n + 1, k, b.ts) = UpTo(s, n, k, b.ts) \cup {n + 1}
    BY <1>9, <2>1, <1>5
  <2>4. SumsUp(e, s, UpTo(s, n, k, b.ts) \cup {n + 1})
    <3>1. SumsUp(b, s, UpTo(s, n, k, b.ts)) /\ UpTo(s, n, k, b.ts) \in SUBSET (1 .. n)
      BY <1>9 DEF Summed, UpTo
    <3> QED
      BY <1>2, <3>1, OneMoreSummed
  <2>5. \A i \in 1 .. Len(h) : SumsUp(h[i], s, UpTo(s, n + 1, k, h[i].ts))
    <3> SUFFICES ASSUME NEW i \in 1 .. Len(h)
                 PROVE  SumsUp(h[i], s, UpTo(s, n + 1, k, h[i].ts))
      OBVIOUS
    <3>1. h[i].ts # f
      <4>1. h[i].ts < b.ts /\ h[i].ts \in Nat /\ b.ts \in Nat
        BY <1>6, <1>9 DEF CandlesOf, IsCandle, Candle
      <4> HIDE DEF h, b, f
      <4> QED
        BY <2>1, <4>1
    <3>2. UpTo(s, n + 1, k, h[i].ts) = UpTo(s, n, k, h[i].ts)
      BY <3>1, <1>5
    <3> QED
      BY <3>2 DEF Summed
  <2>6. \A i \in 1 .. n + 1 : s[i].symbol = k[1] =>
          /\ Floor(s[i].ts, w) <= e.ts
          /\ Floor(s[i].ts, w) < e.ts => Kept(Floor(s[i].ts, w), h, HistoryMax)
    <3>1. \A i \in 1 .. n : s[i].symbol = k[1] =>
            /\ Floor(s[i].ts, w) <= b.ts
            /\ Floor(s[i].ts, w) < b.ts => Kept(Floor(s[i].ts, w), h, HistoryMax)
      BY DEF Summed
    <3>2. Floor(s[n + 1].ts, w) = e.ts /\ e.ts \in Nat /\ e.ts = b.ts
      BY <1>3, <2>1, <2>2
    <3> HIDE DEF e, h, b, w
    <3> QED
      BY <1>2, <3>1, <3>2
  <2> HIDE DEF e, h
  <2> QED
    BY <2>1, <2>2, <2>3, <2>4, <2>5, <2>6 DEF Summed
<1>10. CASE k[1] = tick.symbol /\ b # NoBucket /\ Rolls(b, tick, w)
  <2> DEFINE c == OpenBucket(tick, w)
             all == Append(h, b)
             g == LastOnes(all, HistoryMax)
  <2>1. buckets'[k] = c /\ history'[k] = g
    BY <1>10 DEF Ingest
  <2>2. c # NoBucket /\ c.ts = f
    BY <1>1, <1>2, <1>3, <1>4, OpenedIsCandle, NoBucketIsNoCandle DEF IsCandle, OpenBucket
  <2>3. IsCandle(b, w) /\ b \in Candle /\ b.ts \in Nat /\ Floor(b.ts, w) = b.ts
    BY <1>6, <1>10 DEF CandlesOf, IsCandle, Candle
  <2>4. b.ts < f
    <3>1. Floor(b.ts, w) <= f
      BY <1>1, <1>2, <1>3, <1>4, <1>10, <2>3, FloorIsMonotone
    <3>2. b.ts # f
      BY <1>10 DEF Rolls
    <3> QED
      BY <1>3, <2>3, <3>1, <3>2
  <2>5. /\ all \in Seq(Candle) /\ Len(all) = Len(h) + 1 /\ Len(h) \in Nat
        /\ \A i \in 1 .. Len(h) : all[i] = h[i]
        /\ all[Len(h) + 1] = b
    BY <1>6, <2>3 DEF CandlesOf
  <2>6. \A i \in 1 .. Len(all) : i \in 1 .. Len(h) \/ i = Len(h) + 1
    BY <2>5
  <2>7. /\ \A i \in 1 .. Len(h) : h[i].ts < b.ts /\ h[i].ts \in Nat
        /\ \A i, j \in 1 .. Len(h) : i < j => h[i].ts < h[j].ts
    BY <1>6, <1>10 DEF CandlesOf, IsCandle, Candle
  <2>8. \A i, j \in 1 .. Len(all) : i < j => all[i].ts < all[j].ts
    <3> SUFFICES ASSUME NEW i \in 1 .. Len(all), NEW j \in 1 .. Len(all), i < j
                 PROVE  all[i].ts < all[j].ts
      OBVIOUS
    <3> HIDE DEF all, h, b
    <3>1. i \in 1 .. Len(h)
      BY <2>5
    <3>2. CASE j \in 1 .. Len(h)
      BY <2>5, <2>7, <3>1, <3>2
    <3>3. CASE j = Len(h) + 1
      BY <2>5, <2>7, <3>1, <3>3
    <3> QED
      BY <2>6, <3>2, <3>3
  <2>9. \A i \in 1 .. n : s[i].symbol = k[1] => Floor(s[i].ts, w) <= b.ts
    BY <1>10 DEF Summed
  <2>10. UpTo(s, n + 1, k, f) = {n + 1}
    <3>1. UpTo(s, n, k, f) = {}
      <4> SUFFICES ASSUME NEW i \in UpTo(s, n, k, f) PROVE FALSE
        OBVIOUS
      <4>1. i \in 1 .. n /\ s[i].symbol = k[1] /\ Floor(s[i].ts, w) = f
        BY DEF UpTo
      <4>2. f <= b.ts
        BY <2>9, <4>1
      <4> HIDE DEF f, b
      <4> QED
        BY <1>4, <2>3, <2>4, <4>2
    <3>2. UpTo(s, n + 1, k, f) = UpTo(s, n, k, f) \cup {n + 1}
      BY <1>10, <1>5
    <3> QED
      BY <3>1, <3>2
  <2>11. SumsUp(c, s, {n + 1})
    BY <1>1, <1>2, <1>3, <1>4, OneTickSummed
  <2>12. \A i \in 1 .. Len(all) : SumsUp(all[i], s, UpTo(s, n + 1, k, all[i].ts))
    <3> SUFFICES ASSUME NEW i \in 1 .. Len(all)
                 PROVE  SumsUp(all[i], s, UpTo(s, n + 1, k, all[i].ts))
      OBVIOUS
    <3>1. all[i].ts # f
      <4> HIDE DEF all, h, b, f
      <4>1. CASE i \in 1 .. Len(h)
        BY <1>4, <2>3, <2>4, <2>5, <2>7, <4>1
      <4>2. CASE i = Len(h) + 1
        BY <1>4, <2>3, <2>4, <2>5, <4>2
      <4> QED
        BY <2>6, <4>1, <4>2
    <3>2. UpTo(s, n + 1, k, all[i].ts) = UpTo(s, n, k, all[i].ts)
      BY <3>1, <1>5
    <3>3. SumsUp(all[i], s, UpTo(s, n, k, all[i].ts))
      <4>1. /\ \A j \in 1 .. Len(h) : SumsUp(h[j], s, UpTo(s, n, k, h[j].ts))
            /\ SumsUp(b, s, UpTo(s, n, k, b.ts))
        BY <1>10 DEF Summed
      <4> HIDE DEF all, h, b
      <4> QED
        BY <2>5, <2>6, <4>1
    <3> QED
      BY <3>2, <3>3
  <2>13. \A i \in 1 .. Len(g) : SumsUp(g[i], s, UpTo(s, n + 1, k, g[i].ts))
    <3> HIDE DEF all
    <3>1. PICK d \in Nat : /\ Len(g) + d = Len(all)
                           /\ \A i \in 1 .. Len(g) : g[i] = all[i + d]
      <4>1. all \in Seq(Candle) /\ HistoryMax \in Nat
        BY <2>5, AggregatorAssumption
      <4> QED
        BY <4>1, LastOnesProperties, Zenon
    <3>2. Len(g) \in Nat
      BY <2>5, AggregatorAssumption, LastOnesProperties
    <3> HIDE DEF g
    <3>3. \A i \in 1 .. Len(g) : i + d \in 1 .. Len(all)
      BY <2>5, <3>1, <3>2
    <3> QED
      BY <2>12, <3>1, <3>3
  <2>14. ASSUME NEW i \in 1 .. n, s[i].symbol = k[1]
         PROVE  Kept(Floor(s[i].ts, w), g, HistoryMax)
    <3> DEFINE x == Floor(s[i].ts, w)
    <3>1. x \in Nat /\ x <= b.ts /\ (x < b.ts => Kept(x, h, HistoryMax))
      BY <1>1, <1>2, <1>3, <1>4, <1>10, <2>14 DEF Summed
    <3>2. HistoryMax \in Nat
      BY AggregatorAssumption
    <3> HIDE DEF x, h, b, all
    <3>3. \/ \E j \in 1 .. Len(all) : all[j].ts = x
          \/ Len(all) > HistoryMax /\ \A j \in 1 .. Len(all) : x < all[j].ts
      <4>1. CASE x = b.ts
        <5>1. Len(h) + 1 \in 1 .. Len(all)
          BY <2>5
        <5> QED
          BY <2>5, <4>1, <5>1
      <4>2. CASE x < b.ts
        <5>1. CASE \E j \in 1 .. Len(h) : h[j].ts = x
          <6>1. PICK j \in 1 .. Len(h) : h[j].ts = x
            BY <5>1
          <6>2. j \in 1 .. Len(all) /\ all[j] = h[j]
            BY <2>5
          <6> QED
            BY <6>1, <6>2
        <5>2. CASE Len(h) = HistoryMax /\ \A j \in 1 .. Len(h) : x < h[j].ts
          BY <2>5, <2>6, <4>2, <5>2
        <5> QED
          BY <3>1, <4>2, <5>1, <5>2 DEF Kept
      <4> QED
        BY <2>3, <3>1, <4>1, <4>2
    <3>4. Kept(x, g, HistoryMax)
      BY <2>5, <2>8, <3>1, <3>2, <3>3, DroppedIsOlder, Zenon
    <3> QED
      BY <3>4 DEF x
  <2>15. \A i \in 1 .. n + 1 : s[i].symbol = k[1] =>
           /\ Floor(s[i].ts, w) <= f
           /\ Floor(s[i].ts, w) < f => Kept(Floor(s[i].ts, w), g, HistoryMax)
    <3>1. \A i \in 1 .. n : s[i].symbol = k[1] => Floor(s[i].ts, w) <= f
      <4> SUFFICES ASSUME NEW i \in 1 .. n, s[i].symbol = k[1]
                   PROVE  Floor(s[i].ts, w) <= f
        OBVIOUS
      <4>1. Floor(s[i].ts, w) <= b.ts /\ Floor(s[i].ts, w) \in Nat
        BY <1>1, <1>2, <1>3, <1>4, <2>9
      <4> HIDE DEF f, b, w
      <4> QED
        BY <1>4, <2>3, <2>4, <4>1
    <3>2. f <= f /\ ~(f < f)
      BY <1>3
    <3> HIDE DEF g
    <3>3. \A i \in 1 .. n : s[i].symbol = k[1] => Kept(Floor(s[i].ts, w), g, HistoryMax)
      BY <2>14
    <3>4. Floor(s[n + 1].ts, w) = f
      OBVIOUS
    <3> HIDE DEF f, w
    <3> QED
      BY <1>2, <3>1, <3>2, <3>3, <3>4
  <2> HIDE DEF c, g, f
  <2> QED
    BY <2>1, <2>2, <2>10, <2>11, <2>13, <2>15 DEF Summed
<1> QED
  BY <1>7, <1>8, <1>9, <1>10

(* The sums are of the first ticks alone.                                   *)
LEMMA SummedOfThese ==
  ASSUME NEW s, NEW r, NEW n \in Nat, \A i \in 1 .. n : s[i] = r[i],
         NEW k, NEW h, NEW b, Summed(k, h, b, s, n)
  PROVE  Summed(k, h, b, r, n)
<1>1. ASSUME NEW c
      PROVE  UpTo(r, n, k, c) = UpTo(s, n, k, c)
  BY DEF UpTo
<1>2. ASSUME NEW c, NEW P \in SUBSET (1 .. n), SumsUp(c, s, P)
      PROVE  SumsUp(c, r, P)
  <2>1. \A i \in P : s[i] = r[i]
    OBVIOUS
  <2> QED
    BY <1>2, <2>1, Zenon DEF SumsUp
<1>3. \A c : UpTo(s, n, k, c) \in SUBSET (1 .. n)
  BY DEF UpTo
<1>4. \A c : SumsUp(c, s, UpTo(s, n, k, c.ts)) => SumsUp(c, r, UpTo(r, n, k, c.ts))
  BY <1>1, <1>2, <1>3
<1>5. \A i \in 1 .. Len(h) : SumsUp(h[i], r, UpTo(r, n, k, h[i].ts))
  BY <1>4 DEF Summed
<1>6. b # NoBucket => SumsUp(b, r, UpTo(r, n, k, b.ts))
  BY <1>4 DEF Summed
<1> QED
  BY <1>5, <1>6 DEF Summed

(* Every step keeps all ticks summed up.                                    *)
LEMMA SummedStep ==
  MarketInv /\ CandleInv /\ AllSummed /\ [MarketNext]_marketVars => AllSummed'
<1> SUFFICES ASSUME MarketInv, CandleInv, AllSummed, [MarketNext]_marketVars
             PROVE  AllSummed'
  OBVIOUS
<1>1. CASE UNCHANGED <<aggregator, handling, ticks>>
  BY <1>1 DEF AllSummed, Ingested, aggregator
<1>2. ASSUME NEW t \in FeedThreads, NEW v \in Nat, Stamp(t, v)
      PROVE  AllSummed'
  <2>1. \A u \in FeedThreads : handling[u] = NoTick
    BY <1>2, StampsAlone DEF Stamp
  <2>2. PICK tick \in StampedTick : /\ handling' = [handling EXCEPT ![t] = tick]
                                    /\ ticks' = Append(ticks, tick)
    BY <1>2 DEF Stamp, StampedTick, MarketInv, MarketTypeOK
  <2>3. ticks \in Seq(StampedTick) /\ UNCHANGED <<buckets, history>>
    BY <1>2 DEF Stamp, aggregator, MarketInv, MarketTypeOK
  <2>4. handling'[t] # NoTick
    BY <2>2, MarketDataAssumption DEF MarketInv, MarketTypeOK, StampedTick
  <2>5. PICK n \in Nat : n = Len(ticks)
    BY <2>3
  <2>6. Ingested = n /\ Ingested' = n
    <3>1. Len(ticks') = Len(ticks) + 1
      BY <2>2, <2>3
    <3> QED
      BY <2>1, <2>4, <2>5, <3>1 DEF Ingested
  <2>7. \A i \in 1 .. n : ticks[i] = ticks'[i]
    BY <2>2, <2>3, <2>5
  <2>8. ASSUME NEW k \in Keys
        PROVE  Summed(k, history'[k], buckets'[k], ticks', n)
    <3>1. Summed(k, history[k], buckets[k], ticks, n)
      BY <2>6 DEF AllSummed
    <3> QED
      BY <2>3, <2>7, <3>1, SummedOfThese
  <2> QED
    BY <2>6, <2>8 DEF AllSummed
<1>3. ASSUME NEW t \in FeedThreads, OnTick(t)
      PROVE  AllSummed'
  <2>1. /\ handling[t] # NoTick /\ handling' = [handling EXCEPT ![t] = NoTick]
        /\ Ingest(handling[t]) /\ ticks' = ticks
    BY <1>3 DEF OnTick
  <2>2. ticks \in Seq(StampedTick) /\ ticks # <<>> /\ handling[t] = ticks[Len(ticks)]
    BY <2>1 DEF MarketInv, MarketTypeOK, OneInHand
  <2>3. \A u \in FeedThreads : handling'[u] = NoTick
    BY <2>1 DEF MarketInv, MarketTypeOK, OneInHand
  <2>4. PICK s \in Seq(StampedTick) : s = ticks
    BY <2>2
  <2>5. PICK n \in Nat : n = Len(s) - 1
    BY <2>2, <2>4
  <2>6. Ingested = n /\ Ingested' = n + 1
    BY <2>1, <2>3, <2>4, <2>5 DEF Ingested
  <2>7. Ingest(s[n + 1]) /\ n + 1 <= Len(s) /\ handling[t] = s[n + 1]
    BY <2>1, <2>2, <2>4, <2>5
  <2>8. ASSUME NEW k \in Keys
        PROVE  Summed(k, history'[k], buckets'[k], s, n + 1)
    <3>1. Summed(k, history[k], buckets[k], s, n)
      BY <2>4, <2>6 DEF AllSummed
    <3>2. buckets[k] # NoBucket => buckets[k].ts <= s[n + 1].ts
      BY <2>1, <2>7 DEF CandleInv, NotYetPast
    <3> QED
      BY <2>7, <3>1, <3>2, IngestSums
  <2>9. ticks' = s
    BY <2>1, <2>4
  <2> QED
    BY <2>6, <2>8, <2>9 DEF AllSummed
<1>4. \/ UNCHANGED <<aggregator, handling, ticks>>
      \/ \E t \in FeedThreads : OnTick(t) \/ \E v \in Nat : Stamp(t, v)
  <2>1. Len(ticks) + 1 \in Nat /\ 0 \in Nat
    BY DEF MarketInv, MarketTypeOK
  <2> QED
    BY <2>1 DEF MarketNext, marketVars, market, OnData, DecodeFrame, PollTicks, FeedThreads, Tock
<1> QED
  BY <1>1, <1>2, <1>3, <1>4

(* No tick is to be summed up at first.                                     *)
LEMMA SummedInit == MarketInit => AllSummed
<1> SUFFICES ASSUME MarketInit PROVE AllSummed
  OBVIOUS
<1>1. /\ \A k \in Keys : buckets[k] = NoBucket /\ history[k] = <<>>
      /\ \A t \in FeedThreads : handling[t] = NoTick
      /\ ticks = <<>>
  BY DEF MarketInit, AggregatorInit
<1>2. Ingested = 0
  BY <1>1 DEF Ingested
<1>3. Len(<<>>) = 0 /\ 1 .. 0 = {}
  OBVIOUS
<1> QED
  BY <1>1, <1>2, <1>3 DEF AllSummed, Summed

(* Whenever no tick is in hand, the candles of a symbol and an interval are *)
(* those of its ticks: each past interval with ticks has one, in order,     *)
(* with their first, highest, lowest and last price, or is older than       *)
(* HistoryMax later ones (_ingest_one, _on_tick, _reconnect_with_backoff).  *)
THEOREM CandlesSumUp == MarketSpec => []CandlesAreBuckets
<1>1. MarketInv /\ CandleInv /\ AllSummed => CandlesAreBuckets
  <2> SUFFICES ASSUME MarketInv, CandleInv, AllSummed,
                      \A t \in FeedThreads : handling[t] = NoTick,
                      NEW k \in Keys
               PROVE  LET h == history[k] IN
                      /\ \A i \in DOMAIN h :
                           /\ h[i].ts \in PastIntervals(k)
                           /\ SumsUp(h[i], ticks, TicksIn(ticks, k, h[i].ts))
                      /\ \A i, j \in DOMAIN h : i < j => h[i].ts < h[j].ts
                      /\ Len(h) <= HistoryMax
                      /\ \A b \in PastIntervals(k) :
                           \/ \E i \in DOMAIN h : h[i].ts = b
                           \/ Len(h) = HistoryMax /\ \A i \in DOMAIN h : b < h[i].ts
    BY DEF CandlesAreBuckets
  <2> DEFINE h == history[k]
             b == buckets[k]
             n == Len(ticks)
             Of == {j \in DOMAIN ticks : ticks[j].symbol = k[1]}
             begun == {Floor(ticks[i].ts, k[2]) : i \in Of}
  <2>1. ticks \in Seq(StampedTick) /\ DOMAIN ticks = 1 .. n /\ n \in Nat
    BY DEF MarketInv, MarketTypeOK
  <2>2. CandlesOf(k) /\ DOMAIN h = 1 .. Len(h)
    BY DEF CandleInv, CandlesInOrder, CandlesOf
  <2>3. Summed(k, h, b, ticks, n)
    BY DEF AllSummed, Ingested
  <2>4. \A c : TicksIn(ticks, k, c) = UpTo(ticks, n, k, c)
    BY <2>1 DEF TicksIn, UpTo
  <2>5. \A c, x : SumsUp(c, ticks, UpTo(ticks, n, k, x)) => x \in begun
    <3> SUFFICES ASSUME NEW c, NEW x, SumsUp(c, ticks, UpTo(ticks, n, k, x))
                 PROVE  x \in begun
      OBVIOUS
    <3>1. PICK i \in UpTo(ticks, n, k, x) : TRUE
      BY DEF SumsUp
    <3>2. i \in Of /\ x = Floor(ticks[i].ts, k[2])
      BY <2>1, <3>1 DEF UpTo
    <3> QED
      BY <3>2
  <2>6. \A i \in 1 .. Len(h) : h[i].ts \in begun /\ \E c \in begun : h[i].ts < c
    <3> SUFFICES ASSUME NEW i \in 1 .. Len(h)
                 PROVE  h[i].ts \in begun /\ \E c \in begun : h[i].ts < c
      OBVIOUS
    <3>1. b # NoBucket /\ h[i].ts < b.ts
      BY <2>2 DEF CandlesOf
    <3>2. /\ SumsUp(h[i], ticks, UpTo(ticks, n, k, h[i].ts))
          /\ SumsUp(b, ticks, UpTo(ticks, n, k, b.ts))
      BY <2>3, <3>1 DEF Summed
    <3> HIDE DEF h, b, begun
    <3>3. h[i].ts \in begun /\ b.ts \in begun
      BY <2>5, <3>2
    <3> QED
      BY <3>1, <3>3
  <2>7. PastIntervals(k) = {x \in begun : \E c \in begun : x < c}
    BY DEF PastIntervals
  <2>8. \A x \in begun : /\ x \in Nat /\ x <= b.ts /\ b.ts \in Nat
                         /\ x < b.ts => Kept(x, h, HistoryMax)
    <3> SUFFICES ASSUME NEW i \in Of
                 PROVE  LET x == Floor(ticks[i].ts, k[2])
                        IN  x \in Nat /\ x <= b.ts /\ b.ts \in Nat
                              /\ (x < b.ts => Kept(x, h, HistoryMax))
      OBVIOUS
    <3>1. i \in 1 .. n /\ ticks[i].symbol = k[1] /\ ticks[i] \in StampedTick
      BY <2>1
    <3>2. Floor(ticks[i].ts, k[2]) \in Nat
      BY <3>1, StampedIsTyped, WidthOf, FloorIsStart
    <3>3. b # NoBucket
      BY <2>3, <3>1 DEF Summed
    <3>4. b.ts \in Nat
      BY <2>2, <3>3 DEF CandlesOf, IsCandle, Candle
    <3> QED
      BY <2>3, <3>1, <3>2, <3>4 DEF Summed
  <2>9. \A x \in PastIntervals(k) : Kept(x, h, HistoryMax)
    <3> SUFFICES ASSUME NEW x \in begun, NEW c \in begun, x < c
                 PROVE  Kept(x, h, HistoryMax)
      BY <2>7
    <3> HIDE DEF h, b, begun
    <3>1. x < b.ts
      BY <2>8
    <3> QED
      BY <2>8, <3>1
  <2>10. /\ \A i, j \in 1 .. Len(h) : i < j => h[i].ts < h[j].ts
         /\ Len(h) <= HistoryMax
    BY <2>2 DEF CandlesOf
  <2>11. \A i \in 1 .. Len(h) : /\ h[i].ts \in PastIntervals(k)
                                 /\ SumsUp(h[i], ticks, TicksIn(ticks, k, h[i].ts))
    BY <2>3, <2>4, <2>6, <2>7 DEF Summed
  <2> QED
    BY <2>2, <2>9, <2>10, <2>11 DEF Kept
<1>2. MarketInit => CandleInv /\ AllSummed
  BY CandleInitInv, SummedInit
<1>3. MarketInv /\ CandleInv /\ AllSummed /\ [MarketNext]_marketVars => CandleInv' /\ AllSummed'
  BY CandleStep, SummedStep
<1> QED
  BY <1>1, <1>2, <1>3, MarketAlways, PTL DEF MarketSpec

-----------------------------------------------------------------------------
(* The limiter                                                              *)
Places == {"idle", "enter", "sleep", "check", "home", "request", "store", "stamp"}
Cached == [full : BOOLEAN, age : Nat, data : Nat, put : Nat, by : Threads \cup {Nobody},
           own : BOOLEAN]

LimiterTypeOK ==
  /\ sinceCall \in Nat
  /\ failures \in Nat
  /\ isOpen \in BOOLEAN
  /\ cache \in [Sources -> Cached]
  /\ call \in [Threads -> [at : Places, src : Sources, age : Nat, data : Nat]]

(* Threads that are past is_open and may still be refused.                  *)
Asking == {t \in Threads : call[t].at \in {"home", "request"}}

(* Once the breaker is open nobody joins those that ask, and each of them   *)
(* can be refused once.                                                     *)
RefusalsLeft ==
  IF isOpen THEN failures + Cardinality(Asking) <= Threshold + Cardinality(Threads) - 1
  ELSE failures < Threshold

(* The timestamp of a call is no younger than the value it fetched, nor     *)
(* than whatever is in the cache while the timestamp is still to be set.    *)
CallTruthful(t) ==
  LET c == cache[call[t].src] IN
  /\ call[t].data <= call[t].age
  /\ call[t].at = "stamp" => /\ c.put <= call[t].age
                             /\ c.by = t => c.data <= call[t].age

(* The value was put where it is no earlier than the timestamp says, and is *)
(* no older than that if both are of one call.                              *)
EntryTruthful(s) ==
  /\ cache[s].put <= cache[s].age
  /\ cache[s].own => cache[s].data <= cache[s].age

CacheTruthful ==
  /\ \A s \in Sources : EntryTruthful(s)
  /\ \A t \in Threads : CallTruthful(t)

(* _last_call is the time of the last passage.                              *)
LastCall == sinceCall = quiet

IInv == LimiterTypeOK /\ RefusalsLeft /\ CacheTruthful /\ LastCall

-----------------------------------------------------------------------------
(* Operators                                                                *)

(* Aging keeps a type and an order.                                         *)
LEMMA OlderNat ==
  ASSUME NEW age \in Nat, NEW bound \in Nat
  PROVE  Older(age, bound) \in Nat
  BY DEF Older

(* Ages that are capped stay in order.                                      *)
LEMMA OlderKeepsOrder ==
  ASSUME NEW data \in Nat, NEW age \in Nat, data <= age, NEW bound \in Nat
  PROVE  Older(data, bound) <= Older(age, bound)
  BY DEF Older

(* Time makes nothing younger.                                              *)
LEMMA OlderIsNoYounger ==
  ASSUME NEW data \in Nat, NEW age \in Nat, data <= age, NEW bound \in Nat
  PROVE  data <= Older(age, bound)
  BY DEF Older

(* A thread at rest has its type.                                           *)
LEMMA AtRestType == AtRest \in [at : Places, src : Sources, age : Nat, data : Nat]
  BY NseAssumption DEF AtRest, Places

(* The threads that may still be refused can be counted.                    *)
LEMMA AskingFinite ==
  /\ IsFiniteSet(Asking)
  /\ Cardinality(Asking) \in Nat
  /\ Cardinality(Threads) \in Nat
  /\ Cardinality(Asking) <= Cardinality(Threads)
  BY NseAssumption, FS_Subset, FS_CardinalityType DEF Asking

(* Of what is asked for, one that leaves is one less.                       *)
LEMMA OneAsksLess ==
  ASSUME NEW t \in Asking, Asking' \subseteq Asking \ {t}
  PROVE  /\ Cardinality(Asking') \in Nat
         /\ Cardinality(Asking') <= Cardinality(Asking) - 1
<1>1. /\ IsFiniteSet(Asking \ {t})
      /\ Cardinality(Asking \ {t}) = Cardinality(Asking) - 1
  BY AskingFinite, FS_RemoveElement
<1>2. IsFiniteSet(Asking') /\ Cardinality(Asking') <= Cardinality(Asking \ {t})
  BY <1>1, FS_Subset
<1> QED
  BY <1>1, <1>2, FS_CardinalityType, AskingFinite

(* If no thread joins them, there are no more of them.                      *)
LEMMA NoMoreAsk ==
  ASSUME Asking' \subseteq Asking
  PROVE  /\ Cardinality(Asking') \in Nat
         /\ Cardinality(Asking') <= Cardinality(Asking)
  BY AskingFinite, FS_Subset, FS_CardinalityType

-----------------------------------------------------------------------------
(* Types                                                                    *)

(* The limiter begins with its types.                                       *)
LEMMA InitType == NseInit => LimiterTypeOK
<1> SUFFICES ASSUME NseInit PROVE LimiterTypeOK
  OBVIOUS
<1>1. sinceCall \in Nat /\ failures \in Nat /\ isOpen \in BOOLEAN
  BY NseAssumption DEF NseInit
<1>2. \A s \in Sources : NoValue(s) \in Cached
  BY NseAssumption DEF NoValue, Cached
<1>3. cache \in [Sources -> Cached]
  BY <1>2 DEF NseInit
<1>4. call \in [Threads -> [at : Places, src : Sources, age : Nat, data : Nat]]
  BY AtRestType DEF NseInit
<1> QED
  BY <1>1, <1>3, <1>4 DEF LimiterTypeOK

(* Time keeps them.                                                         *)
LEMMA TickType == LimiterTypeOK /\ Elapse => LimiterTypeOK'
<1> SUFFICES ASSUME LimiterTypeOK, Elapse PROVE LimiterTypeOK'
  OBVIOUS
<1> USE DEF LimiterTypeOK, Elapse
<1>1. sinceCall' \in Nat /\ failures' \in Nat /\ isOpen' \in BOOLEAN
  BY NseAssumption, OlderNat
<1>2. cache' \in [Sources -> Cached]
  <2> SUFFICES ASSUME NEW s \in Sources
               PROVE  cache'[s] \in Cached
    BY Zenon
  <2>1. /\ Older(cache[s].age, Ttl[s]) \in Nat /\ Older(cache[s].data, Ttl[s]) \in Nat
        /\ Older(cache[s].put, Ttl[s]) \in Nat
    BY NseAssumption, OlderNat DEF Cached
  <2>2. cache'[s] = [cache[s] EXCEPT !.age = Older(@, Ttl[s]), !.data = Older(@, Ttl[s]),
                                     !.put = Older(@, Ttl[s])]
    OBVIOUS
  <2> QED
    BY <2>1, <2>2 DEF Cached
<1>3. call' \in [Threads -> [at : Places, src : Sources, age : Nat, data : Nat]]
  <2> SUFFICES ASSUME NEW t \in Threads
               PROVE  call'[t] \in [at : Places, src : Sources, age : Nat, data : Nat]
    BY Zenon
  <2>1. call[t].src \in Sources /\ Ttl[call[t].src] \in Nat
    BY NseAssumption
  <2>2. /\ Older(call[t].age, Ttl[call[t].src]) \in Nat
        /\ Older(call[t].data, Ttl[call[t].src]) \in Nat
    BY <2>1, OlderNat
  <2> QED
    BY <2>2
<1> QED
  BY <1>1, <1>2, <1>3

(* So does a call that begins.                                              *)
LEMMA GetType ==
  ASSUME LimiterTypeOK, NEW t \in Threads, NEW s \in Sources, Get(t, s)
  PROVE  LimiterTypeOK'
  BY DEF LimiterTypeOK, Get, limiter, breaker, Places

(* So does one that goes on.                                                *)
LEMMA ProceedType ==
  ASSUME LimiterTypeOK, NEW t \in Threads, Proceed(t)
  PROVE  LimiterTypeOK'
<1> USE AtRestType DEF LimiterTypeOK, Return, GoTo, limiter, breaker, Places
<1>1. CASE Store(t)
  BY <1>1 DEF Store, Cached
<1>9. CASE SetTimestamp(t)
  <2>0. /\ call[t].src \in Sources /\ cache[call[t].src] \in Cached
        /\ call[t].age \in Nat
    OBVIOUS
  <2>3. \A e \in Cached, n \in Nat : Stamped(e, t, n) \in Cached
    BY DEF Stamped, Cached
  <2>1. /\ Stamped(cache[call[t].src], t, call[t].age) \in Cached
        /\ call[t].src \in Sources
    BY <2>0, <2>3
  <2>2. cache' \in [Sources -> Cached]
    BY <1>9, <2>1 DEF SetTimestamp
  <2> QED
    BY <1>9, <2>2 DEF SetTimestamp
<1>2. CASE Enter(t)
  BY <1>2 DEF Enter
<1>3. CASE Leave(t)
  BY <1>3 DEF Leave
<1>4. CASE CheckBreaker(t)
  <2>1. failures' \in Nat /\ isOpen' \in BOOLEAN
    <3>1. UNCHANGED breaker \/ Reset
      BY <1>4 DEF CheckBreaker
    <3>2. CASE UNCHANGED breaker
      BY <3>2
    <3>3. CASE Reset
      BY <3>3 DEF Reset
    <3> QED
      BY <3>1, <3>2, <3>3
  <2>2. \/ call' = [call EXCEPT ![t] = AtRest]
        \/ call' = [call EXCEPT ![t].at = "home"]
        \/ call' = [call EXCEPT ![t].at = "request"]
    BY <1>4 DEF CheckBreaker
  <2>3. call' \in [Threads -> [at : Places, src : Sources, age : Nat, data : Nat]]
    <3>1. CASE call' = [call EXCEPT ![t] = AtRest]
      BY <3>1
    <3>2. CASE call' = [call EXCEPT ![t].at = "home"]
      BY <3>2
    <3>3. CASE call' = [call EXCEPT ![t].at = "request"]
      BY <3>3
    <3> QED
      BY <2>2, <3>1, <3>2, <3>3
  <2> QED
    BY <1>4, <2>1, <2>3 DEF CheckBreaker
<1>5. CASE Refused(t)
  BY <1>5 DEF Refused, RecordFailure
<1>6. CASE Failed(t)
  BY <1>6 DEF Failed
<1>7. CASE HomeServed(t)
  BY <1>7 DEF HomeServed
<1>8. CASE Served(t)
  <2>1. failures' \in Nat /\ isOpen' \in BOOLEAN
    BY <1>8 DEF Served, RecordSuccess, Reset
  <2>2. \/ call' = [call EXCEPT ![t].at = "store", ![t].data = 0]
        \/ call' = [call EXCEPT ![t] = AtRest]
    BY <1>8 DEF Served
  <2>3. CASE call' = [call EXCEPT ![t].at = "store", ![t].data = 0]
    <3>1. call' \in [Threads -> [at : Places, src : Sources, age : Nat, data : Nat]]
      BY <2>3
    <3> QED
      BY <1>8, <2>1, <3>1 DEF Served
  <2>4. CASE call' = [call EXCEPT ![t] = AtRest]
    <3>1. call' \in [Threads -> [at : Places, src : Sources, age : Nat, data : Nat]]
      BY <2>4
    <3> QED
      BY <1>8, <2>1, <3>1 DEF Served
  <2> QED
    BY <2>2, <2>3, <2>4
<1> QED
  BY <1>1, <1>2, <1>3, <1>4, <1>5, <1>6, <1>7, <1>8, <1>9 DEF Proceed

(* So does every step.                                                      *)
LEMMA StepType == LimiterTypeOK /\ [NseNext]_nseVars => LimiterTypeOK'
<1> SUFFICES ASSUME LimiterTypeOK, [NseNext]_nseVars PROVE LimiterTypeOK'
  OBVIOUS
<1>1. CASE UNCHANGED nseVars
  BY <1>1 DEF LimiterTypeOK, nseVars, limiter, breaker
<1> QED
  BY <1>1, TickType, GetType, ProceedType DEF NseNext

-----------------------------------------------------------------------------
(* The breaker                                                              *)

(* No refusal was counted at first.                                         *)
LEMMA InitRefusals == NseInit => RefusalsLeft
  BY NseAssumption DEF NseInit, RefusalsLeft

(* The breaker stays as it is, and while it is open nobody joins those who  *)
(* ask.                                                                     *)
LEMMA SameBreaker ==
  ASSUME LimiterTypeOK, RefusalsLeft, failures' = failures, isOpen' = isOpen,
         isOpen => Asking' \subseteq Asking
  PROVE  RefusalsLeft'
<1>1. CASE ~isOpen
  BY <1>1 DEF RefusalsLeft
<1>2. CASE isOpen
  BY <1>2, NoMoreAsk, AskingFinite, NseAssumption DEF RefusalsLeft, LimiterTypeOK
<1> QED
  BY <1>1, <1>2 DEF LimiterTypeOK

(* A reset counts anew.                                                     *)
LEMMA ResetRefusals == Reset => RefusalsLeft'
  BY NseAssumption DEF Reset, RefusalsLeft

(* A refusal takes one of those that are left.                              *)
LEMMA RefusedRefusals ==
  ASSUME LimiterTypeOK, RefusalsLeft, NEW t \in Threads, Refused(t)
  PROVE  RefusalsLeft'
<1> USE DEF LimiterTypeOK
<1>1. t \in Asking /\ Asking' \subseteq Asking \ {t}
  BY DEF Refused, Return, Asking, AtRest
<1>2. /\ Cardinality(Asking') \in Nat
      /\ Cardinality(Asking') <= Cardinality(Asking) - 1
  BY <1>1, OneAsksLess
<1>3. /\ failures' = failures + 1
      /\ isOpen' = (isOpen \/ (failures + 1 >= Threshold /\ ~isOpen))
  BY DEF Refused, RecordFailure
<1>4. CASE isOpen
  <2>1. isOpen'
    BY <1>3, <1>4
  <2>2. failures + Cardinality(Asking) <= Threshold + Cardinality(Threads) - 1
    BY <1>4 DEF RefusalsLeft
  <2>3. failures' + Cardinality(Asking') <= Threshold + Cardinality(Threads) - 1
    BY <1>2, <1>3, <2>2, AskingFinite, NseAssumption
  <2> QED
    BY <2>1, <2>3 DEF RefusalsLeft
<1>5. CASE ~isOpen /\ failures + 1 < Threshold
  BY <1>3, <1>5, NseAssumption DEF RefusalsLeft
<1>6. CASE ~isOpen /\ failures + 1 >= Threshold
  <2>1. isOpen'
    BY <1>3, <1>6
  <2>2. failures < Threshold
    BY <1>6 DEF RefusalsLeft
  <2>3. failures' + Cardinality(Asking') <= Threshold + Cardinality(Threads) - 1
    BY <1>2, <1>3, <2>2, AskingFinite, NseAssumption
  <2> QED
    BY <2>1, <2>3 DEF RefusalsLeft
<1> QED
  BY <1>4, <1>5, <1>6, NseAssumption

(* A call that goes on takes none but that.                                 *)
LEMMA ProceedRefusals ==
  ASSUME LimiterTypeOK, RefusalsLeft, NEW t \in Threads, Proceed(t)
  PROVE  RefusalsLeft'
<1> USE DEF Return, GoTo, AtRest, breaker, limiter
<1>1. CASE Store(t) \/ SetTimestamp(t) \/ Enter(t) \/ Leave(t) \/ Failed(t) \/ HomeServed(t)
  <2>1. failures' = failures /\ isOpen' = isOpen
    BY <1>1 DEF Store, SetTimestamp, Enter, Leave, Failed, HomeServed
  <2>2. Asking' \subseteq Asking
    <3>1. CASE Store(t)
      BY <3>1 DEF Store, Asking, LimiterTypeOK
    <3>2. CASE SetTimestamp(t) \/ Failed(t)
      BY <3>2 DEF SetTimestamp, Failed, Asking, LimiterTypeOK
    <3>3. CASE Enter(t) \/ Leave(t) \/ HomeServed(t)
      BY <3>3 DEF Enter, Leave, HomeServed, Asking, LimiterTypeOK
    <3> QED
      BY <1>1, <3>1, <3>2, <3>3
  <2> QED
    BY <2>1, <2>2, SameBreaker
<1>2. CASE CheckBreaker(t)
  <2>1. CASE isOpen /\ ~Expired
    <3>1. UNCHANGED breaker /\ call' = [call EXCEPT ![t] = AtRest]
      BY <1>2, <2>1 DEF CheckBreaker
    <3>2. Asking' \subseteq Asking
      BY <3>1 DEF Asking, LimiterTypeOK
    <3> QED
      BY <3>1, <3>2, SameBreaker
  <2>2. CASE Expired
    BY <1>2, <2>2, ResetRefusals DEF CheckBreaker
  <2>3. CASE ~isOpen
    BY <1>2, <2>3, SameBreaker DEF CheckBreaker, Expired
  <2> QED
    BY <2>1, <2>2, <2>3 DEF LimiterTypeOK
<1>3. CASE Refused(t)
  BY <1>3, RefusedRefusals
<1>4. CASE Served(t)
  BY <1>4, ResetRefusals DEF Served, RecordSuccess
<1> QED
  BY <1>1, <1>2, <1>3, <1>4 DEF Proceed

(* Every step leaves the refusals bounded.                                  *)
LEMMA StepRefusals == LimiterTypeOK /\ RefusalsLeft /\ [NseNext]_nseVars => RefusalsLeft'
<1> SUFFICES ASSUME LimiterTypeOK, RefusalsLeft, [NseNext]_nseVars PROVE RefusalsLeft'
  OBVIOUS
<1>1. CASE Elapse
  <2>1. failures' = failures /\ isOpen' = isOpen
    BY <1>1 DEF Elapse
  <2>2. Asking' \subseteq Asking
    BY <1>1 DEF Elapse, Asking, LimiterTypeOK
  <2> QED
    BY <2>1, <2>2, SameBreaker
<1>2. ASSUME NEW t \in Threads, NEW s \in Sources, Get(t, s)
      PROVE  RefusalsLeft'
  <2>1. failures' = failures /\ isOpen' = isOpen
    BY <1>2 DEF Get, breaker
  <2>2. Asking' \subseteq Asking
    BY <1>2 DEF Get, Asking, LimiterTypeOK
  <2> QED
    BY <2>1, <2>2, SameBreaker
<1>3. CASE UNCHANGED nseVars
  BY <1>3, SameBreaker DEF nseVars, breaker, Asking
<1> QED
  BY <1>1, <1>2, <1>3, ProceedRefusals DEF NseNext

-----------------------------------------------------------------------------
(* The caches                                                               *)

(* The caches are empty at first.                                           *)
LEMMA InitTruthful == NseInit => CacheTruthful
  BY NseAssumption DEF NseInit, CacheTruthful, EntryTruthful, CallTruthful, NoValue, AtRest

(* A value and its timestamp grow old together.                             *)
LEMMA TickTruthful ==
  ASSUME LimiterTypeOK, CacheTruthful, Elapse
  PROVE  CacheTruthful'
<1> USE DEF LimiterTypeOK, Cached
<1>1. ASSUME NEW s \in Sources
      PROVE  /\ EntryTruthful(s)'
             /\ cache'[s].by = cache[s].by
             /\ cache'[s].put = Older(cache[s].put, Ttl[s])
             /\ cache'[s].data = Older(cache[s].data, Ttl[s])
  <2>1. Ttl[s] \in Nat /\ EntryTruthful(s)
    BY NseAssumption DEF CacheTruthful
  <2>2. cache'[s] = [cache[s] EXCEPT !.age = Older(@, Ttl[s]), !.data = Older(@, Ttl[s]),
                                     !.put = Older(@, Ttl[s])]
    BY DEF Elapse
  <2>3. /\ cache'[s].by = cache[s].by /\ cache'[s].own = cache[s].own
        /\ cache'[s].put = Older(cache[s].put, Ttl[s])
        /\ cache'[s].data = Older(cache[s].data, Ttl[s])
        /\ cache'[s].age = Older(cache[s].age, Ttl[s])
    BY <2>2
  <2> QED
    BY <2>1, <2>3, OlderKeepsOrder DEF EntryTruthful
<1>2. ASSUME NEW t \in Threads
      PROVE  CallTruthful(t)'
  <2> DEFINE s == call[t].src
             ttl == Ttl[call[t].src]
  <2>1. ttl \in Nat /\ s \in Sources /\ CallTruthful(t)
    BY NseAssumption DEF CacheTruthful
  <2>2. /\ call[t].data \in Nat /\ call[t].age \in Nat
        /\ cache[s].data \in Nat /\ cache[s].put \in Nat
    BY <2>1
  <2>3. call'[t] = IF call[t].at = "idle" THEN call[t]
                   ELSE [call[t] EXCEPT
                           !.age = Older(@, ttl),
                           !.data = IF call[t].at = "store" THEN Older(@, ttl) ELSE @]
    BY DEF Elapse
  <2>4. /\ Older(call[t].data, ttl) <= Older(call[t].age, ttl)
        /\ call[t].data <= Older(call[t].age, ttl)
    BY <2>1, <2>2, OlderKeepsOrder, OlderIsNoYounger DEF CallTruthful
  <2>5. call'[t].data <= call'[t].age /\ call'[t].src = s /\ call'[t].at = call[t].at
    <3>1. CASE call[t].at = "idle"
      BY <2>1, <2>3, <3>1 DEF CallTruthful
    <3>2. CASE call[t].at = "store"
      BY <2>3, <2>4, <3>2
    <3>3. CASE call[t].at \notin {"idle", "store"}
      BY <2>3, <2>4, <3>3
    <3> QED
      BY <3>1, <3>2, <3>3
  <2>6. ASSUME call[t].at = "stamp"
        PROVE  /\ cache'[s].put <= call'[t].age
               /\ cache'[s].by = t => cache'[s].data <= call'[t].age
    <3>1. call'[t].age = Older(call[t].age, ttl)
      BY <2>3, <2>6
    <3>2. cache[s].put <= call[t].age /\ (cache[s].by = t => cache[s].data <= call[t].age)
      BY ONLY <2>1, <2>6 DEF CallTruthful
    <3>3. /\ cache'[s].by = cache[s].by
          /\ cache'[s].put = Older(cache[s].put, ttl)
          /\ cache'[s].data = Older(cache[s].data, ttl)
      BY <1>1, <2>1
    <3> HIDE DEF s, ttl
    <3> QED
      BY ONLY <2>1, <2>2, <3>1, <3>2, <3>3, OlderKeepsOrder
  <2> QED
    BY <2>5, <2>6 DEF CallTruthful
<1> QED
  BY <1>1, <1>2 DEF CacheTruthful

(* A call that is on its way, and stores nothing, disturbs no other.        *)
LEMMA QuietTruthful ==
  ASSUME LimiterTypeOK, CacheTruthful, NEW t \in Threads, cache' = cache,
         \A u \in Threads \ {t} : call'[u] = call[u],
         call'[t].at # "stamp", call'[t].data <= call'[t].age
  PROVE  CacheTruthful'
<1>1. ASSUME NEW s \in Sources
      PROVE  EntryTruthful(s)'
  BY DEF CacheTruthful, EntryTruthful
<1>2. ASSUME NEW u \in Threads
      PROVE  CallTruthful(u)'
  <2>1. CASE u = t
    BY <2>1 DEF CallTruthful
  <2>2. CASE u # t
    BY <2>2 DEF CacheTruthful, CallTruthful
  <2> QED
    BY <2>1, <2>2
<1> QED
  BY <1>1, <1>2 DEF CacheTruthful

(* A value is put with an age its timestamp will not understate.            *)
LEMMA StoreTruthful ==
  ASSUME LimiterTypeOK, CacheTruthful, NEW t \in Threads, Store(t)
  PROVE  CacheTruthful'
<1> USE DEF LimiterTypeOK, Cached
<1> DEFINE s == call[t].src
<1>1. /\ s \in Sources /\ CallTruthful(t)
      /\ call[t].data \in Nat /\ call[t].age \in Nat
  BY DEF CacheTruthful
<1>2. /\ cache'[s] = [cache[s] EXCEPT !.full = TRUE, !.data = call[t].data, !.put = 0,
                                       !.by = t, !.own = FALSE]
      /\ \A z \in Sources \ {s} : cache'[z] = cache[z]
      /\ call'[t] = [call[t] EXCEPT !.at = "stamp", !.data = 0]
      /\ \A u \in Threads \ {t} : call'[u] = call[u]
  BY DEF Store
<1>3. /\ cache'[s].put = 0 /\ cache'[s].by = t /\ cache'[s].data = call[t].data
      /\ cache'[s].own = FALSE /\ cache'[s].age = cache[s].age
      /\ call'[t].data = 0 /\ call'[t].age = call[t].age /\ call'[t].src = s
  BY <1>1, <1>2
<1>4. ASSUME NEW z \in Sources
      PROVE  EntryTruthful(z)'
  <2>1. CASE z = s
    BY <1>3, <2>1 DEF EntryTruthful
  <2>2. CASE z # s
    BY <1>2, <2>2 DEF CacheTruthful, EntryTruthful
  <2> QED
    BY <2>1, <2>2
<1>5. ASSUME NEW u \in Threads
      PROVE  CallTruthful(u)'
  <2>1. CASE u = t
    BY <1>1, <1>3, <2>1 DEF CallTruthful
  <2>2. CASE u # t /\ call[u].src = s
    <3>1. call'[u] = call[u] /\ CallTruthful(u) /\ call[u].age \in Nat
      BY <1>2, <2>2 DEF CacheTruthful
    <3> QED
      BY <1>3, <2>2, <3>1 DEF CallTruthful
  <2>3. CASE u # t /\ call[u].src # s
    <3>1. /\ call'[u] = call[u] /\ CallTruthful(u)
          /\ cache'[call[u].src] = cache[call[u].src]
      BY <1>2, <2>3 DEF CacheTruthful
    <3> QED
      BY <3>1 DEF CallTruthful
  <2> QED
    BY <2>1, <2>2, <2>3
<1> QED
  BY <1>4, <1>5 DEF CacheTruthful

(* A timestamp is set that is no younger than what is there by then.        *)
LEMMA StampTruthful ==
  ASSUME LimiterTypeOK, CacheTruthful, NEW t \in Threads, SetTimestamp(t)
  PROVE  CacheTruthful'
<1> USE DEF LimiterTypeOK, Cached
<1> DEFINE s == call[t].src
<1>1. /\ s \in Sources /\ CallTruthful(t) /\ call[t].at = "stamp"
      /\ call[t].age \in Nat
  BY DEF CacheTruthful, SetTimestamp
<1>2. /\ cache'[s] = Stamped(cache[s], t, call[t].age)
      /\ \A z \in Sources \ {s} : cache'[z] = cache[z]
      /\ call'[t] = AtRest
      /\ \A u \in Threads \ {t} : call'[u] = call[u]
  BY DEF SetTimestamp, Return
<1>3. /\ cache'[s].put = cache[s].put /\ cache'[s].data = cache[s].data
      /\ cache'[s].own = (cache[s].by = t) /\ cache'[s].age = call[t].age
      /\ cache'[s].by = t => cache[s].by = t
      /\ \A u \in Threads : cache'[s].by = u => cache[s].by = u
  BY <1>1, <1>2, NseAssumption DEF Stamped
<1>4. ASSUME NEW z \in Sources
      PROVE  EntryTruthful(z)'
  <2>1. CASE z = s
    <3>1. /\ cache[s].put <= call[t].age
          /\ cache[s].by = t => cache[s].data <= call[t].age
      BY ONLY <1>1 DEF CallTruthful
    <3> QED
      BY <1>3, <2>1, <3>1 DEF EntryTruthful
  <2>2. CASE z # s
    BY <1>2, <2>2 DEF CacheTruthful, EntryTruthful
  <2> QED
    BY <2>1, <2>2
<1>5. ASSUME NEW u \in Threads
      PROVE  CallTruthful(u)'
  <2>1. CASE u = t
    BY <1>2, <2>1 DEF CallTruthful, AtRest
  <2>2. CASE u # t /\ call[u].src = s
    <3>1. call'[u] = call[u] /\ CallTruthful(u)
      BY <1>2, <2>2 DEF CacheTruthful
    <3> QED
      BY <1>3, <2>2, <3>1 DEF CallTruthful
  <2>3. CASE u # t /\ call[u].src # s
    <3>1. /\ call'[u] = call[u] /\ CallTruthful(u)
          /\ cache'[call[u].src] = cache[call[u].src]
      BY <1>2, <2>3 DEF CacheTruthful
    <3> QED
      BY <3>1 DEF CallTruthful
  <2> QED
    BY <2>1, <2>2, <2>3
<1> QED
  BY <1>4, <1>5 DEF CacheTruthful

(* Whatever a call does, the caches stay truthful.                          *)
LEMMA ProceedTruthful ==
  ASSUME LimiterTypeOK, CacheTruthful, NEW t \in Threads, Proceed(t)
  PROVE  CacheTruthful'
<1> USE DEF LimiterTypeOK, Return, GoTo, AtRest, limiter, breaker
<1>1. CASE Store(t)
  BY <1>1, StoreTruthful
<1>2. CASE SetTimestamp(t)
  BY <1>2, StampTruthful
<1>3. ASSUME \/ Enter(t) \/ Leave(t) \/ CheckBreaker(t)
             \/ Refused(t) \/ Failed(t) \/ HomeServed(t) \/ Served(t)
      PROVE  /\ cache' = cache /\ \A u \in Threads \ {t} : call'[u] = call[u]
             /\ \/ call'[t] = AtRest
                \/ /\ call'[t].at \notin {"idle", "stamp"} /\ call'[t].age = call[t].age
                   /\ call'[t].data = call[t].data \/ call'[t].data = 0
  <2>1. CASE Enter(t) \/ Leave(t) \/ HomeServed(t)
    BY <2>1 DEF Enter, Leave, HomeServed
  <2>2. CASE CheckBreaker(t)
    BY <2>2 DEF CheckBreaker
  <2>3. CASE Refused(t) \/ Failed(t)
    BY <2>3 DEF Refused, Failed
  <2>4. CASE Served(t)
    <3>1. /\ cache' = cache
          /\ \/ call' = [call EXCEPT ![t].at = "store", ![t].data = 0]
             \/ call' = [call EXCEPT ![t] = AtRest]
      BY <2>4 DEF Served
    <3>2. CASE call' = [call EXCEPT ![t].at = "store", ![t].data = 0]
      BY <3>1, <3>2
    <3>3. CASE call' = [call EXCEPT ![t] = AtRest]
      <4>1. call'[t] = AtRest /\ \A u \in Threads \ {t} : call'[u] = call[u]
        BY <3>3
      <4> QED
        BY ONLY <3>1, <4>1
    <3> QED
      BY <3>1, <3>2, <3>3
  <2> QED
    BY <1>3, <2>1, <2>2, <2>3, <2>4
<1>4. call[t].data <= call[t].age /\ call[t].age \in Nat
  BY DEF CacheTruthful, CallTruthful
<1>5. CASE \/ Enter(t) \/ Leave(t) \/ CheckBreaker(t)
           \/ Refused(t) \/ Failed(t) \/ HomeServed(t) \/ Served(t)
  <2>1. call'[t].at # "stamp" /\ call'[t].data <= call'[t].age
    BY <1>3, <1>4, <1>5
  <2> QED
    BY <1>3, <1>5, <2>1, QuietTruthful
<1> QED
  BY <1>1, <1>2, <1>5 DEF Proceed

(* Every step keeps the caches truthful.                                    *)
LEMMA StepTruthful == LimiterTypeOK /\ CacheTruthful /\ [NseNext]_nseVars => CacheTruthful'
<1> SUFFICES ASSUME LimiterTypeOK, CacheTruthful, [NseNext]_nseVars PROVE CacheTruthful'
  OBVIOUS
<1>1. ASSUME NEW t \in Threads, NEW s \in Sources, Get(t, s)
      PROVE  CacheTruthful'
  <2>1. /\ cache' = cache /\ \A u \in Threads \ {t} : call'[u] = call[u]
        /\ call'[t] = [at |-> "enter", src |-> s, age |-> 0, data |-> 0]
    BY <1>1 DEF Get, LimiterTypeOK
  <2> QED
    BY <2>1, QuietTruthful
<1>2. CASE UNCHANGED nseVars
  BY <1>2 DEF nseVars, CacheTruthful, EntryTruthful, CallTruthful
<1> QED
  BY <1>1, <1>2, TickTruthful, ProceedTruthful DEF NseNext

-----------------------------------------------------------------------------
(* The pacer                                                                *)

(* Whatever is no tick and no passage leaves both clocks alone.             *)
LEMMA ClocksOfProceed ==
  ASSUME NEW t \in Threads, Proceed(t)
  PROVE  \/ UNCHANGED <<sinceCall, quiet>>
         \/ sinceCall = Gap /\ sinceCall' = 0 /\ quiet' = 0
  BY DEF Proceed, Store, SetTimestamp, Enter, Leave, CheckBreaker, Refused, Failed, HomeServed, Served,
         limiter

(* The time of the last call is that of the last passage, always.           *)
LEMMA StepLastCall == LastCall /\ [NseNext]_nseVars => LastCall'
<1> SUFFICES ASSUME LastCall, [NseNext]_nseVars PROVE LastCall'
  OBVIOUS
<1>1. CASE Elapse
  BY <1>1 DEF Elapse, LastCall
<1>2. ASSUME NEW t \in Threads, Proceed(t)
      PROVE  LastCall'
  BY <1>2, ClocksOfProceed DEF LastCall
<1>3. ASSUME NEW t \in Threads, NEW s \in Sources, Get(t, s)
      PROVE  LastCall'
  BY <1>3 DEF Get, limiter, LastCall
<1>4. CASE UNCHANGED nseVars
  BY <1>4 DEF nseVars, limiter, LastCall
<1> QED
  BY <1>1, <1>2, <1>3, <1>4 DEF NseNext

(* A step is a passage of the pacer, its clock, or nothing to it.           *)
LEMMA StepPace == LastCall /\ [NseNext]_nseVars => [Pace!Tick \/ Pace!Pass]_quiet
<1> SUFFICES ASSUME LastCall, [NseNext]_nseVars
             PROVE  [Pace!Tick \/ Pace!Pass]_quiet
  OBVIOUS
<1>1. CASE Elapse
  BY <1>1 DEF Elapse, Older, Pace!Tick
<1>2. ASSUME NEW t \in Threads, Proceed(t)
      PROVE  [Pace!Pass]_quiet
  BY <1>2, ClocksOfProceed DEF LastCall, Pace!Pass
<1>3. ASSUME NEW t \in Threads, NEW s \in Sources, Get(t, s)
      PROVE  UNCHANGED quiet
  BY <1>3 DEF Get, limiter
<1>4. CASE UNCHANGED nseVars
  BY <1>4 DEF nseVars, limiter
<1> QED
  BY <1>1, <1>2, <1>3, <1>4 DEF NseNext

-----------------------------------------------------------------------------
(* The invariant of the limiter always holds.                               *)
LEMMA Invariance == NseSpec => []IInv
<1>1. NseInit => IInv
  BY InitType, InitRefusals, InitTruthful DEF IInv, NseInit, LastCall
<1>2. IInv /\ [NseNext]_nseVars => IInv'
  BY StepType, StepRefusals, StepTruthful, StepLastCall DEF IInv
<1> QED
  BY <1>1, <1>2, PTL DEF NseSpec

(* A server that refuses and refuses is refused to by no more than the      *)
(* threshold and every other thread once (record_failure, is_open).         *)
THEOREM RefusalsAreBounded == NseSpec => []RefusalsBounded
<1>1. IInv => RefusalsBounded
  <2> SUFFICES ASSUME IInv PROVE RefusalsBounded
    OBVIOUS
  <2>1. CASE isOpen
    BY <2>1, AskingFinite, NseAssumption DEF IInv, LimiterTypeOK, RefusalsLeft, RefusalsBounded
  <2>2. CASE ~isOpen
    BY <2>2, AskingFinite, NseAssumption DEF IInv, LimiterTypeOK, RefusalsLeft, RefusalsBounded
  <2> QED
    BY <2>1, <2>2
<1> QED
  BY <1>1, Invariance, PTL

(* What a getter answers from its cache was put there less than a lifetime  *)
(* ago, and was true less than a lifetime ago if its timestamp is of the    *)
(* same call, however long that had to wait and whoever stored between the  *)
(* value and the timestamp (get_vix and its likes).                         *)
THEOREM FreshValuesAreFresh == NseSpec => []FreshIsFresh
<1>1. IInv => FreshIsFresh
  BY NseAssumption DEF IInv, LimiterTypeOK, Cached, CacheTruthful, EntryTruthful, FreshIsFresh
<1> QED
  BY <1>1, Invariance, PTL

(* The passages through nse_rate_limit implement the abstract pacer.        *)
THEOREM LimiterPaces == NseSpec => IsPaced
<1>1. NseInit => quiet = Gap
  BY DEF NseInit
<1>2. IInv /\ [NseNext]_nseVars => [Pace!Tick \/ Pace!Pass]_quiet
  BY StepPace DEF IInv
<1> QED
  BY <1>1, <1>2, Invariance, PTL DEF NseSpec, IsPaced, Pace!Spec, Pace!Init

-----------------------------------------------------------------------------
(* Sequences                                                                *)

(* What is in a list with one more element, and where.                      *)
LEMMA AppendFacts ==
  ASSUME NEW S, NEW s \in Seq(S), NEW e \in S
  PROVE  /\ Append(s, e) \in Seq(S)
         /\ ToSet(Append(s, e)) = ToSet(s) \cup {e}
         /\ DOMAIN s = 1..Len(s) /\ Len(s) \in Nat
         /\ DOMAIN Append(s, e) = 1..(Len(s) + 1)
         /\ Append(s, e)[Len(s) + 1] = e
         /\ \A i \in 1..Len(s) : Append(s, e)[i] = s[i]
<1>1. /\ Append(s, e) \in Seq(S) /\ Len(s) \in Nat /\ DOMAIN s = 1..Len(s)
      /\ DOMAIN Append(s, e) = 1..(Len(s) + 1)
      /\ Append(s, e)[Len(s) + 1] = e
      /\ \A i \in 1..Len(s) : Append(s, e)[i] = s[i]
  OBVIOUS
<1>2. ToSet(Append(s, e)) = ToSet(s) \cup {e}
  BY <1>1 DEF ToSet
<1> QED
  BY <1>1, <1>2

(* What is in a list without its first.                                     *)
LEMMA TailFacts ==
  ASSUME NEW S, NEW s \in Seq(S), s # <<>>
  PROVE  /\ Tail(s) \in Seq(S) /\ Head(s) \in S
         /\ ToSet(s) = {Head(s)} \cup ToSet(Tail(s))
         /\ DOMAIN s = 1..Len(s) /\ Len(s) \in Nat \ {0}
         /\ Head(s) = s[1]
         /\ DOMAIN Tail(s) = 1..(Len(s) - 1)
         /\ \A i \in 1..(Len(s) - 1) : Tail(s)[i] = s[i + 1]
<1>1. /\ Tail(s) \in Seq(S) /\ Head(s) \in S
      /\ DOMAIN s = 1..Len(s) /\ Len(s) \in Nat \ {0}
      /\ Head(s) = s[1]
      /\ DOMAIN Tail(s) = 1..(Len(s) - 1)
      /\ \A i \in 1..(Len(s) - 1) : Tail(s)[i] = s[i + 1]
  OBVIOUS
<1>2. ASSUME NEW i \in 1..Len(s), i # 1
      PROVE  i - 1 \in 1..(Len(s) - 1) /\ s[i] = Tail(s)[i - 1]
  BY <1>1, <1>2
<1>3. ToSet(s) = {Head(s)} \cup ToSet(Tail(s))
  <2>1. \A i \in 1..(Len(s) - 1) : i + 1 \in 1..Len(s)
    BY <1>1
  <2>2. ToSet(Tail(s)) \subseteq ToSet(s)
    BY <1>1, <2>1 DEF ToSet
  <2>3. ToSet(s) \subseteq {Head(s)} \cup ToSet(Tail(s))
    <3> SUFFICES ASSUME NEW i \in 1..Len(s)
                 PROVE  s[i] \in {Head(s)} \cup ToSet(Tail(s))
      BY <1>1 DEF ToSet
    <3> QED
      BY <1>1, <1>2 DEF ToSet
  <2>4. Head(s) \in ToSet(s)
    BY <1>1 DEF ToSet
  <2> QED
    BY <2>2, <2>3, <2>4
<1> QED
  BY <1>1, <1>3

(* An empty list has no elements.                                           *)
LEMMA NoElements ==
  ASSUME NEW s, DOMAIN s = {}
  PROVE  ToSet(s) = {}
<1>1. \A x : x \notin ToSet(s)
  BY DEF ToSet
<1> QED
  BY <1>1

(* A list that is mapped is a list.                                         *)
LEMMA MappedSeq ==
  ASSUME NEW S, NEW T, NEW s \in Seq(S), NEW f \in [DOMAIN s -> T]
  PROVE  f \in Seq(T)
  OBVIOUS

-----------------------------------------------------------------------------
(* Types                                                                    *)

Outcomes == [id: Commands, verdict: {"done", "rejected"}]
Updating == pc \in {"read", "truncate", "write"}
Busy == Updating \/ pc = "execute"

FilesTypeOK ==
  /\ file \in Seq(Entry) /\ scan \in Seq(Entry) /\ copy \in Seq(Entry)
  /\ submitted \in Seq(Commands) /\ log \in Seq(Outcomes)
  /\ saving \in SUBSET Commands
  /\ writing \in SUBSET [id: Commands, whole: BOOLEAN]
  /\ overlay \in Environments

AgentTypeOK ==
  /\ pc \in {"down", "idle", "scan", "read", "truncate", "write", "execute"}
  /\ batch \in Seq(Commands)
  /\ cmd \in Commands \cup {NoCommand}
  /\ Busy => cmd \in Commands
  /\ verdict \in Statuses
  /\ Busy => verdict # "pending"
  /\ pc = "execute" => verdict = "processing"
  /\ pc \in {"down", "idle"} => scan = <<>> /\ batch = <<>>

TypeOK == FilesTypeOK /\ AgentTypeOK

(* The queue begins with its types.                                         *)
LEMMA InitTypeOK == Init => TypeOK
  BY DEF Init, TypeOK, FilesTypeOK, AgentTypeOK, Busy, Updating, Statuses

(* Producers keep them.                                                     *)
LEMMA ProducerTypes ==
  ASSUME TypeOK,
         \/ \E c \in Commands : enqueue(c) \/ OpenConfig(c)
         \/ \E w \in writing : SaveConfig(w)
  PROVE  TypeOK'
<1>1. ASSUME NEW c \in Commands, enqueue(c)
      PROVE  TypeOK'
  <2>1. /\ submitted' = Append(submitted, c)
        /\ file' = Append(file, [id |-> c, status |-> "pending"])
        /\ saving' \in SUBSET (saving \cup {c})
        /\ UNCHANGED <<agent, limits, disk, overlay, writing, log, crashes>>
    BY <1>1 DEF enqueue
  <2>2. [id |-> c, status |-> "pending"] \in Entry
    BY DEF Entry, Statuses
  <2>3. submitted' \in Seq(Commands) /\ file' \in Seq(Entry)
    BY <2>1, <2>2, AppendFacts DEF TypeOK, FilesTypeOK
  <2> QED
    BY <2>1, <2>3 DEF agent, TypeOK, FilesTypeOK, AgentTypeOK, Busy, Updating
<1>2. ASSUME NEW c \in Commands, OpenConfig(c)
      PROVE  TypeOK'
  <2>1. PICK whole \in BOOLEAN : writing' = writing \cup {[id |-> c, whole |-> whole]}
    BY <1>2 DEF OpenConfig
  <2>2. saving' = saving \ {c} /\ UNCHANGED <<file, agent, limits, overlay, submitted, log, crashes>>
    BY <1>2 DEF OpenConfig
  <2> QED
    BY <2>1, <2>2 DEF agent, TypeOK, FilesTypeOK, AgentTypeOK, Busy, Updating
<1>3. ASSUME NEW w \in writing, SaveConfig(w)
      PROVE  TypeOK'
  BY <1>3 DEF SaveConfig, agent, TypeOK, FilesTypeOK, AgentTypeOK, Busy, Updating
<1> QED
  BY <1>1, <1>2, <1>3

(* So does reading the file.                                                *)
LEMMA ReadingTypes ==
  ASSUME TypeOK, ReadPending \/ VerifyNext \/ TakeNext
  PROVE  TypeOK'
<1> USE DEF Busy, Updating, Statuses
<1>1. CASE ReadPending
  BY <1>1 DEF ReadPending, limits, config, TypeOK, FilesTypeOK, AgentTypeOK
<1>2. CASE VerifyNext
  <2>1. /\ pc = "scan" /\ scan # <<>> /\ scan' = Tail(scan)
        /\ UNCHANGED <<file, copy, halted, limits, config, submitted, log, crashes>>
    BY <1>2 DEF VerifyNext
  <2>2. Tail(scan) \in Seq(Entry) /\ Head(scan) \in Entry
    BY <2>1, TailFacts DEF TypeOK, FilesTypeOK
  <2>3. Head(scan).id \in Commands
    BY <2>2 DEF Entry
  <2>4. FilesTypeOK'
    BY <2>1, <2>2 DEF config, TypeOK, FilesTypeOK
  <2>5. \/ UNCHANGED <<batch, pc, cmd, verdict>>
        \/ /\ cmd' = Head(scan).id /\ verdict' = "rejected" /\ pc' = "read"
           /\ UNCHANGED batch
        \/ /\ batch' = Append(batch, Head(scan).id)
           /\ UNCHANGED <<pc, cmd, verdict>>
    BY <1>2 DEF VerifyNext, StartUpdate
  <2>6. batch' \in Seq(Commands)
    BY <2>3, <2>5, AppendFacts DEF TypeOK, AgentTypeOK
  <2>7. AgentTypeOK'
    BY <2>1, <2>3, <2>5, <2>6 DEF TypeOK, AgentTypeOK
  <2> QED
    BY <2>4, <2>7 DEF TypeOK
<1>3. CASE TakeNext
  <2>1. /\ pc = "scan" /\ batch # <<>> /\ batch' = Tail(batch)
        /\ cmd' = Head(batch) /\ verdict' = "processing" /\ pc' = "read"
        /\ UNCHANGED <<file, scan, copy, halted, limits, config, submitted, log, crashes>>
    BY <1>3 DEF TakeNext, StartUpdate
  <2>2. Tail(batch) \in Seq(Commands) /\ Head(batch) \in Commands
    BY <2>1, TailFacts DEF TypeOK, AgentTypeOK
  <2> QED
    BY <2>1, <2>2 DEF config, TypeOK, FilesTypeOK, AgentTypeOK
<1> QED
  BY <1>1, <1>2, <1>3

(* So does rewriting it.                                                    *)
LEMMA UpdatingTypes ==
  ASSUME TypeOK, UpdateRead \/ UpdateTruncate \/ UpdateWrite
  PROVE  TypeOK'
<1> USE DEF Busy, Updating, Statuses
<1>1. CASE UpdateRead
  <2>1. /\ pc = "read" /\ pc' = "truncate"
        /\ copy' = [i \in DOMAIN file |->
                      IF file[i].id = cmd THEN [file[i] EXCEPT !.status = verdict]
                      ELSE file[i]]
        /\ UNCHANGED <<file, scan, batch, cmd, verdict, halted, limits, config,
                       submitted, log, crashes>>
    BY <1>1 DEF UpdateRead
  <2>2. \A i \in DOMAIN file : file[i] \in Entry
    BY DEF TypeOK, FilesTypeOK
  <2>3. \A e \in Entry : [e EXCEPT !.status = verdict] \in Entry
    <3>1. verdict \in Statuses
      BY DEF TypeOK, AgentTypeOK
    <3> QED
      BY <3>1 DEF Entry
  <2>4. copy' \in [DOMAIN file -> Entry]
    BY <2>1, <2>2, <2>3
  <2>5. copy' \in Seq(Entry)
    BY <2>4, MappedSeq DEF TypeOK, FilesTypeOK
  <2> QED
    BY <2>1, <2>5 DEF config, TypeOK, FilesTypeOK, AgentTypeOK
<1>2. CASE UpdateTruncate
  BY <1>2 DEF UpdateTruncate, config, TypeOK, FilesTypeOK, AgentTypeOK
<1>3. CASE UpdateWrite
  BY <1>3 DEF UpdateWrite, config, TypeOK, FilesTypeOK, AgentTypeOK
<1> QED
  BY <1>1, <1>2, <1>3

(* So do the agent's other steps.                                           *)
LEMMA OtherTypes ==
  ASSUME TypeOK, Execute \/ EndTick \/ Start \/ Crash
  PROVE  TypeOK'
<1> USE DEF Busy, Updating, Statuses
<1>1. CASE Execute
  <2>1. PICK v \in {"done", "rejected"} :
          /\ cmd' = cmd /\ verdict' = v /\ pc' = "read"
          /\ log' = Append(log, [id |-> cmd, verdict |-> v])
    BY <1>1 DEF Execute, StartUpdate
  <2>2. pc = "execute" /\ UNCHANGED <<file, scan, batch, copy, config, submitted, crashes>>
    BY <1>1 DEF Execute
  <2>3. [id |-> cmd, verdict |-> v] \in Outcomes
    <3>1. cmd \in Commands
      BY <2>2 DEF TypeOK, AgentTypeOK
    <3> QED
      BY <3>1 DEF Outcomes
  <2>4. log' \in Seq(Outcomes)
    BY <2>1, <2>3, AppendFacts DEF TypeOK, FilesTypeOK
  <2> QED
    BY <2>1, <2>2, <2>4 DEF config, TypeOK, FilesTypeOK, AgentTypeOK
<1>2. CASE EndTick
  BY <1>2 DEF EndTick, config, TypeOK, FilesTypeOK, AgentTypeOK
<1>3. CASE Start
  BY <1>3 DEF Start, config, TypeOK, FilesTypeOK, AgentTypeOK
<1>4. CASE Crash
  BY <1>4 DEF Crash, config, TypeOK, FilesTypeOK, AgentTypeOK
<1> QED
  BY <1>1, <1>2, <1>3, <1>4

(* So does nothing.                                                         *)
LEMMA StutterTypes == TypeOK /\ UNCHANGED vars => TypeOK'
  BY DEF TypeOK, vars, agent, limits, config, FilesTypeOK, AgentTypeOK, Busy, Updating

(* So does every step.                                                      *)
LEMMA NextKeepsTypes == TypeOK /\ [Next]_vars => TypeOK'
  BY ProducerTypes, ReadingTypes, UpdatingTypes, OtherTypes, StutterTypes DEF Next, Tick

(* Every state of the files, the agent and the producers is well typed.     *)
THEOREM QueueTyped == Spec => []TypeOK
  BY NextKeepsTypes, InitTypeOK, PTL DEF Spec
-----------------------------------------------------------------------------
(* Order                                                                    *)

Precedes(s, c, d) == \E i, j \in DOMAIN s : i < j /\ s[i] = c /\ s[j] = d
AllPrecede(s, A, B) == \A a \in A, b \in B : Precedes(s, a, b)
NoRepeats(s) == \A i, j \in DOMAIN s : s[i] = s[j] => i = j
Ids(lines) == {lines[i].id : i \in DOMAIN lines}
Ascending(s, ids) ==
  \A i, j \in DOMAIN ids : i < j => Precedes(s, ids[i], ids[j])
AscendingLines(s, lines) ==
  \A i, j \in DOMAIN lines : i < j => Precedes(s, lines[i].id, lines[j].id)

(* A new command comes after all the others and disturbs none of them.      *)
LEMMA Submitting ==
  ASSUME NEW s \in Seq(Commands), NEW c \in Commands, c \notin ToSet(s), NoRepeats(s)
  PROVE  /\ NoRepeats(Append(s, c))
         /\ \A a, b : Precedes(s, a, b) => Precedes(Append(s, c), a, b)
         /\ \A a \in ToSet(s) : Precedes(Append(s, c), a, c)
<1> DEFINE t == Append(s, c)
<1>1. /\ DOMAIN s = 1..Len(s) /\ Len(s) \in Nat
      /\ DOMAIN t = 1..(Len(s) + 1) /\ t[Len(s) + 1] = c
      /\ \A i \in 1..Len(s) : t[i] = s[i]
  BY AppendFacts
<1>2. \A i \in 1..Len(s) : s[i] \in ToSet(s)
  BY <1>1 DEF ToSet
<1> HIDE DEF t
<1>3. NoRepeats(t)
  <2> SUFFICES ASSUME NEW i \in 1..(Len(s) + 1), NEW j \in 1..(Len(s) + 1), t[i] = t[j]
               PROVE  i = j
    BY <1>1 DEF NoRepeats
  <2>1. CASE i \in 1..Len(s) /\ j \in 1..Len(s)
    BY <1>1, <2>1 DEF NoRepeats
  <2>2. CASE i = Len(s) + 1 \/ j = Len(s) + 1
    BY <1>1, <1>2, <2>2
  <2> QED
    BY <1>1, <2>1, <2>2
<1>4. ASSUME NEW a, NEW b, Precedes(s, a, b)
      PROVE  Precedes(t, a, b)
  BY <1>1, <1>4 DEF Precedes
<1>5. ASSUME NEW a \in ToSet(s)
      PROVE  Precedes(t, a, c)
  <2>1. PICK i \in 1..Len(s) : s[i] = a
    BY <1>1 DEF ToSet
  <2>2. i < Len(s) + 1 /\ i \in DOMAIN t /\ Len(s) + 1 \in DOMAIN t
    BY <1>1
  <2> QED
    BY <1>1, <2>1, <2>2 DEF Precedes
<1> QED
  BY <1>3, <1>4, <1>5 DEF t

(* In a sequence without repeats nothing precedes itself.                   *)
LEMMA NothingPrecedesItself ==
  ASSUME NEW s \in Seq(Commands), NoRepeats(s), NEW c
  PROVE  ~Precedes(s, c, c)
<1>1. DOMAIN s = 1..Len(s) /\ Len(s) \in Nat
  OBVIOUS
<1>2. SUFFICES ASSUME NEW i \in 1..Len(s), NEW j \in 1..Len(s),
                      i < j, s[i] = c, s[j] = c
               PROVE  FALSE
  BY <1>1 DEF Precedes
<1>3. i = j
  BY <1>1, <1>2 DEF NoRepeats
<1> QED
  BY <1>2, <1>3

(* Nothing is in order.                                                     *)
LEMMA AscendingEmpty ==
  ASSUME NEW s, NEW l, l = <<>>
  PROVE  /\ Ascending(s, l) /\ AscendingLines(s, l) 
         /\ Ids(l) = {} /\ ToSet(l) = {} /\ PendingIn(l) = {}
<1>1. DOMAIN l = {}
  OBVIOUS
<1>2. ToSet(l) = {}
  BY <1>1, NoElements
<1>3. \A x : x \notin Ids(l) /\ x \notin PendingIn(l)
  BY <1>1, <1>2 DEF Ids, PendingIn
<1> QED
  BY <1>1, <1>2, <1>3 DEF Ascending, AscendingLines

(* What is appended after all of a list keeps its order.                    *)
LEMMA AscendingAppend ==
  ASSUME NEW s, NEW S, NEW ids \in Seq(S), NEW c \in S,
         Ascending(s, ids), AllPrecede(s, ToSet(ids), {c})
  PROVE  Ascending(s, Append(ids, c))
<1> DEFINE t == Append(ids, c)
<1>1. /\ DOMAIN ids = 1..Len(ids) /\ Len(ids) \in Nat
      /\ DOMAIN t = 1..(Len(ids) + 1) /\ t[Len(ids) + 1] = c
      /\ \A i \in 1..Len(ids) : t[i] = ids[i]
  BY AppendFacts
<1>2. \A i \in 1..Len(ids) : Precedes(s, ids[i], c)
  BY <1>1 DEF AllPrecede, ToSet
<1> HIDE DEF t
<1>3. ASSUME NEW i \in 1..(Len(ids) + 1), NEW j \in 1..(Len(ids) + 1), i < j
      PROVE  Precedes(s, t[i], t[j])
  <2>1. i \in 1..Len(ids)
    BY <1>1, <1>3
  <2>2. CASE j \in 1..Len(ids)
    BY <1>1, <1>3, <2>1, <2>2 DEF Ascending
  <2>3. CASE j = Len(ids) + 1
    BY <1>1, <1>2, <2>1, <2>3
  <2> QED
    BY <1>1, <2>2, <2>3
<1>4. Ascending(s, t)
  BY <1>1, <1>3 DEF Ascending
<1> QED
  BY <1>4 DEF t

(* The same of lines.                                                       *)
LEMMA AscendingAppendLine ==
  ASSUME NEW s, NEW S, NEW lines \in Seq(S), NEW e \in S,
         AscendingLines(s, lines), AllPrecede(s, Ids(lines), {e.id})
  PROVE  /\ AscendingLines(s, Append(lines, e))
         /\ Ids(Append(lines, e)) = Ids(lines) \cup {e.id}
<1> DEFINE t == Append(lines, e)
<1>1. /\ DOMAIN lines = 1..Len(lines) /\ Len(lines) \in Nat
      /\ DOMAIN t = 1..(Len(lines) + 1) /\ t[Len(lines) + 1] = e
      /\ \A i \in 1..Len(lines) : t[i] = lines[i]
  BY AppendFacts
<1>2. \A i \in 1..Len(lines) : Precedes(s, lines[i].id, e.id)
  BY <1>1 DEF AllPrecede, Ids
<1> HIDE DEF t
<1>3. ASSUME NEW i \in 1..(Len(lines) + 1), NEW j \in 1..(Len(lines) + 1), i < j
      PROVE  Precedes(s, t[i].id, t[j].id)
  <2>1. i \in 1..Len(lines)
    BY <1>1, <1>3
  <2>2. CASE j \in 1..Len(lines)
    BY <1>1, <1>3, <2>1, <2>2 DEF AscendingLines
  <2>3. CASE j = Len(lines) + 1
    BY <1>1, <1>2, <2>1, <2>3
  <2> QED
    BY <1>1, <2>2, <2>3
<1>4. AscendingLines(s, t)
  BY <1>1, <1>3 DEF AscendingLines
<1>5. Ids(t) = Ids(lines) \cup {e.id}
  BY <1>1 DEF Ids
<1> QED
  BY <1>4, <1>5 DEF t

(* The first of a list in order precedes the others.                        *)
LEMMA AscendingTail ==
  ASSUME NEW s, NEW S, NEW ids \in Seq(S), ids # <<>>, Ascending(s, ids)
  PROVE  /\ Ascending(s, Tail(ids))
         /\ AllPrecede(s, {Head(ids)}, ToSet(Tail(ids)))
<1> DEFINE t == Tail(ids)
<1>1. /\ DOMAIN ids = 1..Len(ids) /\ Len(ids) \in Nat \ {0}
      /\ Head(ids) = ids[1]
      /\ DOMAIN t = 1..(Len(ids) - 1)
      /\ \A i \in 1..(Len(ids) - 1) : t[i] = ids[i + 1]
  BY TailFacts
<1> HIDE DEF t
<1>2. \A i \in 1..(Len(ids) - 1) : i + 1 \in 1..Len(ids) /\ 1 < i + 1
  BY <1>1
<1>3. Ascending(s, t)
  BY <1>1, <1>2 DEF Ascending
<1>4. ASSUME NEW i \in 1..(Len(ids) - 1)
      PROVE  Precedes(s, ids[1], t[i])
  BY <1>1, <1>2 DEF Ascending
<1>5. AllPrecede(s, {Head(ids)}, ToSet(t))
  BY <1>1, <1>4 DEF AllPrecede, ToSet
<1> QED
  BY <1>3, <1>5 DEF t

(* The same of lines.                                                       *)
LEMMA AscendingTailLines ==
  ASSUME NEW s, NEW S, NEW lines \in Seq(S), lines # <<>>, AscendingLines(s, lines)
  PROVE  /\ AscendingLines(s, Tail(lines))
         /\ AllPrecede(s, {Head(lines).id}, Ids(Tail(lines)))
         /\ Ids(Tail(lines)) \subseteq Ids(lines)
         /\ Head(lines).id \in Ids(lines)
<1> DEFINE t == Tail(lines)
<1>1. /\ DOMAIN lines = 1..Len(lines) /\ Len(lines) \in Nat \ {0}
      /\ Head(lines) = lines[1]
      /\ DOMAIN t = 1..(Len(lines) - 1)
      /\ \A i \in 1..(Len(lines) - 1) : t[i] = lines[i + 1]
  BY TailFacts
<1> HIDE DEF t
<1>2. \A i \in 1..(Len(lines) - 1) : i + 1 \in 1..Len(lines) /\ 1 < i + 1
  BY <1>1
<1>3. AscendingLines(s, t)
  <2> SUFFICES ASSUME NEW i \in DOMAIN t, NEW j \in DOMAIN t, i < j
               PROVE  Precedes(s, t[i].id, t[j].id)
    BY DEF AscendingLines
  <2>1. i + 1 \in DOMAIN lines /\ j + 1 \in DOMAIN lines /\ i + 1 < j + 1
    BY <1>1
  <2>2. Precedes(s, lines[i + 1].id, lines[j + 1].id)
    BY <2>1 DEF AscendingLines
  <2> QED
    BY <1>1, <2>2
<1>4. ASSUME NEW i \in 1..(Len(lines) - 1)
      PROVE  Precedes(s, lines[1].id, t[i].id)
  BY <1>1, <1>2 DEF AscendingLines
<1>5. AllPrecede(s, {Head(lines).id}, Ids(t))
  BY <1>1, <1>4 DEF AllPrecede, Ids
<1>6. \A i \in 1..Len(lines) : lines[i].id \in Ids(lines)
  BY <1>1 DEF Ids
<1>7. \A i \in 1..(Len(lines) - 1) : t[i].id \in Ids(lines)
  BY <1>1, <1>2, <1>6
<1>8. Ids(t) \subseteq Ids(lines)
  BY <1>1, <1>7 DEF Ids
<1>9. lines[1].id \in Ids(lines)
  BY <1>1, <1>6
<1> QED
  BY <1>1, <1>3, <1>5, <1>8, <1>9 DEF t

(* The pending commands among the lines of the file.                        *)
LEMMA PendingFacts ==
  ASSUME NEW lines \in Seq(Entry)
  PROVE  /\ PendingIn(lines) \subseteq Ids(lines)
         /\ \A c \in Commands :
              PendingIn(Append(lines, [id |-> c, status |-> "pending"]))
                = PendingIn(lines) \cup {c}
         /\ lines # <<>> =>
              PendingIn(lines) = PendingIn(Tail(lines))
                \cup (IF Head(lines).status = "pending" THEN {Head(lines).id} ELSE {})
<1>1. PendingIn(lines) \subseteq Ids(lines)
  BY DEF PendingIn, Ids, ToSet
<1>2. ASSUME NEW c \in Commands
      PROVE  PendingIn(Append(lines, [id |-> c, status |-> "pending"]))
                = PendingIn(lines) \cup {c}
  <2> DEFINE e == [id |-> c, status |-> "pending"]
  <2>1. e \in Entry
    BY DEF Entry, Statuses
  <2>2. ToSet(Append(lines, e)) = ToSet(lines) \cup {e}
    BY <2>1, AppendFacts
  <2>3. e.id = c /\ e.status = "pending"
    OBVIOUS
  <2> HIDE DEF e
  <2>4. PendingIn(Append(lines, e)) = PendingIn(lines) \cup {c}
    BY <2>2, <2>3 DEF PendingIn
  <2> QED
    BY <2>4 DEF e
<1>3. ASSUME lines # <<>>
      PROVE  PendingIn(lines) = PendingIn(Tail(lines))
                \cup (IF Head(lines).status = "pending" THEN {Head(lines).id} ELSE {})
  <2>1. ToSet(lines) = {Head(lines)} \cup ToSet(Tail(lines))
    BY <1>3, TailFacts
  <2> QED
    BY <2>1 DEF PendingIn
<1> QED
  BY <1>1, <1>2, <1>3

(* What update_status makes of the lines it read.                           *)
Marked(lines, c, v) ==
  [i \in DOMAIN lines |->
     IF lines[i].id = c THEN [lines[i] EXCEPT !.status = v] ELSE lines[i]]

(* Marking a command changes its status, and no order.                      *)
LEMMA MarkedFacts ==
  ASSUME NEW lines \in Seq(Entry), NEW c \in Commands, NEW v \in Statuses, v # "pending"
  PROVE  /\ Marked(lines, c, v) \in Seq(Entry)
         /\ Ids(Marked(lines, c, v)) = Ids(lines)
         /\ PendingIn(Marked(lines, c, v)) = PendingIn(lines) \ {c}
         /\ \A s : AscendingLines(s, lines) => AscendingLines(s, Marked(lines, c, v))
         /\ \A e \in ToSet(Marked(lines, c, v)) :
              e \in ToSet(lines) \/ e = [id |-> c, status |-> v]
<1> DEFINE t == Marked(lines, c, v)
<1>1. \A i \in DOMAIN lines : lines[i] \in Entry
  OBVIOUS
<1>2. ASSUME NEW e \in Entry
      PROVE  /\ e.id = c => [e EXCEPT !.status = v] = [id |-> c, status |-> v]
  BY DEF Entry
<1>3. [id |-> c, status |-> v] \in Entry
  BY DEF Entry
<1>4. /\ DOMAIN t = DOMAIN lines
      /\ \A i \in DOMAIN lines :
           /\ lines[i].id = c => t[i] = [id |-> c, status |-> v]
           /\ lines[i].id # c => t[i] = lines[i]
  BY <1>1, <1>2 DEF Marked
<1>5. t \in [DOMAIN lines -> Entry]
  BY <1>1, <1>2, <1>3 DEF Marked
<1> HIDE DEF t
<1>6. t \in Seq(Entry)
  BY <1>5, MappedSeq
<1>7. \A i \in DOMAIN lines : t[i].id = lines[i].id
  BY <1>4
<1>8. Ids(t) = Ids(lines)
  BY <1>4, <1>7 DEF Ids
<1>9. \A s : AscendingLines(s, lines) => AscendingLines(s, t)
  BY <1>4, <1>7 DEF AscendingLines
<1>10. \A e \in ToSet(t) : e \in ToSet(lines) \/ e = [id |-> c, status |-> v]
  BY <1>4 DEF ToSet
<1>11. ASSUME NEW x
       PROVE  x \in PendingIn(t) <=> x \in PendingIn(lines) \ {c}
  <2>1. ASSUME x \in PendingIn(t)
        PROVE  x \in PendingIn(lines) \ {c}
    <3>1. PICK i \in DOMAIN t : t[i].status = "pending" /\ t[i].id = x
      BY <2>1 DEF PendingIn, ToSet
    <3>2. lines[i].id # c /\ t[i] = lines[i]
      BY <1>4, <3>1
    <3> QED
      BY <1>4, <3>1, <3>2 DEF PendingIn, ToSet
  <2>2. ASSUME x \in PendingIn(lines) \ {c}
        PROVE  x \in PendingIn(t)
    <3>1. PICK i \in DOMAIN lines : lines[i].status = "pending" /\ lines[i].id = x
      BY <2>2 DEF PendingIn, ToSet
    <3>2. t[i] = lines[i]
      BY <1>4, <2>2, <3>1
    <3> QED
      BY <1>4, <3>1, <3>2 DEF PendingIn, ToSet
  <2> QED
    BY <2>1, <2>2
<1>12. PendingIn(t) = PendingIn(lines) \ {c}
  BY <1>11
<1> QED
  BY <1>6, <1>8, <1>9, <1>10, <1>12 DEF t
-----------------------------------------------------------------------------
(* The inductive invariant                                                  *)

(* Whatever the agent and the files hold was submitted, in that order.      *)
OrderInv ==
  /\ NoRepeats(submitted)
  /\ Ids(file) \subseteq ToSet(submitted)
  /\ Ids(scan) \subseteq ToSet(submitted)
  /\ Ids(copy) \subseteq ToSet(submitted)
  /\ Ids(log) \subseteq ToSet(submitted)
  /\ ToSet(batch) \subseteq ToSet(submitted)
  /\ Busy => cmd \in ToSet(submitted)
  /\ AscendingLines(submitted, file)
  /\ AscendingLines(submitted, scan)
  /\ AscendingLines(submitted, copy)
  /\ AscendingLines(submitted, log)
  /\ Ascending(submitted, batch)

(* The batch comes before what is still to be read, and the command that is *)
(* marked as in process before all of the batch.                            *)
HandInv ==
  /\ AllPrecede(submitted, ToSet(batch), PendingIn(scan))
  /\ Busy /\ verdict = "processing" =>
       scan = <<>> /\ AllPrecede(submitted, {cmd}, ToSet(batch))

(* What ran comes before all that may still run.                            *)
LogInv ==
  /\ AllPrecede(submitted, Ids(log), PendingIn(file))
  /\ AllPrecede(submitted, Ids(log), PendingIn(scan))
  /\ AllPrecede(submitted, Ids(log), ToSet(batch))
  /\ pc \in {"truncate", "write"} => AllPrecede(submitted, Ids(log), PendingIn(copy))
  /\ Busy /\ verdict = "processing" => AllPrecede(submitted, Ids(log), {cmd})

(* A pending line is in the agent's hand or comes after all that is.        *)
Hand == PendingIn(scan) \cup ToSet(batch) \cup (IF Updating THEN {cmd} ELSE {})
Ahead(lines) ==
  \A x \in PendingIn(lines) : x \in Hand \/ AllPrecede(submitted, Hand, {x})
AheadInv ==
  /\ Ahead(file)
  /\ pc \in {"truncate", "write"} => Ahead(copy) /\ cmd \notin PendingIn(copy)
  /\ pc = "execute" => AllPrecede(submitted, {cmd}, PendingIn(file))

(* A settled line has its verdict from the log, or was refused unread.      *)
IsSettled(c, v) ==
  [id |-> c, verdict |-> v] \in ToSet(log) \/ (v = "rejected" /\ c \in Unsigned)
SettledAreTrue(lines) ==
  \A e \in ToSet(lines) : e.status \in {"done", "rejected"} => IsSettled(e.id, e.status)
TruthInv ==
  /\ SettledAreTrue(file)
  /\ pc \in {"truncate", "write"} => SettledAreTrue(copy)
  /\ Busy /\ verdict \in {"done", "rejected"} => IsSettled(cmd, verdict)
  /\ ToSet(batch) \cap Unsigned = {}
  /\ Busy /\ verdict = "processing" => cmd \notin Unsigned

(* The dashboard's requests are submitted commands, and the config file     *)
(* holds the limit of one of them.                                          *)
SavedCaps == {Request[c].cap : c \in {c \in ToSet(submitted) : SavesToo(c)}}
AuthorInv ==
  /\ saving \subseteq {c \in ToSet(submitted) : SavesToo(c)}
  /\ {w.id : w \in writing} \subseteq {c \in ToSet(submitted) : SavesToo(c)}
  /\ disk \in {Torn, Ruined, DefaultCap} \cup SavedCaps
  /\ LimitHasAnAuthor

QueueInv == OrderInv /\ HandInv /\ LogInv /\ AheadInv
-----------------------------------------------------------------------------
(* Every step keeps the order                                               *)

(* A command that is submitted comes after all others.                      *)
LEMMA EnqueueKeepsOrder ==
  ASSUME TypeOK, QueueInv, NEW c \in Commands, enqueue(c)
  PROVE  QueueInv'
<1> DEFINE e == [id |-> c, status |-> "pending"]
<1>1. /\ c \notin ToSet(submitted) /\ submitted' = Append(submitted, c)
      /\ file' = Append(file, e)
      /\ scan' = scan /\ copy' = copy /\ log' = log /\ batch' = batch
      /\ pc' = pc /\ cmd' = cmd /\ verdict' = verdict
  BY DEF enqueue, agent
<1>2. /\ submitted \in Seq(Commands) /\ file \in Seq(Entry) /\ e \in Entry /\ e.id = c
  BY DEF TypeOK, FilesTypeOK, Entry, Statuses
<1>3. /\ NoRepeats(submitted')
      /\ \A a, b : Precedes(submitted, a, b) => Precedes(submitted', a, b)
      /\ \A a \in ToSet(submitted) : Precedes(submitted', a, c)
  BY <1>1, <1>2, Submitting DEF QueueInv, OrderInv
<1>4. ToSet(submitted') = ToSet(submitted) \cup {c}
  BY <1>1, <1>2, AppendFacts
<1>5. \A A, B : AllPrecede(submitted, A, B) => AllPrecede(submitted', A, B)
  BY <1>3 DEF AllPrecede
<1>6. \A l : AscendingLines(submitted, l) => AscendingLines(submitted', l)
  BY <1>3 DEF AscendingLines
<1>7. \A l : Ascending(submitted, l) => Ascending(submitted', l)
  BY <1>3 DEF Ascending
<1>8. \A A : A \subseteq ToSet(submitted) => AllPrecede(submitted', A, {c})
  BY <1>3 DEF AllPrecede
<1>9. PendingIn(file') = PendingIn(file) \cup {c}
  BY <1>1, <1>2, PendingFacts
<1>10. /\ PendingIn(scan) \subseteq ToSet(submitted) /\ PendingIn(file) \subseteq ToSet(submitted)
  BY PendingFacts DEF QueueInv, OrderInv, TypeOK, FilesTypeOK
<1> HIDE DEF e
<1>11. AscendingLines(submitted', file') /\ Ids(file') = Ids(file) \cup {c}
  <2>1. AllPrecede(submitted', Ids(file), {e.id}) /\ AscendingLines(submitted', file)
    BY <1>2, <1>6, <1>8 DEF QueueInv, OrderInv
  <2>2. /\ AscendingLines(submitted', Append(file, e))
        /\ Ids(Append(file, e)) = Ids(file) \cup {e.id}
    <3> DEFINE t == submitted'
    <3>1. AllPrecede(t, Ids(file), {e.id}) /\ AscendingLines(t, file)
      BY <2>1
    <3> HIDE DEF t
    <3>2. /\ AscendingLines(t, Append(file, e))
          /\ Ids(Append(file, e)) = Ids(file) \cup {e.id}
      BY <1>2, <3>1, AscendingAppendLine
    <3> QED
      BY <3>2 DEF t
  <2> QED
    BY <1>1, <1>2, <2>2
<1>12. OrderInv'
  BY <1>1, <1>3, <1>4, <1>6, <1>7, <1>11 DEF QueueInv, OrderInv, Busy, Updating
<1>13. HandInv'
  BY <1>1, <1>5 DEF QueueInv, HandInv, Busy, Updating
<1>14. \A A, B : AllPrecede(submitted', A, B) /\ AllPrecede(submitted', A, {c})
                   => AllPrecede(submitted', A, B \cup {c})
  BY DEF AllPrecede
<1>15. LogInv'
  <2>1. AllPrecede(submitted', Ids(log), PendingIn(file) \cup {c})
    BY <1>5, <1>8, <1>14 DEF QueueInv, OrderInv, LogInv
  <2> QED
    BY <1>1, <1>5, <1>9, <2>1 DEF QueueInv, LogInv, Busy, Updating
<1>16. AheadInv'
  <2>1. Hand' = Hand /\ Hand \subseteq ToSet(submitted)
    BY <1>1, <1>10 DEF QueueInv, OrderInv, Hand, Updating, Busy
  <2>2. AllPrecede(submitted', Hand, {c})
    BY <1>8, <2>1
  <2>3. Ahead(file)'
    BY <1>5, <1>9, <2>1, <2>2 DEF QueueInv, AheadInv, Ahead
  <2>4. Ahead(copy) => Ahead(copy)'
    BY <1>1, <1>5, <2>1 DEF Ahead
  <2>5. pc = "execute" => AllPrecede(submitted', {cmd}, PendingIn(file'))
    <3> SUFFICES ASSUME pc = "execute"
                 PROVE  AllPrecede(submitted', {cmd}, PendingIn(file) \cup {c})
      BY <1>9
    <3>1. cmd \in ToSet(submitted)
      BY DEF QueueInv, OrderInv, Busy
    <3>2. AllPrecede(submitted', {cmd}, {c})
      BY <1>8, <3>1
    <3>3. AllPrecede(submitted', {cmd}, PendingIn(file))
      BY <1>5 DEF QueueInv, AheadInv
    <3> QED
      BY <1>14, <3>2, <3>3
  <2> QED
    BY <1>1, <2>3, <2>4, <2>5 DEF QueueInv, AheadInv
<1> QED
  BY <1>12, <1>13, <1>15, <1>16 DEF QueueInv

(* Steps that leave the agent with nothing in hand.                         *)
LEMMA RestKeepsOrder ==
  ASSUME QueueInv, UNCHANGED <<file, submitted, log>>,
         scan' = <<>>, batch' = <<>>, copy' \in {copy, <<>>},
         pc' \in {"down", "idle"}
  PROVE  QueueInv'
<1>1. /\ Ids(scan') = {} /\ PendingIn(scan') = {} /\ AscendingLines(submitted', scan')
      /\ ToSet(batch') = {} /\ Ascending(submitted', batch')
  BY AscendingEmpty
<1>2. Ids(copy') \subseteq ToSet(submitted') /\ AscendingLines(submitted', copy')
  BY AscendingEmpty DEF QueueInv, OrderInv
<1>3. OrderInv'
  BY <1>1, <1>2 DEF QueueInv, OrderInv, Busy, Updating
<1>4. HandInv' /\ LogInv'
  BY <1>1 DEF QueueInv, HandInv, LogInv, Busy, Updating, AllPrecede
<1>5. Hand' = {}
  BY <1>1 DEF Hand, Updating
<1>6. AheadInv'
  BY <1>5 DEF AheadInv, Ahead, AllPrecede
<1> QED
  BY <1>3, <1>4, <1>6 DEF QueueInv

(* What is read of the file is in the file's order.                         *)
LEMMA ReadKeepsOrder ==
  ASSUME TypeOK, QueueInv, ReadPending
  PROVE  QueueInv'
<1>1. /\ pc = "idle" /\ pc' = "scan" /\ scan' = file
      /\ UNCHANGED <<file, batch, cmd, verdict, copy, submitted, log>>
  BY DEF ReadPending
<1>2. ToSet(batch') = {}
  BY <1>1, AscendingEmpty DEF TypeOK, AgentTypeOK
<1>3. OrderInv'
  BY <1>1 DEF QueueInv, OrderInv, Busy, Updating
<1>4. HandInv' /\ LogInv'
  BY <1>1, <1>2 DEF QueueInv, HandInv, LogInv, Busy, Updating, AllPrecede
<1>5. Hand' = PendingIn(file')
  BY <1>1, <1>2 DEF Hand, Updating
<1>6. AheadInv'
  BY <1>1, <1>5 DEF AheadInv, Ahead
<1> QED
  BY <1>3, <1>4, <1>6 DEF QueueInv
(* A line that is verified goes on into the batch or is rejected.           *)
LEMMA VerifyKeepsOrder ==
  ASSUME TypeOK, QueueInv, VerifyNext
  PROVE  QueueInv'
<1> DEFINE e == Head(scan)
<1>1. /\ pc = "scan" /\ scan # <<>> /\ scan' = Tail(scan)
      /\ UNCHANGED <<file, copy, submitted, log>>
  BY DEF VerifyNext
<1>2. \/ /\ e.status # "pending"
         /\ UNCHANGED <<batch, pc, cmd, verdict>>
      \/ /\ e.status = "pending"
         /\ cmd' = e.id /\ verdict' = "rejected" /\ pc' = "read" /\ batch' = batch
      \/ /\ e.status = "pending"
         /\ batch' = Append(batch, e.id)
         /\ UNCHANGED <<pc, cmd, verdict>>
  BY DEF VerifyNext, StartUpdate
<1>3. /\ e \in Entry /\ e.id \in Commands /\ scan \in Seq(Entry) /\ batch \in Seq(Commands)
      /\ Tail(scan) \in Seq(Entry)
  <2>1. scan \in Seq(Entry) /\ batch \in Seq(Commands)
    BY DEF TypeOK, FilesTypeOK, AgentTypeOK
  <2>2. e \in Entry /\ Tail(scan) \in Seq(Entry)
    BY <1>1, <2>1, TailFacts
  <2> HIDE DEF e
  <2>3. e.id \in Commands
    BY <2>2 DEF Entry
  <2> QED
    BY <2>1, <2>2, <2>3
<1>4. /\ AscendingLines(submitted, Tail(scan))
      /\ AllPrecede(submitted, {e.id}, Ids(Tail(scan)))
      /\ Ids(Tail(scan)) \subseteq Ids(scan)
      /\ e.id \in Ids(scan)
  BY <1>1, <1>3, AscendingTailLines DEF QueueInv, OrderInv
<1>5. /\ PendingIn(scan) = PendingIn(Tail(scan))
                             \cup (IF e.status = "pending" THEN {e.id} ELSE {})
      /\ PendingIn(Tail(scan)) \subseteq Ids(Tail(scan))
  BY <1>1, <1>3, PendingFacts
<1> HIDE DEF e
<1>6. OrderInv' /\ HandInv' /\ LogInv' /\ Hand' = Hand
  <2>1. CASE e.status # "pending" /\ UNCHANGED <<batch, pc, cmd, verdict>>
    <3>1. PendingIn(scan') = PendingIn(scan)
      BY <1>1, <1>5, <2>1
    <3>2. OrderInv'
      BY <1>1, <1>4, <2>1 DEF QueueInv, OrderInv, Busy, Updating
    <3>3. HandInv' /\ LogInv' /\ Hand' = Hand
      BY <1>1, <2>1, <3>1 DEF QueueInv, HandInv, LogInv, Hand, Busy, Updating
    <3> QED
      BY <3>2, <3>3
  <2>2. CASE /\ e.status = "pending"
             /\ cmd' = e.id /\ verdict' = "rejected" /\ pc' = "read" /\ batch' = batch
    <3>1. PendingIn(scan) = PendingIn(scan') \cup {e.id}
      BY <1>1, <1>5, <2>2
    <3>2. OrderInv'
      BY <1>1, <1>4, <2>2 DEF QueueInv, OrderInv, Busy, Updating
    <3>3. HandInv' /\ LogInv'
      BY <1>1, <2>2, <3>1 DEF QueueInv, HandInv, LogInv, Busy, Updating, AllPrecede
    <3>4. Hand' = Hand
      BY <1>1, <2>2, <3>1 DEF Hand, Updating
    <3> QED
      BY <3>2, <3>3, <3>4
  <2>3. CASE /\ e.status = "pending"
             /\ batch' = Append(batch, e.id)
             /\ UNCHANGED <<pc, cmd, verdict>>
    <3>1. PendingIn(scan) = PendingIn(scan') \cup {e.id}
      BY <1>1, <1>5, <2>3
    <3>2. ToSet(batch') = ToSet(batch) \cup {e.id}
      BY <1>3, <2>3, AppendFacts
    <3>3. AllPrecede(submitted, ToSet(batch), {e.id})
      BY <3>1 DEF QueueInv, HandInv, AllPrecede
    <3>4. Ascending(submitted, Append(batch, e.id))
      BY <1>3, <3>3, AscendingAppend DEF QueueInv, OrderInv
    <3>5. OrderInv'
      BY <1>1, <1>4, <2>3, <3>2, <3>4 DEF QueueInv, OrderInv, Busy, Updating
    <3>6. AllPrecede(submitted, ToSet(batch'), PendingIn(scan'))
      BY <1>1, <1>4, <1>5, <3>1, <3>2 DEF QueueInv, HandInv, AllPrecede
    <3>7. HandInv'
      BY <1>1, <2>3, <3>6 DEF HandInv, Busy, Updating
    <3>8. LogInv'
      BY <1>1, <2>3, <3>1, <3>2 DEF QueueInv, LogInv, Busy, Updating, AllPrecede
    <3>9. Hand' = Hand
      BY <1>1, <2>3, <3>1, <3>2 DEF Hand, Updating
    <3> QED
      BY <3>5, <3>7, <3>8, <3>9
  <2> QED
    BY <1>2, <2>1, <2>2, <2>3
<1>7. pc \notin {"truncate", "write", "execute"} /\ pc' \notin {"truncate", "write", "execute"}
  BY <1>1, <1>2
<1>8. AheadInv'
  BY <1>1, <1>6, <1>7 DEF QueueInv, AheadInv, Ahead
<1> QED
  BY <1>6, <1>8 DEF QueueInv

(* The command that is taken is the first of the batch.                     *)
LEMMA TakeKeepsOrder ==
  ASSUME TypeOK, QueueInv, TakeNext
  PROVE  QueueInv'
<1> DEFINE c == Head(batch)
<1>1. /\ pc = "scan" /\ scan = <<>> /\ batch # <<>> /\ batch' = Tail(batch)
      /\ cmd' = c /\ verdict' = "processing" /\ pc' = "read"
      /\ UNCHANGED <<file, scan, copy, submitted, log>>
  BY DEF TakeNext, StartUpdate
<1>2. ToSet(batch) = {c} \cup ToSet(batch')
  BY <1>1, TailFacts DEF TypeOK, AgentTypeOK
<1>3. /\ Ascending(submitted, batch')
      /\ AllPrecede(submitted, {c}, ToSet(batch'))
  BY <1>1, AscendingTail DEF QueueInv, OrderInv, TypeOK, AgentTypeOK
<1> HIDE DEF c
<1>4. OrderInv'
  BY <1>1, <1>2, <1>3 DEF QueueInv, OrderInv, Busy, Updating
<1>5. HandInv'
  BY <1>1, <1>2, <1>3 DEF QueueInv, HandInv, AllPrecede
<1>6. LogInv'
  BY <1>1, <1>2 DEF QueueInv, LogInv, AllPrecede
<1>7. Hand' = Hand
  BY <1>1, <1>2 DEF Hand, Updating
<1>8. AheadInv'
  BY <1>1, <1>7 DEF QueueInv, AheadInv, Ahead
<1> QED
  BY <1>4, <1>5, <1>6, <1>8 DEF QueueInv

(* The copy is in the file's order.                                         *)
LEMMA UpdateReadKeepsOrder ==
  ASSUME TypeOK, QueueInv, UpdateRead
  PROVE  QueueInv'
<1>1. /\ pc = "read" /\ pc' = "truncate" /\ copy' = Marked(file, cmd, verdict)
      /\ UNCHANGED <<file, scan, batch, cmd, verdict, submitted, log>>
  BY DEF UpdateRead, Marked
<1>2. /\ file \in Seq(Entry) /\ cmd \in Commands /\ verdict \in Statuses \ {"pending"}
  BY <1>1 DEF TypeOK, FilesTypeOK, AgentTypeOK, Busy, Updating
<1>3. /\ Ids(copy') = Ids(file)
      /\ PendingIn(copy') = PendingIn(file) \ {cmd}
      /\ AscendingLines(submitted, file) => AscendingLines(submitted, copy')
  BY <1>1, <1>2, MarkedFacts
<1>4. OrderInv'
  BY <1>1, <1>3 DEF QueueInv, OrderInv, Busy, Updating
<1>5. HandInv'
  BY <1>1 DEF QueueInv, HandInv, Busy, Updating
<1>6. LogInv'
  BY <1>1, <1>3 DEF QueueInv, LogInv, Busy, Updating, AllPrecede
<1>7. Hand' = Hand
  BY <1>1 DEF Hand, Updating
<1>8. AheadInv'
  BY <1>1, <1>3, <1>7 DEF QueueInv, AheadInv, Ahead
<1> QED
  BY <1>4, <1>5, <1>6, <1>8 DEF QueueInv

(* A truncated file is in order.                                            *)
LEMMA TruncateKeepsOrder ==
  ASSUME TypeOK, QueueInv, UpdateTruncate
  PROVE  QueueInv'
<1>1. /\ pc = "truncate" /\ pc' = "write" /\ file' = <<>>
      /\ UNCHANGED <<scan, batch, cmd, verdict, copy, submitted, log>>
  BY DEF UpdateTruncate
<1>2. Ids(file') = {} /\ PendingIn(file') = {} /\ AscendingLines(submitted, file')
  BY <1>1, AscendingEmpty
<1>3. OrderInv'
  BY <1>1, <1>2 DEF QueueInv, OrderInv, Busy, Updating
<1>4. HandInv'
  BY <1>1 DEF QueueInv, HandInv, Busy, Updating
<1>5. LogInv'
  BY <1>1, <1>2 DEF QueueInv, LogInv, Busy, Updating, AllPrecede
<1>6. Hand' = Hand
  BY <1>1 DEF Hand, Updating
<1>7. AheadInv'
  BY <1>1, <1>2, <1>6 DEF QueueInv, AheadInv, Ahead
<1> QED
  BY <1>3, <1>4, <1>5, <1>7 DEF QueueInv

(* The copy that is written back is in order.                               *)
LEMMA WriteKeepsOrder ==
  ASSUME TypeOK, QueueInv, UpdateWrite
  PROVE  QueueInv'
<1>1. /\ pc = "write" /\ file' = copy
      /\ pc' = (IF verdict = "processing" THEN "execute" ELSE "scan")
      /\ UNCHANGED <<scan, batch, cmd, verdict, copy, submitted, log>>
  BY DEF UpdateWrite
<1>2. OrderInv'
  BY <1>1 DEF QueueInv, OrderInv, Busy, Updating
<1>3. HandInv'
  BY <1>1 DEF QueueInv, HandInv, Busy, Updating
<1>4. LogInv'
  BY <1>1 DEF QueueInv, LogInv, Busy, Updating, AllPrecede
<1>5. /\ Hand' = PendingIn(scan) \cup ToSet(batch)
      /\ Hand = PendingIn(scan) \cup ToSet(batch) \cup {cmd}
  BY <1>1 DEF Hand, Updating
<1>6. Ahead(copy) /\ cmd \notin PendingIn(copy)
  BY <1>1 DEF QueueInv, AheadInv
<1>7. Ahead(file)'
  BY <1>1, <1>5, <1>6 DEF Ahead, AllPrecede
<1>8. ASSUME verdict = "processing"
      PROVE  AllPrecede(submitted, {cmd}, PendingIn(copy))
  <2>1. PendingIn(scan) = {} /\ AllPrecede(submitted, {cmd}, ToSet(batch))
    BY <1>1, <1>8, AscendingEmpty DEF QueueInv, HandInv, Busy, Updating
  <2> QED
    BY <1>5, <1>6, <2>1 DEF Ahead, AllPrecede
<1>9. AheadInv'
  BY <1>1, <1>7, <1>8 DEF AheadInv
<1> QED
  BY <1>2, <1>3, <1>4, <1>9 DEF QueueInv

(* What runs comes after all that ran and before all that may.              *)
LEMMA ExecuteKeepsOrder ==
  ASSUME TypeOK, QueueInv, Execute
  PROVE  QueueInv'
<1>1. PICK v \in {"done", "rejected"} :
        /\ cmd' = cmd /\ verdict' = v /\ pc' = "read"
        /\ log' = Append(log, [id |-> cmd, verdict |-> v])
  BY DEF Execute, StartUpdate
<1> DEFINE e == [id |-> cmd, verdict |-> v]
<1>2. pc = "execute" /\ UNCHANGED <<file, scan, batch, copy, submitted>>
  BY DEF Execute
<1>3. /\ verdict = "processing" /\ cmd \in ToSet(submitted) /\ log \in Seq(Outcomes)
      /\ e \in Outcomes /\ e.id = cmd
  BY <1>2 DEF QueueInv, OrderInv, TypeOK, FilesTypeOK, AgentTypeOK, Busy, Outcomes
<1>4. /\ scan = <<>> /\ AllPrecede(submitted, {cmd}, ToSet(batch))
      /\ AllPrecede(submitted, Ids(log), {cmd})
      /\ AllPrecede(submitted, {cmd}, PendingIn(file))
      /\ PendingIn(scan) = {}
  BY <1>2, <1>3, AscendingEmpty DEF QueueInv, HandInv, LogInv, AheadInv, Busy
<1>5. /\ AscendingLines(submitted, Append(log, e))
      /\ Ids(Append(log, e)) = Ids(log) \cup {e.id}
  <2>1. AscendingLines(submitted, log) /\ AllPrecede(submitted, Ids(log), {e.id})
    BY <1>3, <1>4 DEF QueueInv, OrderInv
  <2> HIDE DEF e
  <2> QED
    BY <1>3, <2>1, AscendingAppendLine
<1>6. AscendingLines(submitted, log') /\ Ids(log') = Ids(log) \cup {cmd}
  BY <1>1, <1>5
<1>7. OrderInv'
  BY <1>1, <1>2, <1>3, <1>6 DEF QueueInv, OrderInv
<1>8. HandInv'
  BY <1>1, <1>2 DEF QueueInv, HandInv
<1>9. LogInv'
  BY <1>1, <1>2, <1>4, <1>6 DEF QueueInv, LogInv, AllPrecede
<1>10. Hand = ToSet(batch) /\ Hand' = ToSet(batch) \cup {cmd}
  BY <1>1, <1>2, <1>4 DEF Hand, Updating
<1>11. AheadInv'
  BY <1>1, <1>2, <1>4, <1>10 DEF QueueInv, AheadInv, Ahead, AllPrecede
<1> QED
  BY <1>7, <1>8, <1>9, <1>11 DEF QueueInv

(* Other steps change nothing of it.                                        *)
LEMMA QuietKeepsOrder ==
  ASSUME QueueInv,
         UNCHANGED <<file, scan, batch, copy, submitted, log, pc, cmd, verdict>>
  PROVE  QueueInv'
BY DEF QueueInv, OrderInv, HandInv, LogInv, AheadInv, Ahead, Hand, Busy, Updating
(* There are no commands at first.                                          *)
LEMMA InitOrder == Init => QueueInv
<1> SUFFICES ASSUME Init
             PROVE  QueueInv
  OBVIOUS
<1>1. /\ file = <<>> /\ scan = <<>> /\ copy = <<>> /\ batch = <<>> /\ log = <<>>
      /\ submitted = <<>> /\ pc = "down"
  BY DEF Init
<1>2. /\ Ids(file) = {} /\ PendingIn(file) = {} /\ AscendingLines(submitted, file)
      /\ ToSet(batch) = {} /\ Ascending(submitted, batch)
  BY <1>1, AscendingEmpty
<1>3. NoRepeats(submitted)
  BY <1>1 DEF NoRepeats
<1>4. OrderInv
  BY <1>1, <1>2, <1>3 DEF OrderInv, Busy, Updating
<1>5. HandInv /\ LogInv
  BY <1>1, <1>2 DEF HandInv, LogInv, AllPrecede, Busy, Updating
<1>6. AheadInv
  BY <1>1, <1>2 DEF AheadInv, Ahead
<1> QED
  BY <1>4, <1>5, <1>6 DEF QueueInv

(* Every step keeps the order.                                              *)
LEMMA NextKeepsOrder == TypeOK /\ QueueInv /\ [Next]_vars => QueueInv'
<1> SUFFICES ASSUME TypeOK, QueueInv, [Next]_vars
             PROVE  QueueInv'
  OBVIOUS
<1>1. ASSUME NEW c \in Commands, OpenConfig(c)
      PROVE  QueueInv'
  BY <1>1, QuietKeepsOrder DEF OpenConfig, agent
<1>2. ASSUME NEW w \in writing, SaveConfig(w)
      PROVE  QueueInv'
  BY <1>2, QuietKeepsOrder DEF SaveConfig, agent
<1>3. CASE UNCHANGED vars
  BY <1>3, QuietKeepsOrder DEF vars, agent
<1>4. CASE EndTick
  BY <1>4, RestKeepsOrder DEF EndTick
<1>5. CASE Start
  BY <1>5, RestKeepsOrder DEF Start, TypeOK, AgentTypeOK
<1>6. CASE Crash
  BY <1>6, RestKeepsOrder DEF Crash
<1> QED
  BY <1>1, <1>2, <1>3, <1>4, <1>5, <1>6, EnqueueKeepsOrder, ReadKeepsOrder,
     VerifyKeepsOrder, TakeKeepsOrder, UpdateReadKeepsOrder, TruncateKeepsOrder,
     WriteKeepsOrder, ExecuteKeepsOrder DEF Next, Tick

(* It always holds.                                                         *)
LEMMA QueueOrdered == Spec => [](TypeOK /\ QueueInv)
<1>1. Init => TypeOK /\ QueueInv
  BY InitTypeOK, InitOrder
<1>2. TypeOK /\ QueueInv /\ [Next]_vars => TypeOK' /\ QueueInv'
  BY NextKeepsOrder, NextKeepsTypes
<1> QED
  BY <1>1, <1>2, PTL DEF Spec

(* Commands take effect in the order they were submitted and each at most   *)
(* once: what ran precedes everything that is still pending anywhere, in    *)
(* the file, among the lines being read, in the batch or in the copy about  *)
(* to be written back.                                                      *)
THEOREM EffectsInOrder == Spec => []InOrder
<1>1. ASSUME TypeOK, QueueInv
      PROVE  InOrder
  <2>1. submitted \in Seq(Commands) /\ NoRepeats(submitted)
    BY <1>1 DEF TypeOK, FilesTypeOK, QueueInv, OrderInv
  <2>2. ASSUME NEW i \in DOMAIN log, NEW j \in DOMAIN log
        PROVE  /\ log[i].id \in ToSet(submitted)
               /\ i < j => /\ log[i].id # log[j].id
                           /\ Before(log[i].id, log[j].id)
    <3>1. log[i].id \in ToSet(submitted)
      BY <1>1 DEF QueueInv, OrderInv, Ids
    <3>2. ASSUME i < j
          PROVE  Precedes(submitted, log[i].id, log[j].id)
      BY <1>1, <3>2 DEF QueueInv, OrderInv, AscendingLines
    <3>3. ASSUME i < j
          PROVE  log[i].id # log[j].id
      BY <2>1, <3>2, <3>3, NothingPrecedesItself
    <3>4. \A c, d : Before(c, d) <=> Precedes(submitted, c, d)
      BY DEF Before, Precedes
    <3> QED
      BY <3>1, <3>2, <3>3, <3>4
  <2> QED
    BY <2>2 DEF InOrder
<1> QED
  BY <1>1, QueueOrdered, PTL
-----------------------------------------------------------------------------
(* The file is true and the limit has an author                             *)

(* Nothing is taken from what was submitted or ran.                         *)
LEMMA HistoryGrows ==
  ASSUME TypeOK, [Next]_vars
  PROVE  /\ ToSet(submitted) \subseteq ToSet(submitted')
         /\ ToSet(log) \subseteq ToSet(log')
<1>1. ASSUME NEW c \in Commands, enqueue(c)
      PROVE  ToSet(submitted) \subseteq ToSet(submitted') /\ log' = log
  <2>1. submitted' = Append(submitted, c) /\ log' = log
    BY <1>1 DEF enqueue
  <2>2. ToSet(submitted') = ToSet(submitted) \cup {c}
    BY <2>1, AppendFacts DEF TypeOK, FilesTypeOK
  <2> QED
    BY <2>1, <2>2
<1>2. ASSUME Execute
      PROVE  submitted' = submitted /\ ToSet(log) \subseteq ToSet(log')
  <2>1. PICK v \in {"done", "rejected"} : log' = Append(log, [id |-> cmd, verdict |-> v])
    BY <1>2 DEF Execute
  <2>2. cmd \in Commands /\ log \in Seq(Outcomes)
    BY <1>2 DEF Execute, TypeOK, FilesTypeOK, AgentTypeOK, Busy
  <2>3. [id |-> cmd, verdict |-> v] \in Outcomes
    BY <2>2 DEF Outcomes
  <2>4. ToSet(log') = ToSet(log) \cup {[id |-> cmd, verdict |-> v]}
    BY <2>1, <2>2, <2>3, AppendFacts
  <2> QED
    BY <1>2, <2>4 DEF Execute
<1>3. ASSUME \/ UNCHANGED vars
             \/ \E c \in Commands : OpenConfig(c)
             \/ \E w \in writing : SaveConfig(w)
             \/ ReadPending \/ VerifyNext \/ TakeNext \/ EndTick
             \/ UpdateRead \/ UpdateTruncate \/ UpdateWrite \/ Start \/ Crash
      PROVE  submitted' = submitted /\ log' = log
  BY <1>3 DEF vars, OpenConfig, SaveConfig, ReadPending, VerifyNext, TakeNext, EndTick,
              UpdateRead, UpdateTruncate, UpdateWrite, Start, Crash
<1> QED
  BY <1>1, <1>2, <1>3 DEF Next, Tick

(* Steps that rewrite no line and leave the command in hand to its verdict. *)
LEMMA TruthStands ==
  ASSUME TypeOK, TruthInv, [Next]_vars,
         \/ file' = file
         \/ \E c \in Commands : file' = Append(file, [id |-> c, status |-> "pending"]),
         copy' = copy \/ pc' \notin {"truncate", "write"},
         ToSet(batch') \subseteq ToSet(batch),
         \/ UNCHANGED <<pc, cmd, verdict>>
         \/ pc' \in {"down", "idle", "scan"}
  PROVE  TruthInv'
<1>1. \A c, v : IsSettled(c, v) => IsSettled(c, v)'
  BY HistoryGrows DEF IsSettled
<1>2. SettledAreTrue(file)'
  <2>1. CASE file' = file
    BY <1>1, <2>1 DEF TruthInv, SettledAreTrue
  <2>2. CASE \E c \in Commands : file' = Append(file, [id |-> c, status |-> "pending"])
    <3>1. PICK c \in Commands : file' = Append(file, [id |-> c, status |-> "pending"])
      BY <2>2
    <3>2. [id |-> c, status |-> "pending"] \in Entry
      BY DEF Entry, Statuses
    <3>3. ToSet(file') = ToSet(file) \cup {[id |-> c, status |-> "pending"]}
      BY <3>1, <3>2, AppendFacts DEF TypeOK, FilesTypeOK
    <3> QED
      BY <1>1, <3>3 DEF TruthInv, SettledAreTrue
  <2> QED
    BY <2>1, <2>2
<1>3. copy' = copy => (SettledAreTrue(copy) => SettledAreTrue(copy)')
  BY <1>1 DEF SettledAreTrue
<1>4. (pc' \in {"truncate", "write"}) => SettledAreTrue(copy)'
  BY <1>3 DEF TruthInv
<1>5. Busy' /\ verdict' \in {"done", "rejected"} => IsSettled(cmd, verdict)'
  <2>1. CASE UNCHANGED <<pc, cmd, verdict>>
    BY <2>1, HistoryGrows DEF TruthInv, IsSettled, Busy, Updating
  <2>2. CASE pc' \in {"down", "idle", "scan"}
    BY <2>2 DEF Busy, Updating
  <2> QED
    BY <2>1, <2>2
<1>6. ToSet(batch') \cap Unsigned = {}
  BY DEF TruthInv
<1>7. Busy' /\ verdict' = "processing" => cmd' \notin Unsigned
  BY DEF TruthInv, Busy, Updating
<1> QED
  BY <1>2, <1>4, <1>5, <1>6, <1>7 DEF TruthInv

(* Reading keeps what the file says true.                                   *)
LEMMA ReadingKeepsTruth ==
  ASSUME TypeOK, TruthInv, VerifyNext \/ TakeNext
  PROVE  TruthInv'
<1>1. CASE VerifyNext
  <2> DEFINE e == Head(scan)
  <2>1. /\ pc = "scan" /\ UNCHANGED <<file, copy, log>>
        /\ \/ UNCHANGED <<batch, pc, cmd, verdict>>
           \/ /\ e.id \in Unsigned /\ cmd' = e.id /\ verdict' = "rejected" /\ pc' = "read"
              /\ batch' = batch
           \/ /\ e.id \notin Unsigned /\ batch' = Append(batch, e.id)
              /\ UNCHANGED <<pc, cmd, verdict>>
    BY <1>1 DEF VerifyNext, StartUpdate
  <2>2. batch \in Seq(Commands) /\ e.id \in Commands
    <3>1. batch \in Seq(Commands) /\ scan \in Seq(Entry) /\ scan # <<>>
      BY <1>1 DEF VerifyNext, TypeOK, FilesTypeOK, AgentTypeOK
    <3>2. e \in Entry
      BY <3>1, TailFacts
    <3> HIDE DEF e
    <3> QED
      BY <3>1, <3>2 DEF Entry
  <2>3. ToSet(Append(batch, e.id)) = ToSet(batch) \cup {e.id}
    BY <2>2, AppendFacts
  <2> HIDE DEF e
  <2>4. ToSet(batch') \cap Unsigned = {}
    BY <2>1, <2>3 DEF TruthInv
  <2> QED
    BY <2>1, <2>4 DEF TruthInv, SettledAreTrue, IsSettled, Busy, Updating
<1>2. CASE TakeNext
  <2>1. /\ batch # <<>> /\ batch' = Tail(batch) /\ cmd' = Head(batch)
        /\ verdict' = "processing" /\ pc' = "read" /\ UNCHANGED <<file, copy, log>>
    BY <1>2 DEF TakeNext, StartUpdate
  <2>2. ToSet(batch) = {cmd'} \cup ToSet(batch')
    BY <2>1, TailFacts DEF TypeOK, AgentTypeOK
  <2> QED
    BY <2>1, <2>2 DEF TruthInv, SettledAreTrue, IsSettled, Busy, Updating
<1> QED
  BY <1>1, <1>2

(* So does rewriting it, with what was true of the copy.                    *)
LEMMA UpdatingKeepsTruth ==
  ASSUME TypeOK, TruthInv, UpdateRead \/ UpdateTruncate \/ UpdateWrite
  PROVE  TruthInv'
<1>1. CASE UpdateRead
  <2>1. /\ pc = "read" /\ pc' = "truncate" /\ copy' = Marked(file, cmd, verdict)
        /\ UNCHANGED <<file, batch, cmd, verdict, log>>
    BY <1>1 DEF UpdateRead, Marked
  <2>2. file \in Seq(Entry) /\ cmd \in Commands /\ verdict \in Statuses \ {"pending"}
    BY <2>1 DEF TypeOK, FilesTypeOK, AgentTypeOK, Busy, Updating
  <2>3. \A e \in ToSet(copy') : e \in ToSet(file) \/ e = [id |-> cmd, status |-> verdict]
    BY <2>1, <2>2, MarkedFacts
  <2>4. \A e \in ToSet(copy') :
          e.status \in {"done", "rejected"} => IsSettled(e.id, e.status)
    BY <2>1, <2>3 DEF TruthInv, SettledAreTrue, Busy, Updating
  <2>5. SettledAreTrue(copy)'
    BY <2>1, <2>4 DEF SettledAreTrue, IsSettled
  <2> QED
    BY <2>1, <2>5 DEF TruthInv, SettledAreTrue, IsSettled, Busy, Updating
<1>2. CASE UpdateTruncate
  <2>1. /\ pc = "truncate" /\ pc' = "write" /\ file' = <<>>
        /\ UNCHANGED <<batch, cmd, verdict, copy, log>>
    BY <1>2 DEF UpdateTruncate
  <2>2. ToSet(file') = {}
    BY <2>1, AscendingEmpty
  <2> QED
    BY <2>1, <2>2 DEF TruthInv, SettledAreTrue, IsSettled, Busy, Updating
<1>3. CASE UpdateWrite
  <2>1. /\ pc = "write" /\ file' = copy
        /\ pc' = (IF verdict = "processing" THEN "execute" ELSE "scan")
        /\ UNCHANGED <<batch, cmd, verdict, copy, log>>
    BY <1>3 DEF UpdateWrite
  <2> QED
    BY <2>1 DEF TruthInv, SettledAreTrue, IsSettled, Busy, Updating
<1> QED
  BY <1>1, <1>2, <1>3

(* So does running a command, whose status is still to be written.          *)
LEMMA ExecuteKeepsTruth ==
  ASSUME TypeOK, TruthInv, Execute
  PROVE  TruthInv'
<1>1. PICK v \in {"done", "rejected"} :
        /\ cmd' = cmd /\ verdict' = v /\ pc' = "read"
        /\ log' = Append(log, [id |-> cmd, verdict |-> v])
  BY DEF Execute, StartUpdate
<1>2. pc = "execute" /\ UNCHANGED <<file, batch, copy>>
  BY DEF Execute
<1>3. cmd \in Commands /\ log \in Seq(Outcomes)
  BY <1>2 DEF TypeOK, FilesTypeOK, AgentTypeOK, Busy
<1>4. [id |-> cmd, verdict |-> v] \in Outcomes
  BY <1>3 DEF Outcomes
<1>5. ToSet(log') = ToSet(log) \cup {[id |-> cmd, verdict |-> v]}
  BY <1>1, <1>3, <1>4, AppendFacts
<1>6. IsSettled(cmd, verdict)'
  BY <1>1, <1>5 DEF IsSettled
<1>7. SettledAreTrue(file)'
  BY <1>2, <1>5 DEF TruthInv, SettledAreTrue, IsSettled
<1> QED
  BY <1>1, <1>2, <1>6, <1>7 DEF TruthInv, Busy, Updating

(* So does every step.                                                      *)
LEMMA NextKeepsTruth ==
  ASSUME TypeOK, TruthInv, [Next]_vars
  PROVE  TruthInv'
<1>1. ASSUME NEW c \in Commands, enqueue(c)
      PROVE  TruthInv'
  BY <1>1, TruthStands DEF enqueue, agent
<1>2. ASSUME NEW c \in Commands, OpenConfig(c)
      PROVE  TruthInv'
  BY <1>2, TruthStands DEF OpenConfig, agent
<1>3. ASSUME NEW w \in writing, SaveConfig(w)
      PROVE  TruthInv'
  BY <1>3, TruthStands DEF SaveConfig, agent
<1>4. CASE UNCHANGED vars
  BY <1>4, TruthStands DEF vars, agent
<1>5. CASE ReadPending
  BY <1>5, TruthStands DEF ReadPending
<1>6. CASE EndTick
  BY <1>6, TruthStands DEF EndTick
<1>7. CASE Start
  BY <1>7, TruthStands DEF Start
<1>8. CASE Crash
  <2>1. ToSet(batch') = {}
    BY <1>8, AscendingEmpty DEF Crash
  <2> QED
    BY <1>8, <2>1, TruthStands DEF Crash
<1> QED
  BY <1>1, <1>2, <1>3, <1>4, <1>5, <1>6, <1>7, <1>8, ReadingKeepsTruth,
     UpdatingKeepsTruth, ExecuteKeepsTruth DEF Next, Tick
(* Everyone a limit in force may come from; LimitHasAnAuthor says it does.  *)
Authors ==
  {DefaultCap, StartCap} \cup OverlayCaps \cup SavedCaps
    \cup {Request[e.id].cap : e \in {e \in ToSet(log) :
                                e.verdict = "done" /\ e.id \notin Unsigned}}

(* An author of a limit remains one.                                        *)
LEMMA AuthorsRemain ==
  ASSUME TypeOK, [Next]_vars
  PROVE  SavedCaps \subseteq SavedCaps' /\ Authors \subseteq Authors'
<1>1. SavedCaps \subseteq SavedCaps'
  BY HistoryGrows DEF SavedCaps, SavesToo
<1>2. Authors \subseteq Authors'
  <2> SUFFICES ASSUME NEW x \in Authors
               PROVE  x \in Authors'
    OBVIOUS
  <2>1. CASE x \in {DefaultCap, StartCap} \cup OverlayCaps \cup SavedCaps
    BY <1>1, <2>1 DEF Authors
  <2>2. CASE \E e \in ToSet(log) :
               e.verdict = "done" /\ e.id \notin Unsigned /\ x = Request[e.id].cap
    BY <2>2, HistoryGrows DEF Authors
  <2> QED
    BY <2>1, <2>2 DEF Authors
<1> QED
  BY <1>1, <1>2

(* A config file that can be loaded holds a limit with an author.           *)
LEMMA DiskHasAnAuthor ==
  ASSUME AuthorInv, CanLoad
  PROVE  disk \in Authors
BY DEF AuthorInv, CanLoad, Authors

(* What is loaded, with an overlay or without, has an author.               *)
LEMMA MergedHasAnAuthor ==
  ASSUME NEW base \in Authors', NEW over \in {e.start : e \in Environments}
                                     \cup {e.reload : e \in Environments}
  PROVE  Merged(base, over) \in Authors'
<1>1. over \in OverlayCaps
  BY DEF OverlayCaps
<1>2. over \in Authors'
  BY <1>1 DEF Authors
<1> QED
  BY <1>2 DEF Merged

(* A limit in the config file has an author.                                *)
LEMMA ConfigKeepsAuthor ==
  ASSUME TypeOK, AuthorInv, [Next]_vars,
         \/ \E c \in Commands : enqueue(c) \/ OpenConfig(c)
         \/ \E w \in writing : SaveConfig(w)
  PROVE  AuthorInv'
<1> DEFINE Savers == {c \in ToSet(submitted) : SavesToo(c)}
<1>1. Savers \subseteq Savers' /\ SavedCaps \subseteq SavedCaps' /\ Authors \subseteq Authors'
  BY HistoryGrows, AuthorsRemain DEF SavesToo
<1>2. risk' = risk /\ risk \in Authors
  BY DEF enqueue, OpenConfig, SaveConfig, limits, AuthorInv, LimitHasAnAuthor, Authors,
         SavedCaps
<1>3. LimitHasAnAuthor'
  <2>1. risk' \in Authors'
    BY <1>1, <1>2
  <2> QED
    BY <2>1 DEF LimitHasAnAuthor, Authors, SavedCaps
<1>4. ASSUME NEW c \in Commands, enqueue(c)
      PROVE  AuthorInv'
  <2>1. /\ disk' = disk /\ writing' = writing /\ submitted' = Append(submitted, c)
        /\ saving' = IF SavesToo(c) THEN saving \cup {c} ELSE saving
    BY <1>4 DEF enqueue
  <2>2. ToSet(submitted') = ToSet(submitted) \cup {c}
    BY <2>1, AppendFacts DEF TypeOK, FilesTypeOK
  <2>3. saving' \subseteq Savers'
    BY <1>1, <2>1, <2>2 DEF AuthorInv, SavesToo
  <2> QED
    BY <1>1, <1>3, <2>1, <2>3 DEF AuthorInv
<1>5. ASSUME NEW c \in Commands, OpenConfig(c)
      PROVE  AuthorInv'
  <2>1. PICK b \in BOOLEAN : writing' = writing \cup {[id |-> c, whole |-> b]}
    BY <1>5 DEF OpenConfig
  <2>2. c \in saving /\ saving' = saving \ {c} /\ disk' = Torn
    BY <1>5 DEF OpenConfig
  <2>3. {w.id : w \in writing'} \subseteq Savers'
    BY <1>1, <2>1, <2>2 DEF AuthorInv
  <2> QED
    BY <1>1, <1>3, <2>2, <2>3 DEF AuthorInv
<1>6. ASSUME NEW w \in writing, SaveConfig(w)
      PROVE  AuthorInv'
  <2>1. writing' = writing \ {w} /\ saving' = saving
        /\ disk' = IF w.whole THEN Request[w.id].cap ELSE Ruined
    BY <1>6 DEF SaveConfig
  <2>2. w.id \in Savers
    BY <1>6 DEF AuthorInv
  <2>3. disk' \in {Ruined} \cup SavedCaps
    BY <2>1, <2>2 DEF SavedCaps
  <2> QED
    BY <1>1, <1>3, <2>1, <2>3 DEF AuthorInv
<1> QED
  BY <1>4, <1>5, <1>6

(* So has the limit in force.                                               *)
LEMMA AgentKeepsAuthor ==
  ASSUME TypeOK, TruthInv, AuthorInv, [Next]_vars,
         Tick \/ Start \/ Crash \/ UNCHANGED vars
  PROVE  AuthorInv'
<1>1. UNCHANGED <<disk, saving, writing>>
  BY DEF Tick, ReadPending, VerifyNext, TakeNext, EndTick, UpdateRead, UpdateTruncate,
         UpdateWrite, Execute, Start, Crash, config, vars
<1>2. risk \in Authors
  BY DEF AuthorInv, LimitHasAnAuthor, Authors, SavedCaps
<1>3. Authors \subseteq Authors' /\ SavedCaps \subseteq SavedCaps'
  BY AuthorsRemain
<1>4. ASSUME CanLoad
      PROVE  disk \in Authors'
  BY <1>3, <1>4, DiskHasAnAuthor
<1>5. ASSUME Reload
      PROVE  risk' \in Authors'
  <2>1. overlay.reload \in {e.reload : e \in Environments}
    BY DEF TypeOK, FilesTypeOK
  <2> QED
    BY <1>2, <1>3, <1>4, <1>5, <2>1, MergedHasAnAuthor DEF Reload
<1>6. ASSUME Execute
      PROVE  risk' \in Authors'
  <2>1. PICK v \in {"done", "rejected"} :
          Effect(Request[cmd], v) /\ log' = Append(log, [id |-> cmd, verdict |-> v])
    BY <1>6 DEF Execute
  <2>2. /\ pc = "execute" /\ verdict = "processing" /\ cmd \in Commands \ Unsigned
        /\ log \in Seq(Outcomes)
    BY <1>6 DEF Execute, TypeOK, FilesTypeOK, AgentTypeOK, TruthInv, Busy
  <2>3. [id |-> cmd, verdict |-> v] \in Outcomes
    BY <2>2 DEF Outcomes
  <2>4. [id |-> cmd, verdict |-> v] \in ToSet(log')
    BY <2>1, <2>2, <2>3, AppendFacts
  <2>5. \/ risk' = risk
        \/ risk' = Request[cmd].cap /\ v = "done"
        \/ Reload
    BY <2>1 DEF Effect, limits
  <2>6. ASSUME risk' = Request[cmd].cap, v = "done"
        PROVE  risk' \in Authors'
    <3> DEFINE e == [id |-> cmd, verdict |-> v]
    <3>1. e \in ToSet(log') /\ e.verdict = "done" /\ e.id = cmd
      BY <2>4, <2>6
    <3> HIDE DEF e
    <3> QED
      BY <2>2, <2>6, <3>1 DEF Authors
  <2> QED
    BY <1>2, <1>3, <1>5, <2>5, <2>6
<1>7. ASSUME Start
      PROVE  risk' \in Authors'
  <2> DEFINE base == IF StartCap = NoCap THEN disk ELSE StartCap
  <2>1. /\ overlay' \in Environments /\ risk' = Merged(base, overlay'.start)
        /\ StartCap = NoCap => CanLoad
    BY <1>7 DEF Start
  <2>2. base \in Authors'
    BY <1>4, <2>1 DEF Authors
  <2>3. overlay'.start \in {e.start : e \in Environments}
    BY <2>1
  <2> HIDE DEF base
  <2> QED
    BY <2>1, <2>2, <2>3, MergedHasAnAuthor
<1>8. ASSUME EndTick
      PROVE  risk' \in Authors'
  BY <1>2, <1>3, <1>5, <1>8 DEF EndTick
<1>9. ASSUME \/ ReadPending \/ VerifyNext \/ TakeNext \/ UpdateRead \/ UpdateTruncate
             \/ UpdateWrite \/ Crash \/ UNCHANGED vars
      PROVE  risk' = risk
  BY <1>9 DEF ReadPending, VerifyNext, TakeNext, UpdateRead, UpdateTruncate, UpdateWrite,
              Crash, limits, vars
<1>10. risk' \in Authors'
  BY <1>2, <1>3, <1>6, <1>7, <1>8, <1>9 DEF Tick
<1>11. LimitHasAnAuthor'
  BY <1>10 DEF LimitHasAnAuthor, Authors, SavedCaps
<1>12. {c \in ToSet(submitted) : SavesToo(c)} \subseteq
         {c \in ToSet(submitted') : SavesToo(c)}
  BY HistoryGrows
<1> QED
  BY <1>1, <1>3, <1>11, <1>12 DEF AuthorInv, SavesToo

(* What the file and the copy say of a command is what became of it, and    *)
(* the limit in force is from a config file or from a signed command that   *)
(* was executed, whatever crashes and whatever is overwritten.              *)
THEOREM FileAndLimitAreTrue == Spec => []Truthful
<1> DEFINE I == TypeOK /\ QueueInv /\ TruthInv /\ AuthorInv
<1>1. Init => I
  <2> SUFFICES ASSUME Init
               PROVE  I
    OBVIOUS
  <2>1. /\ file = <<>> /\ batch = <<>> /\ pc = "down" /\ saving = {} /\ writing = {}
        /\ disk = DefaultCap /\ risk = DefaultCap
    BY DEF Init
  <2>2. ToSet(file) = {} /\ ToSet(batch) = {}
    BY <2>1, AscendingEmpty
  <2>3. TruthInv
    BY <2>1, <2>2 DEF TruthInv, SettledAreTrue, Busy, Updating
  <2>4. AuthorInv
    BY <2>1 DEF AuthorInv, LimitHasAnAuthor
  <2> QED
    BY <2>3, <2>4, InitTypeOK, InitOrder
<1>2. I /\ [Next]_vars => I'
  <2> SUFFICES ASSUME I, [Next]_vars
               PROVE  I'
    OBVIOUS
  <2>1. TypeOK' /\ QueueInv' /\ TruthInv'
    BY NextKeepsTypes, NextKeepsOrder, NextKeepsTruth
  <2>2. AuthorInv'
    BY ConfigKeepsAuthor, AgentKeepsAuthor DEF Next
  <2> QED
    BY <2>1, <2>2
<1>3. I => Truthful
  <2> SUFFICES ASSUME I
               PROVE  Truthful
    OBVIOUS
  <2>1. submitted \in Seq(Commands) /\ NoRepeats(submitted) /\ file \in Seq(Entry)
    BY DEF TypeOK, FilesTypeOK, QueueInv, OrderInv
  <2>2. ASSUME NEW lines, AllPrecede(submitted, Ids(log), PendingIn(lines)),
               NEW e \in ToSet(lines), e.status = "pending"
        PROVE  e.id \notin {r.id : r \in ToSet(log)}
    <3>1. e.id \in PendingIn(lines)
      BY <2>2 DEF PendingIn
    <3>2. \A r \in ToSet(log) : r.id \in Ids(log)
      BY DEF Ids, ToSet
    <3>3. \A r \in ToSet(log) : r.id # e.id
      BY <2>1, <2>2, <3>1, <3>2, NothingPrecedesItself DEF AllPrecede
    <3> QED
      BY <3>3
  <2>3. FileIsTrue
    BY <2>1, <2>2 DEF FileIsTrue, TruthInv, SettledAreTrue, IsSettled, QueueInv, LogInv
  <2> QED
    BY <2>3 DEF Truthful, AuthorInv
<1> QED
  BY <1>1, <1>2, <1>3, PTL DEF Spec
=============================================================================
