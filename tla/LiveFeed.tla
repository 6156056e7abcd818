-------------------------------- MODULE LiveFeed --------------------------------
(***************************************************************************)
(* The live feeds: AngelOneFeed (core/data/angelone_feed.py) and UpstoxFeed *)
(* (core/data/upstox_feed.py), two implementations of ILiveFeed of which an *)
(* agent uses one.  Three kinds of threads meet in a feed: the main thread, *)
(* which connects, subscribes and disconnects; the library's socket thread, *)
(* which calls on_open, on_error and on_close; and, for Upstox, the thread  *)
(* of a closed socket, which reconnects with backoff, or the polling thread *)
(* that stands in when no socket could be authorized.                       *)
(*                                                                          *)
(* The socket libraries are not part of the repository.  They are modelled  *)
(* as the code relies on them: callbacks of one socket come one at a time   *)
(* from its own thread; after a loss the library either tries again by      *)
(* itself (reconnect=...) or closes the socket for good with on_close.      *)
(***************************************************************************)
EXTENDS Naturals, FiniteSets

CONSTANTS
  Kinds,        \* "angelone", "upstox", or both
  Sockets,      \* identities of sockets; a closed one may be used again
  NoSocket,     \* _ws is None
  MaxAttempts   \* reconnect_max_attempts

ASSUME FeedAssumption ==
  /\ Kinds \subseteq {"angelone", "upstox"}
  /\ NoSocket \notin Sockets
  /\ MaxAttempts \in Nat \ {0}

VARIABLES
  kind,         \* which of the two feeds
  main,         \* what the main thread is at
  logins,       \* failed logins
  retry,        \* per socket, what its thread is at once the socket is closed
  attempt,      \* per socket, the authorizations that failed since then
  ws,           \* _ws, _sws: the socket in use
  socket,       \* per socket, its state in the library
  subscribed,   \* per socket, whether the server sends ticks to it
  keys,         \* _subscribed_keys is not empty
  connected,    \* _connected
  stop,         \* _stop_event
  polling,      \* the polling thread runs
  raced         \* history: disconnect met a reconnection past its check of _stop_event

feed == <<kind, main, logins, retry, attempt, ws, socket, subscribed, keys, connected, stop, polling, raced>>

FeedInit ==
  /\ kind \in Kinds
  /\ main = IF kind = "angelone" THEN "login" ELSE "authorize"
  /\ logins = 0
  /\ retry = [s \in Sockets |-> "no"]
  /\ attempt = [s \in Sockets |-> 0]
  /\ ws = NoSocket
  /\ socket = [s \in Sockets |-> "free"]
  /\ subscribed = [s \in Sockets |-> FALSE]
  /\ keys = FALSE
  /\ connected = FALSE
  /\ stop = FALSE
  /\ polling = FALSE
  /\ raced = FALSE

(* A socket that carries messages.                                          *)
Usable(s) == s # NoSocket /\ socket[s] \in {"up", "open"}

(* Sockets with a thread of the library behind them.                        *)
Live == {s \in Sockets : socket[s] \in {"opening", "up", "open", "lost"}}

(* _open_websocket: a new socket, and a thread that opens it.               *)
OpenWebsocket ==
  \E s \in Sockets :
    /\ socket[s] = "free" /\ retry[s] = "no"
    /\ ws' = s
    /\ socket' = [socket EXCEPT ![s] = "opening"]
    /\ subscribed' = [subscribed EXCEPT ![s] = FALSE]

(* A subscription that is sent over a socket that is not up raises, and for *)
(* Upstox the exception is logged and forgotten.                            *)
SendSubscribe ==
  subscribed' = IF Usable(ws) THEN [subscribed EXCEPT ![ws] = TRUE] ELSE subscribed

-----------------------------------------------------------------------------
(* The main thread                                                          *)

(* AngelOneFeed._login_with_retry                                           *)
Login ==
  /\ main = "login"
  /\ \/ main' = "master" /\ UNCHANGED logins
     \/ /\ logins' = logins + 1
        /\ main' = IF logins' = MaxAttempts THEN "dead" ELSE "login"
  /\ UNCHANGED <<kind, retry, attempt, ws, socket, subscribed, keys, connected, stop, polling, raced>>

(* AngelOneFeed._load_instrument_master: without one there is no feed.      *)
LoadMaster ==
  /\ main = "master"
  /\ \/ main' = "dead" /\ UNCHANGED <<ws, socket, subscribed>>
     \/ main' = "wait" /\ OpenWebsocket
  /\ UNCHANGED <<kind, logins, retry, attempt, keys, connected, stop, polling, raced>>

(* UpstoxFeed.connect: a socket, or else polling, which counts as connected. *)
Connect ==
  /\ main = "authorize"
  /\ \/ /\ main' = "wait"
        /\ OpenWebsocket
        /\ UNCHANGED <<connected, polling>>
     \/ /\ main' = "subscribe"
        /\ polling' = TRUE
        /\ connected' = TRUE
        /\ UNCHANGED <<ws, socket, subscribed>>
  /\ UNCHANGED <<kind, logins, retry, attempt, keys, stop, raced>>

(* The open handshake has come, or the wait for it is over.                 *)
Wait ==
  /\ main = "wait"
  /\ main' = "subscribe"
  /\ UNCHANGED <<kind, logins, retry, attempt, ws, socket, subscribed, keys, connected, stop, polling, raced>>

(* AngelOneFeed.subscribe: the library raises on a socket that is not up,   *)
(* and nothing of the orchestrator catches that.  No symbol may resolve.    *)
SubscribeAngelOne ==
  /\ main = "subscribe" /\ kind = "angelone"
  /\ \/ main' = "running" /\ UNCHANGED <<subscribed, keys>>
     \/ /\ Usable(ws)
        /\ SendSubscribe
        /\ keys' = TRUE
        /\ main' = "running"
     \/ /\ ~Usable(ws)
        /\ main' = "dead"
        /\ UNCHANGED <<subscribed, keys>>
  /\ UNCHANGED <<kind, logins, retry, attempt, ws, socket, connected, stop, polling, raced>>

(* UpstoxFeed.subscribe: the keys are noted first, ...                      *)
Subscribe ==
  /\ main = "subscribe" /\ kind = "upstox"
  /\ \/ keys' = TRUE /\ main' = "send"
     \/ main' = "running" /\ UNCHANGED keys
  /\ UNCHANGED <<kind, logins, retry, attempt, ws, socket, subscribed, connected, stop, polling, raced>>

(* ... and then sent, if there is a socket.                                 *)
Send ==
  /\ main = "send"
  /\ SendSubscribe
  /\ main' = "running"
  /\ UNCHANGED <<kind, logins, retry, attempt, ws, socket, keys, connected, stop, polling, raced>>

(* disconnect: the stop event is set, ...                                   *)
Disconnect ==
  /\ main = "running"
  /\ main' = "close"
  /\ stop' = (kind = "upstox")
  /\ UNCHANGED <<kind, logins, retry, attempt, ws, socket, subscribed, keys, connected, polling, raced>>

(* ... and the socket in use is closed.                                     *)
CloseSocket ==
  /\ main = "close"
  /\ main' = "stopped"
  /\ socket' = IF ws \in Live THEN [socket EXCEPT ![ws] = "closing"] ELSE socket
  /\ connected' = FALSE
  /\ raced' = \E s \in Sockets : retry[s] = "authorize"
  /\ UNCHANGED <<kind, logins, retry, attempt, ws, subscribed, keys, stop, polling>>

-----------------------------------------------------------------------------
(* The library's thread of a socket, and the callbacks it runs              *)

Handshake(s) ==
  /\ socket[s] = "opening"
  /\ socket' = [socket EXCEPT ![s] = "up"]
  /\ UNCHANGED <<kind, main, logins, retry, attempt, ws, subscribed, keys, connected, stop, polling, raced>>

(* _on_open: Upstox subscribes to all it knows, over the socket in use.     *)
OnOpen(s) ==
  /\ socket[s] = "up"
  /\ socket' = [socket EXCEPT ![s] = "open"]
  /\ connected' = TRUE
  /\ IF kind = "upstox" /\ keys THEN SendSubscribe ELSE UNCHANGED subscribed
  /\ UNCHANGED <<kind, main, logins, retry, attempt, ws, keys, stop, polling, raced>>

(* The thread of socket s starts to reconnect.                              *)
StartReconnect(s) ==
  /\ retry' = [retry EXCEPT ![s] = "sleep"]
  /\ attempt' = [attempt EXCEPT ![s] = 0]

(* Mutant of OnError: an error already starts a reconnection.               *)
OnErrorReconnects(s) ==
  /\ socket[s] \in {"opening", "up", "open"}
  /\ socket' = [socket EXCEPT ![s] = "lost"]
  /\ connected' = FALSE
  /\ IF kind = "upstox" /\ ~stop
       THEN StartReconnect(s)
       ELSE UNCHANGED <<retry, attempt>>
  /\ UNCHANGED <<kind, main, logins, ws, subscribed, keys, stop, polling, raced>>

(* The connection is lost: _on_error.                                       *)
OnError(s) ==
  /\ socket[s] \in {"opening", "up", "open"}
  /\ socket' = [socket EXCEPT ![s] = "lost"]
  /\ connected' = FALSE
  /\ UNCHANGED <<kind, main, logins, retry, attempt, ws, subscribed, keys, stop, polling, raced>>

(* The library tries again.  AngelOne's remembers what was subscribed.      *)
LibraryRetries(s) ==
  /\ socket[s] = "lost"
  /\ socket' = [socket EXCEPT ![s] = "opening"]
  /\ subscribed' = [subscribed EXCEPT ![s] = @ /\ kind = "angelone"]
  /\ UNCHANGED <<kind, main, logins, retry, attempt, ws, keys, connected, stop, polling, raced>>

(* Mutant of OnClose: nobody reconnects.                                    *)
OnCloseForGood(s) ==
  /\ socket[s] \in {"open", "lost", "closing"}
  /\ socket' = [socket EXCEPT ![s] = "free"]
  /\ subscribed' = [subscribed EXCEPT ![s] = FALSE]
  /\ connected' = FALSE
  /\ UNCHANGED <<kind, main, logins, retry, attempt, ws, keys, stop, polling, raced>>

(* _on_close: for Upstox, the thread goes on to reconnect.                  *)
OnClose(s) ==
  /\ socket[s] \in {"open", "lost", "closing"}
  /\ socket' = [socket EXCEPT ![s] = "free"]
  /\ subscribed' = [subscribed EXCEPT ![s] = FALSE]
  /\ connected' = FALSE
  /\ IF kind = "upstox" /\ ~stop
       THEN StartReconnect(s)
       ELSE UNCHANGED <<retry, attempt>>
  /\ UNCHANGED <<kind, main, logins, ws, keys, stop, polling, raced>>

-----------------------------------------------------------------------------
(* UpstoxFeed._reconnect_with_backoff, run by the thread of socket s        *)

(* The sleep is over: a stopped feed stays down.                            *)
RetryWakes(s) ==
  /\ retry[s] = "sleep"
  /\ retry' = [retry EXCEPT ![s] = IF stop THEN "no" ELSE "authorize"]
  /\ UNCHANGED <<kind, main, logins, attempt, ws, socket, subscribed, keys, connected, stop, polling, raced>>

(* Authorized, or an attempt more is lost; the last one ends the feed.      *)
RetryAuthorize(s) ==
  /\ retry[s] = "authorize"
  /\ \/ /\ retry' = [retry EXCEPT ![s] = "wait"]
        /\ OpenWebsocket
        /\ UNCHANGED attempt
     \/ /\ attempt' = [attempt EXCEPT ![s] = @ + 1]
        /\ retry' = [retry EXCEPT ![s] = IF attempt'[s] = MaxAttempts THEN "no" ELSE "sleep"]
        /\ UNCHANGED <<ws, socket, subscribed>>
  /\ UNCHANGED <<kind, main, logins, keys, connected, stop, polling, raced>>

(* The handshake has come or not: the subscription is sent.                 *)
RetrySubscribes(s) ==
  /\ retry[s] = "wait"
  /\ retry' = [retry EXCEPT ![s] = "no"]
  /\ IF keys THEN SendSubscribe ELSE UNCHANGED subscribed
  /\ UNCHANGED <<kind, main, logins, attempt, ws, socket, keys, connected, stop, polling, raced>>

(* The polling thread notices the stop event.                               *)
PollEnds ==
  /\ polling /\ stop
  /\ polling' = FALSE
  /\ UNCHANGED <<kind, main, logins, retry, attempt, ws, socket, subscribed, keys, connected, stop, raced>>

-----------------------------------------------------------------------------
MainThread ==
  \/ Login \/ LoadMaster \/ Connect \/ Wait
  \/ SubscribeAngelOne \/ Subscribe \/ Send \/ CloseSocket

Reconnection(s) == RetryWakes(s) \/ RetryAuthorize(s) \/ RetrySubscribes(s)

Library(s) ==
  Handshake(s) \/ OnOpen(s) \/ OnError(s) \/ LibraryRetries(s) \/ OnClose(s)

(* The main thread and the reconnecting one run; a lost or closing socket   *)
(* is dealt with by the library, and a handshake that is possible again and *)
(* again succeeds some time.                                                *)
FeedFairness ==
  /\ WF_feed(MainThread)
  /\ WF_feed(PollEnds)
  /\ \A s \in Sockets :
       /\ WF_feed(Reconnection(s))
       /\ SF_feed(Handshake(s))
       /\ SF_feed(OnOpen(s))
       /\ WF_feed(LibraryRetries(s) \/ OnClose(s))
=============================================================================
