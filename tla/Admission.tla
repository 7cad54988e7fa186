----------------------------- MODULE Admission -----------------------------
(***************************************************************************)
(* The decision of accepting_request() (src/src/proxying.c): which client   *)
(* is connected to which server (channel), and which one is refused.        *)
(*                                                                          *)
(*   proxy thread    one call of accepting_request() at a time, cut where   *)
(*                   it waits for the database                              *)
(*   command thread  sets the default and the fall back channel, at any     *)
(*                   time and without a lock                                *)
(*   database        holds the blacklist; an administrator may change it.   *)
(*                   The other tables answer as they like.                  *)
(*                                                                          *)
(* A query of the database answers with a number of rows, with 0 when there *)
(* is no connection or no statement, and with -1 when the statement fails   *)
(* (dbmysql_executeUpdate()).                                               *)
(*                                                                          *)
(* The access counter of an address is exact here (CountsWindow of module   *)
(* AutoBlacklist): it is the length of window[p], the connections of p in   *)
(* the monitored period, each with what became of it.                       *)
(***************************************************************************)
EXTENDS Integers, Sequences, FiniteSets

CONSTANTS
    Ip,               \* client addresses
    V4,               \* those that are IPv4
    WhiteList,        \* those that match white-list-ip-prefix
    Servers,          \* number_of_remote_servers
    ConfChannel,      \* what default-server and on-failed-channel may be
    RequestChannel,   \* what the channel of a request in the database may be
    Threshold,        \* threshold
    PersistThreshold, \* persist-threshold
    MaxWindow,        \* bounds the connections of an address in the window
    MaxHeld,          \* bounds the connections that came with a request
    None

\* A request with a negative channel is refused and not freed; there is none here.
ASSUME ConstantsAssumption ==
    /\ V4 \subseteq Ip /\ WhiteList \subseteq Ip
    /\ Servers \in Nat \ {0}
    /\ ConfChannel \subseteq Int /\ RequestChannel \subseteq Nat
    /\ Threshold \in Nat /\ PersistThreshold \in Nat
    /\ MaxWindow \in Nat /\ MaxHeld \in Nat
    /\ None \notin Ip /\ None \notin Int

VARIABLES
    default_server, on_failed_channel,
    blacklist,      \* database: the addresses on the blacklist
    window,         \* address -> outcomes of its connections in the monitored period
    aged,           \* addresses whose entry is older than max_persistent_time
    pc, remote_ip, channel,          \* accepting_request() under way
    request_in_db,                   \* ... the channel of the request, or None
    blacklisted, auto_blacklisted,   \* ... its flags
    unread,                          \* ... the blacklist has the address, but was not read
    vip,                             \* ... the answer of check_vip(), 0 before it
    allocated,      \* requests malloc'ed and not freed
    held,           \* requests held by connections
    servedSince,    \* history: address -> times served since it is on the blacklist
    served          \* the channel of the last connection established

channels == <<default_server, on_failed_channel>>
call     == <<remote_ip, channel, request_in_db, blacklisted, auto_blacklisted, unread,
              vip>>
vars     == <<channels, blacklist, window, aged, pc, call, allocated, held, servedSince,
              served>>

Outcome == {"refused", "served", "vip", "vipError"}
counter(p) == Len(window[p])

\* Answers of the database to a query that finds rows iff `found`.
Answers(found) == {-1, 0} \cup (IF found THEN {1} ELSE {})

-----------------------------------------------------------------------------
(* accepting_request()                                                      *)

\* worker_mutex is taken; check_available() finds a request (r) or not.
Begin(p, r) ==
    /\ pc = "idle"
    /\ counter(p) < MaxWindow
    /\ r # None => held < MaxHeld
    /\ remote_ip' = p
    /\ request_in_db' = r
    /\ allocated' = IF r # None THEN allocated + 1 ELSE allocated
    /\ blacklisted' = FALSE /\ auto_blacklisted' = FALSE /\ unread' = FALSE
    /\ vip' = 0
    /\ channel' = IF r # None THEN r
                  ELSE IF p \in WhiteList THEN default_server ELSE -1
    /\ pc' = IF r = None /\ p \in WhiteList THEN "blacklist" ELSE "decide"
    /\ UNCHANGED <<channels, blacklist, window, aged, held, servedSince, served>>

\* Faulty: the channel is left.
CheckBlacklist_ChannelLeft ==
    /\ pc = "blacklist"
    /\ \E a \in Answers(remote_ip \in blacklist) :
          /\ blacklisted' = (a > 0)
          /\ unread' = (a <= 0 /\ remote_ip \in blacklist)
    /\ pc' = IF remote_ip \in V4 THEN "count" ELSE "decide"
    /\ UNCHANGED <<channels, blacklist, window, aged, remote_ip, channel, request_in_db,
                   auto_blacklisted, vip, allocated, held, servedSince, served>>

\* connection_blacklisted()
CheckBlacklist ==
    /\ pc = "blacklist"
    /\ \E a \in Answers(remote_ip \in blacklist) :
          /\ blacklisted' = (a > 0)
          /\ channel' = IF a > 0 THEN -1 ELSE channel
          /\ unread' = (a <= 0 /\ remote_ip \in blacklist)
    /\ pc' = IF remote_ip \in V4 THEN "count" ELSE "decide"
    /\ UNCHANGED <<channels, blacklist, window, aged, remote_ip, request_in_db,
                   auto_blacklisted, vip, allocated, held, servedSince, served>>

\* find_and_increase()
Count ==
    /\ pc = "count"
    /\ window' = [window EXCEPT ![remote_ip] = Append(@, "refused")]
    /\ pc' = IF blacklisted THEN "decide" ELSE "guess"
    /\ UNCHANGED <<channels, blacklist, aged, call, allocated, held, servedSince, served>>

\* The clients that are tried on the fall back channel: every other connection shortly
\* before the threshold.
Guessed ==
    /\ on_failed_channel # default_server
    /\ counter(remote_ip) > Threshold - 7 /\ counter(remote_ip) <= Threshold
    /\ counter(remote_ip) % 2 = 0

\* fail_guessing(): the fall back channel is not taken,
NoGuess ==
    /\ pc = "guess"
    /\ pc' = "threshold"
    /\ UNCHANGED <<channels, blacklist, window, aged, call, allocated, held, servedSince,
                   served>>

\* or the database says that the client seems to fail; on_failed_channel is read once
\* more when the answer is there.
Guess ==
    /\ pc = "guess"
    /\ Guessed
    /\ pc' = "fallback"
    /\ UNCHANGED <<channels, blacklist, window, aged, call, allocated, held, servedSince,
                   served>>

TakeFallback ==
    /\ pc = "fallback"
    /\ channel' = on_failed_channel
    /\ pc' = "threshold"
    /\ UNCHANGED <<channels, blacklist, window, aged, remote_ip, request_in_db, blacklisted,
                   auto_blacklisted, unread, vip, allocated, held, servedSince, served>>

\* add_ip_to_auto_blacklist(): the address is added, or the database fails.
AddToBlacklist ==
    blacklist' \in {blacklist, blacklist \cup {remote_ip}}

\* Faulty: one more connection is let through.
OverThreshold_Late == counter(remote_ip) > Threshold + 1

\* The counter was read when find_and_increase() returned.  It has not changed since: the
\* window does not slide over a connection under way.
OverThreshold == counter(remote_ip) > Threshold

\* The threshold is not reached, or check_vip() says something else than 0.
WithinThreshold ==
    /\ pc = "threshold"
    /\ IF OverThreshold THEN vip' \in {-1, 1} ELSE UNCHANGED vip
    /\ pc' = "persist"
    /\ UNCHANGED <<channels, blacklist, window, aged, remote_ip, channel, request_in_db,
                   blacklisted, auto_blacklisted, unread, allocated, held, servedSince,
                   served>>

\* The threshold is reached and the client is no VIP.
Block ==
    /\ pc = "threshold"
    /\ OverThreshold
    /\ IF counter(remote_ip) > PersistThreshold THEN AddToBlacklist ELSE UNCHANGED blacklist
    /\ auto_blacklisted' = TRUE
    /\ channel' = -1
    /\ pc' = "persist"
    /\ UNCHANGED <<channels, window, aged, remote_ip, request_in_db, blacklisted, unread,
                   vip, allocated, held, servedSince, served>>

\* An address that is allowed to pass and connects for longer than max_persistent_time is
\* added to the blacklist, unless it is a VIP; this connection still passes.
Persist ==
    /\ pc = "persist"
    /\ IF ~auto_blacklisted /\ channel >= 0 /\ remote_ip \in aged
       THEN AddToBlacklist ELSE UNCHANGED blacklist
    /\ pc' = "decide"
    /\ UNCHANGED <<channels, window, aged, call, allocated, held, servedSince, served>>

-----------------------------------------------------------------------------
\* Faulty: a channel is taken as it is.
ServerOf_Unchecked(c) == c

\* The server of a channel.
ServerOf(c) == IF c < Servers THEN c ELSE 0

\* What became of a connection that is served without a request.
ServedAs == CASE vip = 0 -> "served" [] vip > 0 -> "vip" [] vip < 0 -> "vipError"

\* A channel is found and connect_host() succeeds: the connection keeps the request.
Serve ==
    /\ pc = "decide"
    /\ channel >= 0
    /\ served' = ServerOf(channel)
    /\ held' = IF request_in_db # None THEN held + 1 ELSE held
    /\ window' = IF request_in_db = None /\ remote_ip \in V4
                 THEN [window EXCEPT ![remote_ip][counter(remote_ip)] = ServedAs]
                 ELSE window
    /\ servedSince' = IF request_in_db = None /\ ~unread /\ remote_ip \in blacklist
                      THEN [servedSince EXCEPT ![remote_ip] = @ + 1]
                      ELSE servedSince
    /\ pc' = "idle"
    /\ UNCHANGED <<channels, blacklist, aged, call, allocated>>

\* Faulty: the request is not freed.
ConnectFails_Kept ==
    /\ pc = "decide"
    /\ channel >= 0
    /\ pc' = "idle"
    /\ UNCHANGED <<channels, blacklist, window, aged, call, allocated, held, servedSince,
                   served>>

\* connect_host() fails: the request is freed.
ConnectFails ==
    /\ pc = "decide"
    /\ channel >= 0
    /\ allocated' = IF request_in_db # None THEN allocated - 1 ELSE allocated
    /\ pc' = "idle"
    /\ UNCHANGED <<channels, blacklist, window, aged, call, held, servedSince, served>>

\* The client is refused.  Once in half an hour the block of a blacklisted address is
\* logged, which sets the time of its entry.
Refuse ==
    /\ pc = "decide"
    /\ channel < 0
    /\ aged' = IF blacklisted /\ ~auto_blacklisted /\ remote_ip \in V4
               THEN aged \ {remote_ip} ELSE aged
    /\ pc' = "idle"
    /\ UNCHANGED <<channels, blacklist, window, call, allocated, held, servedSince, served>>

-----------------------------------------------------------------------------
(* The surroundings.                                                        *)

\* close_event() frees the request of a connection.
CloseConnection ==
    /\ held > 0
    /\ held' = held - 1
    /\ allocated' = allocated - 1
    /\ UNCHANGED <<channels, blacklist, window, aged, pc, call, servedSince, served>>

\* Faulty: the last server is passed by one.
InRange_Past(c) == c >= 0 /\ c <= Servers

InRange(c) == c >= 0 /\ c < Servers

\* set_default_channel(), by the command thread
SetDefaultChannel(c) ==
    /\ InRange(c)
    /\ default_server' = c
    /\ UNCHANGED <<on_failed_channel, blacklist, window, aged, pc, call, allocated, held,
                   servedSince, served>>

\* set_fallback_channel(), by the command thread
SetFallbackChannel(c) ==
    /\ InRange(c)
    /\ on_failed_channel' = c
    /\ UNCHANGED <<default_server, blacklist, window, aged, pc, call, allocated, held,
                   servedSince, served>>

\* The oldest connection of an address leaves the monitored period, but not one that is
\* being decided.
Slide(p) ==
    /\ window[p] # <<>>
    /\ pc = "idle" \/ remote_ip # p
    /\ window' = [window EXCEPT ![p] = Tail(@)]
    /\ UNCHANGED <<channels, blacklist, aged, pc, call, allocated, held, servedSince, served>>

\* An entry gets old, or is freed by expiring() when it counts nothing.
Age(p) ==
    /\ p \in V4
    /\ aged' = IF window[p] # <<>> THEN aged \cup {p} ELSE aged \ {p}
    /\ UNCHANGED <<channels, blacklist, window, pc, call, allocated, held, servedSince, served>>

\* The administrator of the database adds an address to the blacklist or removes it (one
\* that is not on the white list is never looked up there).
Administrate(p) ==
    /\ blacklist' \in {blacklist \cup {p}, blacklist \ {p}}
    /\ servedSince' = [servedSince EXCEPT ![p] = IF p \in blacklist' THEN @ ELSE 0]
    /\ UNCHANGED <<channels, window, aged, pc, call, allocated, held, served>>

-----------------------------------------------------------------------------
Init ==
    /\ default_server \in ConfChannel /\ on_failed_channel \in ConfChannel
    /\ blacklist = {} /\ window = [p \in Ip |-> <<>>] /\ aged = {}
    /\ pc = "idle" /\ remote_ip = None /\ channel = -1 /\ request_in_db = None
    /\ blacklisted = FALSE /\ auto_blacklisted = FALSE /\ unread = FALSE /\ vip = 0
    /\ allocated = 0 /\ held = 0
    /\ servedSince = [p \in Ip |-> 0] /\ served = 0

AcceptingRequest ==
    \/ \E p \in Ip, r \in RequestChannel \cup {None} : Begin(p, r)
    \/ CheckBlacklist \/ Count \/ NoGuess \/ Guess \/ TakeFallback
    \/ WithinThreshold \/ Block \/ Persist
    \/ Serve \/ ConnectFails \/ Refuse

Next ==
    \/ AcceptingRequest
    \/ CloseConnection
    \/ \E c \in 0 .. Servers : SetDefaultChannel(c) \/ SetFallbackChannel(c)
    \/ \E p \in Ip : Slide(p) \/ Age(p)
    \/ \E p \in WhiteList : Administrate(p)

Spec == Init /\ [][Next]_vars
-----------------------------------------------------------------------------
\* The channels are those of the configuration or those the command thread may set, and
\* every other variable keeps its type.
TypeOK ==
    /\ default_server \in ConfChannel \cup 0 .. Servers - 1
    /\ on_failed_channel \in ConfChannel \cup 0 .. Servers - 1
    /\ blacklist \subseteq Ip /\ aged \subseteq V4
    /\ window \in [Ip -> Seq(Outcome)]
    /\ pc \in {"idle", "blacklist", "count", "guess", "fallback", "threshold", "persist",
               "decide"}
    /\ remote_ip \in Ip \cup {None} /\ channel \in Int
    /\ request_in_db \in RequestChannel \cup {None}
    /\ blacklisted \in BOOLEAN /\ auto_blacklisted \in BOOLEAN /\ unread \in BOOLEAN
    /\ vip \in {-1, 0, 1}
    /\ allocated \in Nat /\ held \in Nat
    /\ servedSince \in [Ip -> Nat]

\* The connections of p in the window that had one of the given outcomes.
Outcomes(p, O) == {j \in 1 .. Len(window[p]) : window[p][j] \in O}

\* In no monitored period is an IPv4 client served more often than the threshold, the
\* connections with a request of its own and those that check_vip() excused not counted.
\* (accepting_request() compares a counter that includes the refused connections.)
ServedWithinThreshold ==
    \A p \in Ip : Cardinality(Outcomes(p, {"served"})) <= Threshold

\* What "threshold" says: only a VIP is served more often.
ServedWithinThresholdUnlessVip ==
    \A p \in Ip : Cardinality(Outcomes(p, {"served", "vipError"})) <= Threshold

\* An address on the blacklist of the database is served at most once more without a
\* request: by the call during which it was added (by Persist or by the administrator),
\* calls that could not read the blacklist not counted.
BlacklistedServedOnce ==
    \A p \in Ip : servedSince[p] <= 1

\* A connection goes to a configured server, also when the command thread changes a
\* channel during the decision and when the configuration or a request names no server.
ServedByServer == served \in 0 .. Servers - 1

\* Between two calls every request malloc'ed by check_available() is held by a connection:
\* accepting_request() frees it on the other paths.
RequestsGivenBack ==
    allocated = held + (IF pc # "idle" /\ request_in_db # None THEN 1 ELSE 0)

=============================================================================
