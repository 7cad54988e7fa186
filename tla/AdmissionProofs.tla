-------------------------- MODULE AdmissionProofs --------------------------
(* Proofs about the decision of accepting_request(), for any thresholds,     *)
(* channels and addresses.                                                   *)
EXTENDS Admission, FiniteSetTheorems, SequenceTheorems, TLAPS

Deciding == {"count", "guess", "fallback", "threshold", "persist"}

\* What the place in accepting_request() says about its locals: which tests lie behind it,
\* and that a test that failed has taken the channel away.
Control ==
    /\ pc # "idle" => remote_ip \in Ip
    /\ pc = "blacklist" \/ pc \in Deciding => request_in_db = None /\ remote_ip \in WhiteList
    /\ pc \in Deciding => remote_ip \in V4
    /\ pc \in (Deciding \ {"persist"}) \cup {"blacklist"} => ~auto_blacklisted /\ vip = 0
    /\ pc \in Deciding \ {"count"} => ~blacklisted /\ window[remote_ip] # <<>>
    /\ pc \in Deciding \cup {"decide"} /\ (blacklisted \/ auto_blacklisted) => channel < 0
    /\ pc = "decide" /\ request_in_db # None => channel >= 0
    /\ pc = "decide" /\ request_in_db = None /\ remote_ip \notin WhiteList => channel < 0
    /\ pc = "decide" /\ request_in_db = None /\ remote_ip \in V4 /\ channel >= 0
         => window[remote_ip] # <<>>

\* A connection that passes, not excused by check_vip(), is within the threshold.
Counted ==
    pc \in {"persist", "decide"} /\ request_in_db = None /\ remote_ip \in V4
      /\ channel >= 0 /\ vip = 0 => counter(remote_ip) <= Threshold

\* An address not on the blacklist has no history, and a call that read the blacklist and
\* goes on found the address not served since it was added.
History ==
    /\ \A p \in Ip : p \notin blacklist => servedSince[p] = 0
    /\ pc \in Deciding \cup {"decide"} /\ request_in_db = None /\ remote_ip \in WhiteList
         /\ ~unread /\ ~blacklisted => servedSince[remote_ip] = 0

(***************************************************************************)
(* Sequences of outcomes.                                                  *)
(***************************************************************************)
LEMMA LastTyped ==
    ASSUME NEW S, NEW s \in Seq(S), NEW e \in S
    PROVE  [s EXCEPT ![Len(s)] = e] \in Seq(S) /\ Len([s EXCEPT ![Len(s)] = e]) = Len(s)
<1>1. CASE s = <<>>
  <2>1. Len(s) \notin DOMAIN s
    BY <1>1
  <2>2. [s EXCEPT ![Len(s)] = e] = s
    BY <1>1, <2>1
  <2> QED
    BY <2>2
<1>2. CASE s # <<>>
  <2>1. Len(s) \in 1 .. Len(s)
    BY <1>2, EmptySeq, LenProperties
  <2> QED
    BY <2>1, ExceptSeq
<1> QED
  BY <1>1, <1>2

\* The places of a sequence that hold a value of O.
Places(s, O) == {j \in 1 .. Len(s) : s[j] \in O}

\* They are no more than its length.
LEMMA PlacesBounded ==
    ASSUME NEW S, NEW s \in Seq(S), NEW O
    PROVE  /\ IsFiniteSet(Places(s, O)) /\ Cardinality(Places(s, O)) \in Nat
           /\ Cardinality(Places(s, O)) <= Len(s)
<1>1. Len(s) \in Nat
  BY LenProperties
<1>2. IsFiniteSet(1 .. Len(s)) /\ Cardinality(1 .. Len(s)) = Len(s)
  BY <1>1, FS_Interval
<1>3. Places(s, O) \in SUBSET (1 .. Len(s))
  BY DEF Places
<1>4. IsFiniteSet(Places(s, O)) /\ Cardinality(Places(s, O)) <= Len(s)
  BY <1>2, <1>3, FS_Subset
<1> QED
  BY <1>4, FS_CardinalityType

\* Appending a value outside O adds none.
LEMMA PlacesOfAppend ==
    ASSUME NEW S, NEW s \in Seq(S), NEW e \in S, NEW O, e \notin O
    PROVE  Places(Append(s, e), O) = Places(s, O)
<1> DEFINE t == Append(s, e)
<1>1. /\ Len(s) \in Nat /\ Len(t) = Len(s) + 1 /\ t[Len(s) + 1] = e
      /\ \A j \in 1 .. Len(s) : t[j] = s[j]
  BY AppendProperties, LenProperties
<1> HIDE DEF t
<1>2. \A j \in 1 .. Len(t) : j \in 1 .. Len(s) \/ j = Len(s) + 1
  BY <1>1
<1>3. 1 .. Len(s) \subseteq 1 .. Len(t)
  BY <1>1
<1>4. Places(t, O) = Places(s, O)
  BY <1>1, <1>2, <1>3 DEF Places
<1> QED
  BY <1>4 DEF t

\* Dropping the first element does not add places.
LEMMA PlacesOfTail ==
    ASSUME NEW S, NEW s \in Seq(S), s # <<>>, NEW O
    PROVE  Cardinality(Places(Tail(s), O)) <= Cardinality(Places(s, O))
<1> DEFINE P == Places(Tail(s), O)
           Q == Places(s, O)
           f == [j \in P |-> j + 1]
<1>1. /\ Len(s) \in Nat /\ Len(Tail(s)) = Len(s) - 1
      /\ \A j \in 1 .. Len(Tail(s)) : Tail(s)[j] = s[j + 1]
  BY HeadTailProperties, LenProperties
<1>2. \A j \in P : j \in Int /\ j + 1 \in Q
  BY <1>1 DEF Places
<1>3. f \in Injection(P, Q)
  BY <1>2 DEF Injection, IsInjective
<1>4. IsFiniteSet(Q)
  BY PlacesBounded
<1> HIDE DEF P, Q, f
<1>5. Cardinality(P) <= Cardinality(Q)
  BY <1>3, <1>4, FS_Injection
<1> QED
  BY <1>5 DEF P, Q

(***************************************************************************)
(* Types.                                                                  *)
(***************************************************************************)
LEMMA TypeStep ==
    ASSUME TypeOK, Control, RequestsGivenBack, [Next]_vars
    PROVE  TypeOK'
<1> USE ConstantsAssumption DEF TypeOK
<1>1. ASSUME NEW p \in Ip, NEW r \in RequestChannel \cup {None}, Begin(p, r)
      PROVE  TypeOK'
  <2>1. channel' \in Int
    BY <1>1 DEF Begin
  <2>2. allocated' \in Nat /\ pc' \in {"blacklist", "decide"}
    BY <1>1 DEF Begin
  <2>3. /\ remote_ip' = p /\ request_in_db' = r /\ vip' = 0
        /\ ~blacklisted' /\ ~auto_blacklisted' /\ ~unread'
        /\ blacklisted' \in BOOLEAN /\ auto_blacklisted' \in BOOLEAN /\ unread' \in BOOLEAN
        /\ UNCHANGED <<default_server, on_failed_channel, blacklist, window, aged, held,
                       servedSince, served>>
    BY <1>1 DEF Begin, channels
  <2> QED
    BY <2>1, <2>2, <2>3
<1>2. CASE CheckBlacklist
  BY <1>2 DEF CheckBlacklist, channels
<1>3. CASE Count
  <2>1. remote_ip \in Ip /\ Append(window[remote_ip], "refused") \in Seq(Outcome)
    BY <1>3, AppendProperties DEF Count, Control, Deciding, Outcome
  <2>2. window' \in [Ip -> Seq(Outcome)]
    BY <1>3, <2>1 DEF Count
  <2> QED
    BY <1>3, <2>2 DEF Count, channels, call
<1>4. CASE NoGuess \/ Guess
  BY <1>4 DEF NoGuess, Guess, channels, call
<1>5. CASE TakeFallback
  BY <1>5 DEF TakeFallback, channels
<1>6. CASE WithinThreshold
  BY <1>6 DEF WithinThreshold, channels
<1>7. CASE Block
  BY <1>7 DEF Block, AddToBlacklist, Control, Deciding, channels
<1>8. CASE Persist
  BY <1>8 DEF Persist, AddToBlacklist, Control, Deciding, channels, call
<1>9. CASE Serve
  <2>1. remote_ip \in Ip /\ ServedAs \in Outcome
    BY <1>9 DEF Serve, Control, ServedAs, Outcome
  <2>2. window' \in [Ip -> Seq(Outcome)]
    BY <1>9, <2>1, LastTyped DEF Serve, counter
  <2>3. servedSince' \in [Ip -> Nat]
    BY <1>9, <2>1 DEF Serve
  <2> QED
    BY <1>9, <2>2, <2>3 DEF Serve, channels, call
<1>10. CASE ConnectFails
  BY <1>10 DEF ConnectFails, RequestsGivenBack, channels, call
<1>11. CASE Refuse
  BY <1>11 DEF Refuse, channels, call
<1>12. CASE CloseConnection
  BY <1>12 DEF CloseConnection, RequestsGivenBack, channels, call
<1>13. ASSUME NEW c \in 0 .. Servers, SetDefaultChannel(c) \/ SetFallbackChannel(c)
       PROVE  TypeOK'
  BY <1>13, SMTT(30) DEF SetDefaultChannel, SetFallbackChannel, InRange, call
<1>14. ASSUME NEW p \in Ip, Slide(p)
       PROVE  TypeOK'
  <2>1. Tail(window[p]) \in Seq(Outcome)
    BY <1>14, HeadTailProperties DEF Slide
  <2> QED
    BY <1>14, <2>1 DEF Slide, channels, call
<1>15. ASSUME NEW p \in Ip, Age(p)
       PROVE  TypeOK'
  BY <1>15 DEF Age, channels, call
<1>16. ASSUME NEW p \in WhiteList, Administrate(p)
       PROVE  TypeOK'
  BY <1>16 DEF Administrate, channels, call
<1>17. CASE UNCHANGED vars
  BY <1>17 DEF vars, channels, call
<1> QED
  BY <1>1, <1>2, <1>3, <1>4, <1>5, <1>6, <1>7, <1>8, <1>9, <1>10, <1>11, <1>12, <1>13,
     <1>14, <1>15, <1>16, <1>17 DEF Next, AcceptingRequest

(***************************************************************************)
(* The place in accepting_request().                                       *)
(***************************************************************************)
LEMMA ControlStep ==
    ASSUME TypeOK, Control, [Next]_vars
    PROVE  Control'
<1> USE ConstantsAssumption DEF TypeOK, Control, Deciding
<1>1. ASSUME NEW p \in Ip, NEW r \in RequestChannel \cup {None}, Begin(p, r)
      PROVE  Control'
  BY <1>1 DEF Begin, channels
<1>2. CASE CheckBlacklist
  BY <1>2 DEF CheckBlacklist, channels
<1>3. CASE Count
  <2>1. window'[remote_ip] # <<>>
    BY <1>3, AppendProperties DEF Count, Outcome
  <2> QED
    BY <1>3, <2>1 DEF Count, channels, call
<1>4. CASE NoGuess \/ Guess
  BY <1>4 DEF NoGuess, Guess, channels, call
<1>5. CASE TakeFallback
  BY <1>5 DEF TakeFallback, channels
<1>6. CASE WithinThreshold
  BY <1>6 DEF WithinThreshold, channels
<1>7. CASE Block
  BY <1>7 DEF Block, channels
<1>8. CASE Persist
  BY <1>8 DEF Persist, channels, call
<1>9. CASE Serve \/ ConnectFails \/ Refuse
  BY <1>9 DEF Serve, ConnectFails, Refuse
<1>10. CASE CloseConnection
  BY <1>10 DEF CloseConnection, channels, call
<1>11. ASSUME NEW c \in 0 .. Servers, SetDefaultChannel(c) \/ SetFallbackChannel(c)
       PROVE  Control'
  BY <1>11 DEF SetDefaultChannel, SetFallbackChannel, call
<1>12. ASSUME NEW p \in Ip, Slide(p)
       PROVE  Control'
  BY <1>12 DEF Slide, channels, call
<1>13. ASSUME NEW p \in Ip, Age(p) \/ Administrate(p)
       PROVE  Control'
  BY <1>13 DEF Age, Administrate, channels, call
<1>14. CASE UNCHANGED vars
  BY <1>14 DEF vars, channels, call
<1> QED
  BY <1>1, <1>2, <1>3, <1>4, <1>5, <1>6, <1>7, <1>8, <1>9, <1>10, <1>11, <1>12, <1>13,
     <1>14 DEF Next, AcceptingRequest

(***************************************************************************)
(* The threshold.                                                          *)
(***************************************************************************)
LEMMA CountedStep ==
    ASSUME TypeOK, Control, Counted, [Next]_vars
    PROVE  Counted'
<1> USE ConstantsAssumption DEF TypeOK, Control, Deciding, Counted, counter
<1>1. ASSUME NEW p \in Ip, NEW r \in RequestChannel \cup {None}, Begin(p, r)
      PROVE  Counted'
  BY <1>1 DEF Begin, channels
<1>2. CASE CheckBlacklist
  BY <1>2 DEF CheckBlacklist, channels
<1>3. CASE Count
  BY <1>3 DEF Count, call
<1>4. CASE NoGuess \/ Guess \/ TakeFallback
  BY <1>4 DEF NoGuess, Guess, TakeFallback
<1>5. CASE WithinThreshold
  <2>1. Len(window[remote_ip]) \in Nat
    BY <1>5, LenProperties DEF WithinThreshold
  <2> QED
    BY <1>5, <2>1 DEF WithinThreshold, OverThreshold
<1>6. CASE Block
  BY <1>6 DEF Block
<1>7. CASE Persist
  BY <1>7 DEF Persist, call
<1>8. CASE Serve \/ ConnectFails \/ Refuse
  BY <1>8 DEF Serve, ConnectFails, Refuse
<1>9. CASE CloseConnection
  BY <1>9 DEF CloseConnection, call
<1>10. ASSUME NEW c \in 0 .. Servers, SetDefaultChannel(c) \/ SetFallbackChannel(c)
       PROVE  Counted'
  BY <1>10 DEF SetDefaultChannel, SetFallbackChannel, call
<1>11. ASSUME NEW p \in Ip, Slide(p)
       PROVE  Counted'
  BY <1>11 DEF Slide, call
<1>12. ASSUME NEW p \in Ip, Age(p) \/ Administrate(p)
       PROVE  Counted'
  BY <1>12 DEF Age, Administrate, call
<1>13. CASE UNCHANGED vars
  BY <1>13 DEF vars, call
<1> QED
  BY <1>1, <1>2, <1>3, <1>4, <1>5, <1>6, <1>7, <1>8, <1>9, <1>10, <1>11, <1>12, <1>13
     DEF Next, AcceptingRequest

LEMMA ThresholdStep ==
    ASSUME TypeOK, Control, Counted, ServedWithinThreshold, [Next]_vars
    PROVE  ServedWithinThreshold'
<1> DEFINE Served == {"served"}
<1> USE ConstantsAssumption DEF TypeOK
<1>0. SUFFICES ASSUME NEW q \in Ip
               PROVE  Cardinality(Places(window'[q], Served)) <= Threshold
  BY DEF ServedWithinThreshold, Outcomes, Places
<1>1. Cardinality(Places(window[q], Served)) <= Threshold
  BY DEF ServedWithinThreshold, Outcomes, Places
<1> HIDE DEF Served
<1>2. CASE Count
  <2>1. remote_ip \in Ip /\ "refused" \in Outcome
    BY <1>2 DEF Count, Control, Deciding, Outcome
  <2>2. CASE q # remote_ip
    BY <1>1, <1>2, <2>2 DEF Count
  <2>3. CASE q = remote_ip
    <3>1. window[q] \in Seq(Outcome) /\ window'[q] = Append(window[q], "refused")
      BY <1>2, <2>1, <2>3 DEF Count
    <3>2. "refused" \notin Served
      BY DEF Served
    <3> QED
      BY <1>1, <2>1, <3>1, <3>2, PlacesOfAppend
  <2> QED
    BY <2>2, <2>3
<1>3. CASE Serve
  <2>1. CASE UNCHANGED window
    BY <1>1, <2>1
  <2>2. CASE request_in_db = None /\ remote_ip \in V4
    <3>0. ServedAs \in Outcome
      BY DEF ServedAs, Outcome
    <3>1. /\ remote_ip \in Ip /\ window[remote_ip] # <<>>
          /\ window' = [window EXCEPT ![remote_ip][Len(window[remote_ip])] = ServedAs]
      BY <1>3, <2>2 DEF Serve, Control, counter
    <3>2. CASE q # remote_ip
      BY <1>1, <3>1, <3>2
    <3>3. CASE q = remote_ip
      <4> DEFINE s == window[q]
      <4>1. s \in Seq(Outcome) /\ window'[q] = [s EXCEPT ![Len(s)] = ServedAs]
        BY <3>1, <3>3
      <4>2. window'[q] \in Seq(Outcome) /\ Len(window'[q]) = Len(s)
        BY <3>0, <4>1, LastTyped
      <4>3. Cardinality(Places(window'[q], Served)) <= Len(s)
        BY <4>2, PlacesBounded
      <4>4. CASE vip = 0
        <5>1. Len(s) <= Threshold
          BY <1>3, <2>2, <3>3, <4>4 DEF Serve, Counted, counter
        <5>2. Cardinality(Places(window'[q], Served)) \in Nat /\ Len(s) \in Nat
          BY <4>1, <4>2, PlacesBounded, LenProperties
        <5> QED
          BY <4>3, <5>1, <5>2
      <4>5. CASE vip # 0
        <5>1. ServedAs \notin Served
          BY <4>5 DEF ServedAs, Served
        <5>2. Places(window'[q], Served) \in SUBSET Places(window[q], Served)
          <6>1. \A j \in 1 .. Len(s) : window'[q][j] \in Served => s[j] \in Served
            BY <4>1, <5>1, LenProperties
          <6> QED
            BY <4>2, <6>1 DEF Places
        <5>3. /\ IsFiniteSet(Places(window[q], Served))
              /\ Cardinality(Places(window[q], Served)) \in Nat
              /\ Cardinality(Places(window'[q], Served)) \in Nat
          BY <4>1, <4>2, PlacesBounded
        <5>4. Cardinality(Places(window'[q], Served)) <= Cardinality(Places(window[q], Served))
          BY <5>2, <5>3, FS_Subset
        <5> QED
          BY <1>1, <5>3, <5>4
      <4> QED
        BY <4>4, <4>5
    <3> QED
      BY <3>2, <3>3
  <2> QED
    BY <1>3, <2>1, <2>2 DEF Serve
<1>4. ASSUME NEW p \in Ip, Slide(p)
      PROVE  Cardinality(Places(window'[q], Served)) <= Threshold
  <2>1. CASE q # p
    BY <1>1, <1>4, <2>1 DEF Slide
  <2>2. CASE q = p
    <3>1. window[q] \in Seq(Outcome) /\ window[q] # <<>> /\ window'[q] = Tail(window[q])
      BY <1>4, <2>2 DEF Slide
    <3>2. Cardinality(Places(window'[q], Served)) <= Cardinality(Places(window[q], Served))
      BY <3>1, PlacesOfTail
    <3>3. window'[q] \in Seq(Outcome)
      BY <3>1, HeadTailProperties
    <3>4. Cardinality(Places(window[q], Served)) \in Nat /\ Cardinality(Places(window'[q], Served)) \in Nat
      BY <3>1, <3>3, PlacesBounded
    <3> QED
      BY <1>1, <3>2, <3>4
  <2> QED
    BY <2>1, <2>2
<1>5. CASE UNCHANGED window
  BY <1>1, <1>5
<1>6. Count \/ Serve \/ (\E p \in Ip : Slide(p)) \/ UNCHANGED window
  BY DEF Next, AcceptingRequest, vars, Begin, CheckBlacklist, NoGuess, Guess, TakeFallback,
     WithinThreshold, Block, Persist, ConnectFails, Refuse, CloseConnection,
     SetDefaultChannel, SetFallbackChannel, Age, Administrate
<1> QED
  BY <1>2, <1>3, <1>4, <1>5, <1>6

(***************************************************************************)
(* The blacklist.                                                          *)
(***************************************************************************)
LEMMA HistoryStep ==
    ASSUME TypeOK, Control, History, BlacklistedServedOnce, [Next]_vars
    PROVE  History' /\ BlacklistedServedOnce'
<1> USE ConstantsAssumption DEF TypeOK, History, BlacklistedServedOnce
<1>1. ASSUME NEW p \in Ip, NEW r \in RequestChannel \cup {None}, Begin(p, r)
      PROVE  History' /\ BlacklistedServedOnce'
  BY <1>1 DEF Begin, Deciding
<1>2. CASE CheckBlacklist
  BY <1>2 DEF CheckBlacklist, Control
<1>3. CASE Count \/ NoGuess \/ Guess
  BY <1>3 DEF Count, NoGuess, Guess, call, Deciding
<1>4. CASE TakeFallback \/ WithinThreshold
  BY <1>4 DEF TakeFallback, WithinThreshold, Deciding
<1>5. CASE Block
  BY <1>5 DEF Block, AddToBlacklist, Deciding
<1>6. CASE Persist
  BY <1>6 DEF Persist, AddToBlacklist, call, Deciding
<1>7. CASE Serve
  <2>1. /\ remote_ip \in Ip /\ ~blacklisted
        /\ request_in_db = None => remote_ip \in WhiteList
    BY <1>7 DEF Serve, Control, Deciding
  <2>2. request_in_db = None /\ ~unread => servedSince[remote_ip] = 0
    BY <1>7, <2>1 DEF Serve
  <2>3. \A p \in Ip : /\ p \notin blacklist' => servedSince'[p] = 0
                      /\ servedSince'[p] <= 1
    BY <1>7, <2>1, <2>2 DEF Serve
  <2> QED
    BY <1>7, <2>3 DEF Serve, Deciding
<1>8. CASE ConnectFails \/ Refuse
  BY <1>8 DEF ConnectFails, Refuse, Deciding
<1>9. CASE CloseConnection
  BY <1>9 DEF CloseConnection, call
<1>10. ASSUME NEW c \in 0 .. Servers, SetDefaultChannel(c) \/ SetFallbackChannel(c)
       PROVE  History' /\ BlacklistedServedOnce'
  BY <1>10 DEF SetDefaultChannel, SetFallbackChannel, call
<1>11. ASSUME NEW p \in Ip, Slide(p) \/ Age(p)
       PROVE  History' /\ BlacklistedServedOnce'
  BY <1>11 DEF Slide, Age, call
<1>12. ASSUME NEW p \in WhiteList, Administrate(p)
       PROVE  History' /\ BlacklistedServedOnce'
  <2>1. \A q \in Ip : servedSince'[q] = IF q = p /\ p \notin blacklist' THEN 0
                                        ELSE servedSince[q]
    BY <1>12 DEF Administrate
  <2>2. \A q \in Ip : q # p => (q \in blacklist' <=> q \in blacklist)
    BY <1>12 DEF Administrate
  <2>3. p \in blacklist' \/ servedSince'[p] = 0
    BY <2>1
  <2>4. pc' = pc /\ UNCHANGED call
    BY <1>12 DEF Administrate
  <2>5. pc # "idle" => remote_ip \in Ip
    BY DEF Control
  <2>6. History'
    BY <2>1, <2>2, <2>3, <2>4, <2>5 DEF call, Deciding
  <2>7. BlacklistedServedOnce'
    BY <2>1, SMTT(30)
  <2> QED
    BY <2>6, <2>7
<1>13. CASE UNCHANGED vars
  BY <1>13 DEF vars, call
<1> QED
  BY <1>1, <1>2, <1>3, <1>4, <1>5, <1>6, <1>7, <1>8, <1>9, <1>10, <1>11, <1>12, <1>13
     DEF Next, AcceptingRequest

(***************************************************************************)
(* Servers and requests.                                                   *)
(***************************************************************************)
LEMMA ServedStep ==
    ASSUME TypeOK, ServedByServer, [Next]_vars
    PROVE  ServedByServer'
<1>1. CASE Serve
  BY <1>1, ConstantsAssumption DEF Serve, ServerOf, TypeOK, ServedByServer
<1>2. CASE UNCHANGED served
  BY <1>2 DEF ServedByServer
<1>3. Serve \/ UNCHANGED served
  BY DEF Next, AcceptingRequest, vars, Begin, CheckBlacklist, Count, NoGuess, Guess,
     TakeFallback, WithinThreshold, Block, Persist, ConnectFails, Refuse, CloseConnection,
     SetDefaultChannel, SetFallbackChannel, Slide, Age, Administrate
<1> QED
  BY <1>1, <1>2, <1>3

LEMMA RequestsStep ==
    ASSUME TypeOK, Control, RequestsGivenBack, [Next]_vars
    PROVE  RequestsGivenBack'
<1> USE ConstantsAssumption DEF TypeOK, RequestsGivenBack
<1>1. ASSUME NEW p \in Ip, NEW r \in RequestChannel \cup {None}, Begin(p, r)
      PROVE  RequestsGivenBack'
  BY <1>1 DEF Begin
<1>2. CASE CheckBlacklist \/ Count \/ NoGuess \/ Guess \/ TakeFallback
  BY <1>2 DEF CheckBlacklist, Count, NoGuess, Guess, TakeFallback, call
<1>3. CASE WithinThreshold \/ Block \/ Persist
  BY <1>3 DEF WithinThreshold, Block, Persist, call
<1>4. CASE Serve
  BY <1>4 DEF Serve, call
<1>5. CASE ConnectFails
  BY <1>5 DEF ConnectFails, call
<1>6. CASE Refuse
  BY <1>6 DEF Refuse, call, Control
<1>7. CASE CloseConnection
  BY <1>7 DEF CloseConnection, call
<1>8. ASSUME NEW c \in 0 .. Servers, SetDefaultChannel(c) \/ SetFallbackChannel(c)
      PROVE  RequestsGivenBack'
  BY <1>8 DEF SetDefaultChannel, SetFallbackChannel, call
<1>9. ASSUME NEW p \in Ip, Slide(p) \/ Age(p) \/ Administrate(p)
      PROVE  RequestsGivenBack'
  BY <1>9 DEF Slide, Age, Administrate, call
<1>10. CASE UNCHANGED vars
  BY <1>10 DEF vars, call
<1> QED
  BY <1>1, <1>2, <1>3, <1>4, <1>5, <1>6, <1>7, <1>8, <1>9, <1>10 DEF Next, AcceptingRequest

(***************************************************************************)
(* The theorems.                                                           *)
(***************************************************************************)
IInv ==
    /\ TypeOK /\ Control /\ Counted /\ History
    /\ ServedWithinThreshold /\ BlacklistedServedOnce /\ ServedByServer /\ RequestsGivenBack

LEMMA InitIInv == Init => IInv
<1> SUFFICES ASSUME Init PROVE IInv
  OBVIOUS
<1> USE ConstantsAssumption DEF Init
<1>1. TypeOK
  <2>1. window \in [Ip -> Seq(Outcome)] /\ servedSince \in [Ip -> Nat]
    OBVIOUS
  <2>2. default_server \in ConfChannel /\ on_failed_channel \in ConfChannel
    OBVIOUS
  <2>3. blacklisted \in BOOLEAN /\ auto_blacklisted \in BOOLEAN /\ unread \in BOOLEAN
    BY Zenon
  <2>4. /\ blacklist \subseteq Ip /\ aged \subseteq V4 /\ vip \in {-1, 0, 1}
        /\ allocated \in Nat /\ held \in Nat /\ channel \in Int
    OBVIOUS
  <2> QED
    BY <2>1, <2>2, <2>3, <2>4 DEF TypeOK
<1>2. Control /\ Counted
  <2>1. pc \notin {"blacklist", "decide", "persist"} /\ pc \notin Deciding /\ pc = "idle"
    BY DEF Deciding
  <2>2. Control
    BY ONLY <2>1 DEF Control
  <2>3. Counted
    BY ONLY <2>1 DEF Counted
  <2> QED
    BY <2>2, <2>3
<1>3. History
  BY DEF History, Deciding
<1>4. ServedWithinThreshold
  <2>1. ASSUME NEW p \in Ip
        PROVE  Cardinality(Outcomes(p, {"served"})) <= Threshold
    <3>1. window[p] = <<>>
      OBVIOUS
    <3>2. Outcomes(p, {"served"}) = {}
      BY <3>1 DEF Outcomes
    <3>3. Cardinality(Outcomes(p, {"served"})) = 0
      BY <3>2, FS_EmptySet, Zenon
    <3> QED
      BY <3>3
  <2> QED
    BY <2>1 DEF ServedWithinThreshold
<1>5. BlacklistedServedOnce /\ ServedByServer /\ RequestsGivenBack
  BY DEF BlacklistedServedOnce, ServedByServer, RequestsGivenBack
<1> QED
  BY <1>1, <1>2, <1>3, <1>4, <1>5 DEF IInv

\* accepting_request() keeps the inductive invariant: the tests that lie behind a place in it
\* (Control), the count of a connection that passes (Counted) and what is known of the
\* blacklist (History), next to the properties themselves.
THEOREM Invariance == Spec => []IInv
<1>1. IInv /\ [Next]_vars => IInv'
  BY TypeStep, ControlStep, CountedStep, ThresholdStep, HistoryStep, ServedStep, RequestsStep
     DEF IInv
<1> QED
  BY InitIInv, <1>1, PTL DEF Spec

\* The channels stay those of the configuration or of the servers, although the command
\* thread sets them (set_default_channel(), set_fallback_channel()) during a decision.
THEOREM TypeCorrect == Spec => []TypeOK
  BY Invariance, PTL DEF IInv

\* For every threshold: no IPv4 client of the white list is served more often than the
\* threshold in a monitored period, unless check_vip() answered something else than 0.
THEOREM ThresholdSafe == Spec => []ServedWithinThreshold
  BY Invariance, PTL DEF IInv

\* An address on the blacklist is served at most once more, by the accepting_request() during
\* which it was added, as long as connection_blacklisted() can read the blacklist.
THEOREM BlacklistSafe == Spec => []BlacklistedServedOnce
  BY Invariance, PTL DEF IInv

\* Whatever channel a request, the configuration or the command thread names,
\* accepting_request() connects to one of the servers.
THEOREM ServerSafe == Spec => []ServedByServer
  BY Invariance, PTL DEF IInv

\* The requests of check_available() that are not freed are those of connections and the one
\* of the accepting_request() under way.
THEOREM RequestsSafe == Spec => []RequestsGivenBack
  BY Invariance, PTL DEF IInv

=============================================================================
