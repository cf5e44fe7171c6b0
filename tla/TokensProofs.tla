---------------------------- MODULE TokensProofs ----------------------------
(***************************************************************************)
(* One coroutine refreshes at a time, and the bot at rest holds a live     *)
(* session, for any number of coroutines, tokens and lost answers.         *)
(***************************************************************************)
EXTENDS Tokens, TLAPS

(***************************************************************************)
(* The lock and the program counters agree: a coroutine that refreshes     *)
(* holds the lock, and there is one.  call is a function on Call, which is *)
(* all that its updates need.                                              *)
(***************************************************************************)
Holds(c) == call[c].at = "refresh"
IsFunction == call = [c \in Call |-> call[c]]
HolderLocks == \A c \in Call : Holds(c) => locked
LockInv == IsFunction /\ HolderLocks /\ OneRefreshAtATime

\* A coroutine goes anywhere but to the refresh, and keeps the lock as it is.
LEMMA LeavesLock ==
  ASSUME LockInv, NEW c \in Call, NEW local,
         call' = [call EXCEPT ![c] = local], local.at # "refresh",
         locked' = locked \/ (~locked' /\ Holds(c))
  PROVE  LockInv'
<1> USE DEF LockInv, IsFunction, HolderLocks, OneRefreshAtATime, Holds
<1>1. call'[c] = local /\ \A d \in Call \ {c} : call'[d] = call[d]
  OBVIOUS
<1>2. IsFunction'
  OBVIOUS
<1>3. \A d \in Call : Holds(d)' => d # c /\ Holds(d)
  BY <1>1
<1>4. HolderLocks'
  <2> SUFFICES ASSUME NEW d \in Call, Holds(d)' PROVE locked'
    OBVIOUS
  <2>1. d # c /\ Holds(d) /\ locked
    BY <1>3
  <2>2. ~Holds(c)
    BY <2>1
  <2> QED BY <2>1, <2>2
<1>5. OneRefreshAtATime'
  BY <1>3
<1> QED BY <1>2, <1>4, <1>5

\* A coroutine takes the free lock.
LEMMA TakesLock ==
  ASSUME LockInv, NEW c \in Call, NEW local,
         call' = [call EXCEPT ![c] = local], ~locked, locked'
  PROVE  LockInv'
<1> USE DEF LockInv, IsFunction, HolderLocks, OneRefreshAtATime, Holds
<1>1. \A d \in Call \ {c} : call'[d] = call[d] /\ ~Holds(d)
  OBVIOUS
<1> QED BY <1>1

LEMMA EndLeaves ==
  ASSUME LockInv, NEW c \in Call, Ends(c),
         locked' = locked \/ (~locked' /\ Holds(c))
  PROVE  LockInv'
<1>1. Idle.at # "refresh"
  BY DEF Idle
<1> QED BY <1>1, LeavesLock DEF Ends

LEMMA RetryLeaves ==
  ASSUME LockInv, NEW c \in Call, NEW token, Retry(c, token),
         locked' = locked \/ (~locked' /\ Holds(c))
  PROVE  LockInv'
<1> DEFINE local == [at |-> "retry", first |-> call[c].first, token |-> token]
<1>1. local.at # "refresh"
  OBVIOUS
<1>2. call' = [call EXCEPT ![c] = local]
  BY DEF Retry, Asks
<1> HIDE DEF local
<1> QED BY <1>1, <1>2, LeavesLock

LEMMA RotateTakes ==
  ASSUME LockInv, NEW c \in Call, NEW token, Rotate(c, token), ~locked
  PROVE  LockInv'
BY TakesLock DEF Rotate, Asks

LEMMA QueueLeaves ==
  ASSUME LockInv, NEW c \in Call, NEW at, at # "refresh", Queue(c, at)
  PROVE  LockInv'
<1> DEFINE local == [at |-> at, first |-> call[c].first, token |-> refresh]
<1>1. local.at # "refresh"
  OBVIOUS
<1>2. call' = [call EXCEPT ![c] = local] /\ locked' = locked
  BY DEF Queue
<1> HIDE DEF local
<1> QED BY <1>1, <1>2, LeavesLock

LEMMA GivingUpLeaves ==
  ASSUME LockInv, NEW c \in Call, GivesUp(c)
  PROVE  LockInv'
<1>1. CASE call[c].at # "refresh"
  BY <1>1, EndLeaves DEF GivesUp
<1>2. CASE call[c].at = "refresh"
  BY <1>2, EndLeaves DEF GivesUp, Unlocked, Holds
<1> QED BY <1>1, <1>2

LEMMA RefusedKeepsLockInv ==
  ASSUME LockInv, NEW c \in Call, Refused(c)
  PROVE  LockInv'
<1>1. CASE Ends(c) /\ UNCHANGED locked
  BY <1>1, EndLeaves
<1>2. CASE Free /\ Retry(c, access') /\ UNCHANGED locked
  BY <1>2, RetryLeaves
<1>3. CASE Free /\ Rotate(c, refresh)
  BY <1>3, RotateTakes DEF Free
<1>4. CASE Queue(c, "waiting") \/ Queue(c, "queued")
  BY <1>4, QueueLeaves
<1> QED BY <1>1, <1>2, <1>3, <1>4 DEF Refused

LEMMA ReceiveKeepsLockInv ==
  ASSUME LockInv, NEW c \in Call, Receive(c)
  PROVE  LockInv'
<1> PICK a \in answers :
      \/ Refused(c)
      \/ Ends(c) /\ UNCHANGED locked
      \/ call[c].at = "refresh" /\ locked' = FALSE /\ Retry(c, a.pair)
      \/ GivesUp(c)
  BY DEF Receive
<1>1. CASE Refused(c)
  BY <1>1, RefusedKeepsLockInv
<1>2. CASE Ends(c) /\ UNCHANGED locked
  BY <1>2, EndLeaves
<1>3. CASE call[c].at = "refresh" /\ locked' = FALSE /\ Retry(c, a.pair)
  BY <1>3, RetryLeaves DEF Holds
<1>4. CASE GivesUp(c)
  BY <1>4, GivingUpLeaves
<1> QED BY <1>1, <1>2, <1>3, <1>4

LEMMA WakeKeepsLockInv ==
  ASSUME LockInv, NEW c \in Call, Wake(c)
  PROVE  LockInv'
<1>1. CASE Retry(c, access) /\ UNCHANGED locked
  BY <1>1, RetryLeaves
<1>2. CASE Ends(c) /\ UNCHANGED locked
  BY <1>2, EndLeaves
<1>3. CASE Rotate(c, call[c].token) /\ ~locked
  BY <1>3, RotateTakes
<1> QED BY <1>1, <1>2, <1>3 DEF Wake

LEMMA CancelKeepsLockInv ==
  ASSUME LockInv, NEW c \in Call, Cancel(c)
  PROVE  LockInv'
BY EndLeaves DEF Cancel, Holds

\* A new call of c.
LEMMA BeginKeepsLockInv ==
  ASSUME LockInv, NEW c \in Call, Start(c) \/ Login(c) \/ Logout(c)
  PROVE  LockInv'
<1>1. PICK local : /\ local.at # "refresh"
                   /\ call' = [call EXCEPT ![c] = local]
                   /\ locked' = locked
  <2>1. CASE Start(c)
    <3> DEFINE local == [at |-> "play", first |-> access]
    <3>1. local.at # "refresh" /\ call' = [call EXCEPT ![c] = local] /\ locked' = locked
      BY <2>1 DEF Start, Asks
    <3> QED BY <3>1
  <2>2. CASE Login(c)
    <3> DEFINE local == [at |-> "login"]
    <3>1. local.at # "refresh" /\ call' = [call EXCEPT ![c] = local] /\ locked' = locked
      BY <2>2 DEF Login, Asks
    <3> QED BY <3>1
  <2>3. CASE Logout(c)
    <3> DEFINE local == [at |-> "logout"]
    <3>1. local.at # "refresh" /\ call' = [call EXCEPT ![c] = local] /\ locked' = locked
      BY <2>3 DEF Logout, Asks
    <3> QED BY <3>1
  <2> QED BY <2>1, <2>2, <2>3
<1> QED BY <1>1, LeavesLock

(* The lock of a user keeps any number of coroutines from refreshing at the    *)
(* same time, cancellations and lost answers included.                         *)
(* (_get_refresh_lock, _try_refresh)                                           *)
THEOREM RefreshesExclude == Spec => []OneRefreshAtATime
<1>1. Init => LockInv
  BY DEF Init, LockInv, IsFunction, HolderLocks, OneRefreshAtATime, Holds, Idle
<1>2. LockInv /\ [Next]_vars => LockInv'
  <2> SUFFICES ASSUME LockInv, [Next]_vars PROVE LockInv'
    OBVIOUS
  <2>1. CASE \E c \in Call : Start(c) \/ Login(c) \/ Logout(c)
    BY <2>1, BeginKeepsLockInv
  <2>2. CASE \E c \in Call : Receive(c)
    BY <2>2, ReceiveKeepsLockInv
  <2>3. CASE \E c \in Call : Wake(c)
    BY <2>3, WakeKeepsLockInv
  <2>4. CASE \E c \in Call : Lose(c)
    BY <2>4, GivingUpLeaves DEF Lose
  <2>5. CASE \E c \in Call : Cancel(c)
    BY <2>5, CancelKeepsLockInv
  <2>6. CASE UNCHANGED client
    BY <2>6 DEF client, LockInv, IsFunction, HolderLocks, OneRefreshAtATime, Holds
  <2>7. ASSUME NEW c \in Call \cup {Nobody}, Serve(c) PROVE UNCHANGED client
    BY <2>7 DEF Serve
  <2>8. ASSUME NEW pair \in Pair, Expire(pair) PROVE UNCHANGED client
    BY <2>8 DEF Expire
  <2> QED BY <2>1, <2>2, <2>3, <2>4, <2>5, <2>6, <2>7, <2>8 DEF Next, vars
<1>3. LockInv => OneRefreshAtATime
  BY DEF LockInv
<1> QED BY <1>1, <1>2, <1>3, PTL DEF Spec

-----------------------------------------------------------------------------
(***************************************************************************)
(* The session of the refresh token.  A pair of tokens is new until the    *)
(* bot has received it: nobody knows its refresh token yet.                *)
(***************************************************************************)
Keeps == {"waiting", "queued", "refresh"}      \* the states that keep a refresh token
Sends == {"play", "retry", "login", "refresh", "logout"}
Token == 0 .. issued
Uses(r) == r.kind \in {"refresh", "logout"}
Brings(a) == call[a.to].at = "login" \/ (call[a.to].at = "refresh" /\ a.ok)

\* A refresh token that the bot, a coroutine or a request has.
Known(token) ==
  \/ token = refresh
  \/ \E r \in requests : Uses(r) /\ r.token = token
  \/ \E c \in Call : call[c].at \in Keeps /\ call[c].token = token

LocalType(c) ==
  /\ call[c].at \in Sends \cup Keeps \cup {"idle"}
  /\ call[c].at = "idle" => call[c] = Idle
  /\ call[c].at = "logout" => c \in Auth
  /\ call[c].at \in Keeps => call[c].token \in Token

RequestType(r) ==
  /\ r = [from |-> r.from, kind |-> r.kind, token |-> r.token, found |-> r.found]
  /\ r.from \in Call \cup {Nobody} /\ r.kind \in Sends /\ r.token \in Token

Types ==
  /\ issued \in Nat /\ live \subseteq 1 .. issued
  /\ access \in Token /\ refresh \in Token
  /\ IsFunction /\ \A c \in Call : LocalType(c)
  /\ \A r \in requests : RequestType(r)
  /\ \A a \in answers : a.to \in Call /\ a.pair \in Token

\* A coroutine that sent a request waits for it, or for its one answer.
OneMessage ==
  /\ \A r \in requests : r.from # Nobody =>
       /\ r.kind = call[r.from].at
       /\ r.kind = "refresh" => r.token = call[r.from].token
       /\ \A s \in requests : s.from = r.from => s = r
       /\ \A a \in answers : a.to # r.from
  /\ \A a \in answers :
       /\ call[a.to].at \in Sends
       /\ \A b \in answers : a.to = b.to => a = b

NewPairs ==
  \A a \in answers : Brings(a) =>
    /\ a.pair \in live /\ ~Known(a.pair)
    /\ \A b \in answers : Brings(b) /\ b.pair = a.pair => a = b

\* A request that the bot gave up on may revoke a session that the bot no
\* longer has, or one whose rotation was cancelled.
Abandoned ==
  \A r \in requests : r.from = Nobody /\ Uses(r) /\ r.token = refresh =>
    refresh \in cancelled \cup {None}

Explained ==
  \/ refresh \in live \cup cancelled \cup {None}
  \/ \E c \in Call : call[c].at = "logout"
  \/ \E c \in Call : call[c].at = "refresh" /\ call[c].token = refresh

SessionInv == Types /\ OneMessage /\ NewPairs /\ Abandoned /\ Explained

-----------------------------------------------------------------------------
(***************************************************************************)
(* What every step of a coroutine does.                                    *)
(***************************************************************************)
\* The requests that c may leave at the server: those of the others, one of
\* its own, and what it gave up on.
RequestsOf(c) ==
  /\ \A r \in requests' :
       \/ r \in requests /\ r.from # c
       \/ /\ call'[c].at \in Sends /\ r.token \in Token
          /\ r = Request(c, call'[c].at, r.token)
          /\ call'[c].at = "refresh" => r.token = call'[c].token
          /\ Uses(r) => Known(r.token)
       \/ \E s \in requests :
            /\ s.from = c /\ r = [s EXCEPT !.from = Nobody]
            /\ Uses(s) /\ s.token = refresh' => refresh' \in cancelled' \cup {None}
  /\ \A r, s \in requests' : r.from = c /\ s.from = c => r = s

Moves(c) ==
  /\ call' = [call EXCEPT ![c] = call'[c]]
  /\ answers' = {a \in answers : a.to # c}
  /\ UNCHANGED server /\ cancelled \subseteq cancelled'
  /\ RequestsOf(c)
  /\ LocalType(c)' /\ (call'[c].at \in Keeps => Known(call'[c].token))
  /\ access' \in Token
  /\ \/ refresh' \in {refresh, None}
     \/ \E a \in answers : a.to = c /\ Brings(a) /\ refresh' = a.pair
  /\ call[c].at = "logout" \/ (call[c].at = "refresh" /\ call[c].token = refresh)
       => refresh' # refresh \/ refresh \in cancelled' \cup {None}

LEMMA MovesKeepsTypes ==
  ASSUME SessionInv, NEW c \in Call, Moves(c)
  PROVE  Types'
<1>1. issued' = issued /\ live' = live /\ Token' = Token
  BY DEF Moves, server, Token
<1>2. access' \in Token /\ refresh' \in Token
  BY DEF Moves, SessionInv, Types, Token, None
<1>3. IsFunction' /\ \A d \in Call : LocalType(d)'
  <2>1. IsFunction' /\ \A d \in Call \ {c} : call'[d] = call[d]
    BY DEF Moves, SessionInv, Types, IsFunction
  <2>2. \A d \in Call \ {c} : LocalType(d)'
    BY <1>1, <2>1 DEF SessionInv, Types, LocalType
  <2> QED
    BY <2>1, <2>2 DEF Moves
<1>4. ASSUME NEW r \in requests' PROVE RequestType(r)'
  <2>1. CASE r \in requests
    BY <1>1, <2>1 DEF SessionInv, Types, RequestType
  <2>2. CASE call'[c].at \in Sends /\ r.token \in Token /\ r = Request(c, call'[c].at, r.token)
    BY <1>1, <2>2 DEF Request, RequestType
  <2>3. CASE \E s \in requests : r = [s EXCEPT !.from = Nobody]
    <3> PICK s \in requests : r = [s EXCEPT !.from = Nobody]
      BY <2>3
    <3>1. r = [from |-> Nobody, kind |-> s.kind, token |-> s.token, found |-> s.found]
      BY DEF SessionInv, Types, RequestType
    <3> QED
      BY <1>1, <3>1 DEF SessionInv, Types, RequestType
  <2> QED
    BY <2>1, <2>2, <2>3 DEF Moves, RequestsOf
<1>5. \A a \in answers' : a.to \in Call /\ a.pair \in Token
  BY DEF Moves, SessionInv, Types
<1> QED
  BY <1>1, <1>2, <1>3, <1>4, <1>5 DEF SessionInv, Types

LEMMA MovesKeepsMessages ==
  ASSUME SessionInv, NEW c \in Call, Moves(c)
  PROVE  OneMessage'
<1>1. \A d \in Call \ {c} : call'[d] = call[d]
  BY DEF Moves, SessionInv, Types, IsFunction
<1>2. ASSUME NEW r \in requests', r.from # Nobody
      PROVE  \/ r \in requests /\ r.from \in Call \ {c}
             \/ /\ r.from = c /\ r.kind = call'[c].at
                /\ r.kind = "refresh" => r.token = call'[c].token
  <2>1. \A s \in requests : s.from \in Call \cup {Nobody} /\ [s EXCEPT !.from = Nobody].from = Nobody
    BY DEF SessionInv, Types, RequestType
  <2>2. CASE r \in requests /\ r.from # c
    BY <1>2, <2>1, <2>2
  <2>3. CASE /\ r = Request(c, call'[c].at, r.token)
             /\ call'[c].at = "refresh" => r.token = call'[c].token
    BY <2>3 DEF Request
  <2> QED
    BY <1>2, <2>1, <2>2, <2>3 DEF Moves, RequestsOf
<1>3. ASSUME NEW r \in requests', r.from # Nobody
      PROVE  /\ r.kind = call'[r.from].at
             /\ r.kind = "refresh" => r.token = call'[r.from].token
  BY <1>1, <1>2, <1>3 DEF SessionInv, OneMessage
<1>4. ASSUME NEW r \in requests', r.from # Nobody, NEW s \in requests', s.from = r.from
      PROVE  s = r
  BY <1>2, <1>4 DEF SessionInv, OneMessage, Moves, RequestsOf
<1>5. ASSUME NEW r \in requests', r.from # Nobody, NEW a \in answers'
      PROVE  a.to # r.from
  BY <1>2, <1>5 DEF SessionInv, OneMessage, Moves
<1>6. ASSUME NEW a \in answers'
      PROVE  call'[a.to].at \in Sends /\ \A b \in answers' : a.to = b.to => a = b
  BY <1>1 DEF SessionInv, Types, OneMessage, Moves
<1> QED
  BY <1>3, <1>4, <1>5, <1>6 DEF OneMessage

LEMMA MovesKeepsPairs ==
  ASSUME SessionInv, NEW c \in Call, Moves(c)
  PROVE  NewPairs'
<1>1. \A d \in Call \ {c} : call'[d] = call[d]
  BY DEF Moves, SessionInv, Types, IsFunction
<1>2. ASSUME NEW a \in answers', Brings(a)'
      PROVE  a \in answers /\ a.to # c /\ Brings(a)
  BY <1>1, <1>2 DEF Moves, Brings, SessionInv, Types
<1>3. ASSUME NEW a \in answers', Brings(a)'
      PROVE  a.pair \in live' /\ ~Known(a.pair)'
  <2>1. a \in answers /\ a.to # c /\ Brings(a) /\ a.pair \in live /\ ~Known(a.pair)
    BY <1>2, <1>3 DEF SessionInv, NewPairs
  <2>2. a.pair # refresh'
    <3>1. a.pair # refresh /\ a.pair # None
      BY <2>1 DEF Known, SessionInv, Types, None
    <3>2. ASSUME NEW b \in answers, b.to = c, Brings(b) PROVE b.pair # a.pair
      BY <2>1, <3>2 DEF SessionInv, NewPairs
    <3> QED
      BY <3>1, <3>2 DEF Moves
  <2>3. ASSUME NEW r \in requests', Uses(r) PROVE r.token # a.pair
    <3>1. CASE r \in requests
      BY <2>1, <2>3, <3>1 DEF Known
    <3>2. CASE Uses(r) => Known(r.token)
      BY <2>1, <2>3, <3>2
    <3>3. CASE \E s \in requests : r = [s EXCEPT !.from = Nobody]
      <4> PICK s \in requests : r = [s EXCEPT !.from = Nobody]
        BY <3>3
      <4>1. r.kind = s.kind /\ r.token = s.token
        BY DEF SessionInv, Types, RequestType
      <4> QED
        BY <2>1, <2>3, <4>1 DEF Known, Uses
    <3> QED
      BY <3>1, <3>2, <3>3 DEF Moves, RequestsOf
  <2>4. ASSUME NEW d \in Call, call'[d].at \in Keeps PROVE call'[d].token # a.pair
    <3>1. CASE d = c
      BY <2>1, <2>4, <3>1 DEF Moves
    <3>2. CASE d # c
      BY <1>1, <2>1, <2>4, <3>2 DEF Known
    <3> QED
      BY <3>1, <3>2
  <2>5. live' = live
    BY DEF Moves, server
  <2> QED
    BY <2>1, <2>2, <2>3, <2>4, <2>5 DEF Known, Uses
<1>4. ASSUME NEW a \in answers', Brings(a)', NEW b \in answers', Brings(b)', b.pair = a.pair
      PROVE  a = b
  BY <1>2, <1>4 DEF SessionInv, NewPairs
<1> QED
  BY <1>3, <1>4 DEF NewPairs

LEMMA MovesKeepsSession ==
  ASSUME SessionInv, NEW c \in Call, Moves(c)
  PROVE  Abandoned' /\ Explained'
<1>1. \A d \in Call \ {c} : call'[d] = call[d]
  BY DEF Moves, SessionInv, Types, IsFunction
<1>2. CASE refresh' = None
  BY <1>2 DEF Abandoned, Explained
<1>3. CASE refresh' # None /\ \E a \in answers : a.to = c /\ Brings(a) /\ refresh' = a.pair
  <2> PICK a \in answers : a.to = c /\ Brings(a) /\ refresh' = a.pair
    BY <1>3
  <2>1. a.pair \in live /\ ~Known(a.pair)
    BY DEF SessionInv, NewPairs
  <2>2. Explained'
    BY <2>1 DEF Explained, Moves, server
  <2>3. ASSUME NEW r \in requests', r.from = Nobody, Uses(r) PROVE r.token # refresh'
    <3>2. c # Nobody
      BY CallAssumption
    <3>1. \A s \in requests : s.from # c
      BY <3>2 DEF SessionInv, OneMessage
    <3>3. CASE r \in requests
      BY <2>1, <2>3, <3>3 DEF Known
    <3>4. CASE r.from = c
      BY <2>3, <3>2, <3>4
    <3> QED
      BY <3>1, <3>3, <3>4 DEF Moves, RequestsOf, Request
  <2> QED
    BY <2>2, <2>3 DEF Abandoned, Uses
<1>4. CASE refresh' = refresh
  <2>1. Explained'
    <3>1. CASE refresh \in live \cup cancelled \cup {None}
      BY <1>4, <3>1 DEF Explained, Moves, server
    <3>2. ASSUME NEW d \in Call, call[d].at = "logout" PROVE Explained'
      BY <1>1, <1>4, <3>2 DEF Explained, Moves
    <3>3. ASSUME NEW d \in Call, call[d].at = "refresh" /\ call[d].token = refresh PROVE Explained'
      BY <1>1, <1>4, <3>3 DEF Explained, Moves
    <3> QED
      BY <3>1, <3>2, <3>3 DEF SessionInv, Explained
  <2>2. ASSUME NEW r \in requests', r.from = Nobody, Uses(r), r.token = refresh
        PROVE  refresh \in cancelled' \cup {None}
    <3>1. c # Nobody
      BY CallAssumption
    <3>2. CASE r \in requests
      BY <2>2, <3>2 DEF SessionInv, Abandoned, Moves
    <3>3. CASE r.from = c
      BY <2>2, <3>1, <3>3
    <3>4. ASSUME NEW s \in requests, r = [s EXCEPT !.from = Nobody],
                 Uses(s) /\ s.token = refresh' => refresh' \in cancelled' \cup {None}
          PROVE  refresh \in cancelled' \cup {None}
      <4>1. r.kind = s.kind /\ r.token = s.token
        BY <3>4 DEF SessionInv, Types, RequestType
      <4> QED
        BY <1>4, <2>2, <3>4, <4>1 DEF Uses
    <3> QED
      BY <3>2, <3>3, <3>4 DEF Moves, RequestsOf, Request
  <2> QED
    BY <1>4, <2>1, <2>2 DEF Abandoned, Uses
<1> QED
  BY <1>2, <1>3, <1>4 DEF Moves

LEMMA MovesKeepsInv ==
  ASSUME SessionInv, NEW c \in Call, Moves(c)
  PROVE  SessionInv'
BY MovesKeepsTypes, MovesKeepsMessages, MovesKeepsPairs, MovesKeepsSession DEF SessionInv

-----------------------------------------------------------------------------
(***************************************************************************)
(* The steps of the coroutines.                                            *)
(***************************************************************************)
Quiet(c) == \A r \in requests : r.from # c
Local(c) == RequestsOf(c) /\ call' = [call EXCEPT ![c] = call'[c]]

LEMMA NotSending ==
  ASSUME SessionInv, NEW c \in Call, call[c].at \notin Sends
  PROVE  Quiet(c) /\ answers = {a \in answers : a.to # c}
<1>1. c # Nobody
  BY CallAssumption
<1>2. Quiet(c)
  BY <1>1 DEF Quiet, SessionInv, Types, RequestType, OneMessage
<1>3. \A a \in answers : a.to # c
  BY DEF SessionInv, OneMessage
<1> QED
  BY <1>2, <1>3

LEMMA Answered ==
  ASSUME SessionInv, NEW c \in Call, NEW a \in answers, a.to = c
  PROVE  Quiet(c) /\ answers \ {a} = {b \in answers : b.to # c}
<1>1. c # Nobody
  BY CallAssumption
<1>2. Quiet(c)
  BY <1>1 DEF Quiet, SessionInv, OneMessage
<1>3. \A b \in answers : b.to = c => b = a
  BY DEF SessionInv, OneMessage
<1> QED
  BY <1>2, <1>3

LEMMA SilentLocal ==
  ASSUME SessionInv, NEW c \in Call, NEW local, Quiet(c),
         requests' = requests, call' = [call EXCEPT ![c] = local]
  PROVE  Local(c) /\ call'[c] = local
<1>1. call'[c] = local
  BY DEF SessionInv, Types, IsFunction
<1> QED
  BY <1>1 DEF Local, RequestsOf, Quiet

LEMMA AsksLocal ==
  ASSUME SessionInv, NEW c \in Call, NEW kind \in Sends, NEW token \in Token, NEW local, Quiet(c),
         Asks(c, kind, token, local), local.at = kind,
         kind = "refresh" => local.token = token,
         kind \in {"refresh", "logout"} => Known(token)
  PROVE  Local(c) /\ call'[c] = local
<1>1. call'[c] = local
  BY DEF SessionInv, Types, IsFunction, Asks
<1>2. c # Nobody /\ Request(c, kind, token).from = c /\ Request(c, kind, token).token = token
        /\ Request(c, kind, token).kind = kind
  BY CallAssumption DEF Request
<1>3. \A r \in requests' : \/ r \in requests /\ r.from # c
                           \/ r = Request(c, kind, token)
  BY DEF Quiet, Asks
<1>4. \A r, s \in requests' : r.from = c /\ s.from = c => r = s
  BY <1>3
<1>5. call' = [call EXCEPT ![c] = call'[c]]
  BY <1>1 DEF Asks
<1> HIDE DEF Request
<1>6. RequestsOf(c)
  BY <1>1, <1>2, <1>3, <1>4 DEF RequestsOf, Uses
<1> QED
  BY <1>1, <1>5, <1>6 DEF Local

LEMMA AbandonLocal ==
  ASSUME SessionInv, NEW c \in Call, NEW local, Abandon(c), call' = [call EXCEPT ![c] = local],
         \A s \in requests : s.from = c /\ Uses(s) /\ s.token = refresh'
                               => refresh' \in cancelled' \cup {None}
  PROVE  Local(c) /\ call'[c] = local
<1>1. call'[c] = local
  BY DEF SessionInv, Types, IsFunction
<1>2. c # Nobody
  BY CallAssumption
<1>3. ASSUME NEW r \in requests'
      PROVE  \/ r \in requests /\ r.from # c
             \/ \E s \in requests : s.from = c /\ r = [s EXCEPT !.from = Nobody]
  BY DEF Abandon
<1>4. \A s \in requests : [s EXCEPT !.from = Nobody].from = Nobody
  BY DEF SessionInv, Types, RequestType
<1>5. \A r \in requests' : r.from # c
  BY <1>2, <1>3, <1>4
<1> QED
  BY <1>1, <1>3, <1>5 DEF Local, RequestsOf

\* The session is not touched.
LEMMA SameSession ==
  ASSUME SessionInv, NEW c \in Call, Local(c), answers' = {a \in answers : a.to # c},
         UNCHANGED <<server, refresh, cancelled>>, access' \in Token,
         LocalType(c)', call'[c].at \in Keeps => Known(call'[c].token),
         call[c].at # "logout", call[c].at # "refresh"
  PROVE  SessionInv'
<1>1. Moves(c)
  BY DEF Moves, Local
<1> QED
  BY <1>1, MovesKeepsInv

\* The tokens are dropped.
LEMMA NoSession ==
  ASSUME SessionInv, NEW c \in Call, Local(c), answers' = {a \in answers : a.to # c},
         UNCHANGED <<server, cancelled>>, ClearToken, call'[c] = Idle
  PROVE  SessionInv'
<1>1. LocalType(c)' /\ call'[c].at \notin Keeps
  BY DEF LocalType, Idle, Keeps
<1>2. access' \in Token /\ refresh' = None
  BY DEF ClearToken, None, Token, SessionInv, Types
<1>3. Moves(c)
  BY <1>1, <1>2 DEF Moves, Local
<1> QED
  BY <1>3, MovesKeepsInv

\* New tokens have arrived.
LEMMA OtherSession ==
  ASSUME SessionInv, NEW c \in Call, Local(c), NEW a \in answers, a.to = c, Brings(a),
         answers' = answers \ {a}, UNCHANGED <<server, cancelled>>, SetTokens(a.pair),
         call'[c].at \notin Keeps, LocalType(c)'
  PROVE  SessionInv'
<1>1. answers' = {b \in answers : b.to # c}
  BY Answered
<1>2. access' \in Token /\ refresh' = a.pair /\ refresh' # refresh
  BY DEF SetTokens, Known, SessionInv, Types, NewPairs
<1>3. Moves(c)
  BY <1>1, <1>2 DEF Moves, Local
<1> QED
  BY <1>3, MovesKeepsInv

LEMMA BeginKeepsSession ==
  ASSUME SessionInv, NEW c \in Call, Start(c) \/ Login(c) \/ Logout(c)
  PROVE  SessionInv'
<1>1. call[c] = Idle /\ Quiet(c) /\ answers = {a \in answers : a.to # c}
  BY NotSending DEF Start, Login, Logout, Active, Idle, Sends
<1>2. call[c].at = "idle" /\ access \in Token /\ refresh \in Token /\ None \in Token
  BY <1>1 DEF Idle, SessionInv, Types, Token, None
<1>3. CASE Start(c)
  <2> DEFINE local == [at |-> "play", first |-> access]
  <2>1. local.at = "play" /\ Asks(c, "play", access, local)
    BY <1>3 DEF Start
  <2> HIDE DEF local
  <2>2. Local(c) /\ call'[c] = local
    BY <1>1, <1>2, <2>1, AsksLocal DEF Sends
  <2>3. LocalType(c)' /\ call'[c].at \notin Keeps
    BY <2>1, <2>2 DEF LocalType, Sends, Keeps
  <2> QED
    BY <1>1, <1>2, <1>3, <2>2, <2>3, SameSession DEF Start
<1>4. CASE Login(c)
  <2> DEFINE local == [at |-> "login"]
  <2>1. local.at = "login" /\ Asks(c, "login", None, local)
    BY <1>4 DEF Login
  <2> HIDE DEF local
  <2>2. Local(c) /\ call'[c] = local
    BY <1>1, <1>2, <2>1, AsksLocal DEF Sends
  <2>3. LocalType(c)' /\ call'[c].at \notin Keeps
    BY <2>1, <2>2 DEF LocalType, Sends, Keeps
  <2> QED
    BY <1>1, <1>2, <1>4, <2>2, <2>3, SameSession DEF Login
<1>5. CASE Logout(c)
  <2> DEFINE local == [at |-> "logout"]
  <2>1. local.at = "logout" /\ Asks(c, "logout", refresh, local) /\ c \in Auth
    BY <1>5 DEF Logout
  <2> HIDE DEF local
  <2>2. Local(c) /\ call'[c] = local
    BY <1>1, <1>2, <2>1, AsksLocal DEF Sends, Known
  <2>3. LocalType(c)' /\ call'[c].at \notin Keeps
    BY <2>1, <2>2 DEF LocalType, Sends, Keeps
  <2> QED
    BY <1>1, <1>2, <1>5, <2>2, <2>3, SameSession DEF Logout
<1> QED
  BY <1>3, <1>4, <1>5

\* The second request of a call, whatever the token.
LEMMA RetryLocal ==
  ASSUME SessionInv, NEW c \in Call, NEW token \in Token, Quiet(c), Retry(c, token)
  PROVE  Local(c) /\ LocalType(c)' /\ call'[c].at \notin Keeps
<1> DEFINE local == [at |-> "retry", first |-> call[c].first, token |-> token]
<1>1. local.at = "retry" /\ Asks(c, "retry", token, local)
  BY DEF Retry
<1> HIDE DEF local
<1>2. Local(c) /\ call'[c] = local
  BY <1>1, AsksLocal DEF Sends
<1> QED
  BY <1>1, <1>2 DEF LocalType, Sends, Keeps

LEMMA RotateLocal ==
  ASSUME SessionInv, NEW c \in Call, NEW token \in Token, Known(token), Quiet(c), Rotate(c, token),
         issued' = issued
  PROVE  Local(c) /\ LocalType(c)' /\ Known(call'[c].token)
<1> DEFINE local == [at |-> "refresh", first |-> call[c].first, token |-> token]
<1>1. local.at = "refresh" /\ local.token = token /\ Asks(c, "refresh", token, local)
  BY DEF Rotate
<1> HIDE DEF local
<1>2. Local(c) /\ call'[c] = local
  BY <1>1, AsksLocal DEF Sends
<1>3. Token' = Token
  BY DEF Token
<1> QED
  BY <1>1, <1>2, <1>3 DEF LocalType, Sends, Keeps

LEMMA QueueLocal ==
  ASSUME SessionInv, NEW c \in Call, NEW at \in {"waiting", "queued"}, Quiet(c), Queue(c, at),
         issued' = issued
  PROVE  Local(c) /\ LocalType(c)' /\ Known(call'[c].token)
<1> DEFINE local == [at |-> at, first |-> call[c].first, token |-> refresh]
<1>1. local.at = at /\ local.token = refresh /\ call' = [call EXCEPT ![c] = local]
        /\ requests' = requests
  BY DEF Queue
<1> HIDE DEF local
<1>2. Local(c) /\ call'[c] = local
  BY <1>1, SilentLocal
<1>3. Token' = Token /\ refresh \in Token
  BY DEF Token, SessionInv, Types
<1> QED
  BY <1>1, <1>2, <1>3 DEF LocalType, Sends, Keeps, Known

LEMMA EndsLocal ==
  ASSUME SessionInv, NEW c \in Call, Quiet(c), Ends(c), requests' = requests
  PROVE  Local(c) /\ call'[c] = Idle
BY SilentLocal DEF Ends

LEMMA IdleType ==
  ASSUME NEW c \in Call, call'[c] = Idle
  PROVE  LocalType(c)' /\ call'[c].at \notin Keeps
BY DEF LocalType, Idle, Keeps

LEMMA RefusedKeepsSession ==
  ASSUME SessionInv, NEW c \in Call, NEW a \in answers, a.to = c, answers' = answers \ {a},
         call[c].at = "play", Refused(c), UNCHANGED <<server, cancelled>>
  PROVE  SessionInv'
<1>1. Quiet(c) /\ answers' = {b \in answers : b.to # c}
  BY Answered
<1>2. None \in Token /\ refresh \in Token /\ access' = None /\ issued' = issued /\ Known(refresh)
  BY DEF Refused, Evicted, SessionInv, Types, Token, None, server, Known
<1>3. CASE Ends(c) /\ UNCHANGED <<refresh, requests>>
  <2>1. Local(c) /\ LocalType(c)' /\ call'[c].at \notin Keeps
    BY <1>1, <1>3, EndsLocal, IdleType
  <2> QED
    BY <1>1, <1>2, <1>3, <2>1, SameSession
<1>4. CASE Rotate(c, refresh) /\ UNCHANGED refresh
  <2>1. Local(c) /\ LocalType(c)' /\ Known(call'[c].token)
    BY <1>1, <1>2, <1>4, RotateLocal
  <2> QED
    BY <1>1, <1>2, <1>4, <2>1, SameSession
<1>5. CASE Queue(c, "waiting") \/ Queue(c, "queued")
  <2>1. Local(c) /\ LocalType(c)' /\ Known(call'[c].token)
    BY <1>1, <1>2, <1>5, QueueLocal
  <2> QED
    BY <1>1, <1>2, <1>5, <2>1, SameSession DEF Queue
<1> QED
  BY <1>2, <1>3, <1>4, <1>5 DEF Refused

LEMMA ReceiveKeepsSession ==
  ASSUME SessionInv, NEW c \in Call, Receive(c)
  PROVE  SessionInv'
<1> PICK a \in answers :
      /\ a.to = c /\ answers' = answers \ {a} /\ UNCHANGED <<server, lost, cancelled>>
      /\ \/ call[c].at = "play" /\ ~a.ok /\ Refused(c)
         \/ /\ call[c].at = "login" /\ SetTokens(a.pair) /\ Ends(c)
            /\ UNCHANGED <<locked, waiters, requests>>
         \/ /\ call[c].at = "refresh" /\ a.ok
            /\ StoreRotated(a.pair) /\ locked' = FALSE /\ Retry(c, a.pair) /\ UNCHANGED waiters
         \/ /\ call[c].at = "refresh" => ~a.ok
            /\ call[c].at = "play" => a.ok
            /\ call[c].at # "login"
            /\ GivesUp(c) /\ UNCHANGED <<waiters, requests>>
  BY DEF Receive
<1>1. Quiet(c) /\ answers' = {b \in answers : b.to # c}
  BY Answered
<1>2. access \in Token /\ a.pair \in Token
  BY DEF SessionInv, Types
<1>3. CASE call[c].at = "play" /\ Refused(c)
  BY <1>3, RefusedKeepsSession
<1>4. CASE call[c].at = "login" /\ SetTokens(a.pair) /\ Ends(c) /\ UNCHANGED requests
  BY <1>1, <1>4, EndsLocal, IdleType, OtherSession DEF Brings
<1>5. CASE call[c].at = "refresh" /\ a.ok /\ StoreRotated(a.pair) /\ Retry(c, a.pair)
  BY <1>1, <1>2, <1>5, RetryLocal, OtherSession DEF Brings, StoreRotated
<1>6. CASE GivesUp(c) /\ UNCHANGED requests
  <2>1. Local(c) /\ call'[c] = Idle
    BY <1>1, <1>6, EndsLocal DEF GivesUp
  <2>2. CASE call[c].at \in {"play", "retry", "login"} /\ UNCHANGED <<access, refresh>>
    BY <1>1, <1>2, <2>1, <2>2, IdleType, SameSession
  <2>3. CASE ClearToken
    BY <1>1, <2>1, <2>3, NoSession
  <2> QED
    BY <1>6, <2>2, <2>3 DEF GivesUp
<1> QED
  BY <1>3, <1>4, <1>5, <1>6

LEMMA WakeKeepsSession ==
  ASSUME SessionInv, NEW c \in Call, Wake(c)
  PROVE  SessionInv'
<1>1. call[c].at \in Keeps /\ call[c].at \notin Sends /\ call[c].at # "logout" /\ call[c].at # "refresh"
  BY DEF Wake, Keeps, Sends
<1>2. Quiet(c) /\ answers' = {a \in answers : a.to # c}
  BY <1>1, NotSending DEF Wake
<1>3. UNCHANGED <<server, cancelled>> /\ issued' = issued
  BY DEF Wake, server
<1>4. call[c].token \in Token /\ Known(call[c].token) /\ access \in Token
  BY <1>1 DEF SessionInv, Types, LocalType, Known
<1>5. CASE Retry(c, access) /\ UNCHANGED <<access, refresh>>
  <2>1. Local(c) /\ LocalType(c)' /\ call'[c].at \notin Keeps
    BY <1>2, <1>4, <1>5, RetryLocal
  <2> QED
    BY <1>1, <1>2, <1>3, <1>4, <1>5, <2>1, SameSession
<1>6. CASE ClearToken /\ Ends(c) /\ UNCHANGED requests
  <2>1. Local(c) /\ call'[c] = Idle
    BY <1>2, <1>6, EndsLocal
  <2> QED
    BY <1>2, <1>3, <1>6, <2>1, NoSession
<1>7. CASE Rotate(c, call[c].token) /\ UNCHANGED <<access, refresh>>
  <2>1. Local(c) /\ LocalType(c)' /\ Known(call'[c].token)
    BY <1>2, <1>3, <1>4, <1>7, RotateLocal
  <2> QED
    BY <1>1, <1>2, <1>3, <1>4, <1>7, <2>1, SameSession
<1> QED
  BY <1>5, <1>6, <1>7 DEF Wake

\* What c sent is of the kind of its state.
LEMMA SentKind ==
  ASSUME SessionInv, NEW c \in Call, NEW s \in requests, s.from = c
  PROVE  s.kind = call[c].at /\ (s.kind = "refresh" => s.token = call[c].token)
BY CallAssumption DEF SessionInv, OneMessage

LEMMA LoseKeepsSession ==
  ASSUME SessionInv, NEW c \in Call, Lose(c)
  PROVE  SessionInv'
<1>1. Abandon(c) /\ GivesUp(c) /\ UNCHANGED <<server, cancelled>>
        /\ call' = [call EXCEPT ![c] = Idle] /\ answers' = {a \in answers : a.to # c}
  BY DEF Lose, Abandon, GivesUp, Ends
<1>2. access \in Token
  BY DEF SessionInv, Types
<1>3. CASE call[c].at \in {"play", "retry", "login"} /\ UNCHANGED <<access, refresh>>
  <2>1. \A s \in requests : s.from = c => ~Uses(s)
    BY <1>3, SentKind DEF Uses
  <2>2. Local(c) /\ call'[c] = Idle
    BY <1>1, <2>1, AbandonLocal
  <2> QED
    BY <1>1, <1>2, <1>3, <2>2, IdleType, SameSession
<1>4. CASE ClearToken
  <2>1. Local(c) /\ call'[c] = Idle
    BY <1>1, <1>4, AbandonLocal DEF ClearToken
  <2> QED
    BY <1>1, <1>4, <2>1, NoSession
<1> QED
  BY <1>1, <1>3, <1>4 DEF GivesUp

LEMMA CancelKeepsSession ==
  ASSUME SessionInv, NEW c \in Call, Cancel(c)
  PROVE  SessionInv'
<1>1. Abandon(c) /\ UNCHANGED <<server, access, refresh>>
        /\ call' = [call EXCEPT ![c] = Idle] /\ answers' = {a \in answers : a.to # c}
  BY DEF Cancel, Abandon, Ends
<1>2. call[c].at # "logout"
  BY CallAssumption DEF Cancel, SessionInv, Types, LocalType
<1>3. cancelled \subseteq cancelled' /\ (call[c].at = "refresh" => call[c].token \in cancelled')
  BY DEF Cancel
<1>4. \A s \in requests : s.from = c /\ Uses(s) => s.token \in cancelled'
  BY <1>2, <1>3, SentKind DEF Uses
<1>5. Local(c) /\ call'[c] = Idle
  <2>1. \A s \in requests : s.from = c /\ Uses(s) /\ s.token = refresh'
                               => refresh' \in cancelled' \cup {None}
    BY <1>4
  <2> QED
    BY <1>1, <2>1, AbandonLocal
<1>6. LocalType(c)' /\ call'[c].at \notin Keeps
  BY <1>5, IdleType
<1>7. Moves(c)
  BY <1>1, <1>2, <1>3, <1>5, <1>6 DEF Moves, Local, SessionInv, Types
<1> QED
  BY <1>7, MovesKeepsInv

-----------------------------------------------------------------------------
(***************************************************************************)
(* The steps of the server.                                                *)
(***************************************************************************)
\* A request is answered: what it asked for is over, and at most one new pair
\* comes, for its sender.
LEMMA ReplyKeepsSession ==
  ASSUME SessionInv, NEW r \in requests, NEW ok \in BOOLEAN, NEW pair,
         Replies(r, ok, pair), UNCHANGED <<client, cancelled>>,
         issued' \in Nat, issued <= issued', pair \in 0 .. issued',
         live' \subseteq 1 .. issued',
         \A token \in live \ live' : Uses(r) /\ token = r.token,
         r.kind = "login" \/ (r.kind = "refresh" /\ ok) =>
           pair \in live' /\ pair > issued
  PROVE  SessionInv'
<1> DEFINE new == Answer(r.from, ok, pair)
<1>1. new.to = r.from /\ new.ok = ok /\ new.pair = pair
  BY DEF Answer
<1> HIDE DEF new
<1>2. /\ requests' = requests \ {r} /\ call' = call /\ refresh' = refresh /\ access' = access
      /\ cancelled' = cancelled
      /\ answers' = IF r.from = Nobody THEN answers ELSE answers \cup {new}
  BY DEF Replies, Reply, client, new
<1>3. r.from # Nobody =>
        /\ r.from \in Call /\ r.kind = call[r.from].at /\ r.kind \in Sends
        /\ \A s \in requests' : s.from # r.from
        /\ \A a \in answers : a.to # r.from
        /\ \A a \in answers : a.to # new.to
        /\ r.kind = "refresh" => r.token = call[r.from].token
  BY <1>1, <1>2 DEF SessionInv, Types, RequestType, OneMessage
<1>4. Types'
  <2>1. Token \subseteq Token' /\ issued \in Nat
    BY DEF Token, SessionInv, Types
  <2>2. access' \in Token' /\ refresh' \in Token' /\ IsFunction'
    BY <1>2, <2>1 DEF SessionInv, Types, IsFunction
  <2>3. \A d \in Call : LocalType(d)'
    BY <1>2, <2>1 DEF SessionInv, Types, LocalType
  <2>4. \A s \in requests' : RequestType(s)'
    BY <1>2, <2>1 DEF SessionInv, Types, RequestType
  <2>5. \A a \in answers' : a.to \in Call /\ a.pair \in Token'
    BY <1>1, <1>2, <1>3, <2>1 DEF SessionInv, Types, Token
  <2> QED
    BY <2>2, <2>3, <2>4, <2>5 DEF Types
<1>5. OneMessage'
  <2>1. ASSUME NEW s \in requests', s.from # Nobody
        PROVE  /\ s.kind = call'[s.from].at
               /\ s.kind = "refresh" => s.token = call'[s.from].token
               /\ \A q \in requests' : q.from = s.from => q = s
    BY <1>2, <2>1 DEF SessionInv, OneMessage
  <2>2. ASSUME NEW s \in requests', s.from # Nobody, NEW a \in answers'
        PROVE  a.to # s.from
    BY <1>1, <1>2, <1>3, <2>2 DEF SessionInv, OneMessage
  <2>3. ASSUME NEW a \in answers'
        PROVE  call'[a.to].at \in Sends
    BY <1>1, <1>2, <1>3 DEF SessionInv, OneMessage
  <2>4. ASSUME NEW a \in answers', NEW b \in answers', a.to = b.to
        PROVE  a = b
    BY <1>1, <1>2, <1>3, <2>4 DEF SessionInv, OneMessage
  <2> QED
    BY <2>1, <2>2, <2>3, <2>4 DEF OneMessage
<1>6. \A token : Known(token)' => Known(token)
  BY <1>2 DEF Known, Uses
<1>7. \A token : Known(token) => token \in Token
  BY DEF Known, SessionInv, Types, RequestType, LocalType
<1>8. \A a \in answers : Brings(a)' <=> Brings(a)
  BY <1>2 DEF Brings
<1>9. ASSUME NEW a \in answers, Brings(a)
      PROVE  a.pair \in live' /\ ~Known(a.pair)' /\ a.pair <= issued
  <2>1. a.pair \in live /\ ~Known(a.pair)
    BY <1>9 DEF SessionInv, NewPairs
  <2>2. Uses(r) => r.token # a.pair
    BY <2>1 DEF Known
  <2>3. a.pair \in live'
    BY <2>1, <2>2
  <2>4. a.pair \in 1 .. issued /\ issued \in Nat
    BY <2>1 DEF SessionInv, Types
  <2>5. a.pair <= issued
    BY <2>4
  <2> QED
    BY <1>6, <2>1, <2>3, <2>5
<1>10. ASSUME new \in answers', r.from # Nobody, Brings(new)'
       PROVE  pair \in live' /\ ~Known(pair)' /\ pair > issued
  <2>1. r.kind = "login" \/ (r.kind = "refresh" /\ ok)
    BY <1>1, <1>2, <1>3, <1>10 DEF Brings
  <2>2. pair \notin Token
    BY <2>1 DEF Token, SessionInv, Types
  <2> QED
    BY <1>6, <1>7, <2>1, <2>2
<1>11. NewPairs'
  <2>1. ASSUME NEW a \in answers', Brings(a)' PROVE a.pair \in live' /\ ~Known(a.pair)'
    BY <1>1, <1>2, <1>8, <1>9, <1>10, <2>1
  <2>2. ASSUME NEW a \in answers', Brings(a)', NEW b \in answers', Brings(b)', b.pair = a.pair
        PROVE  a = b
    <3>1. CASE a \in answers /\ b \in answers
      BY <1>8, <2>2, <3>1 DEF SessionInv, NewPairs
    <3>2. \A x \in answers : Brings(x) => x.pair \in Nat /\ x.pair <= issued /\ issued \in Nat
      BY <1>9 DEF SessionInv, Types, Token
    <3>3. CASE a \notin answers \/ b \notin answers
      <4>1. r.from # Nobody /\ new \in answers'
        BY <1>2, <3>3
      <4>2. \A x \in answers' : x \in answers \/ x = new
        BY <1>2
      <4> QED
        BY <1>1, <1>8, <1>10, <2>2, <3>2, <3>3, <4>1, <4>2
    <3> QED
      BY <3>1, <3>3
  <2> QED
    BY <2>1, <2>2 DEF NewPairs
<1>12. Abandoned'
  BY <1>2 DEF SessionInv, Abandoned, Uses
<1>13. Explained'
  <2>1. CASE refresh \notin live \ live'
    BY <1>2, <2>1 DEF SessionInv, Explained
  <2>2. CASE Uses(r) /\ refresh = r.token
    <3>1. CASE r.from = Nobody
      BY <1>2, <2>2, <3>1 DEF SessionInv, Abandoned, Explained
    <3>2. CASE r.from # Nobody
      BY <1>2, <1>3, <2>2, <3>2 DEF Explained, Uses
    <3> QED
      BY <3>1, <3>2
  <2> QED
    BY <2>1, <2>2
<1> QED
  BY <1>4, <1>5, <1>11, <1>12, <1>13 DEF SessionInv

LEMMA FindKeepsSession ==
  ASSUME SessionInv, NEW r \in requests, r.kind = "refresh",
         requests' = (requests \ {r}) \cup {[r EXCEPT !.found = TRUE]},
         UNCHANGED <<client, answers, server, cancelled>>
  PROVE  SessionInv'
<1> DEFINE q == [r EXCEPT !.found = TRUE]
<1>1. /\ q = [from |-> r.from, kind |-> r.kind, token |-> r.token, found |-> TRUE]
      /\ q.from = r.from /\ q.kind = r.kind /\ q.token = r.token /\ q.found = TRUE
  <2>1. ASSUME NEW b
        PROVE  [r EXCEPT !.found = b] = [from |-> r.from, kind |-> r.kind, token |-> r.token, found |-> b]
    BY DEF SessionInv, Types, RequestType
  <2>2. q = [from |-> r.from, kind |-> r.kind, token |-> r.token, found |-> TRUE]
    BY <2>1, Zenon
  <2> HIDE DEF q
  <2> QED
    BY <2>2
<1>2. requests' = (requests \ {r}) \cup {q}
  OBVIOUS
<1> HIDE DEF q
<1>3. /\ call' = call /\ refresh' = refresh /\ access' = access /\ cancelled' = cancelled
      /\ answers' = answers /\ live' = live /\ issued' = issued
  BY DEF client, server
<1>4. RequestType(q)
  BY <1>1 DEF SessionInv, Types, RequestType
<1>5. Types'
  BY <1>2, <1>3, <1>4 DEF SessionInv, Types, RequestType, LocalType, Token, IsFunction
<1>6. \A s \in requests' : \E o \in requests :
        /\ s.from = o.from /\ s.kind = o.kind /\ s.token = o.token
        /\ s = o \/ (s = q /\ o = r)
  BY <1>1, <1>2
<1>7. OneMessage'
  <2>1. ASSUME NEW s \in requests', s.from # Nobody
        PROVE  /\ s.kind = call[s.from].at
               /\ s.kind = "refresh" => s.token = call[s.from].token
               /\ \A a \in answers : a.to # s.from
    BY <1>6, <2>1 DEF SessionInv, OneMessage
  <2>2. ASSUME NEW s \in requests', NEW o \in requests', s.from # Nobody, s.from = o.from
        PROVE  s = o
    <3>1. \A x, y \in requests : x.from # Nobody /\ x.from = y.from => x = y
      BY DEF SessionInv, OneMessage
    <3>2. \A x \in requests' : x = q \/ (x \in requests /\ x # r)
      BY <1>2
    <3>3. CASE s = q
      BY <1>1, <2>2, <3>1, <3>2, <3>3
    <3>4. CASE s # q
      BY <1>1, <2>2, <3>1, <3>2, <3>4
    <3> QED
      BY <3>3, <3>4
  <2> QED
    BY <1>3, <2>1, <2>2 DEF SessionInv, OneMessage
<1>8. \A token : Known(token)' => Known(token)
  BY <1>3, <1>6 DEF Known, Uses
<1>9. NewPairs'
  BY <1>3, <1>8 DEF SessionInv, NewPairs, Brings
<1>10. Abandoned'
  BY <1>3, <1>6 DEF SessionInv, Abandoned, Uses
<1>11. Explained'
  BY <1>3 DEF SessionInv, Explained
<1> QED
  BY <1>5, <1>7, <1>9, <1>10, <1>11 DEF SessionInv

LEMMA ServeKeepsSession ==
  ASSUME SessionInv, NEW c \in Call \cup {Nobody}, Serve(c)
  PROVE  SessionInv'
<1> PICK r \in requests :
      Play(r) \/ FindSession(r) \/ RotateSession(r) \/ NewSession(r) \/ RevokeSession(r)
  BY DEF Serve
<1>1. UNCHANGED <<client, cancelled>>
  BY DEF Serve
<1>2. issued \in Nat /\ r.token \in 0 .. issued /\ live \subseteq 1 .. issued
  BY DEF SessionInv, Types, RequestType, Token
<1>3. CASE Play(r)
  <2>1. Replies(r, Valid(r.token), r.token) /\ Valid(r.token) \in BOOLEAN
    BY <1>3 DEF Play, Valid
  <2>2. issued' = issued /\ live' = live /\ r.kind \in {"play", "retry"}
    BY <1>3 DEF Play, server
  <2> QED
    BY <1>1, <1>2, <2>1, <2>2, ReplyKeepsSession DEF Uses
<1>4. CASE FindSession(r)
  <2>1. CASE Replies(r, FALSE, None)
    <3>1. issued' = issued /\ live' = live /\ r.kind = "refresh"
      BY <1>4 DEF FindSession, server
    <3>2. issued' \in Nat /\ issued <= issued' /\ None \in 0 .. issued' /\ live' \subseteq 1 .. issued'
      BY <1>2, <3>1 DEF None
    <3> QED
      BY <1>1, <2>1, <3>1, <3>2, ReplyKeepsSession
  <2>2. CASE requests' = (requests \ {r}) \cup {[r EXCEPT !.found = TRUE]} /\ UNCHANGED answers
    BY <1>1, <1>4, <2>2, FindKeepsSession DEF FindSession
  <2> QED
    BY <1>4, <2>1, <2>2 DEF FindSession
<1>5. CASE RotateSession(r)
  <2>1. Replies(r, TRUE, issued + 1) /\ issued' = issued + 1 /\ r.kind = "refresh"
    BY <1>5 DEF RotateSession
  <2>2. live' = (live \ {r.token}) \cup {issued'}
    BY <1>5 DEF RotateSession
  <2>3. issued' \in Nat /\ issued <= issued' /\ issued + 1 \in 0 .. issued' /\ issued + 1 > issued
    BY <1>2, <2>1
  <2>4. live' \subseteq 1 .. issued' /\ issued + 1 \in live'
    <3>1. \A p \in live' : p \in 1 .. issued \/ p = issued + 1
      BY <1>2, <2>1, <2>2
    <3>2. \A p \in live' : p \in 1 .. issued'
      BY <1>2, <2>1, <3>1
    <3> QED
      BY <2>1, <2>2, <3>2
  <2>5. \A token \in live \ live' : Uses(r) /\ token = r.token
    BY <2>1, <2>2 DEF Uses
  <2> QED
    BY <1>1, <2>1, <2>3, <2>4, <2>5, ReplyKeepsSession
<1>6. CASE NewSession(r)
  <2>1. Replies(r, TRUE, issued + 1) /\ issued' = issued + 1 /\ r.kind = "login"
    BY <1>6 DEF NewSession
  <2>2. live' = live \cup {issued'}
    BY <1>6 DEF NewSession
  <2>3. issued' \in Nat /\ issued <= issued' /\ issued + 1 \in 0 .. issued' /\ issued + 1 > issued
    BY <1>2, <2>1
  <2>4. live' \subseteq 1 .. issued' /\ issued + 1 \in live'
    BY <1>2, <2>1, <2>2
  <2>5. \A token \in live \ live' : Uses(r) /\ token = r.token
    BY <2>2
  <2> QED
    BY <1>1, <2>1, <2>3, <2>4, <2>5, ReplyKeepsSession
<1>7. CASE RevokeSession(r)
  <2>1. Replies(r, TRUE, None) /\ issued' = issued /\ r.kind = "logout" /\ live' = live \ {r.token}
    BY <1>7 DEF RevokeSession
  <2>2. issued' \in Nat /\ issued <= issued' /\ None \in 0 .. issued'
    BY <1>2, <2>1 DEF None
  <2>3. \A token \in live \ live' : Uses(r) /\ token = r.token
    BY <2>1 DEF Uses
  <2>4. live' \subseteq live /\ 1 .. issued' = 1 .. issued
    BY <2>1
  <2>5. live' \subseteq 1 .. issued'
    BY <1>2, <2>4
  <2> QED
    BY <1>1, <2>1, <2>2, <2>3, <2>5, ReplyKeepsSession
<1> QED
  BY <1>3, <1>4, <1>5, <1>6, <1>7

LEMMA StutterKeepsSession ==
  ASSUME SessionInv, UNCHANGED <<client, requests, answers, live, issued, cancelled>>
  PROVE  SessionInv'
<1>1. /\ call' = call /\ refresh' = refresh /\ access' = access /\ requests' = requests
      /\ answers' = answers /\ live' = live /\ issued' = issued /\ cancelled' = cancelled
  BY DEF client
<1>2. Types' /\ OneMessage'
  BY <1>1 DEF SessionInv, Types, OneMessage, LocalType, RequestType, Token, IsFunction
<1>3. NewPairs'
  BY <1>1 DEF SessionInv, NewPairs, Brings, Known
<1> QED
  BY <1>1, <1>2, <1>3 DEF SessionInv, Abandoned, Explained

(* With no call under way, the refresh token the bot holds belongs to a        *)
(* session that is not revoked, or to one whose rotation was cancelled, for    *)
(* any number of coroutines, lost or late answers, logins and logouts.         *)
(* (_try_refresh, clear_token; AuthService.refresh)                            *)
THEOREM HeldSessionLives == Spec => []HeldSessionIsLive
<1>1. Init => SessionInv
  <2> SUFFICES ASSUME Init PROVE SessionInv
    OBVIOUS
  <2>1. Types
    BY DEF Init, Types, Token, IsFunction, LocalType, Idle, Sends, Keeps
  <2>2. OneMessage /\ NewPairs /\ Abandoned /\ Explained
    BY DEF Init, OneMessage, NewPairs, Abandoned, Explained
  <2> QED
    BY <2>1, <2>2 DEF SessionInv
<1>2. SessionInv /\ [Next]_vars => SessionInv'
  <2> SUFFICES ASSUME SessionInv, [Next]_vars PROVE SessionInv'
    OBVIOUS
  <2>1. CASE \E c \in Call : Start(c) \/ Login(c) \/ Logout(c)
    BY <2>1, BeginKeepsSession
  <2>2. CASE \E c \in Call : Receive(c)
    BY <2>2, ReceiveKeepsSession
  <2>3. CASE \E c \in Call : Wake(c)
    BY <2>3, WakeKeepsSession
  <2>4. CASE \E c \in Call : Lose(c)
    BY <2>4, LoseKeepsSession
  <2>5. CASE \E c \in Call : Cancel(c)
    BY <2>5, CancelKeepsSession
  <2>6. CASE \E c \in Call \cup {Nobody} : Serve(c)
    BY <2>6, ServeKeepsSession
  <2>7. CASE \E pair \in Pair : Expire(pair)
    BY <2>7, StutterKeepsSession DEF Expire
  <2>8. CASE UNCHANGED vars
    BY <2>8, StutterKeepsSession DEF vars, server
  <2> QED
    BY <2>1, <2>2, <2>3, <2>4, <2>5, <2>6, <2>7, <2>8 DEF Next
<1>3. SessionInv => HeldSessionIsLive
  <2> SUFFICES ASSUME SessionInv, \A c \in Call : ~Active(c)
               PROVE  refresh \in live \cup cancelled \cup {None}
    BY DEF HeldSessionIsLive
  <2>1. \A c \in Call : call[c].at = "idle"
    BY DEF Active, Idle
  <2> QED
    BY <2>1 DEF SessionInv, Explained
<1> QED
  BY <1>1, <1>2, <1>3, PTL DEF Spec
=============================================================================
