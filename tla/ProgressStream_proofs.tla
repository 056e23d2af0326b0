------------------------ MODULE ProgressStream_proofs ------------------------
(***************************************************************************)
(* What the two streams deliver, for any number of sessions, clients,      *)
(* events and connections.                                                 *)
(*                                                                         *)
(* NoEventSkipped is not inductive: that no event is committed below one   *)
(* that was sent needs the log to be gapless and every number a session    *)
(* holds to be at most one past it, and what is sent next needs the batch  *)
(* to begin right after what was received.                                 *)
(***************************************************************************)
EXTENDS ProgressStream, TLAPS

Connections == [open : BOOLEAN, connects : 0..MaxConnects, sequence : Nat, batch : SUBSET Nat,
                received : Seq(Nat)]

\* The log is 1..n, and a session inserts into it or right behind it.
Gapless(n) == log = 1..n /\ next \in [Writers -> 0..(n + 1)]

\* What a connection received, and what is left of its poll.
InOrder(s, n) ==
  /\ Len(s.received) <= n
  /\ s.sequence = Len(s.received)
  /\ \A i \in 1..Len(s.received) : s.received[i] = i
  /\ \E m \in Nat : m <= n /\ s.batch = (Len(s.received) + 1)..m
  /\ s.batch # {} => s.open

Delivering(n) == stream \in [Clients -> Connections] /\ \A c \in Clients : InOrder(stream[c], n)

StreamInv == \E n \in Nat : Gapless(n) /\ Delivering(n)

-----------------------------------------------------------------------------
LEMMA MaxOfLog ==
  ASSUME NEW n \in Nat
  PROVE  Max((1..n) \cup {0}) = n
<1>1. n \in (1..n) \cup {0} /\ \A y \in (1..n) \cup {0} : n >= y
  OBVIOUS
<1>2. \A x \in (1..n) \cup {0} : (\A y \in (1..n) \cup {0} : x >= y) => x = n
  <2> SUFFICES ASSUME NEW x \in (1..n) \cup {0}, \A y \in (1..n) \cup {0} : x >= y PROVE x = n
    OBVIOUS
  <2>1. x >= n /\ x <= n
    BY <1>1
  <2>2. QED
    BY <2>1
<1>3. QED
  BY <1>1, <1>2 DEF Max

LEMMA MinOfBatch ==
  ASSUME NEW k \in Nat, NEW m \in Nat, (k + 1)..m # {}
  PROVE  Min((k + 1)..m) = k + 1 /\ k + 1 <= m
<1>1. k + 1 \in (k + 1)..m /\ \A y \in (k + 1)..m : k + 1 <= y
  OBVIOUS
<1>2. \A x \in (k + 1)..m : (\A y \in (k + 1)..m : x <= y) => x = k + 1
  <2> SUFFICES ASSUME NEW x \in (k + 1)..m, \A y \in (k + 1)..m : x <= y PROVE x = k + 1
    OBVIOUS
  <2>1. x <= k + 1 /\ x >= k + 1
    BY <1>1
  <2>2. QED
    BY <2>1
<1>3. QED
  BY <1>1, <1>2 DEF Min

\* A longer log disturbs no connection.
LEMMA LongerLog ==
  ASSUME NEW n \in Nat, NEW s \in Connections, InOrder(s, n)
  PROVE  InOrder(s, n + 1)
  BY DEF InOrder, Connections

\* One connection changes, to one in order.
LEMMA OneConnection ==
  ASSUME NEW n \in Nat, Gapless(n), Delivering(n), NEW c \in Clients, NEW s \in Connections, InOrder(s, n),
         stream' = [stream EXCEPT ![c] = s], UNCHANGED <<log, next>>
  PROVE  StreamInv'
<1>1. Gapless(n)'
  BY DEF Gapless
<1>2. stream' \in [Clients -> Connections] /\ \A d \in Clients : stream'[d] = IF d = c THEN s ELSE stream[d]
  BY DEF Delivering
<1>3. Delivering(n)'
  BY <1>2 DEF Delivering
<1>4. QED
  BY <1>1, <1>3 DEF StreamInv

LEMMA ConnectKeepsOrder ==
  ASSUME NEW n \in Nat, Gapless(n), Delivering(n), NEW c \in Clients, Connect(c)
  PROVE  StreamInv'
<1> DEFINE s == [open |-> TRUE, connects |-> stream[c].connects + 1, batch |-> {},
                 sequence |-> IF c \in Sse THEN stream[c].sequence ELSE 0,
                 received |-> IF c \in Sse THEN stream[c].received ELSE << >>]
<1>1. stream[c] \in Connections /\ InOrder(stream[c], n)
  BY DEF Delivering
<1>2. s \in Connections
  BY <1>1, StreamBounds DEF Connections, Connect
<1>3. InOrder(s, n)
  <2>1. CASE c \in Sse
    <3>1. s.received = stream[c].received /\ s.sequence = stream[c].sequence /\ s.batch = {}
      BY <2>1
    <3>2. {} = (Len(stream[c].received) + 1)..0 /\ Len(stream[c].received) \in Nat
      BY <1>1 DEF Connections
    <3>3. QED
      BY <1>1, <3>1, <3>2 DEF InOrder
  <2>2. CASE c \notin Sse
    <3>1. s.received = << >> /\ s.sequence = 0 /\ s.batch = {}
      BY <2>2
    <3>2. Len(<< >>) = 0 /\ {} = (0 + 1)..0
      OBVIOUS
    <3>3. QED
      BY <3>1, <3>2 DEF InOrder
  <2>3. QED
    BY <2>1, <2>2
<1>4. stream' = [stream EXCEPT ![c] = s] /\ UNCHANGED <<log, next>>
  BY DEF Connect
<1> HIDE DEF s
<1>5. QED
  BY <1>2, <1>3, <1>4, OneConnection

LEMMA PollKeepsOrder ==
  ASSUME NEW n \in Nat, Gapless(n), Delivering(n), NEW c \in Clients, Poll(c)
  PROVE  StreamInv'
<1> DEFINE s == [stream[c] EXCEPT !.batch = EventsSince(stream[c].sequence)]
<1>1. stream[c] \in Connections /\ InOrder(stream[c], n)
  BY DEF Delivering
<1>2. EventsSince(stream[c].sequence) = (Len(stream[c].received) + 1)..n
  BY <1>1 DEF EventsSince, Gapless, InOrder, Connections
<1>3. s \in Connections
  <2>1. EventsSince(stream[c].sequence) \in SUBSET Nat
    BY <1>1, <1>2 DEF Connections
  <2> HIDE DEF EventsSince
  <2>2. QED
    BY <1>1, <2>1 DEF Connections
<1>4. InOrder(s, n)
  BY <1>1, <1>2 DEF InOrder, Connections, Poll
<1>5. stream' = [stream EXCEPT ![c] = s] /\ UNCHANGED <<log, next>>
  BY <1>1 DEF Poll, Connections
<1> HIDE DEF s
<1>6. QED
  BY <1>3, <1>4, <1>5, OneConnection

LEMMA SendKeepsOrder ==
  ASSUME NEW n \in Nat, Gapless(n), Delivering(n), NEW c \in Clients, Send(c)
  PROVE  StreamInv'
<1> DEFINE k == Len(stream[c].received)
           event == Min(stream[c].batch)
           s == Sent(stream[c])
<1>1. stream[c] \in Connections /\ InOrder(stream[c], n)
  BY DEF Delivering
<1>2. k \in Nat /\ stream[c].received \in Seq(Nat)
  BY <1>1 DEF Connections
<1>3. PICK m \in Nat : m <= n /\ stream[c].batch = (k + 1)..m
  BY <1>1 DEF InOrder
<1>4. event = k + 1 /\ k + 1 <= m
  BY <1>2, <1>3, MinOfBatch DEF Send
<1>5. /\ s.received = Append(stream[c].received, k + 1) /\ s.sequence = k + 1
      /\ s.batch = ((k + 1)..m) \ {k + 1} /\ s.open = stream[c].open /\ s.connects = stream[c].connects
  BY <1>1, <1>3, <1>4 DEF Connections, Sent
<1>6. s \in Connections
  <2>1. event \in Nat /\ stream[c].batch \ {event} \in SUBSET Nat /\ Append(stream[c].received, event) \in Seq(Nat)
    BY <1>1, <1>2, <1>4 DEF Connections
  <2> HIDE DEF event
  <2>2. s = [stream[c] EXCEPT !.sequence = event, !.batch = @ \ {event}, !.received = Append(@, event)]
    BY DEF event, Sent
  <2> HIDE DEF s
  <2>3. QED
    BY <1>1, <2>1, <2>2 DEF Connections
<1>7. InOrder(s, n)
  <2>1. Len(s.received) = k + 1 /\ \A i \in 1..(k + 1) : s.received[i] = i
    BY <1>1, <1>2, <1>5 DEF InOrder
  <2>2. s.batch = (Len(s.received) + 1)..m
    BY <1>2, <1>5, <2>1
  <2>3. s.open
    BY <1>5 DEF Send
  <2>4. QED
    BY <1>3, <1>4, <1>5, <2>1, <2>2, <2>3 DEF InOrder
<1>8. stream' = [stream EXCEPT ![c] = s] /\ UNCHANGED <<log, next>>
  BY DEF Send
<1> HIDE DEF s
<1>9. QED
  BY <1>6, <1>7, <1>8, OneConnection

LEMMA DisconnectKeepsOrder ==
  ASSUME NEW n \in Nat, Gapless(n), Delivering(n), NEW c \in Clients, Disconnect(c)
  PROVE  StreamInv'
<1> DEFINE s == [stream[c] EXCEPT !.open = FALSE, !.batch = {}]
<1>1. stream[c] \in Connections /\ InOrder(stream[c], n)
  BY DEF Delivering
<1>2. s \in Connections
  BY <1>1 DEF Connections
<1>3. {} = (Len(stream[c].received) + 1)..0
  BY <1>1 DEF Connections
<1>4. InOrder(s, n)
  BY <1>1, <1>3 DEF InOrder, Connections
<1>5. stream' = [stream EXCEPT ![c] = s] /\ UNCHANGED <<log, next>>
  BY <1>1 DEF Disconnect, Connections
<1> HIDE DEF s
<1>6. QED
  BY <1>2, <1>4, <1>5, OneConnection

LEMMA LogKeepsOrder ==
  ASSUME NEW n \in Nat, Gapless(n), Delivering(n), NEW w \in Writers,
         ReadMaxSequence(w) \/ CommitEvent(w) \/ RollBack(w)
  PROVE  StreamInv'
<1>1. CASE ReadMaxSequence(w)
  <2>1. NextSequence = 1 + n
    BY MaxOfLog DEF NextSequence, Gapless
  <2>2. next' = [next EXCEPT ![w] = 1 + n] /\ UNCHANGED <<log, stream>>
    BY <1>1, <2>1 DEF ReadMaxSequence
  <2>3. Gapless(n)' /\ Delivering(n)'
    BY <2>2 DEF Gapless, Delivering
  <2>4. QED
    BY <2>3 DEF StreamInv
<1>2. CASE CommitEvent(w) /\ next[w] = n + 1
  <2>1. log' = 1..(n + 1)
    BY <1>2 DEF CommitEvent, Gapless
  <2>2. Gapless(n + 1)'
    BY <1>2, <2>1 DEF CommitEvent, Gapless
  <2>3. Delivering(n + 1)'
    BY <1>2, LongerLog DEF CommitEvent, Delivering
  <2>4. QED
    BY <2>2, <2>3 DEF StreamInv
<1>3. CASE CommitEvent(w) /\ next[w] # n + 1
  <2>1. log' = log
    BY <1>3 DEF CommitEvent, Gapless
  <2>2. Gapless(n)' /\ Delivering(n)'
    BY <1>3, <2>1 DEF CommitEvent, Gapless, Delivering
  <2>3. QED
    BY <2>2 DEF StreamInv
<1>4. CASE RollBack(w)
  <2>1. Gapless(n)' /\ Delivering(n)'
    BY <1>4 DEF RollBack, Gapless, Delivering
  <2>2. QED
    BY <2>1 DEF StreamInv
<1>5. QED
  BY <1>1, <1>2, <1>3, <1>4

LEMMA StreamInvInductive ==
  ASSUME StreamInv, [StreamNext]_streamVars
  PROVE  StreamInv'
<1>0. PICK n \in Nat : Gapless(n) /\ Delivering(n)
  BY DEF StreamInv
<1>1. ASSUME NEW w \in Writers, ReadMaxSequence(w) \/ CommitEvent(w) \/ RollBack(w)
      PROVE  StreamInv'
  BY <1>0, <1>1, LogKeepsOrder
<1>2. ASSUME NEW c \in Clients, Connect(c) PROVE StreamInv'
  BY <1>0, <1>2, ConnectKeepsOrder
<1>3. ASSUME NEW c \in Clients, Serve(c) PROVE StreamInv'
  BY <1>0, <1>3, PollKeepsOrder, SendKeepsOrder DEF Serve
<1>4. ASSUME NEW c \in Clients, Disconnect(c) PROVE StreamInv'
  BY <1>0, <1>4, DisconnectKeepsOrder
<1>5. CASE UNCHANGED streamVars
  BY <1>5 DEF StreamInv, Gapless, Delivering, streamVars
<1>6. QED
  BY <1>1, <1>2, <1>3, <1>4, <1>5 DEF StreamNext

LEMMA StreamInvInit == StreamInit => StreamInv
<1> SUFFICES ASSUME StreamInit PROVE StreamInv
  OBVIOUS
<1>1. Gapless(0)
  BY DEF StreamInit, Gapless
<1>2. Closed \in Connections /\ InOrder(Closed, 0)
  <2>1. Len(<< >>) = 0 /\ {} = (0 + 1)..0 /\ << >> \in Seq(Nat)
    OBVIOUS
  <2>2. QED
    BY <2>1, StreamBounds DEF Closed, Connections, InOrder
<1>3. Delivering(0)
  BY <1>2 DEF StreamInit, Delivering
<1>4. QED
  BY <1>1, <1>3 DEF StreamInv

-----------------------------------------------------------------------------
(* The log and the connections keep their types, for every instance.       *)
THEOREM StreamTypes == StreamSpec => []StreamTypeOK
<1>1. StreamInv => StreamTypeOK
  BY DEF StreamInv, Gapless, Delivering, InOrder, Connections, StreamTypeOK
<1>2. QED
  BY <1>1, StreamInvInit, StreamInvInductive, PTL DEF StreamSpec

(* Whatever sessions append in whatever order they commit or roll back,    *)
(* a client has received a prefix of the log that nothing is inserted into *)
(* any more (repositories/__init__.py:169-218, routes.py:797-830).         *)
THEOREM StreamsSkipNothing == StreamSpec => []NoEventSkipped
<1>1. StreamInv => NoEventSkipped
  <2> SUFFICES ASSUME NEW n \in Nat, Gapless(n), Delivering(n), NEW c \in Clients
               PROVE  /\ \A i \in DOMAIN stream[c].received : stream[c].received[i] = i
                      /\ {e \in log : e <= Len(stream[c].received)} = 1..Len(stream[c].received)
    BY DEF StreamInv, NoEventSkipped
  <2>1. stream[c].received \in Seq(Nat) /\ Len(stream[c].received) \in 0..n
    BY DEF Delivering, InOrder, Connections
  <2>2. \A i \in DOMAIN stream[c].received : stream[c].received[i] = i
    BY <2>1 DEF Delivering, InOrder
  <2>3. {e \in log : e <= Len(stream[c].received)} = 1..Len(stream[c].received)
    BY <2>1 DEF Gapless
  <2>4. QED
    BY <2>2, <2>3
<1>2. QED
  BY <1>1, StreamInvInit, StreamInvInductive, PTL DEF StreamSpec
=============================================================================
