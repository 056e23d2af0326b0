--------------------------- MODULE ProgressStream ---------------------------
(***************************************************************************)
(* How the progress log of one scan reaches its readers.  Sessions append  *)
(* to it by reading the largest committed sequence and inserting the next; *)
(* the SSE and WebSocket handlers poll for what comes after the last       *)
(* sequence they took, and send it event by event.                         *)
(***************************************************************************)
EXTENDS Integers, Sequences, FiniteSets, FiniteSetsExt

CONSTANTS Writers,      \* sessions that record progress: API requests, tasks
          Sse, Ws,      \* clients of the two streams
          MaxEvents,    \* bound: committed events
          MaxConnects   \* bound: connections of one client

ASSUME StreamBounds == MaxEvents \in Nat /\ MaxConnects \in Nat

VARIABLES log,          \* committed sequence numbers
          next,         \* the sequence a session is about to insert, 0: none
          stream        \* the connection of each client, what is left of its
                        \* last poll, and what it received
streamVars == <<log, next, stream>>
Clients == Sse \cup Ws

Closed == [open |-> FALSE, connects |-> 0, sequence |-> 0, batch |-> {}, received |-> << >>]
StreamInit ==
  /\ log = {} /\ next = [w \in Writers |-> 0]
  /\ stream = [c \in Clients |-> Closed]

(* Mutant: a number is reserved when the session asks for it. *)
ReservedSequence == 1 + Max(log \cup {next[w] : w \in Writers} \cup {0})

NextSequence == 1 + Max(log \cup {0})

ReadMaxSequence(w) ==
  /\ next[w] = 0 /\ Cardinality(log) < MaxEvents
  /\ next' = [next EXCEPT ![w] = NextSequence]
  /\ UNCHANGED <<log, stream>>
(* uq_scan_progress_sequence refuses a number that is taken. *)
CommitEvent(w) ==
  /\ next[w] # 0
  /\ log' = log \cup {next[w]}      \* unchanged when the number is taken
  /\ next' = [next EXCEPT ![w] = 0]
  /\ UNCHANGED stream
RollBack(w) == next[w] # 0 /\ next' = [next EXCEPT ![w] = 0] /\ UNCHANGED <<log, stream>>

(* An SSE client names the last sequence it has; a WebSocket client cannot *)
(* and is sent the whole log again.                                        *)
Connect(c) ==
  /\ ~stream[c].open /\ stream[c].connects < MaxConnects
  /\ stream' = [stream EXCEPT ![c] =
       [open |-> TRUE, connects |-> @.connects + 1, batch |-> {},
        sequence |-> IF c \in Sse THEN @.sequence ELSE 0,
        received |-> IF c \in Sse THEN @.received ELSE << >>]]
  /\ UNCHANGED <<log, next>>

(* Mutant: an event is taken for seen when the one before it is. *)
EventsBeyond(n) == {e \in log : e > n + 1}

EventsSince(n) == {e \in log : e > n}

Poll(c) ==
  /\ stream[c].open /\ stream[c].batch = {} /\ EventsSince(stream[c].sequence) # {}
  /\ stream' = [stream EXCEPT ![c].batch = EventsSince(stream[c].sequence)]
  /\ UNCHANGED <<log, next>>
(* progress_since orders by sequence: the smallest first. *)
Sent(s) ==
  LET event == Min(s.batch)
  IN [s EXCEPT !.sequence = event, !.batch = @ \ {event}, !.received = Append(@, event)]
Send(c) ==
  /\ stream[c].open /\ stream[c].batch # {}
  /\ stream' = [stream EXCEPT ![c] = Sent(stream[c])]
  /\ UNCHANGED <<log, next>>
Disconnect(c) ==
  /\ stream[c].open
  /\ stream' = [stream EXCEPT ![c].open = FALSE, ![c].batch = {}]
  /\ UNCHANGED <<log, next>>

Serve(c) == Poll(c) \/ Send(c)
StreamNext ==
  \/ \E w \in Writers : ReadMaxSequence(w) \/ CommitEvent(w) \/ RollBack(w)
  \/ \E c \in Clients : Connect(c) \/ Serve(c) \/ Disconnect(c)
(* The handlers loop for as long as their client is connected. *)
StreamFairness == \A c \in Clients : WF_streamVars(Serve(c))
StreamSpec == StreamInit /\ [][StreamNext]_streamVars /\ StreamFairness

-----------------------------------------------------------------------------
StreamTypeOK ==
  /\ log \subseteq Nat /\ next \in [Writers -> Nat]
  /\ \A c \in Clients : stream[c].connects \in 0..MaxConnects /\ (stream[c].batch # {} => stream[c].open)

(* No event is ever committed below one that a client was sent: an SSE     *)
(* client has received 1, 2, 3 ... without a gap or a repetition over all  *)
(* its connections, a WebSocket client over its last one, and what it has  *)
(* is a prefix of the log (routes.py:797-830, 1717-1775,                   *)
(* repositories/__init__.py:180-203).                                      *)
NoEventSkipped ==
  \A c \in Clients :
    LET got == stream[c].received
    IN /\ \A i \in DOMAIN got : got[i] = i
       /\ {e \in log : e <= Len(got)} = 1..Len(got)

(* A committed event reaches every client that stays connected. *)
EventsArrive ==
  \A c \in Clients, n \in 1..MaxEvents :
    (n \in log /\ stream[c].open) ~> (Len(stream[c].received) >= n \/ ~stream[c].open)
=============================================================================
