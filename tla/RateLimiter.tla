----------------------------- MODULE RateLimiter -----------------------------
(***************************************************************************)
(* RateLimitMiddleware: per client host, the moments of the admitted       *)
(* requests of the last Window; a request is refused while Limit of them   *)
(* are left.  The moment is read and used without an await in between, so  *)
(* one request is one step.                                                *)
(***************************************************************************)
EXTENDS Integers, Sequences, FiniteSets

CONSTANTS Hosts, Limit, Window,
          MaxTime       \* bound: the clock

ASSUME LimiterConstants == Limit \in Nat \ {0} /\ Window \in Nat \ {0} /\ MaxTime \in Nat

VARIABLES clock,
          requests,     \* the deque of each host, as a sequence of moments
          admitted,     \* per host, the moments of all admitted requests
          refused       \* hosts refused at this moment
limiterVars == <<clock, requests, admitted, refused>>

LimiterInit ==
  /\ clock = 0
  /\ requests = [h \in Hosts |-> << >>] /\ admitted = [h \in Hosts |-> << >>]
  /\ refused = {}

Passes == clock < MaxTime /\ clock' = clock + 1 /\ refused' = {} /\ UNCHANGED <<requests, admitted>>

(* The popleft loop: entries leave at the front while they are not after    *)
(* the moment.                                                             *)
PopThrough(moment, entries) ==
  LET gone == CHOOSE k \in 0..Len(entries) :
                /\ \A i \in 1..k : entries[i] <= moment
                /\ k < Len(entries) => entries[k + 1] > moment
  IN SubSeq(entries, gone + 1, Len(entries))

(* Mutant: the boundary the other way. *)
TrimmedLate(entries) == PopThrough(clock - Window - 1, entries)

Trimmed(entries) == PopThrough(clock - Window, entries)

Admit(h) ==
  /\ Len(Trimmed(requests[h])) < Limit
  /\ requests' = [requests EXCEPT ![h] = Append(Trimmed(@), clock)]
  /\ admitted' = [admitted EXCEPT ![h] = Append(@, clock)]
  /\ UNCHANGED <<clock, refused>>
Refuse(h) ==
  /\ Len(Trimmed(requests[h])) >= Limit
  /\ requests' = [requests EXCEPT ![h] = Trimmed(@)]
  /\ refused' = refused \cup {h}
  /\ UNCHANGED <<clock, admitted>>

LimiterNext == Passes \/ \E h \in Hosts : Admit(h) \/ Refuse(h)
LimiterSpec == LimiterInit /\ [][LimiterNext]_limiterVars

-----------------------------------------------------------------------------
LimiterTypeOK == clock \in 0..MaxTime /\ \A h \in Hosts : Len(requests[h]) <= Limit

AdmittedIn(h, last) == Cardinality({i \in DOMAIN admitted[h] : admitted[h][i] \in (last - Window + 1)..last})

(* Whatever moment a window ends at, it holds no more than Limit admitted  *)
(* requests of a host, also across the trims in between; and a request is  *)
(* refused only when the window that ends now really is full               *)
(* (api/main.py:49-67).                                                    *)
LimitHoldsInEveryWindow ==
  \A h \in Hosts :
    /\ \A last \in 0..clock : AdmittedIn(h, last) <= Limit
    /\ h \in refused => AdmittedIn(h, clock) = Limit
=============================================================================
