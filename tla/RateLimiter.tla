---------------------------- MODULE RateLimiter ----------------------------
(***************************************************************************)
(* The sliding window of api/security.py, in the memory of each worker     *)
(* process, for each key: the session, or the address at a login.  A       *)
(* request is checked without an await, so a check is one step.  Time is a *)
(* clock that only Tick moves.                                             *)
(*                                                                         *)
(* A definition that is used nowhere is a variant with a plausible         *)
(* mistake; it stands before the definition it varies and documents what   *)
(* the properties guard against.                                           *)
(***************************************************************************)
EXTENDS Integers, Sequences

CONSTANTS
    Processes,
    Keys,
    MaxRequests,
    Window,
    MaxTime      \* a bound of the model

ASSUME LimitOK == MaxRequests \in Nat /\ Window \in Nat

VARIABLES
    hits,       \* of each worker and key the deque of times, oldest first
    now,
    reply,      \* history: the reply to the last request, none after a restart
    admitted    \* history: all times admitted since the worker has started

limiterVars == <<hits, now, reply, admitted>>

Statuses == {"none", "ok", "429"}
Replies == [worker : Processes, key : Keys, status : Statuses, time : Nat]

LimiterTypeOK ==
    /\ now \in Nat
    /\ hits \in [Processes -> [Keys -> Seq(Nat)]]
    /\ admitted \in [Processes -> [Keys -> Seq(Nat)]]
    /\ reply \in Replies
    /\ \A w \in Processes, k \in Keys : Len(hits[w][k]) <= MaxRequests

LimiterInit ==
    /\ hits = [w \in Processes |-> [k \in Keys |-> <<>>]]
    /\ now = 0
    /\ reply \in [worker : Processes, key : Keys, status : {"none"}, time : {0}]
    /\ admitted = hits

-----------------------------------------------------------------------------
\* how many times are popped: those in front that are older than the window
PoppedAtTheEdge(window) ==
    {n \in 0 .. Len(window) :
       /\ \A m \in 1 .. n : now - window[m] >= Window
       /\ n < Len(window) => now - window[n + 1] < Window}
Popped(window) ==
    {n \in 0 .. Len(window) :
       /\ \A m \in 1 .. n : now - window[m] > Window
       /\ n < Len(window) => now - window[n + 1] <= Window}

Answer(w, k, status) ==
    reply' = [worker |-> w, key |-> k, status |-> status, time |-> now]

RefuseAndCount(w, k, window) ==
    /\ Len(window) >= MaxRequests
    /\ hits' = [hits EXCEPT ![w][k] = Append(window, now)]
    /\ Answer(w, k, "429")
    /\ UNCHANGED admitted
Refuse(w, k, window) ==
    /\ Len(window) >= MaxRequests
    /\ hits' = [hits EXCEPT ![w][k] = window]
    /\ Answer(w, k, "429")
    /\ UNCHANGED admitted

Admit(w, k, window) ==
    /\ Len(window) < MaxRequests
    /\ hits' = [hits EXCEPT ![w][k] = Append(window, now)]
    /\ Answer(w, k, "ok")
    /\ admitted' = [admitted EXCEPT ![w][k] = Append(@, now)]

Check(w, k) ==
    /\ \E n \in Popped(hits[w][k]) :
         LET window == SubSeq(hits[w][k], n + 1, Len(hits[w][k]))
         IN  Refuse(w, k, window) \/ Admit(w, k, window)
    /\ UNCHANGED now

\* A process that starts knows of no request.
LimiterRestart(w) ==
    /\ hits' = [hits EXCEPT ![w] = [k \in Keys |-> <<>>]]
    /\ admitted' = [admitted EXCEPT ![w] = [k \in Keys |-> <<>>]]
    /\ reply' = [reply EXCEPT !.status = "none"]
    /\ UNCHANGED now

Tick ==
    /\ now < MaxTime
    /\ now' = now + 1
    /\ UNCHANGED <<hits, reply, admitted>>

LimiterNext ==
    \/ \E w \in Processes : LimiterRestart(w) \/ \E k \in Keys : Check(w, k)
    \/ Tick

LimiterSpec == LimiterInit /\ [][LimiterNext]_limiterVars

-----------------------------------------------------------------------------
\* Of MaxRequests + 1 requests of a key that one worker admits in succession,
\* the last comes more than the window after the first: no interval of the
\* window's length, wherever it begins, holds more than MaxRequests.
WindowNeverExceeded ==
    \A w \in Processes, k \in Keys :
      LET times == admitted[w][k]
      IN  \A n \in 1 .. Len(times) - MaxRequests :
            times[n + MaxRequests] - times[n] > Window

\* A request is refused only if its worker has admitted MaxRequests of the key
\* within the window before it: refused requests do not prolong the wait,
\* whatever was popped from the deque in between.
RefusedOnlyWhenFull ==
    LET times == admitted[reply.worker][reply.key]
        first == Len(times) - MaxRequests + 1
    IN  reply.status = "429" =>
          /\ first >= 1
          /\ first <= Len(times) => reply.time - times[first] <= Window

\* The window admits what it may and refuses nothing else.
LimitIsExact == WindowNeverExceeded /\ RefusedOnlyWhenFull
=============================================================================
