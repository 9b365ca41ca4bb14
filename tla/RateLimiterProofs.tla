------------------------- MODULE RateLimiterProofs -------------------------
(***************************************************************************)
(* What the sliding window guarantees for every limit, every length of the *)
(* window and every number of workers and keys.                            *)
(***************************************************************************)
EXTENDS RateLimiter, SequenceTheorems, TLAPS

\* The deque is the end of what was admitted, and what was popped from it is
\* older than the window.
DequeOf(window, times) ==
    /\ Len(times) >= Len(window)
    /\ \A n \in 1 .. Len(window) : window[n] = times[Len(times) - Len(window) + n]
    /\ \A n \in 1 .. Len(times) - Len(window) : now - times[n] > Window

HitsAreTheEnd ==
    \A w \in Processes, k \in Keys : DequeOf(hits[w][k], admitted[w][k])

LimiterInv ==
    /\ LimiterTypeOK
    /\ HitsAreTheEnd
    /\ WindowNeverExceeded
    /\ RefusedOnlyWhenFull

-----------------------------------------------------------------------------
\* The deque before any request.
LEMMA EmptyDeque == DequeOf(<<>>, <<>>)
BY DEF DequeOf

\* What is left in a deque when the old times are popped.
LEMMA PoppedDeque ==
  ASSUME NEW old \in Seq(Nat), NEW times \in Seq(Nat), now \in Nat,
         DequeOf(old, times), NEW n \in Popped(old),
         NEW window, window = SubSeq(old, n + 1, Len(old))
  PROVE  /\ window \in Seq(Nat)
         /\ Len(window) <= Len(old)
         /\ DequeOf(window, times)
         /\ Len(window) > 0 => now - window[1] <= Window
<1> DEFINE gone == Len(times) - Len(old)
<1>1. Len(old) \in Nat /\ Len(times) \in Nat
  BY LenProperties
<1>2. /\ n \in 0 .. Len(old)
      /\ \A m \in 1 .. n : now - old[m] > Window
      /\ n < Len(old) => now - old[n + 1] <= Window
  BY DEF Popped
<1>3. n \in Nat /\ n <= Len(old)
  BY <1>1, <1>2
<1>4. gone \in Nat /\ Len(times) = gone + Len(old)
  BY <1>1 DEF DequeOf
<1>5. /\ \A m \in 1 .. Len(old) : old[m] = times[gone + m]
      /\ \A m \in 1 .. gone : now - times[m] > Window
  BY DEF DequeOf
<1> HIDE DEF gone
<1>6. /\ window \in Seq(Nat)
      /\ Len(window) = Len(old) - n
      /\ \A m \in 1 .. Len(window) : window[m] = old[n + m]
  <2>1. \A i \in n + 1 .. Len(old) : old[i] \in Nat
    <3> TAKE i \in n + 1 .. Len(old)
    <3>1. i \in 1 .. Len(old)
      BY <1>1, <1>3
    <3> QED
      BY <3>1, ElementOfSeq
  <2>2. n + 1 \in Int /\ Len(old) \in Int
    BY <1>1, <1>3
  <2>3. /\ window \in Seq(Nat)
        /\ Len(window) = IF n + 1 <= Len(old) THEN Len(old) - (n + 1) + 1 ELSE 0
        /\ \A m \in 1 .. Len(old) - (n + 1) + 1 : window[m] = old[n + 1 + m - 1]
    BY <2>1, <2>2, SubSeqProperties
  <2>4. Len(window) = Len(old) - n /\ Len(old) - (n + 1) + 1 = Len(old) - n
    BY <1>1, <1>3, <2>3
  <2>5. \A m \in 1 .. Len(window) : n + 1 + m - 1 = n + m
    BY <1>1, <1>3
  <2> QED
    BY <2>3, <2>4, <2>5
<1>7. \A m \in 1 .. Len(window) : window[m] = times[gone + n + m]
  <2> TAKE m \in 1 .. Len(window)
  <2>1. n + m \in 1 .. Len(old) /\ gone + (n + m) = gone + n + m
    BY <1>1, <1>3, <1>4, <1>6
  <2>2. window[m] = old[n + m]
    BY <1>6
  <2>3. old[n + m] = times[gone + (n + m)]
    BY <1>5, <2>1
  <2> QED
    BY <2>1, <2>2, <2>3
<1>8. \A m \in 1 .. gone + n : now - times[m] > Window
  <2> TAKE m \in 1 .. gone + n
  <2>1. CASE m <= gone
    <3>1. m \in 1 .. gone
      BY <1>3, <1>4, <2>1
    <3> QED
      BY <1>5, <3>1
  <2>2. CASE m > gone
    <3>1. m - gone \in 1 .. n /\ m - gone \in 1 .. Len(old) /\ gone + (m - gone) = m
      BY <1>1, <1>3, <1>4, <2>2
    <3>2. now - old[m - gone] > Window
      BY <1>2, <3>1
    <3>3. old[m - gone] = times[gone + (m - gone)]
      BY <1>5, <3>1
    <3> QED
      BY <3>1, <3>2, <3>3
  <2> QED
    BY <1>3, <1>4, <2>1, <2>2
<1>9. Len(times) >= Len(window) /\ Len(times) - Len(window) = gone + n
  <2>1. Len(window) = Len(old) - n
    BY <1>6
  <2>2. /\ gone + Len(old) >= Len(old) - n
        /\ (gone + Len(old)) - (Len(old) - n) = gone + n
    BY <1>1, <1>3, <1>4
  <2> QED
    BY <1>4, <2>1, <2>2
<1>10. DequeOf(window, times)
  BY <1>7, <1>8, <1>9 DEF DequeOf
<1>11. Len(window) > 0 => now - window[1] <= Window
  <2> SUFFICES ASSUME Len(window) > 0 PROVE now - window[1] <= Window
    OBVIOUS
  <2>1. 1 \in 1 .. Len(window) /\ n < Len(old)
    BY <1>1, <1>3, <1>6
  <2>2. window[1] = old[n + 1]
    BY <1>6, <2>1
  <2> QED
    BY <1>2, <2>1, <2>2
<1>12. Len(window) <= Len(old)
  BY <1>1, <1>3, <1>6
<1> QED
  BY <1>6, <1>10, <1>11, <1>12

\* A deque and what it is the end of, after a request is admitted.
LEMMA AppendedDeque ==
  ASSUME NEW window \in Seq(Nat), NEW times \in Seq(Nat), now \in Nat,
         DequeOf(window, times)
  PROVE  DequeOf(Append(window, now), Append(times, now))
<1> DEFINE gone == Len(times) - Len(window)
<1>1. /\ Len(Append(window, now)) = Len(window) + 1
      /\ Len(Append(times, now)) = Len(times) + 1
      /\ \A m \in 1 .. Len(window) : Append(window, now)[m] = window[m]
      /\ \A m \in 1 .. Len(times) : Append(times, now)[m] = times[m]
      /\ Append(window, now)[Len(window) + 1] = now
      /\ Append(times, now)[Len(times) + 1] = now
  BY AppendProperties
<1>2. /\ \A m \in 1 .. Len(window) : window[m] = times[gone + m]
      /\ \A m \in 1 .. gone : now - times[m] > Window
  BY DEF DequeOf
<1>3. /\ Len(window) \in Nat /\ Len(times) \in Nat /\ gone \in Nat
      /\ Len(times) = gone + Len(window)
  BY LenProperties DEF DequeOf
<1> HIDE DEF gone
<1>4. \A m \in 1 .. Len(window) + 1 :
        Append(window, now)[m] = Append(times, now)[gone + m]
  <2> TAKE m \in 1 .. Len(window) + 1
  <2>1. CASE m = Len(window) + 1
    <3>1. gone + m = Len(times) + 1
      BY <1>3, <2>1
    <3> QED
      BY <1>1, <2>1, <3>1
  <2>2. CASE m # Len(window) + 1
    <3>1. m \in 1 .. Len(window) /\ gone + m \in 1 .. Len(times)
      BY <1>3, <2>2
    <3> QED
      BY <1>1, <1>2, <3>1
  <2> QED
    BY <2>1, <2>2
<1>5. \A m \in 1 .. gone : now - Append(times, now)[m] > Window
  <2> TAKE m \in 1 .. gone
  <2>1. m \in 1 .. Len(times)
    BY <1>3
  <2> QED
    BY <1>1, <1>2, <2>1
<1>6. /\ Len(Append(times, now)) >= Len(Append(window, now))
      /\ Len(Append(times, now)) - Len(Append(window, now)) = gone
  BY <1>1, <1>3
<1> QED
  BY <1>1, <1>4, <1>5, <1>6 DEF DequeOf

\* An update of one entry of a table leaves the others as they are.
LEMMA OneEntry ==
  ASSUME NEW f \in [Processes -> [Keys -> Seq(Nat)]],
         NEW w \in Processes, NEW k \in Keys, NEW e \in Seq(Nat),
         NEW g, g = [f EXCEPT ![w][k] = e]
  PROVE  /\ g \in [Processes -> [Keys -> Seq(Nat)]]
         /\ g[w][k] = e
         /\ \A v \in Processes, l \in Keys : v # w \/ l # k => g[v][l] = f[v][l]
OBVIOUS

\* Where the first of MaxRequests + 1 times stands, if fewer than MaxRequests
\* are left in the deque.
LEMMA OldestInTheWindow ==
  ASSUME NEW all \in Nat, NEW left \in Nat, NEW limit \in Nat, left < limit,
         NEW m \in Int, m >= 1, m = all + 1 - limit
  PROVE  m + limit = all + 1 /\ m \in 1 .. all - left /\ m \in 1 .. all
OBVIOUS

-----------------------------------------------------------------------------
LEMMA InitLimiter == LimiterInit => LimiterInv
<1> SUFFICES ASSUME LimiterInit PROVE LimiterInv
  OBVIOUS
<1> USE LimitOK
<1>1. \A w \in Processes, k \in Keys : hits[w][k] = <<>> /\ admitted[w][k] = <<>>
  BY DEF LimiterInit
<1>2. LimiterTypeOK
  BY <1>1 DEF LimiterInit, LimiterTypeOK, Replies, Statuses
<1>3. HitsAreTheEnd
  BY <1>1, EmptyDeque DEF HitsAreTheEnd
<1>4. WindowNeverExceeded
  BY <1>1 DEF WindowNeverExceeded
<1>5. RefusedOnlyWhenFull
  BY DEF LimiterInit, RefusedOnlyWhenFull
<1> QED
  BY <1>2, <1>3, <1>4, <1>5 DEF LimiterInv

LEMMA RefusePreserves ==
  ASSUME LimiterInv, NEW w \in Processes, NEW k \in Keys,
         NEW n \in Popped(hits[w][k]), NEW window,
         window = SubSeq(hits[w][k], n + 1, Len(hits[w][k])),
         Refuse(w, k, window), now' = now
  PROVE  LimiterInv'
<1> USE LimitOK
<1> DEFINE old == hits[w][k]
           times == admitted[w][k]
<1>1. /\ LimiterTypeOK /\ HitsAreTheEnd /\ WindowNeverExceeded /\ now \in Nat
      /\ old \in Seq(Nat) /\ times \in Seq(Nat)
      /\ Len(old) <= MaxRequests /\ DequeOf(old, times)
      /\ n \in Popped(old) /\ window = SubSeq(old, n + 1, Len(old))
  BY DEF LimiterInv, LimiterTypeOK, HitsAreTheEnd
<1> HIDE DEF old
<1>2. /\ window \in Seq(Nat) /\ Len(window) <= MaxRequests
      /\ DequeOf(window, times)
      /\ Len(window) > 0 => now - window[1] <= Window
  <2>1. /\ window \in Seq(Nat) /\ Len(window) <= Len(old)
        /\ DequeOf(window, times)
        /\ Len(window) > 0 => now - window[1] <= Window
    BY <1>1, PoppedDeque
  <2>2. Len(window) \in Nat /\ Len(old) \in Nat
    BY <1>1, <2>1, LenProperties
  <2>3. Len(window) <= MaxRequests
    BY <1>1, <2>1, <2>2
  <2> QED
    BY <2>1, <2>3
<1>3. /\ Len(window) >= MaxRequests
      /\ hits' = [hits EXCEPT ![w][k] = window]
      /\ admitted' = admitted
      /\ reply' = [worker |-> w, key |-> k, status |-> "429", time |-> now]
  BY DEF Refuse, Answer
<1>5. /\ hits' \in [Processes -> [Keys -> Seq(Nat)]]
      /\ hits'[w][k] = window
      /\ \A v \in Processes, l \in Keys :
           v # w \/ l # k => hits'[v][l] = hits[v][l]
  <2>1. hits \in [Processes -> [Keys -> Seq(Nat)]]
    BY <1>1 DEF LimiterTypeOK
  <2> QED
    BY <1>2, <1>3, <2>1, OneEntry
<1>6. LimiterTypeOK'
  <2>1. reply' \in Replies
    BY <1>1, <1>3 DEF Replies, Statuses
  <2>2. \A v \in Processes, l \in Keys : Len(hits'[v][l]) <= MaxRequests
    BY <1>1, <1>2, <1>5 DEF LimiterTypeOK
  <2> QED
    BY <1>1, <1>3, <1>5, <2>1, <2>2 DEF LimiterTypeOK
<1>7. HitsAreTheEnd'
  <2> SUFFICES ASSUME NEW v \in Processes, NEW l \in Keys
               PROVE  DequeOf(hits[v][l], admitted[v][l])'
    BY DEF HitsAreTheEnd
  <2>1. DequeOf(hits'[v][l], admitted[v][l])
    BY <1>1, <1>2, <1>5 DEF HitsAreTheEnd
  <2> QED
    BY <1>3, <2>1 DEF DequeOf
<1>8. WindowNeverExceeded'
  BY <1>1, <1>3 DEF WindowNeverExceeded
<1>9. RefusedOnlyWhenFull'
  <2> HIDE DEF times
  <2>1. /\ Len(window) = MaxRequests /\ Len(times) >= MaxRequests
        /\ Len(times) \in Nat
        /\ \A m \in 1 .. Len(window) :
             window[m] = times[Len(times) - Len(window) + m]
    <3>1. Len(window) \in Nat /\ Len(times) \in Nat
      BY <1>1, <1>2, LenProperties
    <3>2. Len(window) = MaxRequests
      BY <1>2, <1>3, <3>1
    <3> QED
      BY <1>2, <3>1, <3>2 DEF DequeOf
  <2>2. Len(times) - MaxRequests + 1 <= Len(times) =>
          now - times[Len(times) - MaxRequests + 1] <= Window
    <3> SUFFICES ASSUME Len(times) - MaxRequests + 1 <= Len(times)
                 PROVE  now - times[Len(times) - MaxRequests + 1] <= Window
      OBVIOUS
    <3>1. Len(window) = MaxRequests /\ Len(times) \in Nat
      BY <2>1
    <3>4. MaxRequests \in Nat /\ MaxRequests > 0 /\ 1 \in 1 .. MaxRequests
      BY <3>1
    <3>2. Len(window) > 0 /\ 1 \in 1 .. Len(window)
      BY <3>1, <3>4
    <3>3. window[1] = times[Len(times) - MaxRequests + 1]
      BY <2>1, <3>2
    <3> QED
      BY <1>2, <3>2, <3>3
  <2>3. Len(times) - MaxRequests + 1 >= 1
    BY <2>1
  <2>4. admitted'[reply'.worker][reply'.key] = times /\ reply'.time = now
    BY <1>3 DEF times
  <2> QED
    BY <2>2, <2>3, <2>4 DEF RefusedOnlyWhenFull
<1> QED
  BY <1>6, <1>7, <1>8, <1>9 DEF LimiterInv

LEMMA AdmitPreserves ==
  ASSUME LimiterInv, NEW w \in Processes, NEW k \in Keys,
         NEW n \in Popped(hits[w][k]), NEW window,
         window = SubSeq(hits[w][k], n + 1, Len(hits[w][k])),
         Admit(w, k, window), now' = now
  PROVE  LimiterInv'
<1> USE LimitOK
<1> DEFINE old == hits[w][k]
           times == admitted[w][k]
<1>1. /\ LimiterTypeOK /\ HitsAreTheEnd /\ WindowNeverExceeded /\ now \in Nat
      /\ old \in Seq(Nat) /\ times \in Seq(Nat) /\ DequeOf(old, times)
      /\ n \in Popped(old) /\ window = SubSeq(old, n + 1, Len(old))
  BY DEF LimiterInv, LimiterTypeOK, HitsAreTheEnd
<1> HIDE DEF old
<1>2. window \in Seq(Nat) /\ DequeOf(window, times)
  BY <1>1, PoppedDeque
<1>3. /\ Len(window) < MaxRequests
      /\ hits' = [hits EXCEPT ![w][k] = Append(window, now)]
      /\ admitted' = [admitted EXCEPT ![w][k] = Append(times, now)]
      /\ reply' = [worker |-> w, key |-> k, status |-> "ok", time |-> now]
  BY DEF Admit, Answer
<1>4. Append(window, now) \in Seq(Nat) /\ Append(times, now) \in Seq(Nat)
  BY <1>1, <1>2
<1>5. /\ hits' \in [Processes -> [Keys -> Seq(Nat)]]
      /\ admitted' \in [Processes -> [Keys -> Seq(Nat)]]
      /\ hits'[w][k] = Append(window, now)
      /\ admitted'[w][k] = Append(times, now)
      /\ \A v \in Processes, l \in Keys :
           v # w \/ l # k =>
             hits'[v][l] = hits[v][l] /\ admitted'[v][l] = admitted[v][l]
  <2>1. /\ hits \in [Processes -> [Keys -> Seq(Nat)]]
        /\ admitted \in [Processes -> [Keys -> Seq(Nat)]]
    BY <1>1 DEF LimiterTypeOK
  <2>2. /\ hits' \in [Processes -> [Keys -> Seq(Nat)]]
        /\ hits'[w][k] = Append(window, now)
        /\ \A v \in Processes, l \in Keys : v # w \/ l # k => hits'[v][l] = hits[v][l]
    BY <1>3, <1>4, <2>1, OneEntry
  <2>3. /\ admitted' \in [Processes -> [Keys -> Seq(Nat)]]
        /\ admitted'[w][k] = Append(times, now)
        /\ \A v \in Processes, l \in Keys :
             v # w \/ l # k => admitted'[v][l] = admitted[v][l]
    BY <1>3, <1>4, <2>1, OneEntry
  <2> QED
    BY <2>2, <2>3
<1> HIDE DEF times
<1>6. LimiterTypeOK'
  <2>1. reply' \in Replies
    BY <1>1, <1>3 DEF Replies, Statuses
  <2>2. Len(Append(window, now)) <= MaxRequests
    BY <1>2, <1>3
  <2>3. \A v \in Processes, l \in Keys : Len(hits'[v][l]) <= MaxRequests
    BY <1>1, <1>5, <2>2 DEF LimiterTypeOK
  <2> QED
    BY <1>1, <1>5, <2>1, <2>3 DEF LimiterTypeOK
<1>7. DequeOf(Append(window, now), Append(times, now))
  BY <1>1, <1>2, AppendedDeque
<1>8. HitsAreTheEnd'
  <2> SUFFICES ASSUME NEW v \in Processes, NEW l \in Keys
               PROVE  DequeOf(hits[v][l], admitted[v][l])'
    BY DEF HitsAreTheEnd
  <2>1. DequeOf(hits'[v][l], admitted'[v][l])
    BY <1>1, <1>5, <1>7 DEF HitsAreTheEnd
  <2> QED
    BY <2>1 DEF DequeOf
<1>9. WindowNeverExceeded'
  <2> SUFFICES ASSUME NEW v \in Processes, NEW l \in Keys,
                      NEW m \in 1 .. Len(admitted'[v][l]) - MaxRequests
               PROVE  admitted'[v][l][m + MaxRequests] - admitted'[v][l][m] > Window
    BY DEF WindowNeverExceeded
  <2>1. CASE v # w \/ l # k
    BY <1>1, <1>5, <2>1 DEF WindowNeverExceeded
  <2>2. CASE v = w /\ l = k
    <3>1. /\ Len(times) \in Nat /\ Len(window) \in Nat
          /\ Len(Append(times, now)) = Len(times) + 1
          /\ \A i \in 1 .. Len(times) : Append(times, now)[i] = times[i]
          /\ Append(times, now)[Len(times) + 1] = now
      <4>1. Len(times) \in Nat /\ Len(window) \in Nat
        BY <1>1, <1>2, LenProperties
      <4>2. now \in Nat /\ times \in Seq(Nat)
        BY <1>1
      <4>3. /\ Len(Append(times, now)) = Len(times) + 1
            /\ \A i \in 1 .. Len(times) : Append(times, now)[i] = times[i]
            /\ Append(times, now)[Len(times) + 1] = now
        BY <4>2, AppendProperties
      <4> QED
        BY <4>1, <4>3
    <3>2. /\ admitted'[v][l] = Append(times, now)
          /\ m \in 1 .. Len(times) + 1 - MaxRequests
      <4>1. admitted'[v][l] = Append(times, now)
        BY <1>5, <2>2
      <4>2. Len(admitted'[v][l]) = Len(times) + 1
        BY <3>1, <4>1
      <4>3. m \in 1 .. Len(times) + 1 - MaxRequests
        BY <4>2
      <4> QED
        BY <4>1, <4>3
    <3>3. CASE m <= Len(times) - MaxRequests
      <4>1. /\ m \in 1 .. Len(times) - MaxRequests
            /\ m \in 1 .. Len(times) /\ m + MaxRequests \in 1 .. Len(times)
        BY <3>1, <3>2, <3>3
      <4>2. times[m + MaxRequests] - times[m] > Window
        BY <1>1, <4>1 DEF WindowNeverExceeded, times
      <4>3. /\ Append(times, now)[m] = times[m]
            /\ Append(times, now)[m + MaxRequests] = times[m + MaxRequests]
        BY <3>1, <4>1
      <4> QED
        BY <3>2, <4>2, <4>3
    <3>4. CASE m = Len(times) + 1 - MaxRequests
      <4>1. /\ m \in 1 .. Len(times) - Len(window) /\ m \in 1 .. Len(times)
            /\ m + MaxRequests = Len(times) + 1
        <5>1. Len(times) \in Nat /\ Len(window) \in Nat /\ Len(window) < MaxRequests
          BY <1>3, <3>1
        <5>2. m \in Int /\ m >= 1
          BY <3>2
        <5>3. m = Len(times) + 1 - MaxRequests /\ MaxRequests \in Nat
          BY <3>4
        <5> QED
          BY <5>1, <5>2, <5>3, OldestInTheWindow
      <4>2. now - times[m] > Window
        BY <1>2, <4>1 DEF DequeOf
      <4>3. /\ Append(times, now)[m + MaxRequests] = now
            /\ Append(times, now)[m] = times[m]
        BY <3>1, <4>1
      <4> QED
        BY <3>2, <4>2, <4>3
    <3>5. Len(times) \in Nat /\ m \in Int /\ m <= Len(times) + 1 - MaxRequests
      BY <3>1, <3>2
    <3> QED
      BY <3>3, <3>4, <3>5
  <2> QED
    BY <2>1, <2>2
<1>10. RefusedOnlyWhenFull'
  BY <1>3 DEF RefusedOnlyWhenFull
<1> QED
  BY <1>6, <1>8, <1>9, <1>10 DEF LimiterInv

LEMMA RestartPreserves ==
  ASSUME LimiterInv, NEW w \in Processes, LimiterRestart(w)
  PROVE  LimiterInv'
<1> USE LimitOK
<1>1. /\ LimiterTypeOK /\ HitsAreTheEnd /\ WindowNeverExceeded
      /\ hits \in [Processes -> [Keys -> Seq(Nat)]]
      /\ admitted \in [Processes -> [Keys -> Seq(Nat)]]
  BY DEF LimiterInv, LimiterTypeOK
<1>2. /\ hits' \in [Processes -> [Keys -> Seq(Nat)]]
      /\ admitted' \in [Processes -> [Keys -> Seq(Nat)]]
      /\ \A l \in Keys : hits'[w][l] = <<>> /\ admitted'[w][l] = <<>>
      /\ \A v \in Processes \ {w} :
           hits'[v] = hits[v] /\ admitted'[v] = admitted[v]
  BY <1>1 DEF LimiterRestart
<1>3. /\ now' = now /\ reply' \in Replies /\ reply'.status = "none"
  BY <1>1 DEF LimiterRestart, LimiterTypeOK, Replies, Statuses
<1>4. LimiterTypeOK'
  <2>1. \A v \in Processes, l \in Keys : Len(hits'[v][l]) <= MaxRequests
    <3> TAKE v \in Processes, l \in Keys
    <3>1. CASE v = w
      <4>1. hits'[v][l] = <<>> /\ Len(<<>>) = 0
        BY <1>2, <3>1
      <4> QED
        BY <4>1
    <3>2. CASE v # w
      BY <1>1, <1>2, <3>2 DEF LimiterTypeOK
    <3> QED
      BY <3>1, <3>2
  <2> QED
    BY <1>1, <1>2, <1>3, <2>1 DEF LimiterTypeOK
<1>5. HitsAreTheEnd'
  <2> SUFFICES ASSUME NEW v \in Processes, NEW l \in Keys
               PROVE  DequeOf(hits[v][l], admitted[v][l])'
    BY DEF HitsAreTheEnd
  <2>1. CASE v = w
    <3>1. DequeOf(hits'[v][l], admitted'[v][l])
      BY <1>2, <2>1, EmptyDeque
    <3> QED
      BY <1>3, <3>1 DEF DequeOf
  <2>2. CASE v # w
    <3>1. DequeOf(hits'[v][l], admitted'[v][l])
      BY <1>1, <1>2, <2>2 DEF HitsAreTheEnd
    <3> QED
      BY <1>3, <3>1 DEF DequeOf
  <2> QED
    BY <2>1, <2>2
<1>6. WindowNeverExceeded'
  <2> SUFFICES ASSUME NEW v \in Processes, NEW l \in Keys,
                      NEW m \in 1 .. Len(admitted'[v][l]) - MaxRequests
               PROVE  admitted'[v][l][m + MaxRequests] - admitted'[v][l][m] > Window
    BY DEF WindowNeverExceeded
  <2>1. CASE v = w
    BY <1>2, <2>1
  <2>2. CASE v # w
    BY <1>1, <1>2, <2>2 DEF WindowNeverExceeded
  <2> QED
    BY <2>1, <2>2
<1>7. RefusedOnlyWhenFull'
  BY <1>3 DEF RefusedOnlyWhenFull
<1> QED
  BY <1>4, <1>5, <1>6, <1>7 DEF LimiterInv

LEMMA TickPreserves ==
  ASSUME LimiterInv, Tick
  PROVE  LimiterInv'
<1>1. /\ now \in Nat /\ now' = now + 1
      /\ hits' = hits /\ admitted' = admitted /\ reply' = reply
  BY DEF LimiterInv, LimiterTypeOK, Tick
<1>2. LimiterTypeOK'
  BY <1>1 DEF LimiterInv, LimiterTypeOK
<1>3. HitsAreTheEnd'
  <2> SUFFICES ASSUME NEW w \in Processes, NEW k \in Keys
               PROVE  DequeOf(hits[w][k], admitted[w][k])'
    BY DEF HitsAreTheEnd
  <2>1. admitted[w][k] \in Seq(Nat) /\ hits[w][k] \in Seq(Nat)
        /\ DequeOf(hits[w][k], admitted[w][k])
    BY DEF LimiterInv, LimiterTypeOK, HitsAreTheEnd
  <2>2. \A n \in 1 .. Len(admitted[w][k]) - Len(hits[w][k]) :
          now' - admitted[w][k][n] > Window
    <3> TAKE n \in 1 .. Len(admitted[w][k]) - Len(hits[w][k])
    <3>1. n \in 1 .. Len(admitted[w][k])
      BY <2>1, LenProperties
    <3>2. admitted[w][k][n] \in Nat
      BY <2>1, <3>1, ElementOfSeq
    <3>3. now - admitted[w][k][n] > Window
      BY <2>1 DEF DequeOf
    <3> QED
      <4>1. admitted[w][k][n] \in Int /\ now \in Int /\ Window \in Int /\ now' = now + 1
        BY <1>1, <3>2, LimitOK
      <4> QED
        BY <3>3, <4>1
  <2>3. /\ Len(admitted[w][k]) >= Len(hits[w][k])
        /\ \A n \in 1 .. Len(hits[w][k]) :
             hits[w][k][n] = admitted[w][k][Len(admitted[w][k]) - Len(hits[w][k]) + n]
    BY <2>1 DEF DequeOf
  <2>5. hits'[w][k] = hits[w][k] /\ admitted'[w][k] = admitted[w][k]
    BY <1>1
  <2> QED
    BY <2>2, <2>3, <2>5, Zenon DEF DequeOf
<1>4. WindowNeverExceeded' /\ RefusedOnlyWhenFull'
  BY <1>1 DEF LimiterInv, WindowNeverExceeded, RefusedOnlyWhenFull
<1> QED
  BY <1>2, <1>3, <1>4 DEF LimiterInv

-----------------------------------------------------------------------------
\* What the checks keep: types, the deque as the end of what was admitted, and
\* the two properties.
THEOREM LimiterInvariant == LimiterSpec => []LimiterInv
<1>1. LimiterInit => LimiterInv
  BY InitLimiter
<1>2. LimiterInv /\ [LimiterNext]_limiterVars => LimiterInv'
  <2> SUFFICES ASSUME LimiterInv, [LimiterNext]_limiterVars
               PROVE  LimiterInv'
    OBVIOUS
  <2>1. ASSUME NEW w \in Processes, NEW k \in Keys, Check(w, k)
        PROVE  LimiterInv'
    <3>1. PICK n \in Popped(hits[w][k]) :
            LET window == SubSeq(hits[w][k], n + 1, Len(hits[w][k]))
            IN  Refuse(w, k, window) \/ Admit(w, k, window)
      BY <2>1 DEF Check
    <3>2. now' = now
      BY <2>1 DEF Check
    <3> QED
      BY <3>1, <3>2, RefusePreserves, AdmitPreserves
  <2>2. ASSUME NEW w \in Processes, LimiterRestart(w)
        PROVE  LimiterInv'
    BY <2>2, RestartPreserves
  <2>3. CASE Tick
    BY <2>3, TickPreserves
  <2>4. CASE UNCHANGED limiterVars
    BY <2>4 DEF limiterVars, LimiterInv, LimiterTypeOK, HitsAreTheEnd, DequeOf,
                WindowNeverExceeded, RefusedOnlyWhenFull
  <2> QED
    BY <2>1, <2>2, <2>3, <2>4 DEF LimiterNext
<1> QED
  BY <1>1, <1>2, PTL DEF LimiterSpec

\* Types, and no deque holds more than MaxRequests times.
THEOREM LimiterTypes == LimiterSpec => []LimiterTypeOK
BY LimiterInvariant, PTL DEF LimiterInv

\* No worker admits more than MaxRequests of a key in any window, however its
\* requests come and whenever their times are popped.
THEOREM NeverMoreThanTheLimit == LimiterSpec => []WindowNeverExceeded
BY LimiterInvariant, PTL DEF LimiterInv

\* No request is refused but for MaxRequests admitted ones in the window
\* before it.
THEOREM RefusalsAreDue == LimiterSpec => []RefusedOnlyWhenFull
BY LimiterInvariant, PTL DEF LimiterInv

\* A request passes exactly when the window before it has room.
THEOREM LimitExact == LimiterSpec => []LimitIsExact
BY NeverMoreThanTheLimit, RefusalsAreDue, PTL DEF LimitIsExact
=============================================================================
