------------------------- MODULE RateLimiterProofs -------------------------
(***************************************************************************)
(* For every window, limit, set of keys and sweep threshold: the types of  *)
(* module RateLimiter are kept, at most twice the limit is admitted within *)
(* windowMs, and a refusal has its reason and ends when the header says.   *)
(*                                                                         *)
(* AtMostTwice is about three windows, and no step sees more than the last *)
(* one.  Inductive is that windows are windowMs apart and admit within     *)
(* their own; a new one is apart from the last because the bucket of the   *)
(* last is either expired, or gone, which it can only be when expired.     *)
(***************************************************************************)
EXTENDS RateLimiter, SequenceTheorems, TLAPS

LastWindow(k) == windows[k][Len(windows[k])]

\* Each window admits between its start and its end, and no more than the
\* limit.
WindowsBounded ==
  \A k \in Keys : \A i \in DOMAIN windows[k] :
    LET w == windows[k][i]
    IN  /\ w.start <= w.last /\ w.last < w.start + WindowMs /\ w.last <= now
        /\ w.admitted <= Limit

\* Windows of one key do not overlap.
WindowsApart ==
  \A k \in Keys : \A i, j \in DOMAIN windows[k] :
    i < j => windows[k][j].start >= windows[k][i].start + WindowMs

OneBucket == \A k \in Keys : \A b, c \in buckets[k] : b = c

\* The bucket of a key is its last window.
BucketIsLast ==
  \A k \in Keys : \A b \in buckets[k] :
    /\ windows[k] # <<>>
    /\ b.resetAt = LastWindow(k).start + WindowMs
    /\ b.count <= Limit => LastWindow(k).admitted = b.count
    /\ b.count > Limit => LastWindow(k).admitted = Limit
    /\ answer[k].resetAt = b.resetAt

\* A key without a bucket has no window running.
GoneIsOver ==
  \A k \in Keys :
    buckets[k] = {} /\ windows[k] # <<>> => LastWindow(k).start + WindowMs <= now

LimiterInv ==
  /\ TypeOK /\ OneBucket
  /\ WindowsBounded /\ WindowsApart
  /\ BucketIsLast /\ GoneIsOver

-----------------------------------------------------------------------------
\* The last window of a key is one of its windows.
LEMMA LastWindowType ==
  ASSUME TypeOK, NEW k \in Keys, windows[k] # <<>>
  PROVE  /\ Len(windows[k]) \in DOMAIN windows[k]
         /\ LastWindow(k) \in Window
  <1>1. windows[k] \in Seq(Window)
    BY DEF TypeOK
  <1>2. Len(windows[k]) \in Nat /\ Len(windows[k]) # 0
        /\ DOMAIN windows[k] = 1 .. Len(windows[k])
    BY <1>1
  <1> QED
    BY <1>1, <1>2 DEF LastWindow

\* The sweep drops expired buckets only.
LEMMA SweptBuckets ==
  ASSUME TypeOK, OneBucket, NEW k \in Keys
  PROVE  /\ Swept \in [Keys -> SUBSET Bucket]
         /\ Swept[k] \in {{}, buckets[k]}
         /\ \A b \in buckets[k] : b \in Swept[k] \/ b.resetAt <= now
  <1> USE DEF Swept, Expired
  <1>1. Swept \in [Keys -> SUBSET Bucket]
    BY DEF TypeOK
  <1>2. \A b \in buckets[k] : b \in Swept[k] \/ b.resetAt <= now
    BY DEF TypeOK
  <1>3. Swept[k] \in {{}, buckets[k]}
    BY DEF TypeOK, OneBucket
  <1> QED
    BY <1>1, <1>2, <1>3

\* When a first request may open a window, the last one is over.
LEMMA OverWhenFirst ==
  ASSUME LimiterInv, NEW k \in Keys, windows[k] # <<>>,
         \A b \in Swept[k] : Expired(b)
  PROVE  LastWindow(k).start + WindowMs <= now
  <1>1. CASE buckets[k] = {}
    BY <1>1 DEF LimiterInv, GoneIsOver
  <1>2. CASE buckets[k] # {}
    <2>1. PICK b \in buckets[k] : TRUE
      BY <1>2
    <2>2. b.resetAt <= now
      BY <2>1, SweptBuckets DEF LimiterInv, Expired
    <2>3. b.resetAt = LastWindow(k).start + WindowMs
      BY <2>1 DEF LimiterInv, BucketIsLast
    <2> QED
      BY <2>2, <2>3
  <1> QED
    BY <1>1, <1>2

-----------------------------------------------------------------------------
\* At first there are no buckets and no windows.
LEMMA InitLimiter == Init => LimiterInv
  BY LimiterConstants
  DEF Init, LimiterInv, TypeOK, OneBucket, WindowsBounded, WindowsApart,
      BucketIsLast, GoneIsOver, NoAnswer, RateLimitResult

\* Time passes: windows over stay over.
LEMMA TickLimiter ==
  ASSUME LimiterInv, Tick
  PROVE  LimiterInv'
  <1>1. now \in Nat /\ now' = now + 1
        /\ UNCHANGED <<buckets, answer, windows>>
    BY DEF Tick, LimiterInv, TypeOK
  <1>2. (TypeOK /\ OneBucket /\ WindowsApart /\ BucketIsLast)'
    BY <1>1 DEF LimiterInv, TypeOK, OneBucket, WindowsApart, BucketIsLast, LastWindow
  <1>3. WindowsBounded'
    <2> SUFFICES ASSUME NEW k \in Keys, NEW i \in DOMAIN windows[k]
                 PROVE  windows[k][i].last <= now + 1
      BY <1>1 DEF LimiterInv, WindowsBounded
    <2>1. windows[k][i] \in Window
      BY DEF LimiterInv, TypeOK
    <2> QED
      BY <1>1, <2>1 DEF LimiterInv, WindowsBounded, Window
  <1>4. GoneIsOver'
    <2> SUFFICES ASSUME NEW k \in Keys, buckets[k] = {}, windows[k] # <<>>
                 PROVE  LastWindow(k).start + WindowMs <= now + 1
      BY <1>1 DEF GoneIsOver, LastWindow
    <2>1. LastWindow(k) \in Window
      BY LastWindowType DEF LimiterInv
    <2> QED
      BY <1>1, <2>1, LimiterConstants DEF LimiterInv, GoneIsOver, Window
  <1> QED
    BY <1>2, <1>3, <1>4 DEF LimiterInv

\* A first request opens a window after the last one.
LEMMA FirstLimiter ==
  ASSUME LimiterInv, NEW k \in Keys, ConsumeFirst(k)
  PROVE  LimiterInv'
  <1> DEFINE w == [start |-> now, last |-> now, admitted |-> 1]
             n == Len(windows[k])
             b == [count |-> 1, resetAt |-> now + WindowMs]
  <1>1. TypeOK /\ OneBucket /\ now \in Nat /\ w \in Window /\ b \in Bucket
        /\ windows[k] \in Seq(Window) /\ n \in Nat
    BY LimiterConstants DEF LimiterInv, TypeOK, Window, Bucket
  <1>2. /\ now' = now
        /\ buckets' = [Swept EXCEPT ![k] = {b}]
        /\ windows' = [windows EXCEPT ![k] = Append(windows[k], w)]
        /\ answer' = [answer EXCEPT ![k] =
             [success |-> TRUE, remaining |-> Remaining(1), resetAt |-> now + WindowMs]]
    BY DEF ConsumeFirst
  <1>3. /\ windows'[k] = Append(windows[k], w)
        /\ Len(windows'[k]) = n + 1 /\ windows'[k][n + 1] = w
        /\ \A i \in 1 .. n : windows'[k][i] = windows[k][i]
        /\ DOMAIN windows'[k] = 1 .. n + 1 /\ DOMAIN windows[k] = 1 .. n
        /\ windows'[k] # <<>>
    <2>1. windows'[k] = Append(windows[k], w)
      BY <1>1, <1>2 DEF TypeOK
    <2> HIDE DEF w
    <2> QED
      BY <1>1, <2>1
  <1>4. \A c \in Keys \ {k} : windows'[c] = windows[c] /\ answer'[c] = answer[c]
                              /\ buckets'[c] = Swept[c]
    BY <1>1, <1>2, SweptBuckets DEF TypeOK
  <1>5. /\ buckets'[k] = {b}
        /\ answer'[k].resetAt = now + WindowMs
    BY <1>1, <1>2, SweptBuckets DEF TypeOK
  <1>6. TypeOK'
    <2>1. Remaining(1) \in 0 .. Limit
      BY LimiterConstants DEF Remaining
    <2>2. answer' \in [Keys -> RateLimitResult]
      BY <1>1, <1>2, <2>1, LimiterConstants DEF TypeOK, RateLimitResult
    <2>3. windows' \in [Keys -> Seq(Window)]
      BY <1>1, <1>2 DEF TypeOK
    <2>4. buckets' \in [Keys -> SUBSET Bucket]
      BY <1>1, <1>2, SweptBuckets
    <2> QED
      BY <1>1, <1>2, <2>2, <2>3, <2>4 DEF TypeOK
  <1>7. OneBucket'
    <2> SUFFICES ASSUME NEW c \in Keys PROVE \A x, y \in buckets'[c] : x = y
      BY DEF OneBucket
    <2>1. CASE c = k
      BY <1>5, <2>1
    <2>2. CASE c # k
      BY <1>1, <1>4, <2>2, SweptBuckets DEF OneBucket
    <2> QED
      BY <2>1, <2>2
  <1>8. WindowsBounded'
    <2> SUFFICES ASSUME NEW c \in Keys, NEW i \in DOMAIN windows'[c]
                 PROVE  LET x == windows'[c][i]
                        IN  /\ x.start <= x.last /\ x.last < x.start + WindowMs
                            /\ x.last <= now /\ x.admitted <= Limit
      BY <1>2 DEF WindowsBounded
    <2>1. CASE c # k
      BY <1>4, <2>1 DEF LimiterInv, WindowsBounded
    <2>2. CASE c = k /\ i \in 1 .. n
      BY <1>3, <2>2 DEF LimiterInv, WindowsBounded
    <2>3. CASE c = k /\ i = n + 1
      BY <1>1, <1>3, <2>3, LimiterConstants
    <2> QED
      BY <1>1, <1>3, <2>1, <2>2, <2>3
  <1>9. WindowsApart'
    <2> SUFFICES ASSUME NEW c \in Keys, NEW i \in DOMAIN windows'[c],
                        NEW j \in DOMAIN windows'[c], i < j
                 PROVE  windows'[c][j].start >= windows'[c][i].start + WindowMs
      BY DEF WindowsApart
    <2>1. CASE c # k
      BY <1>4, <2>1 DEF LimiterInv, WindowsApart
    <2>2. CASE c = k /\ j \in 1 .. n
      <3>1. i \in 1 .. n
        BY <1>1, <1>3, <2>2
      <3> QED
        BY <1>3, <2>2, <3>1 DEF LimiterInv, WindowsApart
    <2>3. CASE c = k /\ j = n + 1
      <3>1. i \in 1 .. n /\ windows[k] # <<>>
        BY <1>1, <1>3, <2>3
      <3>2. LastWindow(k).start + WindowMs <= now
        BY <3>1, OverWhenFirst DEF ConsumeFirst
      <3>3. n \in 1 .. n
        BY <1>1, <1>3, <3>1
      <3>4. windows[k][i].start \in Nat /\ windows[k][n].start \in Nat
        <4>1. windows[k][i] \in Window /\ windows[k][n] \in Window
          BY <1>1, <1>3, <3>1, <3>3
        <4> QED
          BY <4>1 DEF Window
      <3>5. i # n => windows[k][n].start >= windows[k][i].start + WindowMs
        <4>1. i # n => i < n
          BY <1>1, <3>1
        <4> QED
          BY <1>3, <3>1, <3>3, <4>1 DEF LimiterInv, WindowsApart
      <3>6. windows[k][i].start + WindowMs <= now
        <4>1. windows[k][n].start + WindowMs <= now
          BY <3>2 DEF LastWindow
        <4>2. CASE i = n
          BY <4>1, <4>2
        <4>3. CASE i # n
          <5>1. WindowMs \in Nat /\ now \in Nat
            BY <1>1, LimiterConstants
          <5>2. windows[k][n].start >= windows[k][i].start + WindowMs
            BY <3>5, <4>3
          <5> QED
            BY <3>4, <4>1, <5>1, <5>2
        <4> QED
          BY <4>2, <4>3
      <3>7. windows'[c][j].start = now /\ windows'[c][i] = windows[k][i]
        BY <1>3, <2>3, <3>1
      <3> QED
        BY <1>1, <3>4, <3>6, <3>7, LimiterConstants
    <2> QED
      BY <1>1, <1>3, <2>1, <2>2, <2>3
  <1>10. BucketIsLast'
    <2> SUFFICES ASSUME NEW c \in Keys, NEW x \in buckets'[c]
                 PROVE  /\ windows'[c] # <<>>
                        /\ x.resetAt = LastWindow(c)'.start + WindowMs
                        /\ x.count <= Limit => LastWindow(c)'.admitted = x.count
                        /\ x.count > Limit => LastWindow(c)'.admitted = Limit
                        /\ answer'[c].resetAt = x.resetAt
      BY DEF BucketIsLast
    <2>1. CASE c # k
      <3>1. x \in buckets[c] /\ LastWindow(c)' = LastWindow(c)
        BY <1>1, <1>4, <2>1, SweptBuckets DEF LastWindow
      <3> QED
        BY <1>4, <2>1, <3>1 DEF LimiterInv, BucketIsLast
    <2>2. CASE c = k
      <3>1. x = b /\ LastWindow(c)' = w
        BY <1>3, <1>5, <2>2 DEF LastWindow
      <3> QED
        BY <1>3, <1>5, <2>2, <3>1, LimiterConstants
    <2> QED
      BY <2>1, <2>2
  <1>11. GoneIsOver'
    <2> SUFFICES ASSUME NEW c \in Keys, buckets'[c] = {}, windows'[c] # <<>>
                 PROVE  LastWindow(c)'.start + WindowMs <= now
      BY <1>2 DEF GoneIsOver
    <2>1. c # k
      BY <1>5
    <2>2. \A x \in Swept[c] : Expired(x)
      BY <1>4, <2>1
    <2>3. LastWindow(c)' = LastWindow(c) /\ windows[c] # <<>>
      BY <1>4, <2>1 DEF LastWindow
    <2> QED
      BY <2>2, <2>3, OverWhenFirst
  <1> QED
    BY <1>6, <1>7, <1>8, <1>9, <1>10, <1>11 DEF LimiterInv

\* A later request is counted in the last window.
LEMMA NextLimiter ==
  ASSUME LimiterInv, NEW k \in Keys, ConsumeNext(k)
  PROVE  LimiterInv'
  <1> DEFINE n == Len(windows[k])
  <1>1. PICK b \in Swept[k] :
          /\ ~Expired(b)
          /\ buckets' = [Swept EXCEPT ![k] = {Counted(b)}]
          /\ answer' = [answer EXCEPT ![k] =
               [success |-> Counted(b).count <= Limit,
                remaining |-> Remaining(Counted(b).count),
                resetAt |-> Counted(b).resetAt]]
          /\ windows' = IF Counted(b).count <= Limit
                        THEN [windows EXCEPT ![k] = AdmitsOne(windows[k])]
                        ELSE windows
          /\ now' = now
    BY DEF ConsumeNext
  <1> DEFINE w == LastWindow(k)
             v == IF b.count + 1 <= Limit
                  THEN [w EXCEPT !.last = now, !.admitted = @ + 1] ELSE w
  <1>2. /\ TypeOK /\ OneBucket /\ now \in Nat
        /\ b \in buckets[k] /\ b \in Bucket /\ now < b.resetAt
        /\ WindowMs \in Nat /\ Limit \in Nat /\ Limit >= 1
    <2>1. TypeOK /\ OneBucket /\ now \in Nat
      BY DEF LimiterInv, TypeOK
    <2>2. b \in buckets[k] /\ b \in Bucket
      BY <1>1, <2>1, SweptBuckets DEF TypeOK
    <2>3. now < b.resetAt
      BY <1>1, <2>1, <2>2 DEF Expired, Bucket
    <2> QED
      BY <2>1, <2>2, <2>3, LimiterConstants
  <1>3. /\ windows[k] # <<>> /\ b.resetAt = w.start + WindowMs
        /\ b.count <= Limit => w.admitted = b.count
        /\ b.count > Limit => w.admitted = Limit
        /\ answer[k].resetAt = b.resetAt
    BY <1>2 DEF LimiterInv, BucketIsLast
  <1>4. /\ windows[k] \in Seq(Window) /\ n \in 1 .. n /\ w \in Window
        /\ DOMAIN windows[k] = 1 .. n /\ w = windows[k][n]
    BY <1>2, <1>3, LastWindowType DEF TypeOK, LastWindow
  <1>5. /\ Counted(b) \in Bucket
        /\ Counted(b).count = b.count + 1 /\ Counted(b).resetAt = b.resetAt
    BY <1>2 DEF Counted, Bucket
  <1>6. /\ v \in Window /\ v.start = w.start
        /\ v.last \in {w.last, now}
        /\ v.admitted = IF b.count + 1 <= Limit THEN b.count + 1 ELSE Limit
    <2>1. w.start \in Nat /\ w.last \in Nat /\ w.admitted \in Nat /\ b.count \in Nat
      BY <1>2, <1>4 DEF Window, Bucket
    <2>2. CASE b.count + 1 <= Limit
      <3>1. v = [w EXCEPT !.last = now, !.admitted = w.admitted + 1]
        BY <2>2
      <3>2. w.admitted = b.count
        BY <1>2, <1>3, <2>1, <2>2
      <3> HIDE DEF v, w
      <3>3. w = [start |-> w.start, last |-> w.last, admitted |-> w.admitted]
        BY <1>4 DEF Window
      <3>4. v = [start |-> w.start, last |-> now, admitted |-> w.admitted + 1]
        BY <3>1, <3>3
      <3>5. w.admitted + 1 \in Nat
        BY <2>1
      <3> QED
        BY <1>2, <2>1, <2>2, <3>2, <3>4, <3>5 DEF Window
    <2>3. CASE ~(b.count + 1 <= Limit)
      <3>1. v = w
        BY <2>3
      <3>2. w.admitted = Limit
        BY <1>2, <1>3, <2>1, <2>3
      <3> HIDE DEF v, w
      <3> QED
        BY <1>4, <2>3, <3>1, <3>2
    <2> QED
      BY <2>2, <2>3
  <1>7. /\ windows' = [windows EXCEPT ![k] = [windows[k] EXCEPT ![n] = v]]
        /\ windows'[k] = [windows[k] EXCEPT ![n] = v]
    <2>1. CASE b.count + 1 <= Limit
      <3>1. Counted(b).count <= Limit
        BY <1>5, <2>1
      <3>2. AdmitsOne(windows[k]) = [windows[k] EXCEPT ![n] = v]
        BY <1>4, <2>1 DEF AdmitsOne
      <3>3. windows' = [windows EXCEPT ![k] = AdmitsOne(windows[k])]
        BY <1>1, <3>1
      <3> HIDE DEF v, w, n
      <3> QED
        BY <1>2, <3>2, <3>3 DEF TypeOK
    <2>2. CASE ~(b.count + 1 <= Limit)
      <3>1. windows' = windows
        BY <1>1, <1>5, <2>2
      <3>2. v = windows[k][n]
        BY <1>4, <2>2
      <3> HIDE DEF v, w, n
      <3>3. [windows[k] EXCEPT ![n] = v] = windows[k]
        BY <1>4, <3>2
      <3>4. [windows EXCEPT ![k] = windows[k]] = windows
        BY <1>2 DEF TypeOK
      <3> QED
        BY <3>1, <3>3, <3>4
    <2> QED
      BY <2>1, <2>2
  <1>8. /\ windows'[k] \in Seq(Window) /\ Len(windows'[k]) = n
        /\ DOMAIN windows'[k] = 1 .. n /\ windows'[k][n] = v
        /\ \A i \in 1 .. n : i # n => windows'[k][i] = windows[k][i]
        /\ windows'[k] # <<>> /\ LastWindow(k)' = v
    <2> HIDE DEF v
    <2>1. windows'[k] \in Seq(Window) /\ Len(windows'[k]) = n
      BY <1>4, <1>6, <1>7
    <2>2. /\ DOMAIN windows'[k] = 1 .. n /\ windows'[k][n] = v
          /\ \A i \in 1 .. n : i # n => windows'[k][i] = windows[k][i]
      BY <1>4, <1>7
    <2> QED
      BY <1>4, <2>1, <2>2 DEF LastWindow
  <1> HIDE DEF v, w
  <1>9. \A c \in Keys \ {k} : windows'[c] = windows[c] /\ answer'[c] = answer[c]
                              /\ buckets'[c] = Swept[c]
    BY <1>1, <1>2, <1>7, SweptBuckets DEF TypeOK
  <1>10. buckets'[k] = {Counted(b)} /\ answer'[k].resetAt = b.resetAt
    BY <1>1, <1>2, <1>5, SweptBuckets DEF TypeOK
  <1>11. TypeOK'
    <2>1. Remaining(Counted(b).count) \in 0 .. Limit
      BY <1>2, <1>5 DEF Remaining, Bucket
    <2>2. answer' \in [Keys -> RateLimitResult]
      BY <1>1, <1>2, <1>5, <2>1 DEF TypeOK, RateLimitResult, Bucket
    <2>3. windows' \in [Keys -> Seq(Window)]
      BY <1>2, <1>7, <1>8 DEF TypeOK
    <2>4. buckets' \in [Keys -> SUBSET Bucket]
      BY <1>1, <1>2, <1>5, SweptBuckets
    <2> QED
      BY <1>1, <1>2, <2>2, <2>3, <2>4 DEF TypeOK
  <1>12. OneBucket'
    <2> SUFFICES ASSUME NEW c \in Keys PROVE \A x, y \in buckets'[c] : x = y
      BY DEF OneBucket
    <2>1. CASE c = k
      BY <1>10, <2>1
    <2>2. CASE c # k
      BY <1>2, <1>9, <2>2, SweptBuckets DEF OneBucket
    <2> QED
      BY <2>1, <2>2
  <1>13. WindowsBounded'
    <2> SUFFICES ASSUME NEW c \in Keys, NEW i \in DOMAIN windows'[c]
                 PROVE  LET x == windows'[c][i]
                        IN  /\ x.start <= x.last /\ x.last < x.start + WindowMs
                            /\ x.last <= now /\ x.admitted <= Limit
      BY <1>1 DEF WindowsBounded
    <2>1. CASE c # k
      BY <1>9, <2>1 DEF LimiterInv, WindowsBounded
    <2>2. CASE c = k /\ i # n
      BY <1>4, <1>8, <2>2 DEF LimiterInv, WindowsBounded
    <2>3. CASE c = k /\ i = n
      <3>1. /\ w.start <= w.last /\ w.last < w.start + WindowMs /\ w.last <= now
            /\ w.start \in Nat /\ w.last \in Nat
        BY <1>4 DEF LimiterInv, WindowsBounded, Window
      <3>2. v.admitted <= Limit
        BY <1>2, <1>6 DEF Bucket
      <3>3. v.start <= v.last /\ v.last < v.start + WindowMs /\ v.last <= now
        <4>1. now < w.start + WindowMs /\ w.start <= now
          BY <1>2, <1>3, <3>1
        <4>2. CASE v.last = now
          BY <1>2, <1>6, <3>1, <4>1, <4>2
        <4>3. CASE v.last = w.last
          BY <1>6, <3>1, <4>3
        <4> QED
          BY <1>6, <4>2, <4>3
      <3> QED
        BY <1>8, <2>3, <3>2, <3>3
    <2> QED
      BY <2>1, <2>2, <2>3
  <1>14. WindowsApart'
    <2>1. \A c \in Keys : /\ DOMAIN windows'[c] = DOMAIN windows[c]
                          /\ \A i \in DOMAIN windows[c] :
                               windows'[c][i].start = windows[c][i].start
      BY <1>4, <1>6, <1>8, <1>9
    <2> QED
      BY <2>1 DEF LimiterInv, WindowsApart
  <1>15. BucketIsLast'
    <2> SUFFICES ASSUME NEW c \in Keys, NEW x \in buckets'[c]
                 PROVE  /\ windows'[c] # <<>>
                        /\ x.resetAt = LastWindow(c)'.start + WindowMs
                        /\ x.count <= Limit => LastWindow(c)'.admitted = x.count
                        /\ x.count > Limit => LastWindow(c)'.admitted = Limit
                        /\ answer'[c].resetAt = x.resetAt
      BY DEF BucketIsLast
    <2>1. CASE c # k
      <3>1. x \in buckets[c] /\ LastWindow(c)' = LastWindow(c)
        BY <1>2, <1>9, <2>1, SweptBuckets DEF LastWindow
      <3> QED
        BY <1>9, <2>1, <3>1 DEF LimiterInv, BucketIsLast
    <2>2. CASE c = k
      BY <1>2, <1>3, <1>5, <1>6, <1>8, <1>10, <2>2 DEF Bucket
    <2> QED
      BY <2>1, <2>2
  <1>16. GoneIsOver'
    <2> SUFFICES ASSUME NEW c \in Keys, buckets'[c] = {}, windows'[c] # <<>>
                 PROVE  LastWindow(c)'.start + WindowMs <= now
      BY <1>1 DEF GoneIsOver
    <2>1. c # k
      BY <1>10
    <2>2. \A x \in Swept[c] : Expired(x)
      BY <1>9, <2>1
    <2>3. LastWindow(c)' = LastWindow(c) /\ windows[c] # <<>>
      BY <1>9, <2>1 DEF LastWindow
    <2> QED
      BY <2>2, <2>3, OverWhenFirst
  <1> QED
    BY <1>11, <1>12, <1>13, <1>14, <1>15, <1>16 DEF LimiterInv

-----------------------------------------------------------------------------
\* The inductive invariant.
THEOREM LimiterInvariant == Spec => []LimiterInv
  <1>1. Init => LimiterInv
    BY InitLimiter
  <1>2. LimiterInv /\ [Next]_vars => LimiterInv'
    <2> SUFFICES ASSUME LimiterInv, [Next]_vars PROVE LimiterInv'
      OBVIOUS
    <2>1. CASE Tick
      BY <2>1, TickLimiter
    <2>2. CASE \E k \in Keys : ConsumeFirst(k)
      BY <2>2, FirstLimiter
    <2>3. CASE \E k \in Keys : ConsumeNext(k)
      BY <2>3, NextLimiter
    <2>4. CASE UNCHANGED vars
      BY <2>4 DEF vars, LimiterInv, TypeOK, OneBucket, WindowsBounded, WindowsApart,
                  BucketIsLast, GoneIsOver, LastWindow
    <2> QED
      BY <2>1, <2>2, <2>3, <2>4 DEF Next
  <1> QED
    BY <1>1, <1>2, PTL DEF Spec

\* The types of the limiter's state are kept.
THEOREM LimiterTypes == Spec => []TypeOK
  BY LimiterInvariant, PTL DEF LimiterInv

\* Within windowMs a limiter admits at most twice its limit of one key.
THEOREM LimiterAdmitsAtMostTwice == Spec => []AtMostTwice
  <1>1. LimiterInv => AtMostTwice
    <2> SUFFICES ASSUME LimiterInv, NEW k \in Keys,
                        NEW i \in DOMAIN windows[k], NEW j \in DOMAIN windows[k]
                 PROVE  /\ windows[k][i].admitted <= Limit
                        /\ j >= i + 2 => windows[k][j].start - windows[k][i].last > WindowMs
      BY DEF AtMostTwice
    <2>1. windows[k][i].admitted <= Limit
      BY DEF LimiterInv, WindowsBounded
    <2>2. ASSUME j >= i + 2
          PROVE  windows[k][j].start - windows[k][i].last > WindowMs
      <3>1. windows[k] \in Seq(Window) /\ DOMAIN windows[k] = 1 .. Len(windows[k])
            /\ Len(windows[k]) \in Nat
        BY DEF LimiterInv, TypeOK
      <3>2. i + 1 \in DOMAIN windows[k] /\ i < i + 1 /\ i + 1 < j
        BY <2>2, <3>1
      <3>3. /\ windows[k][i + 1].start >= windows[k][i].start + WindowMs
            /\ windows[k][j].start >= windows[k][i + 1].start + WindowMs
        BY <3>2 DEF LimiterInv, WindowsApart
      <3>4. windows[k][i].last < windows[k][i].start + WindowMs
        BY DEF LimiterInv, WindowsBounded
      <3>5. /\ windows[k][i] \in Window /\ windows[k][j] \in Window
            /\ windows[k][i + 1] \in Window
        BY <3>1, <3>2
      <3>6. /\ windows[k][i].start \in Nat /\ windows[k][i].last \in Nat
            /\ windows[k][i + 1].start \in Nat /\ windows[k][j].start \in Nat
        BY <3>5 DEF Window
      <3> QED
        BY <3>3, <3>4, <3>6, LimiterConstants
    <2> QED
      BY <2>1, <2>2
  <1> QED
    BY <1>1, LimiterInvariant, PTL

\* A refusal happens within a window that has admitted its limit, and before
\* the time the reset header last told.
LEMMA RefusalStep ==
  ASSUME LimiterInv, Next, NEW k \in Keys, Refused(k)
  PROVE  /\ windows[k] # <<>> /\ LastWindow(k).admitted = Limit
         /\ now < LastWindow(k).start + WindowMs
         /\ now < answer[k].resetAt
  <1>1. ~Tick
    BY DEF Tick, Refused
  <1>2. \A c \in Keys : Swept \in [Keys -> SUBSET Bucket] /\ Swept[c] \in {{}, buckets[c]}
    BY SweptBuckets DEF LimiterInv
  <1>3. answer \in [Keys -> RateLimitResult]
    BY DEF LimiterInv, TypeOK
  <1>4. ASSUME NEW c \in Keys, ConsumeFirst(c) PROVE FALSE
    <2>1. CASE c = k
      BY <1>3, <1>4, <2>1 DEF ConsumeFirst, Refused
    <2>2. CASE c # k
      BY <1>2, <1>4, <2>2 DEF ConsumeFirst, Refused
    <2> QED
      BY <2>1, <2>2
  <1>5. ~\E c \in Keys \ {k} : ConsumeNext(c)
    BY <1>2 DEF ConsumeNext, Refused
  <1>6. ConsumeNext(k)
    BY <1>1, <1>4, <1>5 DEF Next
  <1>7. PICK b \in Swept[k] :
          /\ ~Expired(b)
          /\ answer' = [answer EXCEPT ![k] =
               [success |-> Counted(b).count <= Limit,
                remaining |-> Remaining(Counted(b).count),
                resetAt |-> Counted(b).resetAt]]
    BY <1>6 DEF ConsumeNext
  <1>8. ~(Counted(b).count <= Limit)
    BY <1>3, <1>7 DEF Refused
  <1>9. b \in buckets[k] /\ b \in Bucket /\ now \in Nat
    BY <1>2, <1>7 DEF LimiterInv, TypeOK
  <1>10. b.count >= Limit /\ now < b.resetAt
    BY <1>7, <1>8, <1>9, LimiterConstants DEF Counted, Expired, Bucket
  <1> QED
    BY <1>9, <1>10, LimiterConstants DEF LimiterInv, BucketIsLast, Bucket

\* Refused requests do not prolong the refusals, and the reset header is kept.
THEOREM LimiterRefusesOnlyWhenFull == Spec => RefusedOnlyWhenFull
  <1>1. LimiterInv /\ [Next]_vars =>
          [\A k \in Keys : Refused(k) =>
              /\ windows[k] # <<>>
              /\ windows[k][Len(windows[k])].admitted = Limit
              /\ now < windows[k][Len(windows[k])].start + WindowMs
              /\ now < answer[k].resetAt]_vars
    BY RefusalStep DEF LastWindow
  <1> QED
    BY <1>1, LimiterInvariant, PTL DEF Spec, RefusedOnlyWhenFull
=============================================================================
