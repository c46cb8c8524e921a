---------------------------- MODULE RateLimiter ----------------------------
(***************************************************************************)
(* The in-memory store of the rate limiters (rate-limit.ts): a window per  *)
(* key that opens with its first request and ends windowMs later, a count, *)
(* and a lazy sweep.  apiRateLimiter, the limiter of /auth and the one of  *)
(* /mfa/verify each have a store of their own in every isolate, as none is *)
(* given another one; this is one of them during one life of its isolate.  *)
(*                                                                         *)
(* consume has no await between its read and its write: it is one action.  *)
(***************************************************************************)
EXTENDS Integers, Sequences, FiniteSets

CONSTANTS
  Keys,         \* client addresses
  WindowMs, Limit,
  SweepAbove,   \* 10_000 in the code
  MaxTime,      \* bound on the clock
  MaxCount      \* bound on the requests counted in one window

ASSUME LimiterConstants ==
  /\ WindowMs \in Nat \ {0} /\ Limit \in Nat \ {0}
  /\ SweepAbove \in Nat /\ MaxTime \in Nat /\ MaxCount \in Nat

VARIABLES
  now,       \* Date.now()
  buckets,   \* per key: the empty set, or one bucket
  answer,    \* per key: success and headers of the last answer
  windows    \* history, per key: the windows, with what each admitted

vars == <<now, buckets, answer, windows>>

Bucket == [count : Nat, resetAt : Nat]

RateLimitResult == [success : BOOLEAN, remaining : 0 .. Limit, resetAt : Nat]

\* When a window opened, its last admission, and how many there were.
Window == [start : Nat, last : Nat, admitted : Nat]

NoAnswer == [success |-> TRUE, remaining |-> Limit, resetAt |-> 0]

Init ==
  /\ now = 0
  /\ buckets = [k \in Keys |-> {}]
  /\ answer = [k \in Keys |-> NoAnswer]
  /\ windows = [k \in Keys |-> <<>>]

-----------------------------------------------------------------------------
\* Mutation: a window is over one instant early.
ExpiredEarly(b) == b.resetAt <= now + 1

Expired(b) == b.resetAt <= now

\* Expired buckets are dropped, of every key, when there are too many.
Swept ==
  IF Cardinality({k \in Keys : buckets[k] # {}}) > SweepAbove
  THEN [k \in Keys |-> {b \in buckets[k] : ~Expired(b)}]
  ELSE buckets

Remaining(count) == IF count <= Limit THEN Limit - count ELSE 0

\* The first request of a window, admitted whatever the limit.
ConsumeFirst(k) ==
  /\ \A b \in Swept[k] : Expired(b)
  /\ buckets' = [Swept EXCEPT ![k] = {[count |-> 1, resetAt |-> now + WindowMs]}]
  /\ answer' = [answer EXCEPT ![k] =
       [success |-> TRUE, remaining |-> Remaining(1), resetAt |-> now + WindowMs]]
  /\ windows' = [windows EXCEPT ![k] =
       Append(@, [start |-> now, last |-> now, admitted |-> 1])]
  /\ UNCHANGED now

\* Mutation: every request puts the end of its window off.
CountedPutsOff(b) == [count |-> b.count + 1, resetAt |-> now + WindowMs]

Counted(b) == [b EXCEPT !.count = @ + 1]

AdmitsOne(ws) ==
  LET n == Len(ws)
  IN  [ws EXCEPT ![n] = [ws[n] EXCEPT !.last = now, !.admitted = ws[n].admitted + 1]]

\* A later one; refused requests are counted, too.
ConsumeNext(k) == \E b \in Swept[k] :
  /\ ~Expired(b) /\ b.count < MaxCount
  /\ buckets' = [Swept EXCEPT ![k] = {Counted(b)}]
  /\ answer' = [answer EXCEPT ![k] =
       [success |-> Counted(b).count <= Limit, remaining |-> Remaining(Counted(b).count),
        resetAt |-> Counted(b).resetAt]]
  /\ windows' = IF Counted(b).count <= Limit
                THEN [windows EXCEPT ![k] = AdmitsOne(@)]
                ELSE windows
  /\ UNCHANGED now

Tick ==
  /\ now < MaxTime
  /\ now' = now + 1
  /\ UNCHANGED <<buckets, answer, windows>>

Next == Tick \/ \E k \in Keys : ConsumeFirst(k) \/ ConsumeNext(k)

Spec == Init /\ [][Next]_vars

-----------------------------------------------------------------------------
(* Properties *)

\* Every variable has its type; the remaining requests a header tells are
\* never fewer than none.
TypeOK ==
  /\ now \in Nat
  /\ buckets \in [Keys -> SUBSET Bucket]
  /\ answer \in [Keys -> RateLimitResult]
  /\ windows \in [Keys -> Seq(Window)]

\* Any stretch of windowMs holds admissions of two windows at most, each of
\* them at most the limit: no more than twice the limit is admitted within
\* windowMs, whatever the sweep drops and however requests lie around the end
\* of a window.
AtMostTwice ==
  \A k \in Keys : \A i, j \in DOMAIN windows[k] :
    /\ windows[k][i].admitted <= Limit
    /\ j >= i + 2 => windows[k][j].start - windows[k][i].last > WindowMs

\* The step counts a request of k and refuses it.
Refused(k) == ~answer'[k].success /\ buckets'[k] \notin {{}, buckets[k]}

\* A client is refused only while the window it opened is running and has
\* admitted its whole limit, and before the time the last reset header told
\* him: refused requests do not prolong the refusals, and who waits until that
\* time is not refused then.
RefusedOnlyWhenFull ==
  [][\A k \in Keys : Refused(k) =>
       /\ windows[k] # <<>>
       /\ windows[k][Len(windows[k])].admitted = Limit
       /\ now < windows[k][Len(windows[k])].start + WindowMs
       /\ now < answer[k].resetAt]_vars
=============================================================================
