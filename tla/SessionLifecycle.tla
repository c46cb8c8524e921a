-------------------------- MODULE SessionLifecycle --------------------------
(***************************************************************************)
(* What the session store promises its callers, without tokens' lifetimes, *)
(* requests or clocks: a session is opened once, by one user, with one     *)
(* absolute deadline, and once closed it stays closed.  While it is live,  *)
(* an exchange of its refresh token is begun only with the current one,    *)
(* and completes with a token that never was current before.               *)
(*                                                                         *)
(* No more is promised of a superseded token than that no exchange of it   *)
(* is begun.  An exchange that is under way completes also when another    *)
(* one has superseded its token, or its session has been closed meanwhile: *)
(* of several that overlap, all are answered, and the last one decides     *)
(* which token is current.  Modules Sessions and WebClient implement this. *)
(***************************************************************************)
EXTENDS Naturals

CONSTANTS
  SessionIds, NoSession,
  Users, Nobody,
  Exchanges       \* slots for concurrent exchanges of a refresh token

VARIABLES
  phase,      \* "absent", then "live", then "dead"
  owner,      \* the user a session was opened for
  deadline,   \* the absolute instant at which it stops being usable
  current,    \* serial number of its newest refresh token, 0 for none
  exchange    \* the exchanges under way: the session and the token presented

lifecycleVars == <<phase, owner, deadline, current, exchange>>

NoExchange == [sid |-> NoSession, token |-> 0]

LifecycleInit ==
  /\ phase = [s \in SessionIds |-> "absent"]
  /\ owner = [s \in SessionIds |-> Nobody]
  /\ deadline = [s \in SessionIds |-> 0]
  /\ current = [s \in SessionIds |-> 0]
  /\ exchange = [x \in Exchanges |-> NoExchange]

\* A new session: owner, deadline and first token are chosen here, once.
Open(s) ==
  /\ phase[s] = "absent"
  /\ phase' = [phase EXCEPT ![s] = "live"]
  /\ owner'[s] \in Users
  /\ owner' = [owner EXCEPT ![s] = owner'[s]]
  /\ deadline'[s] \in Nat
  /\ deadline' = [deadline EXCEPT ![s] = deadline'[s]]
  /\ current' = [current EXCEPT ![s] = 1]
  /\ UNCHANGED exchange

\* The current token of a live session is presented.
Begin(x, s) ==
  /\ phase[s] = "live"
  /\ exchange[x] = NoExchange
  /\ exchange' = [exchange EXCEPT ![x] = [sid |-> s, token |-> current[s]]]
  /\ UNCHANGED <<phase, owner, deadline, current>>

\* The newest token is replaced by a newer one, be it the one presented or
\* not.  If the session is dead by now, the new token is worth nothing.
Complete(x) ==
  LET s == exchange[x].sid
  IN  /\ exchange[x] # NoExchange
      /\ exchange' = [exchange EXCEPT ![x] = NoExchange]
      /\ current'[s] \in Nat
      /\ current'[s] > current[s]
      /\ current' = [current EXCEPT ![s] = current'[s]]
      /\ UNCHANGED <<phase, owner, deadline>>

\* Some live sessions are closed and some exchanges end without an answer,
\* together (an administrator's lock closes all the sessions of a user, an
\* exchange that finds its session expired closes it and ends).
Close ==
  \E closed \in SUBSET {s \in SessionIds : phase[s] = "live"},
     ended \in SUBSET Exchanges :
    /\ phase' = [s \in SessionIds |-> IF s \in closed THEN "dead" ELSE phase[s]]
    /\ exchange' = [x \in Exchanges |-> IF x \in ended THEN NoExchange ELSE exchange[x]]
    /\ UNCHANGED <<owner, deadline, current>>

LifecycleNext ==
  \/ Close
  \/ \E s \in SessionIds : Open(s) \/ \E x \in Exchanges : Begin(x, s)
  \/ \E x \in Exchanges : Complete(x)

LifecycleSpec == LifecycleInit /\ [][LifecycleNext]_lifecycleVars
=============================================================================
