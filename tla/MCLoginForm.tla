---------------------------- MODULE MCLoginForm ----------------------------
\* Small instances of LoginForm for TLC.
EXTENDS LoginForm, TLC

\* The slots, the identifiers and the tabs are interchangeable.
Slots == Permutations(Requests) \cup Permutations(SessionIds)
           \cup Permutations(Challenges)
           \cup Permutations(Tabs)
=============================================================================
