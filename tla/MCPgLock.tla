------------------------------ MODULE MCPgLock ------------------------------
(***************************************************************************)
(* Small instances of PgLock.                                              *)
(***************************************************************************)
EXTENDS PgLock, TLC

CONSTANTS c1, c2, c3, s1, s2, s3, s4, s5

ThreeCallers == {c1, c2, c3}
TwoPools == 1..2

Zero == 0
FiveSeconds == 5000000
HalfMillisecond == 500

(***************************************************************************)
(* Two processes, each with a pool of the two connections the              *)
(* documentation asks for.  In the first one two goroutines share a        *)
(* locker; the second one waits for the lock indefinitely.                 *)
(***************************************************************************)
TwoLockers == 1..2
TwoSessions == {s1, s2, s3, s4, s5}
TwoLockerOf == [c \in ThreeCallers |-> IF c = c3 THEN 2 ELSE 1]
TwoPoolOf == [l \in TwoLockers |-> l]
TwoHome == [s \in TwoSessions |-> IF s \in {s4, s5} THEN 2 ELSE 1]
TwoMaxOpen == [p \in TwoPools |-> 2]
TwoTimeout == [l \in TwoLockers |-> IF l = 1 THEN FiveSeconds ELSE Zero]

\* The goroutines of the first process, and the sessions of a pool.
TwoSymmetry ==
  {f @@ g @@ h : f \in Permutations({c1, c2}), g \in Permutations({s1, s2, s3}),
                 h \in Permutations({s4, s5})}

(***************************************************************************)
(* One process in which two goroutines migrate through the same pool, each *)
(* with its own locker, and a process whose pool allows one connection.    *)
(***************************************************************************)
OneLockers == 1..3
OneSessions == {s1, s2, s3, s4}
OneLockerOf == c1 :> 1 @@ c2 :> 2 @@ c3 :> 3
OnePoolOf == [l \in OneLockers |-> IF l = 3 THEN 2 ELSE 1]
OneHome == [s \in OneSessions |-> IF s = s4 THEN 2 ELSE 1]

\* Room for both dedicated connections and one to work with.
RoomyMaxOpen == [p \in TwoPools |-> IF p = 1 THEN 3 ELSE 1]
\* The documented minimum.
MinimalMaxOpen == [p \in TwoPools |-> IF p = 1 THEN 2 ELSE 1]

Forever == [l \in OneLockers |-> Zero]
ForeverAndBounded == [l \in OneLockers |-> IF l = 1 THEN Zero ELSE FiveSeconds]
SubMillisecond == [l \in OneLockers |-> HalfMillisecond]
=============================================================================
