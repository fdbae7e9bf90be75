------------------------------ MODULE KeyOwners ------------------------------
(***************************************************************************)
(* What include/higgaion/pqc_crypto.h:35-44 promises the users of key        *)
(* handles, with no counters and no addresses of freed memory in sight:      *)
(* every owner holds a key or nothing, what one owner does never touches     *)
(* what another one holds, and a key leaves memory only when the owner that  *)
(* acts was the last to hold it.                                            *)
(***************************************************************************)
CONSTANTS Owner, Key, None

VARIABLES
  holds,   \* holds[w]: the key of owner w, or None
  alive    \* the keys whose material is in memory

ownVars == <<holds, alive>>

Held == {holds[w] : w \in Owner} \ {None}

Init == holds = [w \in Owner |-> None] /\ alive = {}

(* Owner w now holds k instead of what it held, which may die with it.      *)
Assign(w, k) ==
  /\ holds' = [holds EXCEPT ![w] = k]
  /\ alive \ {holds[w]} \subseteq alive'
  /\ alive' \subseteq alive \cup {k}
  /\ Held' \subseteq alive'
  /\ alive' \subseteq Key

LetGo(w) == Assign(w, None)
Create(w, k) == (\A v \in Owner \ {w} : holds[v] # k) /\ Assign(w, k)
Share(dst, src) == holds[src] # None /\ Assign(dst, holds[src])

Next ==
  \/ \E w \in Owner : LetGo(w)
  \/ \E w \in Owner, k \in Key : Create(w, k)
  \/ \E dst, src \in Owner : Share(dst, src)

Spec == Init /\ [][Next]_ownVars
=============================================================================
