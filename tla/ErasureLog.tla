----------------------------- MODULE ErasureLog -----------------------------
(***************************************************************************)
(* What higgaion_key_erase_durable promises its callers, with no files and  *)
(* no failures in sight: under each path a key is destroyed, then recorded  *)
(* as erased, and a record is neither early nor ever withdrawn.            *)
(***************************************************************************)
CONSTANT Path
VARIABLES
  gone,      \* paths under which a key has been destroyed
  recorded   \* paths whose durable marker says ERASED

logVars == <<gone, recorded>>

Init == gone = {} /\ recorded = {}

Destroy(p) ==
  /\ gone' = gone \cup {p}
  /\ UNCHANGED recorded

(* One sync can make the records of several calls durable at once.          *)
Record(ps) ==
  /\ ps \subseteq gone
  /\ recorded' = recorded \cup ps
  /\ UNCHANGED gone

Next ==
  \/ \E p \in Path : Destroy(p)
  \/ \E ps \in SUBSET Path : Record(ps)

Spec == Init /\ [][Next]_logVars
=============================================================================
