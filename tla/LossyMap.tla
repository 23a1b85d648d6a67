-------------------------------- MODULE LossyMap -------------------------------
(***************************************************************************)
(* What ParentPathLookup relies on the dentry cache for: a map that may    *)
(* forget, but that never answers with anything else than the value        *)
(* inserted last for the key, and with nothing once the key was evicted.   *)
(***************************************************************************)
CONSTANTS Key, Value, NoValue

VARIABLES current,  \* key -> the value inserted last, on the keys not evicted since
          answer    \* the last Find: its key and what it returned, or NoValue

vars == <<current, answer>>

Init == current = <<>> /\ answer = [key |-> NoValue, value |-> NoValue]

Find(k) ==
  /\ answer' \in [key : {k}, value : {NoValue} \cup {current[j] : j \in DOMAIN current \cap {k}}]
  /\ UNCHANGED current

Insert(k, v) ==
  /\ current' = [j \in DOMAIN current \cup {k} |-> IF j = k THEN v ELSE current[j]]
  /\ UNCHANGED answer

Evict(k) ==
  /\ current' = [j \in DOMAIN current \ {k} |-> current[j]]
  /\ UNCHANGED answer

Next == \E k \in Key : \/ Find(k)
                       \/ \E v \in Value : Insert(k, v)
                       \/ Evict(k)

Spec == Init /\ [][Next]_vars
================================================================================
