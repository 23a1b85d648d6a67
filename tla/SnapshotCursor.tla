--------------------------- MODULE SnapshotCursor ---------------------------
(***************************************************************************)
(* What an iterator of the database promises (include/leveldb/iterator.h): *)
(* it walks one unchanging sorted map, the database as it was when the     *)
(* iterator was made, and a call that cannot keep that promise leaves an   *)
(* error in its status.  One promise is weaker than that header's: a Next  *)
(* that turns a backward walk round may repeat the entry it was on.        *)
(***************************************************************************)
CONSTANTS None, Keys, Precedes(_, _)

VARIABLES
  view,   \* the entries [key, value] of the map
  at,     \* the entry the cursor is on, or None
  ok,     \* its status
  call    \* the call it answered last, [name, target]

vars == <<view, at, ok, call>>

IsLeast(e, set) == IF set = {} THEN e = None
                   ELSE e \in set /\ \A f \in set : ~Precedes(f.key, e.key)
IsGreatest(e, set) == IF set = {} THEN e = None
                      ELSE e \in set /\ \A f \in set : ~Precedes(e.key, f.key)

Init == view = {} /\ at = None /\ ok = TRUE

Open == at = None /\ at' = None /\ view = {} /\ call' = call

SeekToFirst == call'.name = "SeekToFirst" /\ IsLeast(at', view)
SeekToLast == call'.name = "SeekToLast" /\ IsGreatest(at', view)
Seek == /\ call'.name = "Seek"
        /\ IsLeast(at', {e \in view : ~Precedes(e.key, call'.target)})
StepForward == /\ call'.name = "Next" /\ at # None
               /\ \/ IsLeast(at', {e \in view : Precedes(at.key, e.key)})
                  \/ at' = at /\ call.name \in {"SeekToLast", "Prev"}
StepBack == /\ call'.name = "Prev" /\ at # None
            /\ IsGreatest(at', {e \in view : Precedes(e.key, at.key)})

Walk == /\ view' = view
        /\ ok' => ok /\ (SeekToFirst \/ SeekToLast \/ Seek \/ StepForward \/ StepBack)

Next == Open \/ Walk
Spec == Init /\ [][Next]_vars
=============================================================================
