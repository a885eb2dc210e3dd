-------------------------- MODULE MemoryLifecycle --------------------------
(***************************************************************************)
(* What the memory promises about one memory and one conflict, with no     *)
(* tables, transactions or processes: a memory is staged until the user    *)
(* decides, then current, then dead, and a dead memory can only be erased. *)
(* A staged memory is never erased.  A conflict, once closed, stays closed *)
(* and stays on record.                                                    *)
(***************************************************************************)
CONSTANTS Ids, ConfIds
VARIABLES life, stage

Lives  == {"none", "staged", "current", "dead"}
Stages == {"none", "open", "closed"}

Init == /\ life = [i \in Ids |-> "none"]
        /\ stage = [c \in ConfIds |-> "none"]

MayBecome(l) ==
  CASE l = "none"    -> Lives
    [] l = "staged"  -> {"staged", "current", "dead"}
    [] l = "current" -> {"current", "dead", "none"}
    [] l = "dead"    -> {"dead", "none"}

MayReach(s) ==
  CASE s = "none"   -> {"none", "open"}
    [] s = "open"   -> {"open", "closed"}
    [] s = "closed" -> {"closed"}

\* One commit may move several memories: a supersession creates one, ends
\* another and evicts a third.
Next == /\ life' \in [Ids -> Lives] /\ stage' \in [ConfIds -> Stages]
        /\ \A i \in Ids : life'[i] \in MayBecome(life[i])
        /\ \A c \in ConfIds : stage'[c] \in MayReach(stage[c])

Spec == Init /\ [][Next]_<<life, stage>>
=============================================================================
