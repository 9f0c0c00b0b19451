---------------------------- MODULE TimerGroups ----------------------------
(***************************************************************************)
(* Groups of timers: the named groups built into Timer, kept in a          *)
(* StaticHashMap, and the TimerGroup object, a vector of timer ids.  A     *)
(* timer is what its manager makes of it, running, paused or gone, and its *)
(* id is never given out again.                                            *)
(*                                                                         *)
(* The array of ids in a named group has been copied into the map, and its *)
(* data_ still points to the storage of the array it was copied from:      *)
(* erase_pod() shifts bytes there, outside the map, and takes the last id  *)
(* off the group.                                                          *)
(***************************************************************************)
EXTENDS HashMap

CONSTANTS
  Ids,          \* timers
  MaxPerGroup,  \* capacity of a group
  MaxBatch      \* ids in a TimerGroup (a bound)

ASSUME CapacityAssumption == MaxPerGroup \in Nat \ {0} /\ MaxBatch \in Nat

VARIABLES
  map,      \* groups_
  timer,    \* the manager's view of each timer
  batch,    \* the timer_ids_ of a TimerGroup
  groups    \* history: the groups as a plain function of their names

groupVars == <<map, timer, batch, groups>>

GroupsInit ==
  /\ map = NoEntries /\ batch = <<>>
  /\ timer = [t \in Ids |-> "none"]
  /\ groups = <<>>

-----------------------------------------------------------------------------
(* The timer manager, as groups use it                                     *)

(* set_timeout() and its kin. *)
Start(t) ==
  /\ timer[t] = "none" /\ timer' = [timer EXCEPT ![t] = "running"]
  /\ UNCHANGED <<map, batch, groups>>

(* A timer fires for the last time, or is removed by its id. *)
End(t) ==
  /\ timer[t] \in {"running", "paused"} /\ timer' = [timer EXCEPT ![t] = "gone"]
  /\ UNCHANGED <<map, batch, groups>>

Paused(ids) == [t \in Ids |-> IF t \in ids /\ timer[t] = "running" THEN "paused" ELSE timer[t]]

Resumed(ids) == [t \in Ids |-> IF t \in ids /\ timer[t] = "paused" THEN "running" ELSE timer[t]]

Removed(ids) == [t \in Ids |-> IF t \in ids /\ timer[t] # "none" THEN "gone" ELSE timer[t]]

-----------------------------------------------------------------------------
(* Named groups                                                            *)

With(g, n, v) == [x \in DOMAIN g \union {n} |-> IF x = n THEN v ELSE g[x]]

Without(g, n) == [x \in DOMAIN g \ {n} |-> g[x]]

(* createGroup(): nothing happens to a group that is there, or in a full   *)
(* map.                                                                    *)
Created(m, n) == IF Has(m, n) \/ Full(m) THEN m ELSE Insert(m, n, <<>>)

CreateGroup(n) ==
  /\ map' = Created(map, n)
  /\ groups' = IF n \in DOMAIN groups \/ Full(map) THEN groups ELSE With(groups, n, <<>>)
  /\ UNCHANGED <<timer, batch>>

(* addToGroup() makes the group it needs; a full group and a timer that is *)
(* in the group stay as they are.                                          *)
AddToGroup(n, t) ==
  LET m == Created(map, n)
      there == IF n \in DOMAIN groups \/ Full(map) THEN groups ELSE With(groups, n, <<>>)
      takes(ids) == Len(ids) < MaxPerGroup /\ t \notin ToSet(ids)
  IN  /\ timer[t] # "none"
      /\ map' = IF Has(m, n) /\ takes(Find(m, n)) THEN Insert(m, n, Append(Find(m, n), t))
                ELSE m
      /\ groups' = IF n \in DOMAIN there /\ takes(there[n])
                   THEN With(there, n, Append(there[n], t)) ELSE there
      /\ UNCHANGED <<timer, batch>>

PauseGroup(n) ==
  /\ Has(map, n) /\ timer' = Paused(ToSet(Find(map, n)))
  /\ UNCHANGED <<map, batch, groups>>

ResumeGroup(n) ==
  /\ Has(map, n) /\ timer' = Resumed(ToSet(Find(map, n)))
  /\ UNCHANGED <<map, batch, groups>>

(* clearGroup(): the timers go, and the group. *)
ClearGroup(n) ==
  /\ Has(map, n)
  /\ timer' = Removed(ToSet(Find(map, n)))
  /\ map' = Erase(map, n)
  /\ groups' = Without(groups, n)
  /\ UNCHANGED batch

(* erase_pod() of a copied array. *)
ErasePod(ids) == Front(ids)

(* removeFromGroup(): if the timer is in the group, the last one leaves. *)
RemoveFromGroup(n, t) ==
  /\ Has(map, n) /\ t \in ToSet(Find(map, n))
  /\ map' = Insert(map, n, ErasePod(Find(map, n)))
  /\ groups' = With(groups, n, ErasePod(groups[n]))
  /\ UNCHANGED <<timer, batch>>

(* removeGroup(): the timers stay. *)
RemoveGroup(n) ==
  /\ Has(map, n) /\ map' = Erase(map, n)
  /\ groups' = Without(groups, n)
  /\ UNCHANGED <<timer, batch>>

-----------------------------------------------------------------------------
(* TimerGroup                                                              *)

(* add(): twice is twice. *)
BatchAdd(t) ==
  /\ timer[t] # "none" /\ Len(batch) < MaxBatch /\ batch' = Append(batch, t)
  /\ UNCHANGED <<map, timer, groups>>

(* remove(): its first occurrence leaves. *)
BatchRemove(t) ==
  /\ t \in ToSet(batch) /\ batch' = RemoveFirst(batch, t)
  /\ UNCHANGED <<map, timer, groups>>

PauseAll ==
  /\ timer' = Paused(ToSet(batch)) /\ UNCHANGED <<map, batch, groups>>

ResumeAll ==
  /\ timer' = Resumed(ToSet(batch)) /\ UNCHANGED <<map, batch, groups>>

(* clearAll() removes each timer, as timeout and as interval. *)
ClearAll ==
  /\ timer' = Removed(ToSet(batch)) /\ batch' = <<>>
  /\ UNCHANGED <<map, groups>>

(* clear() lets the timers be. *)
ClearBatch ==
  /\ batch' = <<>> /\ UNCHANGED <<map, timer, groups>>

-----------------------------------------------------------------------------
GroupsNext ==
  \/ \E t \in Ids : Start(t) \/ End(t) \/ BatchAdd(t) \/ BatchRemove(t)
  \/ \E n \in Keys :
       \/ CreateGroup(n) \/ PauseGroup(n) \/ ResumeGroup(n) \/ ClearGroup(n) \/ RemoveGroup(n)
       \/ \E t \in Ids : AddToGroup(n, t) \/ RemoveFromGroup(n, t)
  \/ PauseAll \/ ResumeAll \/ ClearAll \/ ClearBatch

GroupsSpec == GroupsInit /\ [][GroupsNext]_groupVars

-----------------------------------------------------------------------------
(* Properties                                                              *)

(* The hash map is a map: whatever groups are made and removed in whatever *)
(* order, find() finds each group there is, with its timers, and no other; *)
(* erase() breaks no chain of probes and loses no entry it moves.          *)
FindsWhatWasPut ==
  \A n \in Keys :
    /\ Has(map, n) <=> n \in DOMAIN groups
    /\ n \in DOMAIN groups => Find(map, n) = groups[n]
=============================================================================
