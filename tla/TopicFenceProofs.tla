--------------------------- MODULE TopicFenceProofs ---------------------------
(***************************************************************************)
(* Machine-checked facts about the turn leases and about the maintenance   *)
(* fence above them, for every set of processes, rooms, turns and          *)
(* operations and every staleness limit.                                   *)
(*                                                                         *)
(* The first part is about module TurnLease alone, reached through the     *)
(* instance Leases: its theorems start from LeaseSpec and hold under       *)
(* whatever environment moves the fences.  The second part shows that the  *)
(* fence is such an environment and adds exclusion of its own.             *)
(***************************************************************************)
EXTENDS TopicFence, TLAPS

USE TurnStaleAssumption, MaxDelayAssumption

-----------------------------------------------------------------------------
(* No row and no control is mistaken for an absent one.                      *)
LEMMA LeaseNone == None \notin Leases!LeaseRow /\ None \notin Leases!Control
BY NoneAssumption
DEF Leases!LeaseRow, Leases!Control, Leases!AbortReason, Leases!WireReason,
    LeaseRow, Control, AbortReason, WireReason

USE LeaseNone

-----------------------------------------------------------------------------
(* FlagAbort only ever rewrites the abort field of a row.                    *)
LEMMA FlagAbortKeepsTenant ==
  ASSUME Leases!TypeOK, NEW r \in Room, NEW reason \in {"internal", "external"}
  PROVE  /\ Leases!FlagAbort(r, reason) \in [Room -> Leases!LeaseRow \cup {None}]
         /\ \A s \in Room :
              /\ (Leases!FlagAbort(r, reason)[s] = None) <=> (lease[s] = None)
              /\ lease[s] # None =>
                   /\ Leases!FlagAbort(r, reason)[s].owner = lease[s].owner
                   /\ Leases!FlagAbort(r, reason)[s].query = lease[s].query
                   /\ Leases!FlagAbort(r, reason)[s].age = lease[s].age
<1>1. CASE Leases!Fresh(r)
  <2>1. lease[r] \in Leases!LeaseRow
    BY <1>1 DEF Leases!Fresh, Leases!TypeOK
  <2> DEFINE flag == IF lease[r].abort = "external" THEN lease[r].abort ELSE reason
             new  == [lease[r] EXCEPT !.abort = flag]
  <2>2. Leases!FlagAbort(r, reason) = [lease EXCEPT ![r] = new]
    BY <1>1, <2>1 DEF Leases!FlagAbort, Leases!TypeOK
  <2>3. new \in Leases!LeaseRow /\ new.owner = lease[r].owner
          /\ new.query = lease[r].query /\ new.age = lease[r].age
    BY <2>1 DEF Leases!LeaseRow, Leases!WireReason
  <2>4. QED BY <2>2, <2>3, <2>1 DEF Leases!TypeOK
<1>2. CASE ~Leases!Fresh(r)
  BY <1>2 DEF Leases!FlagAbort, Leases!TypeOK
<1>3. QED BY <1>1, <1>2

(* Ageing a row keeps everything but its age.                                *)
LEMMA OlderRow ==
  ASSUME NEW row \in Leases!LeaseRow
  PROVE  /\ Leases!Older(row) \in Leases!LeaseRow
         /\ Leases!Older(row) # None
         /\ Leases!Older(row).owner = row.owner /\ Leases!Older(row).query = row.query
         /\ Leases!Older(row).age <= row.age + 1
<1>1. row # None OBVIOUS
<1>2. Leases!Older(row) = [row EXCEPT !.age = IF @ > TurnStale THEN @ ELSE @ + 1]
  BY <1>1 DEF Leases!Older
<1>3. QED BY <1>2 DEF Leases!LeaseRow

(* A control keeps its type, and its turn, when a field is rewritten.        *)
LEMMA ControlUpdate ==
  ASSUME NEW c \in Leases!Control
  PROVE  /\ \A why \in Leases!AbortReason : [c EXCEPT !.reason = why] \in Leases!Control
         /\ \A n \in 0..MaxDelay : [c EXCEPT !.age = n] \in Leases!Control
         /\ \A why \in Leases!AbortReason :
              [query |-> c.query, age |-> 0, reason |-> why] \in Leases!Control
BY DEF Leases!Control

LEMMA Reasons ==
  /\ Leases!WireReason \subseteq Leases!AbortReason
  /\ "none" \in Leases!WireReason
  /\ "internal" \in Leases!WireReason
  /\ "external" \in Leases!WireReason
  /\ "infrastructure" \in Leases!AbortReason
BY DEF Leases!WireReason, Leases!AbortReason

-----------------------------------------------------------------------------
(* Type correctness of the leases, the registries and the fences.            *)
THEOREM LeaseTypes == LeaseSpec => []Leases!TypeOK
<1>1. Leases!Init => Leases!TypeOK
  BY DEF Leases!Init, Leases!TypeOK
<1>2. Leases!TypeOK /\ [Leases!Next]_(Leases!vars) => Leases!TypeOK'
  <2> SUFFICES ASSUME Leases!TypeOK, [Leases!Next]_(Leases!vars) PROVE Leases!TypeOK'
    OBVIOUS
  <2>1. ASSUME NEW p \in Process, NEW r \in Room, NEW q \in Query, Leases!StartTurn(p, r, q)
        PROVE  Leases!TypeOK'
    <3>1. [owner |-> p, query |-> q, age |-> 0, abort |-> "none"] \in Leases!LeaseRow
      BY DEF Leases!LeaseRow, Leases!WireReason
    <3>2. [query |-> q, reason |-> "none", age |-> 0] \in Leases!Control
      BY DEF Leases!Control, Leases!AbortReason
    <3>3. QED BY <2>1, <3>1, <3>2 DEF Leases!StartTurn, Leases!TypeOK
  <2>2. ASSUME NEW p \in Process, NEW r \in Room, Leases!Heartbeat(p, r)
        PROVE  Leases!TypeOK'
    <3>1. lease[r] \in Leases!LeaseRow /\ turn[p][r] \in Leases!Control
      BY <2>2 DEF Leases!Heartbeat, Leases!Owns, Leases!TypeOK
    <3>2. [lease[r] EXCEPT !.age = 0] \in Leases!LeaseRow
      BY <3>1 DEF Leases!LeaseRow
    <3>3. lease' \in [Room -> Leases!LeaseRow \cup {None}]
      BY <2>2, <3>2 DEF Leases!Heartbeat, Leases!TypeOK
    <3> DEFINE why == IF turn[p][r].reason = "none" THEN lease[r].abort
                      ELSE turn[p][r].reason
               new == [query |-> turn[p][r].query, age |-> 0, reason |-> why]
    <3>4. new \in Leases!Control
      <4>1. why \in Leases!AbortReason
        BY <3>1, Reasons DEF Leases!Control, Leases!LeaseRow
      <4>2. QED BY <3>1, <4>1, ControlUpdate
    <3>5. turn' = [turn EXCEPT ![p] = [turn[p] EXCEPT ![r] = new]]
      BY <2>2, <3>1 DEF Leases!Heartbeat, Leases!TypeOK, Leases!Control
    <3>6. turn' \in [Process -> [Room -> Leases!Control \cup {None}]]
      BY <3>4, <3>5 DEF Leases!TypeOK
    <3>7. QED BY <2>2, <3>3, <3>6 DEF Leases!Heartbeat, Leases!TypeOK
  <2>3. ASSUME NEW p \in Process, NEW r \in Room, Leases!LoseLease(p, r)
        PROVE  Leases!TypeOK'
    <3>1. turn[p][r] \in Leases!Control
      BY <2>3 DEF Leases!LoseLease, Leases!TypeOK
    <3> DEFINE new == [query |-> turn[p][r].query, age |-> 0, reason |-> "external"]
    <3>2. new \in Leases!Control
      BY <3>1, ControlUpdate, Reasons
    <3>3. turn' = [turn EXCEPT ![p] = [turn[p] EXCEPT ![r] = new]]
      BY <2>3, <3>1 DEF Leases!LoseLease, Leases!TypeOK, Leases!Control
    <3>4. QED BY <2>3, <3>2, <3>3 DEF Leases!LoseLease, Leases!TypeOK
  <2>4. ASSUME NEW p \in Process, NEW r \in Room,
               Leases!Supersede(p, r) \/ Leases!InfrastructureLost(p, r)
        PROVE  Leases!TypeOK'
    <3>1. turn[p][r] \in Leases!Control
      BY <2>4 DEF Leases!Supersede, Leases!InfrastructureLost, Leases!TypeOK
    <3>2. PICK why \in Leases!AbortReason : turn' = [turn EXCEPT ![p][r].reason = why]
      BY <2>4 DEF Leases!Supersede, Leases!InfrastructureLost, Leases!AbortReason
    <3>3. [turn[p][r] EXCEPT !.reason = why] \in Leases!Control
      BY <3>1 DEF Leases!Control
    <3>4. QED BY <2>4, <3>2, <3>3 DEF Leases!Supersede, Leases!InfrastructureLost, Leases!TypeOK
  <2>5. ASSUME NEW p \in Process, NEW r \in Room, Leases!SteerRemote(p, r)
        PROVE  Leases!TypeOK'
    BY <2>5, FlagAbortKeepsTenant DEF Leases!SteerRemote, Leases!TypeOK
  <2>6. ASSUME NEW p \in Process, NEW r \in Room, Leases!AbortRoom(p, r)
        PROVE  Leases!TypeOK'
    <3>1. lease' \in [Room -> Leases!LeaseRow \cup {None}]
      BY <2>6, FlagAbortKeepsTenant DEF Leases!AbortRoom
    <3>2. turn' \in [Process -> [Room -> Leases!Control \cup {None}]]
      <4>1. CASE turn[p][r] = None
        BY <2>6, <4>1 DEF Leases!AbortRoom, Leases!TypeOK
      <4>2. CASE turn[p][r] # None
        <5>1. [turn[p][r] EXCEPT !.reason = "external"] \in Leases!Control
          BY <4>2, ControlUpdate, Reasons DEF Leases!TypeOK
        <5>2. QED BY <2>6, <4>2, <5>1 DEF Leases!AbortRoom, Leases!TypeOK
      <4>3. QED BY <4>1, <4>2
    <3>3. QED BY <2>6, <3>1, <3>2 DEF Leases!AbortRoom, Leases!TypeOK
  <2>7. ASSUME NEW p \in Process, NEW r \in Room, Leases!FinishTurn(p, r)
        PROVE  Leases!TypeOK'
    BY <2>7 DEF Leases!FinishTurn, Leases!TypeOK
  <2>8. ASSUME NEW p \in Process, Leases!AbortAll(p)
        PROVE  Leases!TypeOK'
    <3>1. \A r \in Room : turn[p][r] # None =>
            [turn[p][r] EXCEPT !.reason = "external"] \in Leases!Control
      BY ControlUpdate, Reasons DEF Leases!TypeOK
    <3>2. QED BY <2>8, <3>1 DEF Leases!AbortAll, Leases!TypeOK
  <2>9. ASSUME NEW p \in Process, Leases!Crash(p)
        PROVE  Leases!TypeOK'
    BY <2>9 DEF Leases!Crash, Leases!TypeOK
  <2>10. ASSUME NEW rooms \in SUBSET Room, Leases!MoveFence(rooms)
         PROVE  Leases!TypeOK'
    BY <2>10 DEF Leases!MoveFence, Leases!TypeOK
  <2>11. ASSUME Leases!Tick
         PROVE  Leases!TypeOK'
    <3>1. lease' \in [Room -> Leases!LeaseRow \cup {None}]
      <4>1. \A r \in Room : Leases!Older(lease[r]) \in Leases!LeaseRow \cup {None}
        BY OlderRow DEF Leases!TypeOK, Leases!Older
      <4>2. QED BY <2>11, <4>1 DEF Leases!Tick
    <3>2. \A p \in Process, r \in Room : turn[p][r] # None =>
            [turn[p][r] EXCEPT !.age = @ + 1] \in Leases!Control
      <4>1. ASSUME NEW p \in Process, NEW r \in Room, turn[p][r] # None
            PROVE  [turn[p][r] EXCEPT !.age = @ + 1] \in Leases!Control
        <5>1. turn[p][r] \in Leases!Control /\ turn[p][r].age + 1 \in 0..MaxDelay
          BY <2>11, <4>1 DEF Leases!Tick, Leases!TypeOK, Leases!Control
        <5>2. QED BY <5>1, ControlUpdate
      <4>2. QED BY <4>1
    <3>3. QED BY <2>11, <3>1, <3>2 DEF Leases!Tick, Leases!TypeOK
  <2>12. CASE UNCHANGED Leases!vars
    BY <2>12 DEF Leases!vars, Leases!TypeOK
  <2>13. QED
    BY <2>1, <2>2, <2>3, <2>4, <2>5, <2>6, <2>7, <2>8, <2>9, <2>10, <2>11, <2>12
    DEF Leases!Next, Leases!Turns, Leases!Monitor
<1>3. QED BY <1>1, <1>2, PTL DEF LeaseSpec, Leases!Spec

-----------------------------------------------------------------------------
(* Only starting, finishing and crashing change who holds what.              *)
SameTenants ==
  /\ up' = up
  /\ \A p \in Process, r \in Room :
       /\ turn'[p][r] = None <=> turn[p][r] = None
       /\ turn[p][r] # None => turn'[p][r].query = turn[p][r].query
  /\ \A r \in Room :
       /\ lease'[r] = None <=> lease[r] = None
       /\ lease[r] # None => /\ lease'[r].owner = lease[r].owner
                             /\ lease'[r].query = lease[r].query

KeepsTenants ==
  \/ \E p \in Process, r \in Room :
       \/ Leases!Heartbeat(p, r) \/ Leases!LoseLease(p, r) \/ Leases!Supersede(p, r)
       \/ Leases!SteerRemote(p, r) \/ Leases!AbortRoom(p, r) \/ Leases!InfrastructureLost(p, r)
  \/ \E p \in Process : Leases!AbortAll(p)
  \/ \E rooms \in SUBSET Room : Leases!MoveFence(rooms)
  \/ Leases!Tick
  \/ UNCHANGED Leases!vars

LEMMA TenantsKept ==
  ASSUME Leases!TypeOK, KeepsTenants
  PROVE  SameTenants
<1>1. \A p \in Process, r \in Room : turn[p][r] # None => turn[p][r] \in Leases!Control
  BY DEF Leases!TypeOK
<1>2. \A r \in Room : lease[r] # None => lease[r] \in Leases!LeaseRow
  BY DEF Leases!TypeOK
<1>3. \A c \in Leases!Control :
        /\ c # None
        /\ \A why \in Leases!AbortReason : [c EXCEPT !.reason = why] # None
        /\ \A n \in 0..MaxDelay : [c EXCEPT !.age = n] # None
        /\ \A why \in Leases!AbortReason :
             [query |-> c.query, age |-> 0, reason |-> why] # None
  BY ControlUpdate
<1>4. ASSUME NEW p \in Process, NEW r \in Room, Leases!Heartbeat(p, r)
      PROVE  SameTenants
  <2>1. turn[p][r] \in Leases!Control /\ lease[r] \in Leases!LeaseRow
    BY <1>4, <1>1, <1>2 DEF Leases!Heartbeat, Leases!Owns
  <2>2. [lease[r] EXCEPT !.age = 0] # None
    <3>1. [lease[r] EXCEPT !.age = 0] \in Leases!LeaseRow
      BY <2>1 DEF Leases!LeaseRow
    <3>2. QED BY <3>1
  <2> DEFINE why == IF turn[p][r].reason = "none" THEN lease[r].abort
                    ELSE turn[p][r].reason
             new == [query |-> turn[p][r].query, age |-> 0, reason |-> why]
  <2>3. why \in Leases!AbortReason
    BY <2>1, Reasons DEF Leases!Control, Leases!LeaseRow
  <2>4. new # None /\ new.query = turn[p][r].query
    BY <2>1, <2>3, <1>3
  <2>5. turn' = [turn EXCEPT ![p] = [turn[p] EXCEPT ![r] = new]]
    BY <1>4 DEF Leases!Heartbeat, Leases!TypeOK
  <2> HIDE DEF new
  <2>6. \A o \in Process, s \in Room :
          /\ turn'[o][s] = None <=> turn[o][s] = None
          /\ turn[o][s] # None => turn'[o][s].query = turn[o][s].query
    BY <2>1, <2>4, <2>5 DEF Leases!TypeOK
  <2>7. QED BY <1>4, <2>1, <2>2, <2>6 DEF Leases!Heartbeat, SameTenants, Leases!TypeOK
<1>5. ASSUME NEW p \in Process, NEW r \in Room, Leases!LoseLease(p, r)
      PROVE  SameTenants
  <2> DEFINE new == [query |-> turn[p][r].query, age |-> 0, reason |-> "external"]
  <2>1. turn[p][r] \in Leases!Control /\ turn[p][r] # None
    BY <1>5, <1>1 DEF Leases!LoseLease
  <2>2. new # None /\ new.query = turn[p][r].query
    BY <2>1, <1>3, Reasons
  <2>3. turn' = [turn EXCEPT ![p] = [turn[p] EXCEPT ![r] = new]]
    BY <1>5 DEF Leases!LoseLease, Leases!TypeOK
  <2> HIDE DEF new
  <2>4. QED BY <1>5, <2>1, <2>2, <2>3 DEF Leases!LoseLease, SameTenants, Leases!TypeOK
<1>6. ASSUME NEW p \in Process, NEW r \in Room, NEW why \in Leases!AbortReason,
             turn[p][r] # None, turn' = [turn EXCEPT ![p][r].reason = why]
      PROVE  \A o \in Process, s \in Room :
               /\ turn'[o][s] = None <=> turn[o][s] = None
               /\ turn[o][s] # None => turn'[o][s].query = turn[o][s].query
  <2> DEFINE new == [turn[p][r] EXCEPT !.reason = why]
  <2>1. new # None /\ new.query = turn[p][r].query
    BY <1>6, <1>1, <1>3 DEF Leases!Control
  <2>2. turn' = [turn EXCEPT ![p] = [turn[p] EXCEPT ![r] = new]]
    BY <1>6 DEF Leases!TypeOK
  <2> HIDE DEF new
  <2>3. QED BY <1>6, <2>1, <2>2 DEF Leases!TypeOK
<1>7. ASSUME NEW p \in Process, NEW r \in Room,
             Leases!Supersede(p, r) \/ Leases!InfrastructureLost(p, r)
      PROVE  SameTenants
  BY <1>7, <1>6, Reasons DEF Leases!Supersede, Leases!InfrastructureLost, SameTenants
<1>8. ASSUME NEW p \in Process, NEW r \in Room, Leases!SteerRemote(p, r)
      PROVE  SameTenants
  BY <1>8, FlagAbortKeepsTenant DEF Leases!SteerRemote, SameTenants
<1>9. ASSUME NEW p \in Process, NEW r \in Room, Leases!AbortRoom(p, r)
      PROVE  SameTenants
  <2>1. CASE turn[p][r] = None
    BY <1>9, <2>1, FlagAbortKeepsTenant DEF Leases!AbortRoom, SameTenants
  <2>2. CASE turn[p][r] # None
    BY <1>9, <2>2, <1>6, FlagAbortKeepsTenant, Reasons DEF Leases!AbortRoom, SameTenants
  <2>3. QED BY <2>1, <2>2
<1>10. ASSUME NEW p \in Process, Leases!AbortAll(p)
       PROVE  SameTenants
  <2>1. \A r \in Room : turn[p][r] # None =>
          /\ [turn[p][r] EXCEPT !.reason = "external"] # None
          /\ [turn[p][r] EXCEPT !.reason = "external"].query = turn[p][r].query
    BY <1>1, <1>3, Reasons DEF Leases!Control
  <2>2. QED BY <1>10, <2>1 DEF Leases!AbortAll, SameTenants, Leases!TypeOK
<1>11. ASSUME NEW rooms \in SUBSET Room, Leases!MoveFence(rooms)
       PROVE  SameTenants
  BY <1>11 DEF Leases!MoveFence, SameTenants
<1>12. ASSUME Leases!Tick
       PROVE  SameTenants
  <2>1. \A r \in Room :
          /\ lease'[r] = None <=> lease[r] = None
          /\ lease[r] # None => /\ lease'[r].owner = lease[r].owner
                                /\ lease'[r].query = lease[r].query
    <3>1. \A r \in Room : lease'[r] = Leases!Older(lease[r])
      BY <1>12 DEF Leases!Tick
    <3>2. Leases!Older(None) = None
      BY DEF Leases!Older
    <3>3. QED BY <3>1, <3>2, <1>2, OlderRow
  <2>2. ASSUME NEW p \in Process, NEW r \in Room
        PROVE  /\ turn'[p][r] = None <=> turn[p][r] = None
               /\ turn[p][r] # None => turn'[p][r].query = turn[p][r].query
    <3>1. turn'[p][r] = IF turn[p][r] = None THEN None
                        ELSE [turn[p][r] EXCEPT !.age = @ + 1]
      BY <1>12 DEF Leases!Tick
    <3>2. CASE turn[p][r] # None
      <4>1. turn[p][r] \in Leases!Control /\ turn[p][r].age + 1 \in 0..MaxDelay
        BY <1>12, <1>1, <3>2 DEF Leases!Tick, Leases!Control
      <4>2. QED BY <3>1, <3>2, <4>1, <1>3 DEF Leases!Control
    <3>3. QED BY <3>1, <3>2
  <2>3. QED BY <1>12, <2>1, <2>2 DEF Leases!Tick, SameTenants
<1>13. CASE UNCHANGED Leases!vars
  BY <1>13 DEF Leases!vars, SameTenants
<1>14. QED
  BY <1>4, <1>5, <1>7, <1>8, <1>9, <1>10, <1>11, <1>12, <1>13 DEF KeepsTenants

(* Every step either keeps the tenants or is one of the three that move them. *)
LEMMA StepKinds ==
  [Leases!Next]_(Leases!vars) =>
    \/ KeepsTenants
    \/ \E p \in Process, r \in Room, q \in Query : Leases!StartTurn(p, r, q)
    \/ \E p \in Process, r \in Room : Leases!FinishTurn(p, r)
    \/ \E p \in Process : Leases!Crash(p)
BY DEF Leases!Next, Leases!Turns, Leases!Monitor, KeepsTenants

-----------------------------------------------------------------------------
(* No live process leaves a row behind, whoever stalls: the row of a live    *)
(* owner always names the turn that owner is running.                        *)
THEOREM LeaseNoOrphan == LeaseSpec => []Leases!NoOrphanLease
<1>1. Leases!Init => Leases!NoOrphanLease
  BY DEF Leases!Init, Leases!NoOrphanLease
<1>2. /\ Leases!TypeOK /\ Leases!TypeOK' /\ Leases!NoOrphanLease
      /\ [Leases!Next]_(Leases!vars)
      => Leases!NoOrphanLease'
  <2> SUFFICES ASSUME Leases!TypeOK, Leases!TypeOK', Leases!NoOrphanLease,
                      [Leases!Next]_(Leases!vars),
                      NEW s \in Room, NEW o \in Process,
                      lease'[s] # None, lease'[s].owner = o, up'[o]
               PROVE  Leases!Owns(o, s)'
    BY DEF Leases!NoOrphanLease, Leases!TypeOK, Leases!LeaseRow
  <2> USE DEF Leases!Owns
  <2>1. CASE KeepsTenants
    <3>1. SameTenants
      BY <2>1, TenantsKept
    <3>2. Leases!Owns(o, s)
      BY <3>1 DEF Leases!NoOrphanLease, SameTenants
    <3>3. QED BY <3>1, <3>2 DEF SameTenants
  <2>2. ASSUME NEW p \in Process, NEW r \in Room, NEW q \in Query, Leases!StartTurn(p, r, q)
        PROVE  Leases!Owns(o, s)'
    <3> DEFINE row == [owner |-> p, query |-> q, age |-> 0, abort |-> "none"]
               new == [query |-> q, reason |-> "none", age |-> 0]
    <3>1. row # None /\ new # None
      <4>1. row \in Leases!LeaseRow
        BY Reasons DEF Leases!LeaseRow
      <4>2. new \in Leases!Control
        BY Reasons DEF Leases!Control
      <4>3. QED BY <4>1, <4>2
    <3>2. row.owner = p /\ row.query = q /\ new.query = q
      OBVIOUS
    <3>3. lease' = [lease EXCEPT ![r] = row]
            /\ turn' = [turn EXCEPT ![p] = [turn[p] EXCEPT ![r] = new]]
      BY <2>2 DEF Leases!StartTurn, Leases!TypeOK
    <3> HIDE DEF row, new
    <3>4. CASE s = r
      BY <3>1, <3>2, <3>3, <3>4 DEF Leases!TypeOK
    <3>5. CASE s # r
      <4>1. lease'[s] = lease[s] /\ turn'[o][s] = turn[o][s] /\ up' = up
        BY <2>2, <3>3, <3>5 DEF Leases!StartTurn, Leases!TypeOK
      <4>2. QED BY <4>1 DEF Leases!NoOrphanLease
    <3>6. QED BY <3>4, <3>5
  <2>3. ASSUME NEW p \in Process, NEW r \in Room, Leases!FinishTurn(p, r)
        PROVE  Leases!Owns(o, s)'
    <3>1. lease'[s] = lease[s] /\ ~(s = r /\ Leases!Owns(p, r)) /\ up' = up
      BY <2>3 DEF Leases!FinishTurn, Leases!TypeOK
    <3>2. Leases!Owns(o, s) /\ ~(o = p /\ s = r)
      BY <3>1 DEF Leases!NoOrphanLease
    <3>3. turn'[o][s] = turn[o][s]
      BY <2>3, <3>2 DEF Leases!FinishTurn, Leases!TypeOK
    <3>4. QED BY <3>1, <3>2, <3>3
  <2>4. ASSUME NEW p \in Process, Leases!Crash(p)
        PROVE  Leases!Owns(o, s)'
    <3>1. lease' = lease /\ o # p /\ up[o]
      BY <2>4 DEF Leases!Crash, Leases!TypeOK
    <3>2. turn'[o] = turn[o]
      BY <2>4, <3>1 DEF Leases!Crash, Leases!TypeOK
    <3>3. QED BY <3>1, <3>2 DEF Leases!NoOrphanLease
  <2>5. QED BY <2>1, <2>2, <2>3, <2>4, StepKinds
<1>3. QED BY <1>1, <1>2, LeaseTypes, PTL DEF LeaseSpec, Leases!Spec

-----------------------------------------------------------------------------
(* The steps that hold no row's age against a turn's: a tenant's row stays   *)
(* no older than its last heartbeat.                                         *)
LEMMA AgesKept ==
  ASSUME Leases!TypeOK, Leases!Tenancy, KeepsTenants,
         NEW p \in Process, NEW r \in Room, turn[p][r] # None
  PROVE  lease'[r].age <= turn'[p][r].age
<1>1. /\ turn[p][r] \in Leases!Control
      /\ lease[r] \in Leases!LeaseRow /\ lease[r].owner = p
      /\ lease[r].age <= turn[p][r].age
      /\ lease[r].age \in Nat /\ turn[p][r].age \in Nat
  BY DEF Leases!TypeOK, Leases!Tenancy, Leases!Owns, Leases!LeaseRow, Leases!Control
<1>2. ASSUME NEW o \in Process, NEW s \in Room, Leases!Heartbeat(o, s)
      PROVE  lease'[r].age <= turn'[p][r].age
  <2>1. CASE s = r
    <3>1. o = p
      BY <1>1, <1>2, <2>1 DEF Leases!Heartbeat, Leases!Owns
    <3>2. lease'[r].age = 0 /\ turn'[p][r].age = 0
      BY <1>1, <1>2, <2>1, <3>1 DEF Leases!Heartbeat, Leases!TypeOK, Leases!LeaseRow
    <3>3. QED BY <3>2
  <2>2. CASE s # r
    BY <1>1, <1>2, <2>2 DEF Leases!Heartbeat, Leases!TypeOK
  <2>3. QED BY <2>1, <2>2
<1>3. ASSUME NEW o \in Process, NEW s \in Room, Leases!LoseLease(o, s)
      PROVE  lease'[r].age <= turn'[p][r].age
  <2>1. ~(o = p /\ s = r)
    BY <1>3 DEF Leases!LoseLease, Leases!Tenancy
  <2>2. QED BY <1>1, <1>3, <2>1 DEF Leases!LoseLease, Leases!TypeOK
<1>4. ASSUME NEW o \in Process, NEW s \in Room, NEW why \in Leases!AbortReason,
             turn' = [turn EXCEPT ![o][s].reason = why]
      PROVE  turn'[p][r].age = turn[p][r].age
  BY <1>1, <1>4 DEF Leases!TypeOK, Leases!Control
<1>5. ASSUME NEW o \in Process, NEW s \in Room,
             Leases!Supersede(o, s) \/ Leases!InfrastructureLost(o, s)
      PROVE  lease'[r].age <= turn'[p][r].age
  BY <1>1, <1>4, <1>5, Reasons DEF Leases!Supersede, Leases!InfrastructureLost
<1>6. ASSUME NEW o \in Process, NEW s \in Room, Leases!SteerRemote(o, s)
      PROVE  lease'[r].age <= turn'[p][r].age
  BY <1>1, <1>6, FlagAbortKeepsTenant DEF Leases!SteerRemote
<1>7. ASSUME NEW o \in Process, NEW s \in Room, Leases!AbortRoom(o, s)
      PROVE  lease'[r].age <= turn'[p][r].age
  <2>1. lease'[r].age = lease[r].age
    BY <1>1, <1>7, FlagAbortKeepsTenant DEF Leases!AbortRoom
  <2>2. turn'[p][r].age = turn[p][r].age
    BY <1>4, <1>7, Reasons DEF Leases!AbortRoom
  <2>3. QED BY <1>1, <2>1, <2>2
<1>8. ASSUME NEW o \in Process, Leases!AbortAll(o)
      PROVE  lease'[r].age <= turn'[p][r].age
  <2>1. CASE o = p
    <3>1. turn'[p][r] = [turn[p][r] EXCEPT !.reason = "external"]
      BY <1>8, <2>1 DEF Leases!AbortAll, Leases!TypeOK
    <3>2. turn'[p][r].age = turn[p][r].age
      BY <1>1, <3>1 DEF Leases!Control
    <3>3. QED BY <1>1, <1>8, <3>2 DEF Leases!AbortAll
  <2>2. CASE o # p
    BY <1>1, <1>8, <2>2 DEF Leases!AbortAll, Leases!TypeOK
  <2>3. QED BY <2>1, <2>2
<1>9. ASSUME NEW rooms \in SUBSET Room, Leases!MoveFence(rooms)
      PROVE  lease'[r].age <= turn'[p][r].age
  BY <1>1, <1>9 DEF Leases!MoveFence
<1>10. ASSUME Leases!Tick
       PROVE  lease'[r].age <= turn'[p][r].age
  <2>1. lease'[r].age <= lease[r].age + 1 /\ lease'[r].age \in Nat
    <3>1. lease'[r] = Leases!Older(lease[r])
      BY <1>10 DEF Leases!Tick
    <3>2. QED BY <1>1, <3>1, OlderRow DEF Leases!LeaseRow
  <2>2. turn'[p][r].age = turn[p][r].age + 1
    <3>1. turn'[p][r] = [turn[p][r] EXCEPT !.age = @ + 1]
      BY <1>10 DEF Leases!Tick
    <3>2. QED BY <1>1, <3>1 DEF Leases!Control
  <2>3. QED BY <1>1, <2>1, <2>2
<1>11. CASE UNCHANGED Leases!vars
  BY <1>1, <1>11 DEF Leases!vars
<1>12. QED
  BY <1>2, <1>3, <1>5, <1>6, <1>7, <1>8, <1>9, <1>10, <1>11 DEF KeepsTenants

(* With timely heartbeats every turn in flight is covered by its own fresh   *)
(* row: the inductive invariant behind mutual exclusion.                     *)
THEOREM TenancyHolds ==
  ASSUME Leases!TimelyHeartbeats
  PROVE  LeaseSpec => []Leases!Tenancy
<1>1. Leases!Init => Leases!Tenancy
  BY DEF Leases!Init, Leases!Tenancy
<1>2. Leases!TypeOK /\ Leases!Tenancy /\ [Leases!Next]_(Leases!vars) => Leases!Tenancy'
  <2> SUFFICES ASSUME Leases!TypeOK, Leases!Tenancy, [Leases!Next]_(Leases!vars),
                      NEW o \in Process, NEW s \in Room, turn'[o][s] # None
               PROVE  /\ up'[o]
                      /\ Leases!Owns(o, s)'
                      /\ lease'[s].age <= turn'[o][s].age
    BY DEF Leases!Tenancy
  <2>1. CASE KeepsTenants
    <3>1. SameTenants
      BY <2>1, TenantsKept
    <3>2. turn[o][s] # None
      BY <3>1 DEF SameTenants
    <3>3. up[o] /\ Leases!Owns(o, s)
      BY <3>2 DEF Leases!Tenancy
    <3>4. QED BY <2>1, <3>1, <3>2, <3>3, AgesKept DEF SameTenants, Leases!Owns
  <2>2. ASSUME NEW p \in Process, NEW r \in Room, NEW q \in Query, Leases!StartTurn(p, r, q)
        PROVE  up'[o] /\ Leases!Owns(o, s)' /\ lease'[s].age <= turn'[o][s].age
    <3> DEFINE row == [owner |-> p, query |-> q, age |-> 0, abort |-> "none"]
               new == [query |-> q, reason |-> "none", age |-> 0]
    <3>1. row # None /\ new # None
      <4>1. row \in Leases!LeaseRow
        BY Reasons DEF Leases!LeaseRow
      <4>2. new \in Leases!Control
        BY Reasons DEF Leases!Control
      <4>3. QED BY <4>1, <4>2
    <3>2. row.owner = p /\ row.query = q /\ new.query = q /\ row.age = 0 /\ new.age = 0
      OBVIOUS
    <3>3. lease' = [lease EXCEPT ![r] = row]
            /\ turn' = [turn EXCEPT ![p] = [turn[p] EXCEPT ![r] = new]]
      BY <2>2 DEF Leases!StartTurn, Leases!TypeOK
    <3> HIDE DEF row, new
    <3>4. CASE s # r
      BY <2>2, <3>3, <3>4 DEF Leases!StartTurn, Leases!TypeOK, Leases!Tenancy, Leases!Owns
    <3>5. CASE s = r /\ o = p
      BY <2>2, <3>1, <3>2, <3>3, <3>5 DEF Leases!StartTurn, Leases!TypeOK, Leases!Owns
    <3>6. CASE s = r /\ o # p
      <4>1. turn[o][r] # None
        BY <3>3, <3>6 DEF Leases!TypeOK
      <4>2. lease[r] \in Leases!LeaseRow /\ turn[o][r] \in Leases!Control /\ lease[r].owner = o
              /\ lease[r].age <= turn[o][r].age
        BY <4>1 DEF Leases!TypeOK, Leases!Tenancy, Leases!Owns
      <4>3. lease[r].age <= TurnStale
        BY <4>2 DEF Leases!Control, Leases!LeaseRow, Leases!TimelyHeartbeats
      <4>4. lease[r].age > TurnStale
        BY <2>2, <3>6, <4>2 DEF Leases!StartTurn, Leases!Claimable
      <4>5. QED BY <4>2, <4>3, <4>4 DEF Leases!LeaseRow
    <3>7. QED BY <3>4, <3>5, <3>6
  <2>3. ASSUME NEW p \in Process, NEW r \in Room, Leases!FinishTurn(p, r)
        PROVE  up'[o] /\ Leases!Owns(o, s)' /\ lease'[s].age <= turn'[o][s].age
    <3>1. ~(o = p /\ s = r) /\ turn'[o][s] = turn[o][s] /\ up' = up
      BY <2>3 DEF Leases!FinishTurn, Leases!TypeOK
    <3>2. up[o] /\ Leases!Owns(o, s) /\ lease[s].age <= turn[o][s].age
      BY <3>1 DEF Leases!Tenancy
    <3>3. lease'[s] = lease[s]
      BY <2>3, <3>1, <3>2 DEF Leases!FinishTurn, Leases!TypeOK, Leases!Owns
    <3>4. QED BY <3>1, <3>2, <3>3 DEF Leases!Owns
  <2>4. ASSUME NEW p \in Process, Leases!Crash(p)
        PROVE  up'[o] /\ Leases!Owns(o, s)' /\ lease'[s].age <= turn'[o][s].age
    BY <2>4 DEF Leases!Crash, Leases!TypeOK, Leases!Tenancy, Leases!Owns
  <2>5. QED BY <2>1, <2>2, <2>3, <2>4, StepKinds
<1>3. QED BY <1>1, <1>2, LeaseTypes, PTL DEF LeaseSpec, Leases!Spec

(* active-rooms.ts: at most one AI turn in flight per room, provided that no *)
(* live process lets a row go stale.                                         *)
THEOREM LeaseExclusion ==
  ASSUME Leases!TimelyHeartbeats
  PROVE  LeaseSpec => []Leases!OneTurnPerRoom
<1>1. Leases!Tenancy => Leases!OneTurnPerRoom
  BY DEF Leases!Tenancy, Leases!Owns, Leases!OneTurnPerRoom
<1>2. QED BY <1>1, TenancyHolds, PTL

(* Under the same condition whoever asks sees a room with a turn as running. *)
THEOREM LeaseVisibility ==
  ASSUME Leases!TimelyHeartbeats
  PROVE  LeaseSpec => []Leases!RunningIsVisible
<1>1. Leases!TypeOK /\ Leases!Tenancy => Leases!RunningIsVisible
  <2> SUFFICES ASSUME Leases!TypeOK, Leases!Tenancy,
                      NEW o \in Process, NEW r \in Room, turn[o][r] # None
               PROVE  Leases!Fresh(r)
    BY DEF Leases!RunningIsVisible, Leases!IsTopicRunning
  <2>1. /\ turn[o][r] \in Leases!Control /\ lease[r] \in Leases!LeaseRow
        /\ lease[r].age <= turn[o][r].age
    BY DEF Leases!TypeOK, Leases!Tenancy, Leases!Owns
  <2>2. QED BY <2>1 DEF Leases!Control, Leases!LeaseRow, Leases!Fresh, Leases!TimelyHeartbeats
<1>2. QED BY <1>1, TenancyHolds, LeaseTypes, PTL

(* A late `finally` spares the row of the turn that replaced it.             *)
THEOREM LeaseFinish == LeaseSpec => Leases!FinishSparesReplacement
<1> DEFINE Spared ==
      \A p, o \in Process, r \in Room :
        /\ p # o
        /\ turn[o][r] # None /\ turn'[o][r] = None
        /\ Leases!Owns(p, r)
        => lease'[r] = lease[r]
<1>1. Leases!TypeOK /\ [Leases!Next]_(Leases!vars) => [Spared]_(Leases!vars)
  <2> SUFFICES ASSUME Leases!TypeOK, [Leases!Next]_(Leases!vars),
                      NEW p \in Process, NEW o \in Process, NEW r \in Room,
                      p # o, turn[o][r] # None, turn'[o][r] = None, Leases!Owns(p, r)
               PROVE  lease'[r] = lease[r]
    OBVIOUS
  <2>1. CASE KeepsTenants
    BY <2>1, TenantsKept DEF SameTenants
  <2>2. ASSUME NEW w \in Process, NEW s \in Room, NEW q \in Query, Leases!StartTurn(w, s, q)
        PROVE  FALSE
    <3> DEFINE new == [query |-> q, reason |-> "none", age |-> 0]
    <3>1. new \in Leases!Control
      BY Reasons DEF Leases!Control
    <3>2. turn' = [turn EXCEPT ![w] = [turn[w] EXCEPT ![s] = new]]
      BY <2>2 DEF Leases!StartTurn, Leases!TypeOK
    <3> HIDE DEF new
    <3>3. QED BY <3>1, <3>2 DEF Leases!TypeOK
  <2>3. ASSUME NEW w \in Process, NEW s \in Room, Leases!FinishTurn(w, s)
        PROVE  lease'[r] = lease[r]
    <3>1. w = o /\ s = r
      BY <2>3 DEF Leases!FinishTurn, Leases!TypeOK
    <3>2. QED BY <2>3, <3>1 DEF Leases!FinishTurn, Leases!Owns
  <2>4. ASSUME NEW w \in Process, Leases!Crash(w)
        PROVE  lease'[r] = lease[r]
    BY <2>4 DEF Leases!Crash
  <2>5. QED BY <2>1, <2>2, <2>3, <2>4, StepKinds
<1>2. QED BY <1>1, LeaseTypes, PTL DEF LeaseSpec, Leases!Spec, Leases!FinishSparesReplacement

-----------------------------------------------------------------------------
(* With timely heartbeats the registry over its leases implements the plain  *)
(* one-process-at-a-time slot of module TurnSlot.                            *)
THEOREM LeaseSlot ==
  ASSUME Leases!TimelyHeartbeats
  PROVE  LeaseSpec => Leases!SlotSpec
<1> DEFINE running == [r \in Room |-> {p \in Process : turn[p][r] # None}]
<1>1. Leases!Init => Leases!Slot!Init
  BY DEF Leases!Init, Leases!Slot!Init
<1>2. Leases!TypeOK /\ Leases!Tenancy /\ Leases!Tenancy' /\ [Leases!Next]_(Leases!vars)
      => [Leases!Slot!Next]_running
  <2> SUFFICES ASSUME Leases!TypeOK, Leases!Tenancy, Leases!Tenancy', [Leases!Next]_(Leases!vars)
               PROVE  [Leases!Slot!Next]_running
    OBVIOUS
  <2>1. CASE KeepsTenants
    <3>1. SameTenants
      BY <2>1, TenantsKept
    <3>2. running' = running
      BY <3>1 DEF SameTenants
    <3>3. QED BY <3>2
  <2>2. ASSUME NEW p \in Process, NEW r \in Room, NEW q \in Query, Leases!StartTurn(p, r, q)
        PROVE  Leases!Slot!Occupy(p, r)
    <3> DEFINE new == [query |-> q, reason |-> "none", age |-> 0]
    <3>1. new # None
      <4>1. new \in Leases!Control
        BY Reasons DEF Leases!Control
      <4>2. QED BY <4>1
    <3>2. turn' = [turn EXCEPT ![p] = [turn[p] EXCEPT ![r] = new]]
      BY <2>2 DEF Leases!StartTurn, Leases!TypeOK
    <3> HIDE DEF new
    <3>3. turn'[p][r] # None
      BY <3>1, <3>2 DEF Leases!TypeOK
    <3>4. ASSUME NEW o \in Process, turn[o][r] # None
          PROVE  FALSE
      <4>1. o # p /\ turn'[o][r] # None
        BY <2>2, <3>2, <3>4 DEF Leases!StartTurn, Leases!TypeOK
      <4>2. QED BY <3>3, <4>1 DEF Leases!Tenancy, Leases!Owns
    <3>5. running[r] = {}
      BY <3>4
    <3>6. running' = [running EXCEPT ![r] = {p}]
      <4>1. {o \in Process : turn'[o][r] # None} = {p}
        BY <3>2, <3>3, <3>4 DEF Leases!TypeOK
      <4>2. \A s \in Room : s # r =>
              {o \in Process : turn'[o][s] # None} = {o \in Process : turn[o][s] # None}
        BY <3>2 DEF Leases!TypeOK
      <4>3. QED BY <4>1, <4>2
    <3>7. QED BY <3>5, <3>6 DEF Leases!Slot!Occupy
  <2>3. ASSUME NEW p \in Process, NEW r \in Room, Leases!FinishTurn(p, r)
        PROVE  Leases!Slot!Vacate(p, r)
    <3>1. turn[p][r] # None /\ turn' = [turn EXCEPT ![p] = [turn[p] EXCEPT ![r] = None]]
      BY <2>3 DEF Leases!FinishTurn, Leases!TypeOK
    <3>2. running' = [running EXCEPT ![r] = @ \ {p}]
      <4>1. {o \in Process : turn'[o][r] # None}
              = {o \in Process : turn[o][r] # None} \ {p}
        BY <3>1 DEF Leases!TypeOK
      <4>2. \A s \in Room : s # r =>
              {o \in Process : turn'[o][s] # None} = {o \in Process : turn[o][s] # None}
        BY <3>1 DEF Leases!TypeOK
      <4>3. QED BY <4>1, <4>2
    <3>3. QED BY <3>1, <3>2 DEF Leases!Slot!Vacate
  <2>4. ASSUME NEW p \in Process, Leases!Crash(p)
        PROVE  Leases!Slot!Die(p)
    <3>1. \A r \in Room : {o \in Process : turn'[o][r] # None}
                            = {o \in Process : turn[o][r] # None} \ {p}
      BY <2>4 DEF Leases!Crash, Leases!TypeOK
    <3>2. QED BY <3>1 DEF Leases!Slot!Die
  <2>5. QED BY <2>1, <2>2, <2>3, <2>4, StepKinds DEF Leases!Slot!Next
<1>3. QED
  BY <1>1, <1>2, LeaseTypes, TenancyHolds, PTL
  DEF LeaseSpec, Leases!Spec, Leases!SlotSpec, Leases!Slot!Spec

-----------------------------------------------------------------------------
USE FenceStaleAssumption, FenceDelayAssumption, EpochAssumption,
    HomeAssumption, FenceNoneAssumption

-----------------------------------------------------------------------------
(* Type correctness of the fence rows and of the handles.                    *)
THEOREM TypeCorrect == Spec => []TypeOK
<1>1. Init => TypeOK
  BY DEF Init, TypeOK, NoRow, FenceRow, Epoch
<1>2. TypeOK /\ [Next]_vars => TypeOK'
  <2> SUFFICES ASSUME TypeOK, [Next]_vars PROVE TypeOK'
    OBVIOUS
  <2>1. ASSUME NEW o \in Op, NEW r \in Room, Begin(o, r)
        PROVE  TypeOK'
    <3> DEFINE e   == fence[r].epoch + 1
               row == [epoch |-> e, owner |-> o, age |-> 0]
               new == [room |-> r, epoch |-> e, phase |-> "begun",
                       lost |-> FALSE, age |-> 0]
    <3>1. e \in Epoch
      BY <2>1 DEF Begin, TypeOK, FenceRow, Epoch
    <3>2. row \in FenceRow
      BY <3>1 DEF FenceRow
    <3>3. new \in Handle
      <4>1. "begun" \in Phase
        BY DEF Phase
      <4>2. QED BY <3>1, <4>1 DEF Handle
    <3>4. QED BY <2>1, <3>2, <3>3 DEF Begin, TypeOK
  <2>2. ASSUME NEW o \in Op, NEW ph \in Phase, op[o] # None,
               op' = [op EXCEPT ![o].phase = ph], UNCHANGED fence
        PROVE  TypeOK'
    <3>1. [op[o] EXCEPT !.phase = ph] \in Handle
      BY <2>2 DEF TypeOK, Handle
    <3>2. QED BY <2>2, <3>1 DEF TypeOK
  <2>3. ASSUME NEW o \in Op,
               StopTurns(o) \/ Quiesced(o) \/ FoundQuiet(o) \/ ForceDelete(o) \/ Destroy(o)
        PROVE  TypeOK'
    <3>1. \A ph \in {"begun", "waiting", "exclusive", "destroying", "forced"} : ph \in Phase
      BY DEF Phase
    <3>2. QED
      BY <2>2, <2>3, <3>1 DEF StopTurns, Quiesced, FoundQuiet, ForceDelete, Destroy
  <2>4. ASSUME NEW o \in Op, NEW deleteState \in BOOLEAN, Finish(o, deleteState)
        PROVE  TypeOK'
    <3>1. op' \in [Op -> Handle \cup {None}]
      BY <2>4 DEF Finish, TypeOK
    <3>2. fence' \in [Room -> FenceRow]
      <4>1. CASE IsOwned(o)
        <5> DEFINE r   == op[o].room
                   row == IF deleteState THEN NoRow
                          ELSE [epoch |-> fence[r].epoch, owner |-> None, age |-> 0]
        <5>1. r \in Room
          BY <2>4 DEF Finish, TypeOK, Handle
        <5>2. row \in FenceRow
          BY <5>1 DEF TypeOK, FenceRow, NoRow, Epoch
        <5>3. fence' = [fence EXCEPT ![r] = row]
          BY <2>4, <4>1, <5>1 DEF Finish, TypeOK
        <5>4. QED BY <5>1, <5>2, <5>3 DEF TypeOK
      <4>2. CASE ~IsOwned(o)
        BY <2>4, <4>2 DEF Finish, TypeOK
      <4>3. QED BY <4>1, <4>2
    <3>3. QED BY <3>1, <3>2 DEF TypeOK
  <2>5. ASSUME NEW o \in Op, FenceBeat(o)
        PROVE  TypeOK'
    <3>1. op[o] \in Handle /\ op[o].room \in Room
      BY <2>5 DEF FenceBeat, TypeOK, Handle
    <3>2. [op[o] EXCEPT !.age = 0] \in Handle
      BY <3>1 DEF Handle
    <3>3. [op[o] EXCEPT !.lost = TRUE] \in Handle
      BY <3>1 DEF Handle
    <3>4. [fence[op[o].room] EXCEPT !.age = 0] \in FenceRow
      BY <3>1 DEF TypeOK, FenceRow
    <3>5. op' \in [Op -> Handle \cup {None}]
      BY <2>5, <3>2, <3>3 DEF FenceBeat, TypeOK
    <3>6. fence' \in [Room -> FenceRow]
      <4>1. fence' = fence \/ fence' = [fence EXCEPT ![op[o].room].age = 0]
        BY <2>5 DEF FenceBeat
      <4>2. QED BY <3>1, <3>4, <4>1 DEF TypeOK
    <3>7. QED BY <3>5, <3>6 DEF TypeOK
  <2>6. ASSUME NEW p \in Process, Crash(p)
        PROVE  TypeOK'
    BY <2>6 DEF Crash, TypeOK
  <2>7. ASSUME Tick
        PROVE  TypeOK'
    <3>1. \A r \in Room : Older(fence[r]) \in FenceRow
      BY DEF TypeOK, Older, FenceRow
    <3>2. \A o \in Op : Beating(o) => [op[o] EXCEPT !.age = @ + 1] \in Handle
      BY <2>7 DEF Tick, TypeOK, Handle, Beating
    <3>3. QED BY <2>7, <3>1, <3>2 DEF Tick, TypeOK
  <2>8. CASE TurnStep \/ UNCHANGED vars
    BY <2>8 DEF TurnStep, fenceVars, vars, TypeOK
  <2>9. QED
    BY <2>1, <2>3, <2>4, <2>5, <2>6, <2>7, <2>8 DEF Next, OpStep
<1>3. QED BY <1>1, <1>2, PTL DEF Spec

-----------------------------------------------------------------------------
(* Every step of the composition is a step of the turn leases, whose fence   *)
(* environment moves exactly when a row of runtime_topic_state does.         *)
THEOREM ImplementsLeases == Spec => LeaseSpec
<1>1. Init => Leases!Init
  BY DEF Init
<1>2. TypeOK /\ [Next]_vars => [Leases!Next]_(Leases!vars)
  <2> SUFFICES ASSUME TypeOK, [Next]_vars
               PROVE  [Leases!Next]_(Leases!vars)
    OBVIOUS
  <2>1. ASSUME UNCHANGED leaseVars
        PROVE  Leases!MoveFence(Fenced')
    BY <2>1 DEF leaseVars, Leases!MoveFence
  <2>2. Fenced' \in SUBSET Room
    BY DEF Fenced
  <2>3. CASE TurnStep
    BY <2>3 DEF TurnStep, Leases!Next
  <2>4. ASSUME NEW o \in Op, StopTurns(o)
        PROVE  Leases!Next
    <3>1. Home[o] \in Process /\ op[o].room \in Room
      BY <2>4 DEF StopTurns, TypeOK, Handle
    <3>2. Leases!Turns(Home[o], op[o].room)
      BY <2>4 DEF StopTurns, Leases!Turns
    <3>3. QED BY <3>1, <3>2 DEF Leases!Next
  <2>5. ASSUME NEW o \in Op, OpStep(o), ~StopTurns(o)
        PROVE  Leases!Next
    <3>1. UNCHANGED leaseVars
      BY <2>5 DEF OpStep, Begin, Quiesced, FoundQuiet, ForceDelete, Destroy,
                  Finish, FenceBeat, leaseVars
    <3>2. QED BY <2>1, <2>2, <3>1 DEF Leases!Next
  <2>6. ASSUME NEW p \in Process, Crash(p)
        PROVE  Leases!Next
    BY <2>6 DEF Crash, Leases!Next
  <2>7. CASE Tick
    BY <2>7 DEF Tick, Leases!Next
  <2>8. CASE UNCHANGED vars
    BY <2>8 DEF vars, Leases!vars, Fenced, Held, Stale
  <2>9. QED
    BY <2>3, <2>4, <2>5, <2>6, <2>7, <2>8 DEF Next
<1>3. QED BY <1>1, <1>2, TypeCorrect, PTL DEF Spec, LeaseSpec, Leases!Spec

-----------------------------------------------------------------------------
(* What the fence needs to know of the leases below it.                      *)
LEMMA LeasesBelow ==
  Spec => /\ []Leases!TypeOK
          /\ [][Leases!Next]_(Leases!vars)
BY ImplementsLeases, LeaseTypes, PTL DEF LeaseSpec, Leases!Spec

(* active-rooms.ts, with the fence in place: one turn per room.              *)
THEOREM MutualExclusion ==
  ASSUME Leases!TimelyHeartbeats
  PROVE  Spec => []OneTurnPerRoom
BY ImplementsLeases, LeaseExclusion, PTL DEF OneTurnPerRoom

(* active-rooms.ts, with the fence in place: every process sees a room busy  *)
(* while any process runs a turn in it.                                      *)
THEOREM Visibility ==
  ASSUME Leases!TimelyHeartbeats
  PROVE  Spec => []RunningIsVisible
BY ImplementsLeases, LeaseVisibility, PTL DEF RunningIsVisible

(* The leases under the fence implement the abstract slot of a room.         *)
THEOREM ImplementsSlot ==
  ASSUME Leases!TimelyHeartbeats
  PROVE  Spec => SlotSpec
BY ImplementsLeases, LeaseSlot, PTL DEF SlotSpec

(* Whether heartbeats are timely or not, no row outlives the turn of a live  *)
(* process, ...                                                              *)
THEOREM NoOrphan == Spec => []NoOrphanLease
BY ImplementsLeases, LeaseNoOrphan, PTL DEF NoOrphanLease

(* ... and a late `finally` spares the row of the turn that replaced its own. *)
THEOREM FinishIsScoped == Spec => FinishSparesReplacement
BY ImplementsLeases, LeaseFinish, PTL DEF FinishSparesReplacement

-----------------------------------------------------------------------------
(* A fresh fence keeps new turns out.                                        *)
LEMMA FenceKeepsOut ==
  ASSUME Leases!TypeOK, [Leases!Next]_(Leases!vars),
         NEW r \in Room, r \in Fenced, NEW p \in Process, turn[p][r] = None
  PROVE  turn'[p][r] = None
<1>1. CASE KeepsTenants
  BY <1>1, TenantsKept DEF SameTenants
<1>2. ASSUME NEW w \in Process, NEW s \in Room, NEW q \in Query,
             Leases!StartTurn(w, s, q)
      PROVE  turn'[p][r] = None
  <2>1. s # r
    BY <1>2 DEF Leases!StartTurn, Leases!Claimable
  <2> DEFINE new == [query |-> q, reason |-> "none", age |-> 0]
  <2>2. turn' = [turn EXCEPT ![w] = [turn[w] EXCEPT ![s] = new]]
    BY <1>2 DEF Leases!StartTurn, Leases!TypeOK
  <2> HIDE DEF new
  <2>3. QED BY <2>1, <2>2 DEF Leases!TypeOK
<1>3. ASSUME NEW w \in Process, NEW s \in Room, Leases!FinishTurn(w, s)
      PROVE  turn'[p][r] = None
  BY <1>3 DEF Leases!FinishTurn, Leases!TypeOK
<1>4. ASSUME NEW w \in Process, Leases!Crash(w)
      PROVE  turn'[p][r] = None
  BY <1>4 DEF Leases!Crash, Leases!TypeOK
<1>5. QED
  BY <1>1, <1>2, <1>3, <1>4, StepKinds

(* A guarded operation's topic is fenced.                                    *)
LEMMA GuardedIsFenced ==
  ASSUME TypeOK, Guarded, TimelyFence, NEW o \in Op, op[o] # None
  PROVE  op[o].room \in Fenced
<1>1. op[o] \in Handle /\ fence[op[o].room] \in FenceRow
  BY DEF TypeOK, Handle
<1>2. op[o].age <= FenceStale
  BY <1>1 DEF Handle, TimelyFence
<1>3. QED
  BY <1>1, <1>2 DEF Guarded, IsOwned, Matches, Fenced, Held, Stale, Handle, FenceRow

(* With timely heartbeats no operation loses its fence while it runs.        *)
THEOREM GuardHolds ==
  ASSUME TimelyFence
  PROVE  Spec => []Guarded
<1>1. Init => Guarded
  BY DEF Init, Guarded
<1>2. TypeOK /\ TypeOK' /\ Guarded /\ [Next]_vars => Guarded'
  <2> SUFFICES ASSUME TypeOK, TypeOK', Guarded, [Next]_vars,
                      NEW w \in Op, op'[w] # None
               PROVE  IsOwned(w)' /\ fence'[op'[w].room].age <= op'[w].age
    BY DEF Guarded
  <2> USE DEF IsOwned, Matches
  <2>1. ASSUME op[w] # None, op'[w] = op[w], fence'[op[w].room] = fence[op[w].room]
        PROVE  IsOwned(w)' /\ fence'[op'[w].room].age <= op'[w].age
    BY <2>1 DEF Guarded
  <2>2. ASSUME NEW o \in Op, NEW r \in Room, Begin(o, r)
        PROVE  IsOwned(w)' /\ fence'[op'[w].room].age <= op'[w].age
    <3>1. CASE o = w
      BY <2>2, <3>1 DEF Begin, TypeOK
    <3>2. CASE o # w
      <4>1. op'[w] = op[w]
        BY <2>2, <3>2 DEF Begin, TypeOK
      <4>2. op[w].room # r
        BY <2>2, <4>1, GuardedIsFenced DEF Begin
      <4>3. fence'[op[w].room] = fence[op[w].room]
        BY <2>2, <4>1, <4>2 DEF Begin, TypeOK, Handle
      <4>4. QED BY <2>1, <4>1, <4>3
    <3>3. QED BY <3>1, <3>2
  <2>3. ASSUME NEW o \in Op,
               StopTurns(o) \/ Quiesced(o) \/ FoundQuiet(o) \/ ForceDelete(o) \/ Destroy(o)
        PROVE  IsOwned(w)' /\ fence'[op'[w].room].age <= op'[w].age
    <3>1. fence' = fence /\ op[w] # None
      BY <2>3 DEF StopTurns, Quiesced, FoundQuiet, ForceDelete, Destroy, TypeOK
    <3>2. PICK ph \in Phase : op' = [op EXCEPT ![o].phase = ph]
      BY <2>3 DEF StopTurns, Quiesced, FoundQuiet, ForceDelete, Destroy, Phase
    <3>3. op'[w].room = op[w].room /\ op'[w].epoch = op[w].epoch
            /\ op'[w].lost = op[w].lost /\ op'[w].age = op[w].age
      BY <3>1, <3>2 DEF TypeOK, Handle
    <3>4. QED BY <3>1, <3>3 DEF Guarded
  <2>4. ASSUME NEW o \in Op, NEW deleteState \in BOOLEAN, Finish(o, deleteState)
        PROVE  IsOwned(w)' /\ fence'[op'[w].room].age <= op'[w].age
    <3>1. o # w /\ op'[w] = op[w] /\ op[w] # None
      BY <2>4 DEF Finish, TypeOK
    <3>2. op[o].room # op[w].room
      BY <2>4, <3>1 DEF Finish, Guarded
    <3>3. fence'[op[w].room] = fence[op[w].room]
      BY <2>4, <3>1, <3>2 DEF Finish, TypeOK, Handle
    <3>4. QED BY <2>1, <3>1, <3>3
  <2>5. ASSUME NEW o \in Op, FenceBeat(o)
        PROVE  IsOwned(w)' /\ fence'[op'[w].room].age <= op'[w].age
    <3>1. Matches(o)
      BY <2>5 DEF FenceBeat, Guarded
    <3> DEFINE row == [fence[op[o].room] EXCEPT !.age = 0]
               new == [op[o] EXCEPT !.age = 0]
    <3>2. fence' = [fence EXCEPT ![op[o].room] = row] /\ op' = [op EXCEPT ![o] = new]
            /\ op[o].room \in Room
      BY <2>5, <3>1 DEF FenceBeat, TypeOK, Handle
    <3>3. /\ row.age = 0 /\ row.owner = o /\ row.epoch = op[o].epoch
          /\ new.age = 0 /\ new.room = op[o].room /\ new.epoch = op[o].epoch
          /\ new.lost = op[o].lost /\ ~new.lost
      BY <2>5, <3>1, <3>2 DEF FenceBeat, TypeOK, Handle, FenceRow
    <3> HIDE DEF row, new
    <3>4. CASE o = w
      BY <3>2, <3>3, <3>4 DEF TypeOK
    <3>5. CASE o # w
      <4>1. op'[w] = op[w] /\ op[w] # None
        BY <3>2, <3>5 DEF TypeOK
      <4>2. op[o].room # op[w].room
        BY <3>1, <3>5, <4>1 DEF Guarded
      <4>3. fence'[op[w].room] = fence[op[w].room]
        BY <3>2, <4>1, <4>2 DEF TypeOK, Handle
      <4>4. QED BY <2>1, <4>1, <4>3
    <3>6. QED BY <3>4, <3>5
  <2>6. ASSUME NEW p \in Process, Crash(p)
        PROVE  IsOwned(w)' /\ fence'[op'[w].room].age <= op'[w].age
    <3>1. op'[w] = op[w] /\ op[w] # None /\ fence' = fence
      BY <2>6 DEF Crash, TypeOK
    <3>2. QED BY <2>1, <3>1
  <2>7. ASSUME Tick
        PROVE  IsOwned(w)' /\ fence'[op'[w].room].age <= op'[w].age
    <3>1. op[w] # None /\ Beating(w)
      BY <2>7 DEF Tick, Beating, Guarded
    <3> DEFINE r == op[w].room
    <3>2. /\ op[w] \in Handle /\ r \in Room /\ fence[r] \in FenceRow
          /\ op[w].age \in Nat /\ fence[r].age \in Nat /\ fence[r].age <= op[w].age
      BY <3>1 DEF TypeOK, Handle, FenceRow, Guarded
    <3>3. op'[w] = [op[w] EXCEPT !.age = op[w].age + 1]
      BY <2>7, <3>1 DEF Tick
    <3>4. /\ op'[w].room = r /\ op'[w].epoch = op[w].epoch /\ op'[w].lost = op[w].lost
          /\ op'[w].age = op[w].age + 1
      BY <3>2, <3>3 DEF Handle
    <3>5. fence'[r] = Older(fence[r])
      BY <2>7, <3>2 DEF Tick
    <3>6. /\ fence'[r].owner = fence[r].owner /\ fence'[r].epoch = fence[r].epoch
          /\ fence'[r].age <= fence[r].age + 1 /\ fence'[r].age \in Nat
      BY <3>2, <3>5 DEF Older, FenceRow
    <3> HIDE DEF r
    <3>7. fence[r].owner = w /\ fence[r].epoch = op[w].epoch /\ ~op[w].lost
      BY <3>1 DEF Guarded, r
    <3>8. QED BY <3>1, <3>2, <3>4, <3>6, <3>7
  <2>8. CASE TurnStep \/ UNCHANGED vars
    BY <2>1, <2>8 DEF TurnStep, fenceVars, vars
  <2>9. QED
    BY <2>2, <2>3, <2>4, <2>5, <2>6, <2>7, <2>8 DEF Next, OpStep
<1>3. QED BY <1>1, <1>2, TypeCorrect, PTL DEF Spec

-----------------------------------------------------------------------------
(* Operations whose fenceTopicWork returned without an error.                *)
Excluding(o) == op[o] # None /\ op[o].phase \in {"exclusive", "destroying"}

Exclusive ==
  \A o \in Op, p \in Process : Excluding(o) => turn[p][op[o].room] = None

LEMMA BecomesExclusive ==
  ASSUME TypeOK, [Next]_vars, NEW o \in Op, Excluding(o)'
  PROVE  /\ op[o] # None /\ op'[o].room = op[o].room
         /\ \/ Excluding(o)
            \/ /\ Quiet(Home[o], op[o].room)
               /\ UNCHANGED <<lease, turn>>
<1> USE DEF Excluding
<1>1. ASSUME NEW w \in Op, NEW r \in Room, Begin(w, r)
      PROVE  op'[o] = op[o]
  <2>1. w # o
    BY <1>1 DEF Begin, TypeOK
  <2>2. QED BY <1>1, <2>1 DEF Begin, TypeOK
<1>2. ASSUME NEW w \in Op, StopTurns(w) \/ ForceDelete(w)
      PROVE  op'[o] = op[o]
  <2>1. w # o
    BY <1>2 DEF StopTurns, ForceDelete, TypeOK, Handle
  <2>2. QED BY <1>2, <2>1 DEF StopTurns, ForceDelete, TypeOK
<1>3. ASSUME NEW w \in Op, Quiesced(w) \/ FoundQuiet(w)
      PROVE  \/ op'[o] = op[o]
             \/ /\ op[o] # None /\ op'[o].room = op[o].room
                /\ Quiet(Home[o], op[o].room)
                /\ UNCHANGED <<lease, turn>>
  BY <1>3 DEF Quiesced, FoundQuiet, TypeOK, Handle
<1>4. ASSUME NEW w \in Op, Destroy(w)
      PROVE  op[o] # None /\ op'[o].room = op[o].room /\ Excluding(o)
  BY <1>4 DEF Destroy, TypeOK, Handle
<1>5. ASSUME NEW w \in Op, NEW deleteState \in BOOLEAN, Finish(w, deleteState)
      PROVE  op'[o] = op[o]
  BY <1>5 DEF Finish, TypeOK
<1>6. ASSUME NEW w \in Op, FenceBeat(w)
      PROVE  op[o] # None /\ op'[o].room = op[o].room /\ op'[o].phase = op[o].phase
  <2>1. CASE op' = [op EXCEPT ![w].age = 0]
    BY <1>6, <2>1 DEF FenceBeat, TypeOK, Handle
  <2>2. CASE op' = [op EXCEPT ![w].lost = TRUE]
    BY <1>6, <2>2 DEF FenceBeat, TypeOK, Handle
  <2>3. QED BY <1>6, <2>1, <2>2 DEF FenceBeat
<1>7. ASSUME NEW p \in Process, Crash(p)
      PROVE  op'[o] = op[o]
  BY <1>7 DEF Crash, TypeOK
<1>8. ASSUME Tick
      PROVE  op[o] # None /\ op'[o].room = op[o].room /\ op'[o].phase = op[o].phase
  BY <1>8 DEF Tick, Beating, TypeOK, Handle
<1>9. CASE TurnStep \/ UNCHANGED vars
  BY <1>9 DEF TurnStep, fenceVars, vars
<1>10. QED
  BY <1>1, <1>2, <1>3, <1>4, <1>5, <1>6, <1>7, <1>8, <1>9 DEF Next, OpStep

(* session.ts: "a superseded owner cannot purge a newer session created by   *)
(* another process".  With timely heartbeats of both kinds no process runs a *)
(* turn while a maintenance operation works under its fence.                 *)
THEOREM FenceExcludesTurns ==
  ASSUME Leases!TimelyHeartbeats, TimelyFence
  PROVE  Spec => []WorkIsExclusive
<1>1. Init => Exclusive
  BY DEF Init, Exclusive, Excluding
<1>2. /\ TypeOK /\ Guarded /\ Leases!TypeOK /\ RunningIsVisible
      /\ Exclusive /\ [Next]_vars /\ [Leases!Next]_(Leases!vars)
      => Exclusive'
  <2> SUFFICES ASSUME TypeOK, Guarded, Leases!TypeOK, RunningIsVisible,
                      Exclusive, [Next]_vars, [Leases!Next]_(Leases!vars),
                      NEW o \in Op, NEW p \in Process, Excluding(o)'
               PROVE  turn'[p][op'[o].room] = None
    BY DEF Exclusive
  <2> DEFINE r == op[o].room
  <2>1. op[o] # None /\ op'[o].room = r /\ r \in Room
    BY BecomesExclusive DEF TypeOK, Handle
  <2>2. CASE Excluding(o)
    <3>1. turn[p][r] = None
      BY <2>2 DEF Exclusive
    <3>2. r \in Fenced
      BY <2>1, GuardedIsFenced
    <3> HIDE DEF r
    <3>3. QED BY <2>1, <3>1, <3>2, FenceKeepsOut
  <2>3. CASE Quiet(Home[o], r) /\ UNCHANGED <<lease, turn>>
    <3>1. ~Leases!IsTopicRunning(Home[o], r)
      BY <2>3 DEF Quiet, Leases!IsTopicRunning, Leases!Fresh
    <3>2. turn[p][r] = None
      BY <2>1, <3>1 DEF RunningIsVisible, Leases!RunningIsVisible
    <3>3. QED BY <2>1, <2>3, <3>2
  <2>4. QED BY <2>2, <2>3, BecomesExclusive
<1>3. Exclusive => WorkIsExclusive
  BY DEF Exclusive, Excluding, WorkIsExclusive
<1>4. QED
  BY <1>1, <1>2, <1>3, TypeCorrect, GuardHolds, LeasesBelow, Visibility, PTL DEF Spec

(* Two operations never both believe that they hold a topic.                 *)
THEOREM SingleMaintainer ==
  ASSUME TimelyFence
  PROVE  Spec => []OneMaintainer
<1>1. Guarded => OneMaintainer
  BY DEF Guarded, IsOwned, Matches, OneMaintainer
<1>2. QED BY <1>1, GuardHolds, PTL

(* Even when heartbeats are late: a handle whose row belongs to someone else *)
(* changes nothing of that row.                                              *)
THEOREM LostHandles == Spec => LostHandleIsHarmless
<1> DEFINE Harmless ==
      \A o, w \in Op :
        /\ o # w
        /\ op[o] # None /\ op'[o] # op[o]
        /\ fence[op[o].room].owner = w
        => LET row == fence[op[o].room]
               new == fence'[op[o].room]
           IN  new.owner = w /\ new.epoch = row.epoch /\ new.age >= row.age
<1>1. TypeOK /\ [Next]_vars => [Harmless]_vars
  <2> SUFFICES ASSUME TypeOK, [Next]_vars, NEW o \in Op, NEW w \in Op,
                      o # w, op[o] # None, op'[o] # op[o],
                      NEW r \in Room, r = op[o].room, fence[r].owner = w
               PROVE  /\ fence'[r].owner = w /\ fence'[r].epoch = fence[r].epoch
                      /\ fence'[r].age >= fence[r].age
    BY DEF TypeOK, Handle
  <2>1. fence[r] \in FenceRow /\ fence[r].age >= fence[r].age /\ ~Matches(o)
    BY DEF TypeOK, FenceRow, Matches
  <2>2. ASSUME NEW x \in Op, OpStep(x)
        PROVE  fence' = fence
    <3>1. x = o
      BY <2>2 DEF OpStep, Begin, StopTurns, Quiesced, FoundQuiet, ForceDelete,
                  Destroy, Finish, FenceBeat, TypeOK
    <3>2. QED
      BY <2>1, <2>2, <3>1 DEF OpStep, Begin, StopTurns, Quiesced, FoundQuiet,
                  ForceDelete, Destroy, Finish, FenceBeat, IsOwned
  <2>3. ASSUME NEW p \in Process, Crash(p)
        PROVE  fence' = fence
    BY <2>3 DEF Crash
  <2>4. ASSUME Tick
        PROVE  /\ fence'[r].owner = w /\ fence'[r].epoch = fence[r].epoch
               /\ fence'[r].age >= fence[r].age
    <3>1. fence'[r] = Older(fence[r])
      BY <2>4 DEF Tick
    <3>2. QED BY <2>1, <3>1 DEF Older, FenceRow
  <2>5. CASE TurnStep \/ UNCHANGED vars
    BY <2>5 DEF TurnStep, fenceVars, vars
  <2>6. QED BY <2>1, <2>2, <2>3, <2>4, <2>5 DEF Next
<1>2. QED BY <1>1, TypeCorrect, PTL DEF Spec, LostHandleIsHarmless
=============================================================================
