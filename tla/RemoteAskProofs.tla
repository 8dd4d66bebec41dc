--------------------------- MODULE RemoteAskProofs ---------------------------
(***************************************************************************)
(* Machine-checked facts about asks through the hub, for every set of      *)
(* processes and asks, every number of faults and every class of age.      *)
(***************************************************************************)
EXTENDS RemoteAsk, TLAPS

USE MaxAgeAssumption, AnsweredAssumption, FaultAssumption, TimingAssumption,
    HubAssumption, NoneAssumption

-----------------------------------------------------------------------------
(* The helpers that compute a row, a call or a claim, typed.               *)
Spots == {"marker", "dispatch", "hub", "release", "park", "drop"}

LEMMA MovedType ==
  ASSUME TypeOK, NEW r \in Ask, NEW from \in State, NEW to \in State
  PROVE  /\ Moved(r, from, to) \in [Ask -> Row \cup {None}]
         /\ Dropped(r, from) \in [Ask -> Row \cup {None}]
<1>1. CASE InState(r, {from})
  <2>1. row[r] \in Row /\ [row[r] EXCEPT !.state = to] \in Row
    BY <1>1 DEF InState, TypeOK, Row
  <2>2. QED BY <1>1, <2>1 DEF Moved, Dropped, TypeOK
<1>2. CASE ~InState(r, {from})
  BY <1>2 DEF Moved, Dropped, TypeOK
<1>3. QED BY <1>1, <1>2

(* A call that goes on is the same call at another step. *)
LEMMA CallGoes ==
  ASSUME TypeOK, NEW s \in Ask, Underway(s), NEW place \in Spots, Goes(s, place)
  PROVE  /\ call' \in [Ask -> Call \cup {None, Ended}]
         /\ call[s] \in Call /\ call'[s] \in Call
         /\ call'[s].at = place /\ call'[s].from = call[s].from /\ call'[s].by = call[s].by
         /\ \A r \in Ask \ {s} : call'[r] = call[r]
<1>1. call \in [Ask -> Call \cup {None, Ended}] /\ call[s] \in Call
  BY DEF Underway, TypeOK
<1>2. call' = [call EXCEPT ![s] = [call[s] EXCEPT !.at = place]]
  BY DEF Goes
<1>3. [call[s] EXCEPT !.at = place] \in Call
  BY <1>1 DEF Call, Spots
<1>4. call'[s] = [call[s] EXCEPT !.at = place] /\ \A r \in Ask \ {s} : call'[r] = call[r]
  BY <1>1, <1>2
<1>5. QED BY <1>1, <1>2, <1>3, <1>4 DEF Call

LEMMA CallEnds ==
  ASSUME TypeOK, NEW s \in Ask, Over(s)
  PROVE  /\ call' \in [Ask -> Call \cup {None, Ended}]
         /\ call'[s] = Ended
         /\ \A r \in Ask \ {s} : call'[r] = call[r]
BY DEF Over, TypeOK

LEMMA JobType ==
  ASSUME TypeOK, NEW p \in Process, NEW r \in Ask, NEW work \in Work \cup {None},
         Does(p, r, work)
  PROVE  job' \in [Process -> [Ask -> Work \cup {None}]]
BY DEF Does, TypeOK

LEMMA ClaimType ==
  ASSUME TypeOK, NEW p \in Process, NEW r \in Ask
  PROVE  /\ Taken(p, r) \in [Ask -> Claim \cup {None}]
         /\ claim[r] # None =>
              /\ claim[r] \in Claim
              /\ [claim EXCEPT ![r].done = TRUE] \in [Ask -> Claim \cup {None}]
              /\ [claim EXCEPT ![r].live = FALSE] \in [Ask -> Claim \cup {None}]
<1>1. [owner |-> p, live |-> TRUE, done |-> FALSE] \in Claim
  BY DEF Claim
<1>2. claim \in [Ask -> Claim \cup {None}]
  BY DEF TypeOK
<1>3. ASSUME claim[r] # None
      PROVE  /\ claim[r] \in Claim
             /\ [claim EXCEPT ![r].done = TRUE] \in [Ask -> Claim \cup {None}]
             /\ [claim EXCEPT ![r].live = FALSE] \in [Ask -> Claim \cup {None}]
  <2>1. claim[r] \in Claim
    BY <1>2, <1>3
  <2>2. /\ [claim[r] EXCEPT !.done = TRUE] \in Claim
        /\ [claim[r] EXCEPT !.live = FALSE] \in Claim
    BY <2>1 DEF Claim
  <2>3. QED BY <1>2, <2>1, <2>2
<1>4. QED BY <1>1, <1>2, <1>3 DEF Taken

LEMMA FaultType == TypeOK /\ MayFail => faults' \in 0..MaxFaults
BY DEF TypeOK, MayFail

LEMMA Places ==
  /\ {"prepared", "dispatched", "abandoned", "sent", "unknown", "expired"} \subseteq State
  /\ {"claim", "check", "ready", "deliver", "queued", "tell", "recheck", "notice"}
       \subseteq Work \cup {None}
  /\ None \in Work \cup {None}
  /\ None \notin {"claim", "check", "ready", "deliver", "queued", "tell", "recheck", "notice"}
BY DEF State, Work

-----------------------------------------------------------------------------
(* The marker file.  Whoever is at it is there for its call, or for the    *)
(* row of its reconciliation; and it opens the file twice at most.         *)
Counted(p) == io[p] # None /\ io[p].at \in {"look", "open"} => io[p].tries < 2

Placed(p) ==
  io[p] # None =>
    LET r == io[p].ask IN
    /\ Counted(p)
    /\ io[p].op = "create" => Underway(r) /\ call[r].by = p /\ call[r].at = "marker"
    /\ io[p].op = "retire" => Underway(r) /\ call[r].by = p /\ call[r].at = "release"
    /\ io[p].op = "reconcile" <=> fix[p] # None
    /\ fix[p] # None => fix[p].ask = r

(* The steps of a call are the only thing that its process does, but for   *)
(* the wait for the hub.                                                   *)
Busy(p, r) == Underway(r) /\ call[r].by = p /\ call[r].at # "hub"

Sole(p) ==
  \A r \in Ask :
    Busy(p, r) =>
      /\ fix[p] = None
      /\ \A s \in Ask : Busy(p, s) => s = r
      /\ io[p] # None => io[p].op \in {"create", "retire"} /\ io[p].ask = r

PlacedInv == \A p \in Process : Placed(p) /\ Sole(p)

Ops == {"create", "retire", "reconcile", "clear", "refresh", "inject", "sweep"}
Looks == {"look", "unlink", "confirm", "open", "examine", "write"}

(* p is at the file from now on.                                           *)
IsAt(p, op, r, place) ==
  /\ io' \in [Process -> File \cup {None}]
  /\ io'[p] \in File /\ io'[p].op = op /\ io'[p].ask = r /\ io'[p].at = place
  /\ \A q \in Process \ {p} : io'[q] = io[q]

LEMMA StartsIs ==
  ASSUME TypeOK, NEW p \in Process, NEW op \in Ops, NEW r \in Ask, NEW place \in Looks,
         Starts(p, op, r, place)
  PROVE  IsAt(p, op, r, place) /\ Counted(p)'
<1>1. [op |-> op, ask |-> r, at |-> place, tries |-> 0] \in File
  BY DEF File, Ops, Looks
<1>2. QED BY <1>1 DEF Starts, IsAt, TypeOK, Counted

LEMMA ThenIs ==
  ASSUME TypeOK, NEW p \in Process, io[p] # None, NEW place \in Looks, Then(p, place)
  PROVE  IsAt(p, io[p].op, io[p].ask, place) /\ io'[p].tries = io[p].tries
<1>1. io[p] \in File /\ io \in [Process -> File \cup {None}]
  BY DEF TypeOK
<1>2. [io[p] EXCEPT !.at = place] \in File
  BY <1>1 DEF File, Looks
<1>3. io' = [io EXCEPT ![p] = [io[p] EXCEPT !.at = place]]
  BY DEF Then
<1>4. io'[p] = [io[p] EXCEPT !.at = place]
  BY <1>1, <1>3
<1>5. QED BY <1>1, <1>2, <1>3, <1>4 DEF IsAt, File

LEMMA DoneIs ==
  ASSUME TypeOK, NEW p \in Process, Done(p)
  PROVE  /\ io' \in [Process -> File \cup {None}]
         /\ io'[p] = None
         /\ \A q \in Process \ {p} : io'[q] = io[q]
BY DEF Done, TypeOK

LEMMA MarkerType ==
  ASSUME TypeOK, NEW p \in Process, io[p] # None
  PROVE  /\ io[p] \in File /\ io[p].ask \in Ask /\ io[p].op \in Ops
         /\ Empty(io[p].ask) \in Marker /\ Written(io[p].ask) \in Marker
         /\ Victims(p) \subseteq Ask /\ Regained(p) \subseteq Ask
         /\ marker # None => marker \in Marker
<1>1. io[p] \in File /\ io[p].ask \in Ask /\ io[p].op \in Ops
  BY DEF TypeOK, File, Ops
<1>2. marker # None => marker \in Marker /\ marker.of \in Ask
  BY DEF TypeOK, Marker
<1>3. QED BY <1>1, <1>2 DEF Empty, Written, Marker, Victims, Regained

(* How a step at the file may leave p: still at the same work; releasing   *)
(* what it could not create; clearing what it has rewritten; or done.      *)
Continuing(p) ==
  /\ io'[p] \in File /\ io'[p].op = io[p].op /\ io'[p].ask = io[p].ask
  /\ UNCHANGED <<call, fix>>
Throwing(p) ==
  /\ io[p].op = "create"
  /\ IsAt(p, "retire", io[p].ask, "look")
  /\ Goes(io[p].ask, "release")
  /\ UNCHANGED fix
Turning(p) ==
  /\ io[p].op = "inject"
  /\ IsAt(p, "clear", io[p].ask, "look")
  /\ UNCHANGED <<call, fix>>
Finishing(p) ==
  /\ io'[p] = None
  /\ \/ UNCHANGED call
     \/ io[p].op = "create" /\ Goes(io[p].ask, "drop")
     \/ io[p].op = "create" /\ Goes(io[p].ask, "dispatch")
     \/ io[p].op = "retire" /\ Goes(io[p].ask, "drop")
     \/ io[p].op = "retire" /\ Goes(io[p].ask, "park")
  /\ UNCHANGED fix \/ fix' = [fix EXCEPT ![p] = None]

Filed(p) ==
  /\ UNCHANGED <<up, row, hub, claim, job, due, clear, answers, notices>>
  /\ io' \in [Process -> File \cup {None}]
  /\ \A q \in Process \ {p} : io'[q] = io[q]
  /\ marker' \in Marker \cup {None} /\ desc' \subseteq Process
  /\ robbed' \subseteq Ask /\ revived' \subseteq Ask /\ faults' \in 0..MaxFaults
  /\ Counted(p)'
  /\ Continuing(p) \/ Throwing(p) \/ Turning(p) \/ Finishing(p)

LEMMA FilingIs ==
  ASSUME TypeOK, PlacedInv, NEW p \in Process, Filing(p)
  PROVE  io[p] # None /\ Filed(p)
<1>1. io[p] # None
  BY DEF Filing, Creating, Clearing, Refreshing, LookToCreate, OpenMarker, Examine,
     WriteMarker, LookToClear, UnlinkMarker, Confirm, Truncate, Rewrite, UnlinkStale, Doing
<1>2. /\ io[p] \in File /\ io[p].ask \in Ask /\ io[p].op \in Ops
      /\ Empty(io[p].ask) \in Marker /\ Written(io[p].ask) \in Marker
      /\ Victims(p) \subseteq Ask /\ Regained(p) \subseteq Ask
  BY <1>1, MarkerType
<1>3. UNCHANGED <<up, row, hub, claim, job, due, clear, answers, notices>>
  BY DEF Filing, Creating, Clearing, Refreshing, LookToCreate, OpenMarker, Examine,
     WriteMarker, LookToClear, UnlinkMarker, Confirm, Truncate, Rewrite, UnlinkStale,
     memory, told
<1>4. /\ marker \in Marker \cup {None} /\ desc \subseteq Process
      /\ robbed \subseteq Ask /\ revived \subseteq Ask /\ faults \in 0..MaxFaults
  BY DEF TypeOK
<1>5. /\ marker' \in Marker \cup {None} /\ desc' \subseteq Process
      /\ robbed' \subseteq Ask /\ revived' \subseteq Ask /\ faults' \in 0..MaxFaults
  <2>1. CASE LookToCreate(p) \/ Examine(p) \/ LookToClear(p)
    BY <1>4, <2>1 DEF LookToCreate, Examine, LookToClear, file, past
  <2>2. CASE OpenMarker(p)
    BY <1>2, <1>4, <2>2, FaultType DEF OpenMarker, file, past
  <2>3. CASE WriteMarker(p)
    BY <1>2, <1>4, <2>3, FaultType DEF WriteMarker, past
  <2>4. CASE UnlinkMarker(p)
    BY <1>2, <1>4, <2>4, FaultType DEF UnlinkMarker, Unlinked, file
  <2>5. CASE UnlinkStale(p)
    BY <1>2, <1>4, <2>5, FaultType DEF UnlinkStale, Unlinked, file
  <2>6. CASE Confirm(p)
    BY <1>2, <1>4, <2>6 DEF Confirm, file
  <2>7. CASE Truncate(p)
    BY <1>2, <1>4, <2>7, FaultType DEF Truncate, file, past
  <2>8. CASE Rewrite(p)
    BY <1>2, <1>4, <2>8, FaultType DEF Rewrite
  <2>9. QED BY <2>1, <2>2, <2>3, <2>4, <2>5, <2>6, <2>7, <2>8
            DEF Filing, Creating, Clearing, Refreshing
<1> DEFINE Io == /\ io' \in [Process -> File \cup {None}]
                 /\ \A q \in Process \ {p} : io'[q] = io[q]
                 /\ Counted(p)'
           Left == Continuing(p) \/ Throwing(p) \/ Turning(p) \/ Finishing(p)
<1>6. ASSUME NEW place \in {"drop", "dispatch"}, Created(p, place), io[p].op = "create",
             UNCHANGED fix
      PROVE  Io /\ Left
  BY <1>6, DoneIs DEF Created, Finishing, Goes, Counted
<1>7. ASSUME CreateThrows(p), io[p].op = "create", UNCHANGED fix
      PROVE  Io /\ Left
  <2>1. IsAt(p, "retire", io[p].ask, "look") /\ Counted(p)'
    BY <1>2, <1>7, StartsIs DEF CreateThrows, Ops, Looks
  <2>2. Goes(io[p].ask, "release")
    BY <1>7 DEF CreateThrows, Goes
  <2>3. QED BY <1>7, <2>1, <2>2 DEF Throwing, IsAt
<1>8. ASSUME NEW place \in Looks, Then(p, place), UNCHANGED <<call, fix>>,
             place \in {"look", "open"} => io[p].tries < 2
      PROVE  Io /\ Left
  <2>1. IsAt(p, io[p].op, io[p].ask, place) /\ io'[p].tries = io[p].tries
    BY <1>1, <1>8, ThenIs
  <2>2. QED BY <1>8, <2>1 DEF IsAt, Continuing, Counted
<1>9. ASSUME Done(p), UNCHANGED <<call, fix>>
      PROVE  Io /\ Left
  BY <1>9, DoneIs DEF Finishing, Counted
<1>10. ASSUME NEW gone \in BOOLEAN, Cleared(p, gone)
       PROVE  Io /\ Left
  <2>1. Io /\ io'[p] = None
    BY <1>10, DoneIs DEF Cleared, Counted
  <2>2. UNCHANGED fix \/ fix' = [fix EXCEPT ![p] = None]
    BY <1>10, Zenon DEF Cleared
  <2>3. \/ UNCHANGED call
        \/ io[p].op = "retire" /\ Goes(io[p].ask, "drop")
        \/ io[p].op = "retire" /\ Goes(io[p].ask, "park")
    BY <1>10 DEF Cleared, Goes
  <2>4. QED BY <2>1, <2>2, <2>3 DEF Finishing
<1> HIDE DEF Io, Left
<1>11. Io /\ Left
  <2>1. CASE LookToCreate(p) \/ Examine(p)
    <3>1. io[p].op = "create" /\ UNCHANGED fix
      BY <2>1 DEF LookToCreate, Examine, Doing, memory
    <3>2. CASE Created(p, "drop")
      BY <3>1, <3>2, <1>6
    <3>3. CASE Then(p, "unlink") /\ UNCHANGED call
      BY <3>1, <3>3, <1>8 DEF Looks
    <3>4. CASE LookToCreate(p) /\ Then(p, "open") /\ UNCHANGED call
      <4>1. io[p].tries < 2
        BY <1>1, <3>4 DEF PlacedInv, Placed, Counted, LookToCreate, Doing
      <4>2. QED BY <3>1, <3>4, <4>1, <1>8 DEF Looks
    <3>5. QED BY <2>1, <3>2, <3>3, <3>4 DEF LookToCreate, Examine
  <2>2. CASE OpenMarker(p)
    <3>1. io[p].op = "create" /\ UNCHANGED fix
      BY <2>2 DEF OpenMarker, Doing, memory
    <3>2. CASE Then(p, "write") /\ UNCHANGED call
      BY <3>1, <3>2, <1>8 DEF Looks
    <3>3. CASE marker # None /\ io' = [io EXCEPT ![p].at = "examine", ![p].tries = @ + 1]
               /\ UNCHANGED call
      <4>1. io[p].tries \in 0..1
        BY <1>1, <1>2, <2>2 DEF PlacedInv, Placed, Counted, OpenMarker, Doing, File
      <4>2. [io[p] EXCEPT !.at = "examine", !.tries = @ + 1] \in File
        <5>1. PICK n \in 0..2 : n = io[p].tries + 1
          BY <4>1
        <5>2. [io[p] EXCEPT !.at = "examine", !.tries = n] \in File
          BY <1>2 DEF File
        <5>3. QED BY <5>1, <5>2
      <4>3. /\ io'[p] = [io[p] EXCEPT !.at = "examine", !.tries = @ + 1]
            /\ \A q \in Process \ {p} : io'[q] = io[q]
            /\ io' \in [Process -> File \cup {None}]
        BY <3>3, <4>2 DEF TypeOK
      <4>4. io'[p].at = "examine" /\ io'[p].op = io[p].op /\ io'[p].ask = io[p].ask
        BY <1>2, <4>3 DEF File
      <4>5. Continuing(p)
        BY <3>1, <3>3, <4>2, <4>3, <4>4 DEF Continuing
      <4>6. Counted(p)'
        BY <4>4 DEF Counted
      <4>7. Io
        BY <4>3, <4>6, Zenon DEF Io
      <4>8. QED BY <4>5, <4>7, Zenon DEF Left
    <3>4. CASE CreateThrows(p)
      BY <3>1, <3>4, <1>7
    <3>5. QED BY <2>2, <3>2, <3>3, <3>4 DEF OpenMarker
  <2>3. CASE WriteMarker(p)
    BY <2>3, <1>6, <1>7 DEF WriteMarker, Doing, memory
  <2>4. CASE LookToClear(p)
    BY <2>4, <1>8, <1>9 DEF LookToClear, memory, Looks
  <2>5. CASE UnlinkMarker(p)
    BY <2>5, <1>8, <1>9, <1>10 DEF UnlinkMarker, Looks
  <2>6. CASE Confirm(p)
    BY <2>6, <1>10 DEF Confirm, Names
  <2>7. CASE Truncate(p)
    BY <2>7, <1>8, <1>9 DEF Truncate, memory, Looks
  <2>8. CASE Rewrite(p)
    <3>1. UNCHANGED <<call, fix>>
      BY <2>8 DEF Rewrite, memory
    <3>2. CASE Done(p)
      BY <3>1, <3>2, <1>9
    <3>3. CASE io[p].op = "inject" /\ Starts(p, "clear", io[p].ask, "look")
      <4>1. IsAt(p, "clear", io[p].ask, "look") /\ Counted(p)'
        BY <1>2, <3>3, StartsIs DEF Ops, Looks
      <4>2. QED BY <3>1, <3>3, <4>1 DEF Io, Left, Turning, IsAt
    <3>4. QED BY <2>8, <3>2, <3>3 DEF Rewrite
  <2>9. CASE UnlinkStale(p)
    <3>1. io[p].op \in {"create", "sweep"} /\ UNCHANGED fix
      BY <2>9 DEF UnlinkStale, Doing, memory
    <3>2. CASE io[p].op = "create" /\ io[p].tries < 2 /\ Then(p, "open") /\ UNCHANGED call
      BY <3>1, <3>2, <1>8 DEF Looks
    <3>3. CASE io[p].op = "create" /\ Created(p, "drop")
      BY <3>1, <3>3, <1>6
    <3>4. CASE Done(p) /\ UNCHANGED call
      BY <3>1, <3>4, <1>9
    <3>5. QED BY <2>9, <3>2, <3>3, <3>4 DEF UnlinkStale
  <2>10. QED BY <2>1, <2>2, <2>3, <2>4, <2>5, <2>6, <2>7, <2>8, <2>9
            DEF Filing, Creating, Clearing, Refreshing
<1>12. QED BY <1>1, <1>3, <1>5, <1>11 DEF Filed, Io, Left

-----------------------------------------------------------------------------
(* The step of a call that is under way: it ends, waits for the hub, or    *)
(* starts to release its marker.                                           *)
Parting(s) ==
  \/ Over(s) /\ UNCHANGED io
  \/ /\ call[s].at = "dispatch" /\ UNCHANGED io
     /\ call' = [call EXCEPT ![s].at = "hub", ![s].from = "dispatched"]
  \/ Releases(s)

LEMMA AskingIs ==
  ASSUME TypeOK, PlacedInv, NEW p \in Process, NEW s \in Ask, Asking(p, s), call[s] # None
  PROVE  /\ Underway(s) /\ call[s] \in Call
         /\ call[s].at \in {"dispatch", "hub", "park", "drop"}
         /\ call[s].by \in Process /\ io[call[s].by] = None /\ fix[call[s].by] = None
         /\ \A r \in Ask : Busy(call[s].by, r) => r = s
         /\ Parting(s)
         /\ UNCHANGED <<up, marker, desc, hub, claim, job, fix, due, clear, answers,
                       notices, robbed, revived>>
         /\ faults' \in 0..MaxFaults
<1> USE DEF Asking, Begin, Dispatch, DispatchThrows, CallConfirmed, CallUncertain,
            CallRefused, Park, DropRow, Returns
<1>1. Underway(s) /\ call[s].at \in {"dispatch", "hub", "park", "drop"}
  BY DEF At
<1>2. call[s] \in Call /\ call[s].by \in Process
  BY <1>1 DEF Underway, TypeOK, Call
<1>3. Parting(s)
  BY DEF Parting, At
<1>4. UNCHANGED <<up, marker, desc, hub, claim, job, fix, due, clear, answers,
                  notices, robbed, revived>>
  BY DEF file, memory, told, past
<1>5. faults' \in 0..MaxFaults
  <2>1. UNCHANGED faults \/ MayFail
    BY Zenon
  <2>2. QED BY <2>1, FaultType DEF TypeOK
<1> DEFINE q == call[s].by
<1>6. CASE call[s].at = "hub"
  <2>1. Open(q)
    BY <1>6 DEF At
  <2>2. QED BY <1>1, <1>2, <1>3, <1>4, <1>5, <2>1 DEF Open, Inside, Busy
<1>7. CASE call[s].at # "hub"
  <2>1. Busy(q, s)
    BY <1>1, <1>7 DEF Busy
  <2>2. fix[q] = None /\ \A r \in Ask : Busy(q, r) => r = s
    BY <1>2, <2>1 DEF PlacedInv, Sole
  <2>3. io[q] = None
    BY <1>1, <1>2, <1>7, <2>1 DEF PlacedInv, Sole, Placed
  <2>4. QED BY <1>1, <1>2, <1>3, <1>4, <1>5, <2>2, <2>3
<1>8. QED BY <1>6, <1>7

LEMMA PartingIs ==
  ASSUME TypeOK, NEW s \in Ask, Underway(s), Parting(s)
  PROVE  /\ call' \in [Ask -> Call \cup {None, Ended}]
         /\ io' \in [Process -> File \cup {None}]
         /\ \A r \in Ask \ {s} : call'[r] = call[r]
         /\ \/ call'[s] = Ended /\ UNCHANGED io
            \/ /\ call[s].at = "dispatch" /\ UNCHANGED io
               /\ call'[s] \in Call /\ call'[s].at = "hub" /\ call'[s].by = call[s].by
            \/ /\ call'[s] \in Call /\ call'[s].at = "release" /\ call'[s].by = call[s].by
               /\ IsAt(call[s].by, "retire", s, "look") /\ Counted(call[s].by)'
<1>1. /\ call \in [Ask -> Call \cup {None, Ended}] /\ call[s] \in Call
      /\ call[s].by \in Process
  BY DEF Underway, TypeOK, Call
<1>2. CASE Over(s) /\ UNCHANGED io
  BY <1>1, <1>2, CallEnds DEF TypeOK
<1>3. CASE /\ call[s].at = "dispatch" /\ UNCHANGED io
           /\ call' = [call EXCEPT ![s].at = "hub", ![s].from = "dispatched"]
  <2>1. /\ call'[s] = [call[s] EXCEPT !.at = "hub", !.from = "dispatched"]
        /\ \A r \in Ask \ {s} : call'[r] = call[r]
    BY <1>1, <1>3
  <2>2. [call[s] EXCEPT !.at = "hub", !.from = "dispatched"] \in Call
    BY <1>1 DEF Call
  <2>3. call'[s].at = "hub" /\ call'[s].by = call[s].by
    BY <1>1, <2>1 DEF Call
  <2>4. call' \in [Ask -> Call \cup {None, Ended}]
    BY <1>1, <1>3, <2>2
  <2>5. QED BY <1>3, <2>1, <2>2, <2>3, <2>4 DEF TypeOK
<1>4. CASE Releases(s)
  <2>1. PICK q \in Process : q = call[s].by
    BY <1>1
  <2>2. /\ Starts(q, "retire", s, "look")
        /\ "retire" \in Ops /\ "look" \in Looks
    BY <1>4, <2>1 DEF Releases, Ops, Looks
  <2>3. IsAt(q, "retire", s, "look") /\ Counted(q)'
    BY <2>2, StartsIs
  <2>4. Goes(s, "release") /\ "release" \in Spots
    BY <1>4 DEF Releases, Spots
  <2>5. /\ call' \in [Ask -> Call \cup {None, Ended}]
        /\ call'[s] \in Call /\ call'[s].at = "release" /\ call'[s].by = q
        /\ \A r \in Ask \ {s} : call'[r] = call[r]
    BY <2>1, <2>4, CallGoes
  <2>6. QED BY <2>1, <2>3, <2>5 DEF IsAt
<1>5. QED BY <1>2, <1>3, <1>4 DEF Parting

LEMMA BeginIs ==
  ASSUME TypeOK, NEW p \in Process, NEW s \in Ask, Begin(p, s)
  PROVE  /\ call' \in [Ask -> Call \cup {None, Ended}]
         /\ row' \in [Ask -> Row \cup {None}]
         /\ row'[s] = [state |-> "prepared", age |-> 0]
         /\ call'[s] = [by |-> p, from |-> "prepared", at |-> "marker"] /\ call'[s] \in Call
         /\ \A r \in Ask \ {s} : call'[r] = call[r] /\ row'[r] = row[r]
         /\ IsAt(p, "create", s, "look") /\ Counted(p)'
<1>1. [state |-> "prepared", age |-> 0] \in Row
  BY DEF Row, State
<1>2. [by |-> p, from |-> "prepared", at |-> "marker"] \in Call
  BY DEF Call
<1>3. IsAt(p, "create", s, "look") /\ Counted(p)'
  BY StartsIs DEF Begin, Ops, Looks
<1>4. QED BY <1>1, <1>2, <1>3 DEF Begin, TypeOK

LEMMA AskingTypes ==
  ASSUME TypeOK, PlacedInv, NEW p \in Process, NEW s \in Ask, Asking(p, s)
  PROVE  TypeOK'
<1>1. CASE Begin(p, s)
  BY <1>1, BeginIs DEF Begin, IsAt, TypeOK, file, memory, told, past
<1>2. CASE call[s] # None
  <2>1. /\ Underway(s) /\ call[s] \in Call /\ Parting(s)
        /\ UNCHANGED <<up, marker, desc, hub, claim, job, fix, due, clear, answers,
                       notices, robbed, revived>>
        /\ faults' \in 0..MaxFaults
    BY <1>2, AskingIs
  <2>2. /\ call' \in [Ask -> Call \cup {None, Ended}]
        /\ io' \in [Process -> File \cup {None}]
    BY <2>1, PartingIs
  <2>3. call[s].from \in State
    BY <2>1 DEF Call, State
  <2>4. row' \in [Ask -> Row \cup {None}]
    <3>1. \E from, to \in State :
            row' \in {Moved(s, from, to), Dropped(s, from), row}
      BY <1>2, <2>3, Places
         DEF Asking, Begin, Dispatch, DispatchThrows, CallConfirmed, CallUncertain,
             CallRefused, Park, DropRow
    <3>2. QED BY <3>1, MovedType DEF TypeOK
  <2>5. QED BY <2>1, <2>2, <2>4 DEF TypeOK
<1>3. QED BY <1>1, <1>2 DEF Asking

LEMMA ReplyingTypes ==
  ASSUME TypeOK, NEW p \in Process, NEW r \in Ask, Replying(p, r)
  PROVE  TypeOK'
<1>1. CASE ReplyArrives(p, r)
  <2>1. job' \in [Process -> [Ask -> Work \cup {None}]]
    BY <1>1, JobType, Places DEF ReplyArrives, TypeOK
  <2>2. hub' \in [Ask -> {"idle", "holds", "delivered", "dropped"}]
    BY <1>1 DEF ReplyArrives, TypeOK
  <2>3. QED BY <1>1, <2>1, <2>2 DEF ReplyArrives, TypeOK, file, told, past
<1>2. CASE ClaimReply(p, r)
  <2>1. job' \in [Process -> [Ask -> Work \cup {None}]]
    BY <1>2, JobType, Places DEF ClaimReply
  <2>2. hub' \in [Ask -> {"idle", "holds", "delivered", "dropped"}]
    BY <1>2 DEF ClaimReply, TypeOK
  <2>3. claim' \in [Ask -> Claim \cup {None}]
    <3>1. claim' = Taken(p, r) \/ claim' = claim
      BY <1>2, Zenon DEF ClaimReply
    <3>2. claim \in [Ask -> Claim \cup {None}] /\ Taken(p, r) \in [Ask -> Claim \cup {None}]
      <4>1. claim \in [Ask -> Claim \cup {None}]
        BY DEF TypeOK
      <4>2. QED BY <4>1, ClaimType
    <3>3. QED BY <3>1, <3>2
  <2>4. QED BY <1>2, <2>1, <2>2, <2>3 DEF ClaimReply, TypeOK, file, told, past
<1>3. CASE CheckReply(p, r)
  <2>1. job' \in [Process -> [Ask -> Work \cup {None}]]
    BY <1>3, JobType, Places DEF CheckReply
  <2>2. hub' \in [Ask -> {"idle", "holds", "delivered", "dropped"}]
    BY <1>3 DEF CheckReply, TypeOK
  <2>3. claim' \in [Ask -> Claim \cup {None}]
    BY <1>3 DEF CheckReply, TypeOK
  <2>4. QED BY <1>3, <2>1, <2>2, <2>3 DEF CheckReply, TypeOK, file, told, past
<1>4. CASE MarkReply(p, r)
  <2>1. job' \in [Process -> [Ask -> Work \cup {None}]]
    BY <1>4, JobType, Places DEF MarkReply
  <2>2. io' \in [Process -> File \cup {None}]
    BY <1>4, StartsIs DEF MarkReply, IsAt, Ops, Looks, TypeOK
  <2>3. QED BY <1>4, <2>1, <2>2 DEF MarkReply, TypeOK, file, told, past
<1>5. CASE Record(p, r)
  <2>1. job' \in [Process -> [Ask -> Work \cup {None}]]
    BY <1>5, JobType, Places DEF Record
  <2>2. CASE Mine(p, r)
    <3>1. /\ claim' = [claim EXCEPT ![r].done = TRUE]
          /\ row' = [row EXCEPT ![r] = None]
          /\ clear' = [clear EXCEPT ![p] = @ \cup {r}]
          /\ answers' = [answers EXCEPT ![r] = @ + 1]
      BY <1>5, <2>2, Zenon DEF Record
    <3>2. claim' \in [Ask -> Claim \cup {None}]
      BY <2>2, <3>1, ClaimType DEF Mine
    <3>3. row' \in [Ask -> Row \cup {None}] /\ clear' \in [Process -> SUBSET Ask]
      BY <3>1 DEF TypeOK
    <3>4. answers' \in [Ask -> Nat]
      BY <3>1 DEF TypeOK
    <3>5. QED BY <1>5, <2>1, <3>2, <3>3, <3>4 DEF Record, TypeOK, file, past
  <2>3. CASE ~Mine(p, r)
    BY <1>5, <2>1, <2>3 DEF Record, TypeOK, file, past
  <2>4. QED BY <2>2, <2>3
<1>6. CASE DeliveryFails(p, r)
  <2>1. claim' \in [Ask -> Claim \cup {None}]
    BY <1>6 DEF DeliveryFails, TypeOK
  <2>2. QED BY <1>6, <2>1, JobType, FaultType, Places
            DEF DeliveryFails, TypeOK, file, told, past
<1>7. CASE TellHub(p, r)
  <2>1. hub' \in [Ask -> {"idle", "holds", "delivered", "dropped"}]
    BY <1>7 DEF TellHub, TypeOK
  <2>2. QED BY <1>7, <2>1, JobType, Places DEF TellHub, TypeOK, file, told, past
<1>8. CASE ClearMarker(p, r)
  <2>1. io' \in [Process -> File \cup {None}]
    BY <1>8, StartsIs DEF ClearMarker, IsAt, Ops, Looks
  <2>2. QED BY <1>8, <2>1 DEF ClearMarker, TypeOK, file, told, past
<1>9. QED BY <1>1, <1>2, <1>3, <1>4, <1>5, <1>6, <1>7, <1>8 DEF Replying

LEMMA MaintainingTypes ==
  ASSUME TypeOK, NEW p \in Process, Maintaining(p)
  PROVE  TypeOK'
<1>1. CASE Settle(p)
  <2>1. fix[p] \in Fix
    BY <1>1 DEF Settle, TypeOK
  <2>2. fix[p].ask \in Ask /\ fix[p].state \in State
    BY <2>1 DEF Fix
  <2>3. row' \in [Ask -> Row \cup {None}]
    BY <1>1, <2>2, MovedType, Places DEF Settle
  <2>4. QED BY <1>1, <2>3 DEF Settle, TypeOK, file, told, past
<1>2. CASE ListDue(p)
  <2>1. ASSUME NEW r \in Ask, Expirable(r)
        PROVE  [ask |-> r, state |-> row[r].state] \in Read
    BY <2>1 DEF Expirable, InState, TypeOK, Row, Read
  <2>2. QED BY <1>2, <2>1 DEF ListDue, TypeOK, file, told, past
<1>3. ASSUME NEW r \in Ask, Reconcile(p, r)
      PROVE  TypeOK'
  <2>1. row[r] \in Row
    BY <1>3 DEF Reconcile, Reconcilable, InState, TypeOK
  <2>2. [ask |-> r, state |-> row[r].state, old |-> row[r].age >= 2] \in Fix
    BY <2>1 DEF Row, Fix
  <2>3. io' \in [Process -> File \cup {None}]
    BY <1>3, StartsIs DEF Reconcile, IsAt, Ops, Looks
  <2>4. QED BY <1>3, <2>2, <2>3 DEF Reconcile, TypeOK, file, told, past
<1>4. ASSUME NEW r \in Ask, Purge(p, r)
      PROVE  TypeOK'
  BY <1>4 DEF Purge, TypeOK, file, memory, told, past
<1>5. ASSUME NEW r \in Ask, Recover(p, r)
      PROVE  TypeOK'
  BY <1>5, ClaimType, JobType, Places DEF Recover, TypeOK, file, told, past
<1>6. ASSUME NEW r \in Ask, CheckRecovered(p, r)
      PROVE  TypeOK'
  <2>1. job' \in [Process -> [Ask -> Work \cup {None}]]
    BY <1>6, JobType, Places DEF CheckRecovered
  <2>2. claim' \in [Ask -> Claim \cup {None}]
    <3>1. claim' = claim \/ (Mine(p, r) /\ claim' = [claim EXCEPT ![r].done = TRUE])
      BY <1>6, Zenon DEF CheckRecovered
    <3>2. claim \in [Ask -> Claim \cup {None}]
      BY DEF TypeOK
    <3>3. CASE Mine(p, r) /\ claim' = [claim EXCEPT ![r].done = TRUE]
      BY <3>3, ClaimType DEF Mine
    <3>4. QED BY <3>1, <3>2, <3>3
  <2>3. QED BY <1>6, <2>1, <2>2 DEF CheckRecovered, TypeOK, file, told, past
<1>7. ASSUME NEW r \in Ask, Expire(p, r)
      PROVE  TypeOK'
  <2>1. job' \in [Process -> [Ask -> Work \cup {None}]]
    BY <1>7, JobType, Places DEF Expire, TypeOK
  <2>2. row' \in [Ask -> Row \cup {None}]
    BY <1>7, MovedType, Places DEF Expire, TypeOK
  <2>3. due' \in [Process -> SUBSET Read]
    BY <1>7 DEF Expire, TypeOK
  <2>4. QED BY <1>7, <2>1, <2>2, <2>3 DEF Expire, TypeOK, file, told, past
<1>8. ASSUME NEW r \in Ask, RecordNotice(p, r)
      PROVE  TypeOK'
  <2>1. row' \in [Ask -> Row \cup {None}]
    BY <1>8, MovedType, Places DEF RecordNotice
  <2>2. notices' \in [Ask -> 0..2]
    BY <1>8 DEF RecordNotice, TypeOK
  <2>3. QED BY <1>8, <2>1, <2>2, JobType, Places DEF RecordNotice, TypeOK, file, past
<1>9. ASSUME NEW r \in Ask, NoticeFails(p, r)
      PROVE  TypeOK'
  BY <1>9, JobType, FaultType, Places DEF NoticeFails, TypeOK, file, told, past
<1>10. QED BY <1>1, <1>2, <1>3, <1>4, <1>5, <1>6, <1>7, <1>8, <1>9 DEF Maintaining

LEMMA PassingTypes ==
  ASSUME TypeOK, Passing
  PROVE  TypeOK'
<1>1. CASE MarkerAges
  <2>1. marker' \in Marker
    BY <1>1 DEF MarkerAges, TypeOK, Marker
  <2>2. QED BY <1>1, <2>1 DEF MarkerAges, TypeOK, memory, told, past
<1>2. ASSUME NEW r \in Ask, RowAges(r)
      PROVE  TypeOK'
  <2>1. row[r] \in Row /\ row[r].age < MaxAge
    BY <1>2 DEF RowAges, TypeOK
  <2>2. [row[r] EXCEPT !.age = @ + 1] \in Row
    BY <2>1 DEF Row
  <2>3. row' \in [Ask -> Row \cup {None}]
    BY <1>2, <2>2 DEF RowAges, TypeOK
  <2>4. QED BY <1>2, <2>3 DEF RowAges, TypeOK, file, memory, told, past
<1>3. ASSUME NEW r \in Ask, LeaseEnds(r)
      PROVE  TypeOK'
  <2>1. claim' \in [Ask -> Claim \cup {None}]
    <3>1. claim[r] # None /\ claim' = [claim EXCEPT ![r].live = FALSE]
      BY <1>3, Zenon DEF LeaseEnds
    <3>2. PICK p \in Process : TRUE
      BY <3>1 DEF TypeOK, Claim
    <3>3. QED BY <3>1, <3>2, ClaimType
  <2>2. faults' \in 0..MaxFaults
    BY <1>3, FaultType DEF LeaseEnds, TypeOK
  <2>3. QED BY <1>3, <2>1, <2>2 DEF LeaseEnds, TypeOK, file, memory, told, past
<1>4. QED BY <1>1, <1>2, <1>3 DEF Passing

LEMMA FilingTypes ==
  ASSUME TypeOK, PlacedInv, NEW p \in Process, Filing(p)
  PROVE  TypeOK'
<1>1. io[p] # None /\ Filed(p) /\ io[p].ask \in Ask
  BY FilingIs, MarkerType
<1>2. \A place \in Spots :
        io[p].op \in {"create", "retire"} /\ Goes(io[p].ask, place) =>
          call' \in [Ask -> Call \cup {None, Ended}]
  BY <1>1, CallGoes DEF PlacedInv, Placed
<1>3. call' \in [Ask -> Call \cup {None, Ended}]
  BY <1>1, <1>2 DEF Filed, Continuing, Throwing, Turning, Finishing, Spots, TypeOK
<1>4. fix' \in [Process -> Fix \cup {None}]
  BY <1>1 DEF Filed, Continuing, Throwing, Turning, Finishing, TypeOK
<1>5. QED BY <1>1, <1>3, <1>4 DEF Filed, TypeOK

LEMMA CrashTypes ==
  ASSUME TypeOK, NEW p \in Process, Crash(p)
  PROVE  TypeOK'
<1>1. call' \in [Ask -> Call \cup {None, Ended}]
  BY DEF Crash, TypeOK
<1>2. up' \in [Process -> BOOLEAN] /\ desc' \subseteq Process
  BY DEF Crash, TypeOK
<1>3. /\ job' \in [Process -> [Ask -> Work \cup {None}]]
      /\ fix' \in [Process -> Fix \cup {None}]
      /\ io' \in [Process -> File \cup {None}]
  BY DoneIs DEF Crash, TypeOK
<1>4. due' \in [Process -> SUBSET Read] /\ clear' \in [Process -> SUBSET Ask]
  BY DEF Crash, TypeOK
<1>5. QED BY <1>1, <1>2, <1>3, <1>4 DEF Crash, TypeOK, told, past

LEMMA SweepIs ==
  ASSUME TypeOK, NEW p \in Process, Sweep(p)
  PROVE  /\ IsAt(p, "sweep", marker.of, "unlink") /\ Counted(p)'
         /\ UNCHANGED <<up, row, marker, desc, call, hub, claim, job, fix, due, clear,
                       answers, notices, robbed, revived, faults>>
<1>1. marker.of \in Ask
  BY DEF Sweep, Readable, TypeOK, Marker
<1>2. QED BY <1>1, StartsIs DEF Sweep, Ops, Looks, file, memory, told, past

(* What a step at the file does to the call on whose account it is done.   *)
LEMMA FilingCalls ==
  ASSUME TypeOK, PlacedInv, NEW p \in Process, Filing(p)
  PROVE  \/ UNCHANGED call
         \/ LET r == io[p].ask IN
            /\ r \in Ask /\ Underway(r) /\ call[r].by = p
            /\ \/ io[p].op = "create" /\ call[r].at = "marker"
                                      /\ call'[r].at \in {"dispatch", "release", "drop"}
               \/ io[p].op = "retire" /\ call[r].at = "release"
                                      /\ call'[r].at \in {"park", "drop"}
            /\ call'[r] \in Call /\ call'[r].by = p
            /\ \A s \in Ask \ {r} : call'[s] = call[s]
<1>1. io[p] # None /\ Filed(p) /\ io[p].ask \in Ask
  BY FilingIs, MarkerType
<1> DEFINE r == io[p].ask
<1>2. ASSUME NEW place \in Spots, Goes(r, place), Underway(r), call[r].by = p
      PROVE  /\ call'[r] \in Call /\ call'[r].by = p /\ call'[r].at = place
             /\ \A s \in Ask \ {r} : call'[s] = call[s]
  BY <1>1, <1>2, CallGoes
<1>3. CASE io[p].op = "create" /\ \E place \in {"dispatch", "release", "drop"} : Goes(r, place)
  <2>1. Underway(r) /\ call[r].by = p /\ call[r].at = "marker"
    BY <1>1, <1>3 DEF PlacedInv, Placed
  <2>2. QED BY <1>1, <1>2, <1>3, <2>1 DEF Spots
<1>4. CASE io[p].op = "retire" /\ \E place \in {"park", "drop"} : Goes(r, place)
  <2>1. Underway(r) /\ call[r].by = p /\ call[r].at = "release"
    BY <1>1, <1>4 DEF PlacedInv, Placed
  <2>2. QED BY <1>1, <1>2, <1>4, <2>1 DEF Spots
<1>5. \/ UNCHANGED call
      \/ io[p].op = "create" /\ \E place \in {"dispatch", "release", "drop"} : Goes(r, place)
      \/ io[p].op = "retire" /\ \E place \in {"park", "drop"} : Goes(r, place)
  BY <1>1 DEF Filed, Continuing, Throwing, Turning, Finishing
<1>6. QED BY <1>3, <1>4, <1>5

LEMMA PlacedKept ==
  ASSUME NEW q \in Process, Placed(q), Sole(q), io'[q] = io[q],
         \A r \in Ask : Busy(q, r)' => Busy(q, r),
         io[q] # None /\ io[q].op \in {"create", "retire"} =>
           call'[io[q].ask] = call[io[q].ask],
         fix'[q] = fix[q] \/ (io[q] = None /\ fix'[q] = None)
  PROVE  Placed(q)' /\ Sole(q)'
<1>1. Sole(q)'
  BY DEF Sole
<1>2. Placed(q)'
  BY DEF Placed, Counted, Underway
<1>3. QED BY <1>1, <1>2

LEMMA PlacedStarted ==
  ASSUME NEW q \in Process, Open(q), UNCHANGED call,
         NEW op \in Ops \ {"create", "retire"}, NEW s \in Ask, NEW place \in Looks,
         IsAt(q, op, s, place), Counted(q)',
         IF op = "reconcile" THEN fix'[q] # None /\ fix'[q].ask = s ELSE fix'[q] = None
  PROVE  Placed(q)' /\ Sole(q)'
<1>1. \A r \in Ask : ~Busy(q, r)
  BY DEF Open, Inside, Busy
<1>2. Sole(q)'
  BY <1>1 DEF Sole, Busy, Underway
<1>3. Placed(q)'
  BY DEF Placed, IsAt
<1>4. QED BY <1>2, <1>3

LEMMA FilingPlaced ==
  ASSUME TypeOK, PlacedInv, NEW p \in Process, Filing(p), NEW q \in Process
  PROVE  Placed(q)' /\ Sole(q)'
<1>1. io[p] # None /\ Filed(p) /\ io[p].ask \in Ask /\ Placed(q) /\ Sole(q)
  BY FilingIs, MarkerType DEF PlacedInv
<1> DEFINE s == io[p].ask
<1>2. \A r \in Ask : (Busy(q, r)' => Busy(q, r)) /\ (r # s => call'[r] = call[r])
  BY FilingCalls DEF Busy, Underway
<1>3. CASE q # p
  <2>1. io'[q] = io[q] /\ fix'[q] = fix[q]
    BY <1>1, <1>3 DEF Filed, Continuing, Throwing, Turning, Finishing, TypeOK
  <2>2. ASSUME io[q] # None, io[q].op \in {"create", "retire"}
        PROVE  call'[io[q].ask] = call[io[q].ask]
    <3>1. io[q].ask \in Ask /\ call[io[q].ask].by = q
      BY <1>1, <2>2, MarkerType DEF Placed
    <3>2. QED BY <1>3, <3>1, FilingCalls
  <2>3. QED BY <1>1, <1>2, <2>1, <2>2, PlacedKept
<1>4. CASE q = p
  <2>0. fix'[p] = fix[p] \/ fix'[p] = None
    BY <1>1 DEF Filed, Continuing, Throwing, Turning, Finishing, TypeOK
  <2>1. Sole(p)'
    <3>1. CASE io'[p] = None
      BY <1>1, <1>2, <1>4, <2>0, <3>1 DEF Sole
    <3>2. CASE io'[p] # None /\ io[p].op \in {"create", "retire"}
      <4>1. io'[p].op \in {"create", "retire"} /\ io'[p].ask = s
        BY <1>1, <3>2 DEF Filed, Continuing, Throwing, Turning, Finishing, IsAt
      <4>2. QED BY <1>1, <1>2, <1>4, <2>0, <4>1 DEF Sole
    <3>3. CASE io[p].op \notin {"create", "retire"}
      <4>1. \A r \in Ask : ~Busy(p, r)
        BY <1>1, <1>4, <3>3 DEF Sole
      <4>2. QED BY <1>2, <1>4, <4>1 DEF Sole
    <3>4. QED BY <3>1, <3>2, <3>3
  <2>2. Placed(p)'
    <3>1. Counted(p)'
      BY <1>1 DEF Filed
    <3>2. CASE io'[p] = None
      BY <3>2 DEF Placed
    <3>3. CASE Continuing(p)
      BY <1>1, <1>4, <3>1, <3>3 DEF Placed, Continuing, Underway
    <3>4. CASE Throwing(p)
      <4>1. Underway(s) /\ "release" \in Spots /\ call[s].by = p
        BY <1>1, <1>4, <3>4 DEF Placed, Throwing, Spots
      <4>2. call'[s] \in Call /\ call'[s].at = "release" /\ call'[s].by = p
        BY <1>1, <3>4, <4>1, CallGoes DEF Throwing
      <4>3. io'[p].op = "retire" /\ io'[p].ask = s
        BY <3>4 DEF Throwing, IsAt
      <4>4. fix'[p] = None
        BY <1>1, <1>4, <3>4 DEF Placed, Throwing
      <4>5. QED BY <3>1, <4>2, <4>3, <4>4 DEF Placed, Underway
    <3>5. CASE Turning(p)
      <4>1. fix'[p] = None
        BY <1>1, <1>4, <3>5 DEF Placed, Turning
      <4>2. QED BY <3>1, <3>5, <4>1 DEF Placed, Turning, IsAt
    <3>6. QED BY <1>1, <3>2, <3>3, <3>4, <3>5 DEF Filed, Finishing
  <2>3. QED BY <1>4, <2>1, <2>2
<1>5. QED BY <1>3, <1>4

LEMMA AskingPlaced ==
  ASSUME TypeOK, PlacedInv, NEW p \in Process, NEW s \in Ask, Asking(p, s), NEW q \in Process
  PROVE  Placed(q)' /\ Sole(q)'
<1>1. Placed(q) /\ Sole(q)
  BY DEF PlacedInv
<1>2. ASSUME io[q] # None, io[q].op \in {"create", "retire"}
      PROVE  /\ io[q].ask \in Ask /\ Underway(io[q].ask) /\ call[io[q].ask].by = q
             /\ call[io[q].ask].at \in {"marker", "release"}
  BY <1>1, <1>2, MarkerType DEF Placed
<1>3. CASE Begin(p, s)
  <2>1. /\ call'[s] \in Call /\ call'[s].by = p /\ call'[s].at = "marker"
        /\ \A r \in Ask \ {s} : call'[r] = call[r]
        /\ IsAt(p, "create", s, "look") /\ Counted(p)'
        /\ UNCHANGED fix /\ call[s] = None /\ Open(p) /\ fix[p] = None
    BY <1>3, BeginIs DEF Begin, memory, Open, Inside
  <2>2. CASE q # p
    <3>1. io'[q] = io[q] /\ fix'[q] = fix[q]
      BY <2>1, <2>2 DEF IsAt
    <3>2. \A r \in Ask : Busy(q, r)' => Busy(q, r)
      BY <2>1, <2>2 DEF Busy, Underway
    <3>3. io[q] # None /\ io[q].op \in {"create", "retire"} =>
            call'[io[q].ask] = call[io[q].ask]
      BY <1>2, <2>1 DEF Underway
    <3>4. QED BY <1>1, <3>1, <3>2, <3>3, PlacedKept
  <2>3. CASE q = p
    <3>1. \A r \in Ask \ {s} : ~Busy(p, r)'
      BY <2>1 DEF Open, Inside, Busy, Underway
    <3>2. QED BY <2>1, <2>3, <3>1 DEF Sole, Placed, IsAt, Underway
  <2>4. QED BY <2>2, <2>3
<1>4. CASE call[s] # None
  <2>1. PICK b \in Process : b = call[s].by
    BY <1>4, AskingIs
  <2>2. /\ Underway(s) /\ call[s].at \in {"dispatch", "hub", "park", "drop"}
        /\ io[b] = None /\ Parting(s) /\ UNCHANGED fix /\ fix[b] = None
        /\ \A r \in Ask : Busy(b, r) => r = s
    BY <1>4, <2>1, AskingIs
  <2>3. /\ \A r \in Ask \ {s} : call'[r] = call[r]
        /\ \/ call'[s] = Ended /\ UNCHANGED io
           \/ UNCHANGED io /\ call'[s] \in Call /\ call'[s].at = "hub" /\ call'[s].by = b
           \/ /\ call'[s] \in Call /\ call'[s].at = "release" /\ call'[s].by = b
              /\ IsAt(b, "retire", s, "look") /\ Counted(b)'
    <3>1. call'[s].by = b => (Counted(call[s].by)' <=> Counted(b)')
      BY DEF Counted
    <3>2. QED BY <2>1, <2>2, <3>1, PartingIs
  <2>4. CASE q # b
    <3>1. io'[q] = io[q]
      BY <2>3, <2>4 DEF IsAt
    <3>2. \A r \in Ask : Busy(q, r)' => Busy(q, r)
      BY <2>3, <2>4 DEF Busy, Underway
    <3>3. QED BY <1>1, <1>2, <2>1, <2>2, <2>3, <2>4, <3>1, <3>2, PlacedKept
  <2>5. CASE q = b
    <3>1. \A r \in Ask \ {s} : ~Busy(b, r)'
      BY <2>2, <2>3 DEF Busy, Underway
    <3>2. QED BY <2>2, <2>3, <2>5, <3>1 DEF Sole, Placed, IsAt, Busy, Underway
  <2>6. QED BY <2>4, <2>5
<1>5. QED BY <1>3, <1>4 DEF Asking

LEMMA PlacedStep == TypeOK /\ PlacedInv /\ [Next]_vars => PlacedInv'
<1> SUFFICES ASSUME TypeOK, PlacedInv, [Next]_vars, NEW q \in Process
             PROVE  Placed(q)' /\ Sole(q)'
  BY DEF PlacedInv
<1>1. Placed(q) /\ Sole(q)
  BY DEF PlacedInv
<1>2. ASSUME NEW p \in Process, NEW s \in Ask, Asking(p, s)
      PROVE  Placed(q)' /\ Sole(q)'
  BY <1>2, AskingPlaced
<1>3. ASSUME NEW p \in Process, Filing(p)
      PROVE  Placed(q)' /\ Sole(q)'
  BY <1>3, FilingPlaced
<1>4. ASSUME UNCHANGED <<call, io>>, fix'[q] = fix[q] \/ (io[q] = None /\ fix'[q] = None)
      PROVE  Placed(q)' /\ Sole(q)'
  BY <1>1, <1>4, PlacedKept DEF Busy, Underway
<1>5. ASSUME NEW p \in Process, Open(p), UNCHANGED call,
             NEW op \in Ops \ {"create", "retire"}, NEW s \in Ask, NEW place \in Looks,
             Starts(p, op, s, place),
             \/ op # "reconcile" /\ UNCHANGED fix
             \/ op = "reconcile" /\ \E f \in Fix : f.ask = s /\ fix' = [fix EXCEPT ![p] = f]
      PROVE  Placed(q)' /\ Sole(q)'
  <2>1. IsAt(p, op, s, place) /\ Counted(p)'
    BY <1>5, StartsIs
  <2>2. CASE q # p
    <3>1. io'[q] = io[q] /\ fix'[q] = fix[q]
      BY <1>5, <2>1, <2>2 DEF IsAt, TypeOK
    <3>2. QED BY <1>1, <1>5, <3>1, PlacedKept DEF Busy, Underway
  <2>3. CASE q = p
    <3>1. IF op = "reconcile" THEN fix'[p] # None /\ fix'[p].ask = s ELSE fix'[p] = None
      BY <1>5 DEF TypeOK, Open, Inside
    <3>2. QED BY <1>5, <2>1, <2>3, <3>1, PlacedStarted
  <2>4. QED BY <2>2, <2>3
<1>6. ASSUME NEW p \in Process, NEW s \in Ask, Replying(p, s)
      PROVE  Placed(q)' /\ Sole(q)'
  <2>1. CASE MarkReply(p, s)
    BY <1>4, <1>5, <2>1 DEF MarkReply, Ops, Looks
  <2>2. CASE ClearMarker(p, s)
    BY <1>5, <2>2 DEF ClearMarker, Ops, Looks
  <2>3. CASE ~MarkReply(p, s) /\ ~ClearMarker(p, s)
    BY <1>4, <1>6, <2>3 DEF Replying, ReplyArrives, ClaimReply, CheckReply, Record,
       DeliveryFails, TellHub
  <2>4. QED BY <2>1, <2>2, <2>3
<1>7. ASSUME NEW p \in Process, Maintaining(p)
      PROVE  Placed(q)' /\ Sole(q)'
  <2>1. ASSUME NEW s \in Ask, Reconcile(p, s)
        PROVE  Placed(q)' /\ Sole(q)'
    <3>1. row[s] \in Row
      BY <2>1 DEF Reconcile, Reconcilable, InState, TypeOK
    <3>2. [ask |-> s, state |-> row[s].state, old |-> row[s].age >= 2] \in Fix
      BY <3>1 DEF Row, Fix
    <3>3. PICK f \in Fix : f = [ask |-> s, state |-> row[s].state, old |-> row[s].age >= 2]
      BY <3>2
    <3>4. f.ask = s /\ fix' = [fix EXCEPT ![p] = f]
      BY <2>1, <3>3 DEF Reconcile
    <3>5. "reconcile" \in Ops \ {"create", "retire"} /\ "look" \in Looks
      BY DEF Ops, Looks
    <3>6. QED BY <1>5, <2>1, <3>4, <3>5 DEF Reconcile
  <2>2. CASE Settle(p)
    <3>1. /\ UNCHANGED <<call, io>> /\ io[p] = None
          /\ IF q = p THEN fix'[q] = None ELSE fix'[q] = fix[q]
      BY <2>2 DEF Settle, TypeOK
    <3>2. QED BY <1>4, <3>1
  <2>3. CASE ListDue(p) \/ \E s \in Ask : \/ Purge(p, s) \/ Recover(p, s) \/ CheckRecovered(p, s)
                                          \/ Expire(p, s) \/ RecordNotice(p, s) \/ NoticeFails(p, s)
    BY <1>4, <2>3 DEF ListDue, Purge, Recover, CheckRecovered, Expire, RecordNotice,
       NoticeFails, memory
  <2>4. QED BY <1>7, <2>1, <2>2, <2>3 DEF Maintaining
<1>8. ASSUME NEW p \in Process, Sweep(p)
      PROVE  Placed(q)' /\ Sole(q)'
  <2>1. marker.of \in Ask
    BY <1>8 DEF Sweep, Readable, TypeOK, Marker
  <2>2. QED BY <1>5, <1>8, <2>1 DEF Sweep, Ops, Looks, memory
<1>9. ASSUME NEW p \in Process, Crash(p)
      PROVE  Placed(q)' /\ Sole(q)'
  <2>1. /\ \A r \in Ask : Busy(q, r)' => Busy(q, r) /\ q # p
        /\ \A r \in Ask : Underway(r) /\ call[r].by # p => call'[r] = call[r]
        /\ io'[p] = None
        /\ q # p => io'[q] = io[q] /\ fix'[q] = fix[q]
    BY <1>9, DoneIs DEF Crash, Busy, Underway, TypeOK
  <2>2. CASE q = p
    BY <2>1, <2>2 DEF Sole, Placed
  <2>3. CASE q # p
    <3>1. io[q] # None /\ io[q].op \in {"create", "retire"} =>
            call'[io[q].ask] = call[io[q].ask]
      BY <1>1, <2>1, <2>3, MarkerType DEF Placed
    <3>2. QED BY <1>1, <2>1, <2>3, <3>1, PlacedKept
  <2>4. QED BY <2>2, <2>3
<1>10. CASE Passing \/ \E s \in Ask : HubAccepts(s)
  BY <1>4, <1>10 DEF Passing, MarkerAges, RowAges, LeaseEnds, HubAccepts, memory
<1>11. CASE UNCHANGED vars
  BY <1>4, <1>11 DEF vars
<1>12. QED BY <1>2, <1>3, <1>6, <1>7, <1>8, <1>9, <1>10, <1>11 DEF Next

LEMMA SoundStep == TypeOK /\ PlacedInv /\ [Next]_vars => (TypeOK /\ PlacedInv)'
<1> SUFFICES ASSUME TypeOK, PlacedInv, [Next]_vars
             PROVE  TypeOK'
  BY PlacedStep
<1>1. ASSUME NEW r \in Ask, HubAccepts(r)
      PROVE  TypeOK'
  BY <1>1 DEF HubAccepts, TypeOK, file, memory, told, past
<1>2. CASE UNCHANGED vars
  BY <1>2 DEF vars, TypeOK
<1>3. ASSUME NEW p \in Process, Sweep(p)
      PROVE  TypeOK'
  BY <1>3, SweepIs DEF IsAt, TypeOK
<1>4. QED BY <1>1, <1>2, <1>3, AskingTypes, ReplyingTypes, MaintainingTypes, PassingTypes,
             FilingTypes, CrashTypes
          DEF Next

LEMMA Sound == Spec => [](TypeOK /\ PlacedInv)
<1>1. Init => TypeOK /\ PlacedInv
  BY DEF Init, TypeOK, PlacedInv, Placed, Sole, Busy, Underway
<1>2. QED BY <1>1, SoundStep, PTL DEF Spec

(* Type correctness. *)
THEOREM TypeCorrect == Spec => []TypeOK
BY Sound, PTL

-----------------------------------------------------------------------------
(* An ask that has not begun is unknown to the store, and one that the hub   *)
(* has not got has no reply.                                                *)
Origin(r) ==
  /\ call[r] = None => row[r] = None /\ hub[r] = "idle"
  /\ hub[r] = "idle" => claim[r] = None /\ \A p \in Process : job[p][r] \in {None, "notice"}

(* The room has been told, or is being told, that no answer came; or the hub *)
(* has been told that nobody waits.                                         *)
Closed(r) ==
  \/ InState(r, {"expired"})
  \/ notices[r] > 0
  \/ \E p \in Process : \/ job[p][r] = "notice"
                        \/ \E d \in due[p] : d.ask = r /\ d.state # "unknown"
  \/ Prompt /\ hub[r] = "dropped"

Delivering(r) == \E p \in Process : job[p][r] \in {"ready", "deliver"} /\ Mine(p, r)

(* A recorded answer has its completed claim, a completed claim has no ask   *)
(* left to answer, and a closed ask never gets one.                         *)
Verdict(r) ==
  /\ answers[r] <= 1
  /\ answers[r] > 0 => claim[r] # None /\ claim[r].done
  /\ claim[r] # None /\ claim[r].done => ~Visible(r)
  /\ Closed(r) => call[r] # None /\ answers[r] = 0 /\ ~Visible(r) /\ ~Delivering(r)

(* Nobody takes the claim over between it and the second look at the ask.   *)
Undisturbed(r) ==
  \A p \in Process :
    job[p][r] \in {"check", "recheck"} => up[p] /\ Mine(p, r) /\ claim[r].live

VerdictInv ==
  \A r \in Ask : Origin(r) /\ Verdict(r) /\ (Prompt => Undisturbed(r))

(* What the invariant says of one ask. *)
Verified(r) == Origin(r) /\ Verdict(r) /\ (Prompt => Undisturbed(r))

(* A step that leaves all of this alone for an ask. *)
Spared(r) ==
  /\ row'[r] = row[r] /\ call'[r] = call[r] /\ hub'[r] = hub[r] /\ claim'[r] = claim[r]
  /\ answers'[r] = answers[r] /\ notices'[r] = notices[r]
  /\ \A p \in Process : job'[p][r] = job[p][r] /\ \A d \in due'[p] : d \in due[p]
  /\ UNCHANGED up

(* A step that only starts an ask, moves its row along, or lets it go. *)
Moving(r) ==
  /\ UNCHANGED <<up, hub, claim, job, due, answers, notices>>
  /\ call'[r] = None => call[r] = None /\ (row[r] = None => row'[r] = None)
  /\ Visible(r)' => Visible(r) \/ call[r] = None
  /\ InState(r, {"expired"})' => InState(r, {"expired"})

LEMMA SparedVerified ==
  ASSUME NEW r \in Ask, Verified(r), Spared(r)
  PROVE  Verified(r)'
<1>1. Origin(r)'
  BY DEF Verified, Spared, Origin
<1>2. Closed(r)' => Closed(r)
  BY DEF Verified, Spared, Closed, InState
<1>3. (Visible(r)' <=> Visible(r)) /\ (Delivering(r)' <=> Delivering(r))
  BY DEF Verified, Spared, Visible, InState, Delivering, Mine
<1>4. Verdict(r)'
  BY <1>2, <1>3 DEF Verified, Spared, Verdict
<1>5. Prompt => Undisturbed(r)'
  BY DEF Verified, Spared, Undisturbed, Mine
<1>6. QED BY <1>1, <1>4, <1>5 DEF Verified

LEMMA MovingVerified ==
  ASSUME NEW r \in Ask, Verified(r), Moving(r)
  PROVE  Verified(r)'
<1>1. Origin(r)'
  BY DEF Verified, Moving, Origin
<1>2. Closed(r)' => Closed(r)
  BY DEF Verified, Moving, Closed
<1>3. Delivering(r)' <=> Delivering(r)
  BY DEF Verified, Moving, Delivering, Mine
<1>4. claim[r] # None => call[r] # None
  BY DEF Verified, Origin
<1>5. Verdict(r)'
  BY <1>2, <1>3, <1>4 DEF Verified, Moving, Verdict
<1>6. Prompt => Undisturbed(r)'
  BY DEF Verified, Moving, Undisturbed, Mine
<1>7. QED BY <1>1, <1>5, <1>6 DEF Verified

(* What moving or dropping a row does to what others see of it. *)
LEMMA MovedSeen ==
  ASSUME TypeOK, NEW r \in Ask, NEW s \in Ask, NEW from \in State, NEW to \in State,
         \/ row' = Moved(s, from, to) /\ from # "expired" /\ to # "expired"
         \/ row' = Dropped(s, from)
         \/ row' = row
  PROVE  /\ Visible(r)' => Visible(r)
         /\ InState(r, {"expired"})' => InState(r, {"expired"})
         /\ row[r] = None => row'[r] = None
         /\ r # s => row'[r] = row[r]
<1> USE DEF InState, Visible
<1>1. row \in [Ask -> Row \cup {None}]
  BY DEF TypeOK
<1>2. CASE row' = Moved(s, from, to) /\ from # "expired" /\ to # "expired"
  <2>1. CASE InState(s, {from}) /\ r = s
    <3>1. row[s] \in Row /\ row'[s] = [row[s] EXCEPT !.state = to]
      BY <1>1, <1>2, <2>1 DEF Moved
    <3>2. row[s].state = from /\ row'[s].state = to
      BY <2>1, <3>1 DEF Row
    <3>3. QED BY <1>1, <1>2, <2>1, <3>1, <3>2
  <2>2. CASE ~(InState(s, {from}) /\ r = s)
    BY <1>1, <1>2, <2>2 DEF Moved
  <2>3. QED BY <2>1, <2>2
<1>3. CASE row' = Dropped(s, from)
  BY <1>1, <1>3 DEF Dropped
<1>4. CASE row' = row
  BY <1>4
<1>5. QED BY <1>2, <1>3, <1>4

LEMMA AskingMoves ==
  ASSUME TypeOK, PlacedInv, NEW p \in Process, NEW s \in Ask, Asking(p, s), NEW r \in Ask
  PROVE  Moving(r)
<1>1. CASE Begin(p, s)
  <2>1. /\ row'[s] = [state |-> "prepared", age |-> 0]
        /\ call'[s] \in Call /\ call[s] = None
        /\ \A t \in Ask \ {s} : call'[t] = call[t] /\ row'[t] = row[t]
        /\ UNCHANGED <<up, hub, claim, job, due, answers, notices>>
    BY <1>1, BeginIs DEF Begin, memory, told
  <2>2. CASE r = s
    BY <2>1, <2>2 DEF Moving, Visible, InState
  <2>3. CASE r # s
    BY <2>1, <2>3 DEF Moving, Visible, InState
  <2>4. QED BY <2>2, <2>3
<1>2. CASE call[s] # None
  <2>1. /\ Underway(s) /\ Parting(s) /\ call[s] \in Call
        /\ UNCHANGED <<up, hub, claim, job, due, answers, notices>>
    BY <1>2, AskingIs
  <2>2. call'[s] # None /\ \A t \in Ask \ {s} : call'[t] = call[t]
    BY <2>1, PartingIs
  <2>3. call[s].from \in State /\ call[s].from # "expired"
    BY <2>1 DEF Call, State
  <2>4. \E from, to \in State :
          \/ row' = Moved(s, from, to) /\ from # "expired" /\ to # "expired"
          \/ row' = Dropped(s, from)
          \/ row' = row
    BY <1>2, <2>3, Places
       DEF Asking, Begin, Dispatch, DispatchThrows, CallConfirmed, CallUncertain,
           CallRefused, Park, DropRow
  <2>5. /\ Visible(r)' => Visible(r)
        /\ InState(r, {"expired"})' => InState(r, {"expired"})
        /\ row[r] = None => row'[r] = None
    BY <2>4, MovedSeen
  <2>6. QED BY <2>1, <2>2, <2>5 DEF Moving
<1>3. QED BY <1>1, <1>2 DEF Asking

LEMMA FilingMoves ==
  ASSUME TypeOK, PlacedInv, NEW p \in Process, Filing(p), NEW r \in Ask
  PROVE  Moving(r)
<1>1. UNCHANGED <<up, row, hub, claim, job, due, answers, notices>>
  BY FilingIs DEF Filed
<1>2. call'[r] = None => call[r] = None
  BY FilingCalls
<1>3. QED BY <1>1, <1>2 DEF Moving, Visible, InState

LEMMA OthersMove ==
  ASSUME TypeOK, NEW r \in Ask
  PROVE  /\ \A p \in Process : Settle(p) => Moving(r)
         /\ \A p \in Process, s \in Ask :
              Reconcile(p, s) \/ Purge(p, s) \/ ClearMarker(p, s) => Moving(r)
         /\ \A s \in Ask : RowAges(s) => Moving(r)
         /\ MarkerAges \/ (\E p \in Process : Sweep(p)) => Moving(r)
<1>1. row \in [Ask -> Row \cup {None}]
  BY DEF TypeOK
<1>2. ASSUME NEW p \in Process, Settle(p)
      PROVE  Moving(r)
  <2>1. fix[p].ask \in Ask /\ fix[p].state \in State
    BY <1>2 DEF Settle, TypeOK, Fix
  <2>2. \/ row' = Moved(fix[p].ask, "dispatched", "unknown")
        \/ row' = Dropped(fix[p].ask, fix[p].state)
    BY <1>2 DEF Settle
  <2>3. /\ Visible(r)' => Visible(r)
        /\ InState(r, {"expired"})' => InState(r, {"expired"})
        /\ row[r] = None => row'[r] = None
    <3>1. CASE row' = Moved(fix[p].ask, "dispatched", "unknown")
      BY <2>1, <3>1, MovedSeen, Places
    <3>2. CASE row' = Dropped(fix[p].ask, fix[p].state)
      BY <2>1, <3>2, MovedSeen, Places
    <3>3. QED BY <2>2, <3>1, <3>2
  <2>4. UNCHANGED <<up, hub, claim, job, due, answers, notices, call>>
    BY <1>2 DEF Settle, told
  <2>5. QED BY <2>3, <2>4 DEF Moving
<1>3. ASSUME NEW p \in Process, NEW s \in Ask, Reconcile(p, s) \/ ClearMarker(p, s)
      PROVE  Moving(r)
  BY <1>3 DEF Reconcile, ClearMarker, Moving, Visible, InState, told
<1>4. ASSUME NEW p \in Process, NEW s \in Ask, Purge(p, s)
      PROVE  Moving(r)
  BY <1>1, <1>4 DEF Purge, Moving, Visible, InState, memory, told
<1>5. ASSUME NEW s \in Ask, RowAges(s)
      PROVE  Moving(r)
  <2>1. row[s] \in Row /\ row'[s] = [row[s] EXCEPT !.age = @ + 1]
        /\ (r # s => row'[r] = row[r])
    BY <1>1, <1>5 DEF RowAges
  <2>2. row'[s].state = row[s].state /\ row'[s] # None
    <3>1. row[s].age < MaxAge
      BY <1>5 DEF RowAges
    <3>2. row'[s] \in Row /\ row'[s].state = row[s].state
      BY <2>1, <3>1 DEF Row
    <3>3. QED BY <3>2
  <2>3. QED BY <1>1, <1>5, <2>1, <2>2 DEF RowAges, Moving, Visible, InState, memory, told
<1>6. MarkerAges \/ (\E p \in Process : Sweep(p)) => Moving(r)
  BY DEF MarkerAges, Sweep, Moving, Visible, InState, memory, told
<1>7. QED BY <1>2, <1>3, <1>4, <1>5, <1>6

(* What is done for one ask spares the others. *)
LEMMA OthersSpared ==
  ASSUME TypeOK, NEW p \in Process, NEW s \in Ask, NEW r \in Ask, s # r,
         \/ ReplyArrives(p, s) \/ ClaimReply(p, s) \/ CheckReply(p, s) \/ MarkReply(p, s)
         \/ Record(p, s) \/ DeliveryFails(p, s) \/ TellHub(p, s) \/ Recover(p, s) \/ CheckRecovered(p, s)
         \/ Expire(p, s) \/ RecordNotice(p, s) \/ NoticeFails(p, s)
         \/ HubAccepts(s) \/ LeaseEnds(s)
  PROVE  Spared(r)
<1> DEFINE Jobs == \A q \in Process : job'[q][r] = job[q][r]
           Dues == \A q \in Process : \A d \in due'[q] : d \in due[q]
<1>1. ASSUME NEW work \in Work \cup {None}, Does(p, s, work)
      PROVE  Jobs
  BY <1>1 DEF Does, TypeOK
<1>2. CASE ReplyArrives(p, s) \/ HubAccepts(s) \/ LeaseEnds(s)
  <2>1. Jobs
    BY <1>1, <1>2, Places DEF ReplyArrives, HubAccepts, LeaseEnds, memory
  <2>2. /\ hub'[r] = hub[r] /\ claim'[r] = claim[r]
        /\ UNCHANGED <<up, row, call, answers, notices, due>>
    BY <1>2 DEF ReplyArrives, HubAccepts, LeaseEnds, TypeOK, memory, told
  <2>3. QED BY <2>1, <2>2 DEF Spared
<1>3. CASE ClaimReply(p, s) \/ CheckReply(p, s)
  <2>1. Jobs
    BY <1>1, <1>3, Places DEF ClaimReply, CheckReply
  <2>2. /\ hub'[r] = hub[r] /\ claim'[r] = claim[r]
        /\ UNCHANGED <<up, row, call, answers, notices, due>>
    BY <1>3 DEF ClaimReply, CheckReply, Taken, TypeOK, told
  <2>3. QED BY <2>1, <2>2 DEF Spared
<1>4. CASE Record(p, s) \/ DeliveryFails(p, s)
  <2>1. Jobs
    BY <1>1, <1>4, Places DEF Record, DeliveryFails
  <2>2. /\ hub'[r] = hub[r] /\ claim'[r] = claim[r] /\ row'[r] = row[r]
        /\ answers'[r] = answers[r] /\ UNCHANGED <<up, call, notices, due>>
    <3>1. CASE Record(p, s)
      <4>1. /\ claim' = claim \/ claim' = [claim EXCEPT ![s].done = TRUE]
            /\ row' = row \/ row' = [row EXCEPT ![s] = None]
            /\ answers' = answers \/ answers' = [answers EXCEPT ![s] = @ + 1]
            /\ hub' = hub
        BY <3>1 DEF Record
      <4>2. UNCHANGED <<up, call, notices, due>>
        BY <3>1 DEF Record
      <4>3. QED BY <4>1, <4>2 DEF TypeOK
    <3>2. CASE DeliveryFails(p, s)
      BY <3>2 DEF DeliveryFails, TypeOK, told
    <3>3. QED BY <1>4, <3>1, <3>2
  <2>3. QED BY <2>1, <2>2 DEF Spared
<1>5. CASE Recover(p, s) \/ CheckRecovered(p, s)
  <2>1. Jobs
    BY <1>1, <1>5, Places DEF Recover, CheckRecovered
  <2>2. claim'[r] = claim[r] /\ UNCHANGED <<up, hub, row, call, answers, notices, due>>
    BY <1>5 DEF Recover, CheckRecovered, Taken, TypeOK, told
  <2>3. QED BY <2>1, <2>2 DEF Spared
<1>6. CASE Expire(p, s)
  <2>1. Jobs
    BY <1>1, <1>6, Places DEF Expire
  <2>2. row'[r] = row[r] /\ Dues /\ UNCHANGED <<up, hub, claim, call, answers, notices>>
    BY <1>6 DEF Expire, Moved, TypeOK, told
  <2>3. QED BY <2>1, <2>2 DEF Spared
<1>7. CASE RecordNotice(p, s) \/ NoticeFails(p, s)
  <2>1. Jobs
    BY <1>1, <1>7, Places DEF RecordNotice, NoticeFails
  <2>2. /\ row'[r] = row[r] /\ notices'[r] = notices[r]
        /\ UNCHANGED <<up, hub, claim, call, answers, due>>
    BY <1>7 DEF RecordNotice, NoticeFails, Dropped, TypeOK, told
  <2>3. QED BY <2>1, <2>2 DEF Spared
<1>8. CASE MarkReply(p, s) \/ TellHub(p, s)
  <2>1. Jobs
    BY <1>1, <1>8, Places DEF MarkReply, TellHub
  <2>2. /\ hub'[r] = hub[r]
        /\ UNCHANGED <<up, row, claim, call, answers, notices, due>>
    BY <1>8 DEF MarkReply, TellHub, TypeOK, told
  <2>3. QED BY <2>1, <2>2 DEF Spared
<1>9. QED BY <1>2, <1>3, <1>4, <1>5, <1>6, <1>7, <1>8

LEMMA JobIs ==
  ASSUME TypeOK, NEW p \in Process, NEW r \in Ask, NEW work \in Work \cup {None},
         Does(p, r, work)
  PROVE  job'[p][r] = work /\ \A q \in Process \ {p} : job'[q][r] = job[q][r]
BY DEF Does, TypeOK

LEMMA ClaimIs ==
  ASSUME TypeOK, NEW p \in Process, NEW r \in Ask
  PROVE  /\ claim' = Taken(p, r) =>
              /\ claim'[r] # None /\ claim'[r].owner = p
              /\ claim'[r].live /\ ~claim'[r].done
         /\ claim' = [claim EXCEPT ![r] = None] => claim'[r] = None
         /\ claim' = [claim EXCEPT ![r].done = TRUE] /\ claim[r] # None =>
              claim'[r] # None /\ claim'[r].owner = claim[r].owner /\ claim'[r].done
         /\ claim' = [claim EXCEPT ![r].live = FALSE] /\ claim[r] # None =>
              /\ claim'[r] # None /\ claim'[r].owner = claim[r].owner
              /\ claim'[r].done = claim[r].done
<1>1. claim \in [Ask -> Claim \cup {None}]
  BY DEF TypeOK
<1>2. [owner |-> p, live |-> TRUE, done |-> FALSE] \in Claim
  BY DEF Claim
<1>3. claim' = Taken(p, r) => claim'[r] = [owner |-> p, live |-> TRUE, done |-> FALSE]
  BY <1>1 DEF Taken
<1>4. ASSUME claim[r] # None
      PROVE  /\ claim' = [claim EXCEPT ![r].done = TRUE] =>
                   claim'[r] = [claim[r] EXCEPT !.done = TRUE]
             /\ claim' = [claim EXCEPT ![r].live = FALSE] =>
                   claim'[r] = [claim[r] EXCEPT !.live = FALSE]
             /\ claim[r] \in Claim
  BY <1>1, <1>4
<1>5. ASSUME claim[r] # None
      PROVE  /\ [claim[r] EXCEPT !.done = TRUE] \in Claim
             /\ [claim[r] EXCEPT !.live = FALSE] \in Claim
  BY <1>4, <1>5 DEF Claim
<1>6. claim' = Taken(p, r) =>
        /\ claim'[r] # None /\ claim'[r].owner = p
        /\ claim'[r].live /\ ~claim'[r].done
  BY <1>2, <1>3
<1>7. claim' = [claim EXCEPT ![r] = None] => claim'[r] = None
  BY <1>1
<1>8. claim[r] # None /\ claim' = [claim EXCEPT ![r].done = TRUE] =>
        claim'[r] # None /\ claim'[r].owner = claim[r].owner /\ claim'[r].done
  BY <1>4, <1>5 DEF Claim
<1>9. claim[r] # None /\ claim' = [claim EXCEPT ![r].live = FALSE] =>
        /\ claim'[r] # None /\ claim'[r].owner = claim[r].owner
        /\ claim'[r].done = claim[r].done
  BY <1>4, <1>5 DEF Claim
<1>10. QED BY <1>6, <1>7, <1>8, <1>9

(* A process that gives up its work for an ask, and nothing else. *)
LEMMA LaidDown ==
  ASSUME NEW p \in Process, NEW r \in Ask, Verified(r),
         UNCHANGED <<row, call, hub, claim, answers, notices, due, up>>,
         job'[p][r] = None, \A q \in Process \ {p} : job'[q][r] = job[q][r]
  PROVE  Verified(r)'
<1>1. Origin(r)'
  BY DEF Verified, Origin
<1>2. (Closed(r)' => Closed(r)) /\ (Delivering(r)' => Delivering(r))
  BY Places DEF Closed, InState, Delivering, Mine
<1>3. Verdict(r)'
  BY <1>2 DEF Verified, Verdict, Visible, InState
<1>4. Prompt => Undisturbed(r)'
  BY Places DEF Verified, Undisturbed, Mine
<1>5. QED BY <1>1, <1>3, <1>4 DEF Verified

(* The steps that decide, for the ask itself. *)
LEMMA ReplyVerified ==
  ASSUME TypeOK, NEW p \in Process, NEW r \in Ask, Verified(r),
         \/ ReplyArrives(p, r) \/ ClaimReply(p, r) \/ CheckReply(p, r) \/ MarkReply(p, r)
         \/ Record(p, r) \/ DeliveryFails(p, r) \/ TellHub(p, r) \/ HubAccepts(r) \/ LeaseEnds(r)
  PROVE  Verified(r)'
<1> DEFINE Job(work) == job'[p][r] = work /\ \A q \in Process \ {p} : job'[q][r] = job[q][r]
<1>1. CASE HubAccepts(r)
  BY <1>1 DEF Verified, TypeOK, HubAccepts, At, Underway, Origin, Verdict, Undisturbed, Closed,
     Delivering, Mine, Visible, InState, memory, told
<1>2. CASE ReplyArrives(p, r)
  <2>1. Origin(r)'
    BY <1>2 DEF Verified, TypeOK, ReplyArrives, Does, Origin, told
  <2>2. Verdict(r)'
    <3>1. UNCHANGED <<up, row, call, claim, due, answers, notices>> /\ hub[r] = "holds"
      BY <1>2 DEF ReplyArrives, told
    <3>2. CASE Visible(r) /\ Does(p, r, "claim") /\ UNCHANGED hub
      <4>1. Job("claim")
        BY <3>2, JobIs, Places
      <4>2. (Closed(r)' => Closed(r)) /\ (Delivering(r)' => Delivering(r))
        BY <3>1, <3>2, <4>1 DEF Closed, InState, Delivering, Mine
      <4>3. QED BY <3>1, <4>2 DEF Verified, Verdict, Visible, InState
    <3>3. CASE ~Visible(r) /\ job' = job
      <4>1. Delivering(r)' => Delivering(r)
        BY <3>1, <3>3 DEF Delivering, Mine
      <4>2. CASE claim[r] = None
        <5>1. answers[r] = 0 /\ call[r] # None
          BY <3>1, <4>2 DEF Verified, Verdict, Origin, TypeOK
        <5>2. ~Delivering(r)' /\ ~Visible(r)'
          BY <3>1, <3>3, <4>1, <4>2 DEF Delivering, Mine, Visible, InState
        <5>3. QED BY <3>1, <4>2, <5>1, <5>2 DEF Verdict
      <4>3. CASE claim[r] # None
        <5>1. hub'[r] # "dropped"
          BY <1>2, <3>1, <3>3, <4>3 DEF ReplyArrives, TypeOK
        <5>2. Closed(r)' => Closed(r)
          BY <3>1, <3>3, <5>1 DEF Closed, InState
        <5>3. QED BY <3>1, <4>1, <5>2 DEF Verified, Verdict, Visible, InState
      <4>4. QED BY <4>2, <4>3
    <3>4. QED BY <1>2, <3>2, <3>3 DEF ReplyArrives
  <2>3. Prompt => Undisturbed(r)'
    <3>1. UNCHANGED <<up, claim>>
      BY <1>2 DEF ReplyArrives
    <3>2. \A q \in Process : job'[q][r] = job[q][r] \/ job'[q][r] = "claim"
      BY <1>2, JobIs, Places DEF ReplyArrives
    <3>3. QED BY <3>1, <3>2 DEF Verified, Undisturbed, Mine
  <2>4. QED BY <2>1, <2>2, <2>3 DEF Verified
<1>3. CASE ClaimReply(p, r)
  <2>1. /\ UNCHANGED <<row, call, due, answers, notices, up>> /\ job[p][r] = "claim" /\ up[p]
    BY <1>3, Zenon DEF ClaimReply, told
  <2>2. CASE /\ claim[r] = None \/ (~claim[r].done /\ ~claim[r].live)
             /\ claim' = Taken(p, r) /\ Does(p, r, "check") /\ hub' = hub
    <3>1. Job("check")
      BY <2>2, JobIs, Places
    <3>2. /\ claim'[r] # None /\ claim'[r].owner = p
          /\ claim'[r].live /\ ~claim'[r].done
      BY <2>2, ClaimIs
    <3>3. answers[r] = 0
      BY <2>2 DEF Verified, Verdict, TypeOK
    <3>4. Origin(r)'
      BY <2>1, <2>2, <3>1, Places DEF Verified, Origin
    <3>5. ~Delivering(r)'
      BY <3>1, <3>2 DEF Delivering, Mine
    <3>6. Closed(r)' => Closed(r)
      BY <2>1, <2>2, <3>1 DEF Closed, InState
    <3>7. Verdict(r)'
      BY <2>1, <3>2, <3>3, <3>5, <3>6 DEF Verified, Verdict, Visible, InState
    <3>8. Prompt => Undisturbed(r)'
      BY <2>1, <2>2, <3>1, <3>2 DEF Verified, Undisturbed, Mine
    <3>9. QED BY <3>4, <3>7, <3>8 DEF Verified
  <2>3. CASE /\ ~(claim[r] = None \/ (~claim[r].done /\ ~claim[r].live))
             /\ Does(p, r, None) /\ claim' = claim
             /\ hub' = [hub EXCEPT ![r] = IF claim[r].done THEN "delivered" ELSE @]
    <3>1. Job(None)
      BY <2>3, JobIs, Places
    <3>2. hub'[r] = hub[r] \/ hub'[r] = "delivered"
      BY <2>3 DEF TypeOK
    <3>3. hub[r] # "idle"
      BY <2>3 DEF Verified, Origin
    <3>4. Origin(r)'
      BY <2>1, <2>3, <3>1, <3>2, <3>3 DEF Verified, Origin
    <3>5. Delivering(r)' => Delivering(r)
      BY <2>1, <2>3, <3>1, Places DEF Delivering, Mine
    <3>6. Closed(r)' => Closed(r)
      BY <2>1, <3>1, <3>2, Places DEF Closed, InState
    <3>7. Verdict(r)'
      BY <2>1, <2>3, <3>5, <3>6 DEF Verified, Verdict, Visible, InState
    <3>8. Prompt => Undisturbed(r)'
      BY <2>1, <2>3, <3>1, Places DEF Verified, Undisturbed, Mine
    <3>9. QED BY <3>4, <3>7, <3>8 DEF Verified
  <2>4. QED BY <1>3, <2>2, <2>3 DEF ClaimReply
<1>4. CASE CheckReply(p, r)
  <2>1. /\ UNCHANGED <<row, call, due, answers, notices, up>> /\ job[p][r] = "check" /\ up[p]
    BY <1>4, Zenon DEF CheckReply, told
  <2>2. hub[r] # "idle"
    BY <2>1, Places DEF Verified, Origin
  <2>3. CASE Visible(r) /\ Does(p, r, "ready") /\ UNCHANGED <<hub, claim>>
    <3>1. Job("ready")
      BY <2>3, JobIs, Places
    <3>2. ~Closed(r) /\ answers[r] = 0 /\ (claim[r] # None => ~claim[r].done)
      BY <2>3 DEF Verified, Verdict, TypeOK
    <3>3. ~Closed(r)'
      BY <2>1, <2>3, <3>1, <3>2 DEF Closed, InState
    <3>4. Origin(r)'
      BY <2>1, <2>2, <2>3, <3>1 DEF Verified, Origin
    <3>5. Verdict(r)'
      BY <2>1, <2>3, <3>2, <3>3 DEF Verdict
    <3>6. Prompt => Undisturbed(r)'
      BY <2>1, <2>3, <3>1 DEF Verified, Undisturbed, Mine
    <3>7. QED BY <3>4, <3>5, <3>6 DEF Verified
  <2>4. CASE /\ ~Visible(r) /\ Does(p, r, None)
             /\ claim' = IF Mine(p, r) THEN [claim EXCEPT ![r] = None] ELSE claim
             /\ hub' = [hub EXCEPT ![r] = "dropped"]
    <3>1. Job(None)
      BY <2>4, JobIs, Places
    <3>2. hub'[r] = "dropped"
      BY <2>4 DEF TypeOK
    <3>3. claim'[r] = claim[r] \/ (Mine(p, r) /\ claim'[r] = None)
      BY <2>4, ClaimIs
    <3>4. call[r] # None
      BY <2>2 DEF Verified, Origin
    <3>5. ~Visible(r)'
      BY <2>1, <2>4 DEF Visible, InState
    <3>6. Delivering(r)' => Delivering(r)
      BY <3>1, <3>3, Places DEF Delivering, Mine
    <3>7. ASSUME Prompt
          PROVE  answers[r] = 0 /\ claim'[r] = None
      <4>1. Mine(p, r)
        BY <2>1, <3>7 DEF Verified, Undisturbed
      <4>2. claim' = [claim EXCEPT ![r] = None]
        BY <2>4, <4>1
      <4>3. claim'[r] = None
        BY <4>2, ClaimIs
      <4>4. answers[r] = 0
        BY <4>1 DEF Mine, Verified, Verdict, TypeOK
      <4>5. QED BY <4>3, <4>4
    <3>8. Prompt => ~Delivering(r)'
      BY <3>7 DEF Delivering, Mine
    <3>9. Closed(r)' => Closed(r) \/ Prompt
      BY <2>1, <3>1, Places DEF Closed, InState
    <3>10. answers[r] > 0 => claim'[r] # None /\ claim'[r].done
      BY <3>3 DEF Verified, Verdict, Mine
    <3>11. Verdict(r)'
      BY <2>1, <3>4, <3>5, <3>6, <3>7, <3>8, <3>9, <3>10 DEF Verified, Verdict
    <3>12. Origin(r)'
      BY <2>1, <3>1, <3>2, <3>4 DEF Verified, Origin
    <3>13. Prompt => Undisturbed(r)'
      <4>1. SUFFICES ASSUME Prompt, NEW q \in Process, job'[q][r] \in {"check", "recheck"}
                     PROVE  FALSE
        BY DEF Undisturbed
      <4>2. q # p /\ job[q][r] \in {"check", "recheck"}
        BY <3>1, <4>1, Places
      <4>3. Mine(p, r) /\ Mine(q, r)
        BY <2>1, <4>1, <4>2 DEF Verified, Undisturbed
      <4>4. QED BY <4>2, <4>3 DEF Mine
    <3>14. QED BY <3>11, <3>12, <3>13 DEF Verified
  <2>5. QED BY <1>4, <2>3, <2>4 DEF CheckReply
<1>5. CASE Record(p, r)
  <2>1. UNCHANGED <<call, hub, due, notices, up>> /\ job[p][r] = "deliver"
    BY <1>5, Zenon DEF Record
  <2>2. CASE /\ Mine(p, r)
             /\ answers' = [answers EXCEPT ![r] = @ + 1]
             /\ claim' = [claim EXCEPT ![r].done = TRUE]
             /\ row' = [row EXCEPT ![r] = None]
             /\ Does(p, r, "queued")
    <3>1. Job("queued")
      BY <2>2, JobIs, Places
    <3>2. claim'[r] # None /\ claim'[r].owner = claim[r].owner /\ claim'[r].done
      BY <2>2, ClaimIs DEF Mine
    <3>3. row'[r] = None /\ answers[r] \in Nat /\ answers'[r] = answers[r] + 1
      BY <2>2 DEF TypeOK
    <3>4. ~Closed(r) /\ answers[r] = 0
      BY <2>1, <2>2, <3>3 DEF Verified, Verdict, Delivering, Mine
    <3>5. ~Closed(r)'
      BY <2>1, <3>1, <3>3, <3>4, Places DEF Closed, InState
    <3>6. Verdict(r)'
      BY <3>2, <3>3, <3>4, <3>5 DEF Verdict, Visible, InState
    <3>7. hub[r] # "idle" /\ call[r] # None
      BY <2>1, Places DEF Verified, Origin
    <3>8. Origin(r)'
      BY <2>1, <3>3, <3>7 DEF Origin
    <3>9. Prompt => Undisturbed(r)'
      <4>1. SUFFICES ASSUME Prompt, NEW q \in Process, job'[q][r] \in {"check", "recheck"}
                     PROVE  FALSE
        BY DEF Undisturbed
      <4>2. q # p /\ job[q][r] \in {"check", "recheck"}
        BY <3>1, <4>1, Places
      <4>3. Mine(q, r)
        BY <4>1, <4>2 DEF Verified, Undisturbed
      <4>4. QED BY <2>2, <4>2, <4>3 DEF Mine
    <3>10. QED BY <3>6, <3>8, <3>9 DEF Verified
  <2>3. CASE ~Mine(p, r) /\ Does(p, r, None) /\ UNCHANGED <<answers, claim, row>>
    BY <2>1, <2>3, JobIs, Places, LaidDown
  <2>4. QED BY <1>5, <2>2, <2>3 DEF Record
<1>6. CASE DeliveryFails(p, r)
  <2>1. /\ UNCHANGED <<row, hub, call, due, answers, notices, up>>
        /\ job[p][r] = "deliver" /\ Does(p, r, None)
    BY <1>6, Zenon DEF DeliveryFails, told
  <2>2. Job(None)
    BY <2>1, JobIs, Places
  <2>3. CASE claim' = claim
    BY <2>1, <2>2, <2>3, LaidDown
  <2>4. CASE Mine(p, r) /\ claim' = [claim EXCEPT ![r] = None]
    <3>1. claim'[r] = None
      BY <2>4, ClaimIs
    <3>2. answers[r] = 0
      BY <2>4 DEF Mine, Verified, Verdict, TypeOK
    <3>3. ~Delivering(r)'
      BY <3>1 DEF Delivering, Mine
    <3>4. Closed(r)' => Closed(r)
      BY <2>1, <2>2, Places DEF Closed, InState
    <3>5. Verdict(r)'
      BY <2>1, <3>1, <3>2, <3>3, <3>4 DEF Verified, Verdict, Visible, InState
    <3>6. Origin(r)'
      BY <2>1, <2>2, <3>1 DEF Verified, Origin
    <3>7. Prompt => Undisturbed(r)'
      <4>1. SUFFICES ASSUME Prompt, NEW q \in Process, job'[q][r] \in {"check", "recheck"}
                     PROVE  FALSE
        BY DEF Undisturbed
      <4>2. q # p /\ job[q][r] \in {"check", "recheck"}
        BY <2>2, <4>1, Places
      <4>3. Mine(q, r)
        BY <4>1, <4>2 DEF Verified, Undisturbed
      <4>4. QED BY <2>4, <4>2, <4>3 DEF Mine
    <3>8. QED BY <3>5, <3>6, <3>7 DEF Verified
  <2>5. QED BY <1>6, <2>3, <2>4, Zenon DEF DeliveryFails
<1>7. CASE LeaseEnds(r)
  <2>1. /\ UNCHANGED <<up, row, call, hub, job, due, answers, notices>>
        /\ claim' = [claim EXCEPT ![r].live = FALSE] /\ claim[r] # None
    BY <1>7, Zenon DEF LeaseEnds, memory, told
  <2>2. claim'[r] # None /\ claim'[r].owner = claim[r].owner /\ claim'[r].done = claim[r].done
    BY <2>1, ClaimIs
  <2>3. Origin(r)'
    BY <2>1, <2>2 DEF Verified, Origin
  <2>4. Verdict(r)'
    BY <2>1, <2>2 DEF Verified, Verdict, Closed, Delivering, Mine, Visible, InState
  <2>5. Prompt => Undisturbed(r)'
    <3>1. Prompt => \A q \in Process : job[q][r] \notin {"check", "recheck"}
      BY <1>7 DEF LeaseEnds, Verified, Undisturbed, Mine
    <3>2. QED BY <2>1, <3>1 DEF Undisturbed
  <2>6. QED BY <2>3, <2>4, <2>5 DEF Verified
<1>8. CASE MarkReply(p, r)
  <2>1. UNCHANGED <<up, row, call, hub, claim, due, answers, notices>>
    BY <1>8, Zenon DEF MarkReply, told
  <2>2. \/ job[p][r] = "ready" /\ Job("deliver")
        \/ job[p][r] = "queued" /\ Job("tell")
    BY <1>8, JobIs, Places DEF MarkReply
  <2>3. hub[r] # "idle"
    BY <2>2, Places DEF Verified, Origin
  <2>4. Delivering(r)' => Delivering(r)
    BY <2>1, <2>2, Places DEF Delivering, Mine
  <2>5. Closed(r)' => Closed(r)
    BY <2>1, <2>2 DEF Closed, InState
  <2>6. Verdict(r)'
    BY <2>1, <2>4, <2>5 DEF Verified, Verdict, Visible, InState
  <2>7. Origin(r)'
    BY <2>1, <2>3 DEF Verified, Origin
  <2>8. Prompt => Undisturbed(r)'
    BY <2>1, <2>2 DEF Verified, Undisturbed, Mine
  <2>9. QED BY <2>6, <2>7, <2>8 DEF Verified
<1>9. CASE TellHub(p, r)
  <2>1. /\ UNCHANGED <<up, row, call, claim, due, answers, notices>>
        /\ job[p][r] = "tell" /\ Does(p, r, None)
        /\ hub' \in {hub, [hub EXCEPT ![r] = "delivered"]}
    BY <1>9, Zenon DEF TellHub, told
  <2>2. Job(None)
    BY <2>1, JobIs, Places
  <2>3. hub[r] # "idle" /\ hub'[r] \in {hub[r], "delivered"}
    BY <2>1, Places DEF Verified, Origin, TypeOK
  <2>4. (Closed(r)' => Closed(r)) /\ (Delivering(r)' => Delivering(r))
    BY <2>1, <2>2, <2>3, Places DEF Closed, InState, Delivering, Mine
  <2>5. Verdict(r)'
    BY <2>1, <2>4 DEF Verified, Verdict, Visible, InState
  <2>6. Origin(r)'
    BY <2>1, <2>3 DEF Verified, Origin
  <2>7. Prompt => Undisturbed(r)'
    BY <2>1, <2>2, Places DEF Verified, Undisturbed, Mine
  <2>8. QED BY <2>5, <2>6, <2>7 DEF Verified
<1>10. QED BY <1>1, <1>2, <1>3, <1>4, <1>5, <1>6, <1>7, <1>8, <1>9

LEMMA MaintenanceVerified ==
  ASSUME TypeOK, NEW p \in Process, NEW r \in Ask, Verified(r),
         \/ Recover(p, r) \/ CheckRecovered(p, r) \/ ListDue(p)
         \/ Expire(p, r) \/ RecordNotice(p, r) \/ NoticeFails(p, r)
  PROVE  Verified(r)'
<1> DEFINE Job(work) == job'[p][r] = work /\ \A q \in Process \ {p} : job'[q][r] = job[q][r]
<1>1. CASE Recover(p, r)
  <2>1. /\ UNCHANGED <<row, call, hub, due, answers, notices, up>>
        /\ claim[r] # None /\ ~claim[r].done /\ (~claim[r].live \/ ~up[claim[r].owner])
        /\ claim' = Taken(p, r) /\ Does(p, r, "recheck") /\ up[p]
    BY <1>1, Zenon DEF Recover, Free, Open, told
  <2>2. Job("recheck")
    BY <2>1, JobIs, Places
  <2>3. /\ claim'[r] # None /\ claim'[r].owner = p
        /\ claim'[r].live /\ ~claim'[r].done
    BY <2>1, ClaimIs
  <2>4. answers[r] = 0 /\ hub[r] # "idle"
    BY <2>1 DEF Verified, Verdict, Origin, TypeOK
  <2>5. Origin(r)'
    BY <2>1, <2>4 DEF Verified, Origin
  <2>6. ~Delivering(r)'
    BY <2>2, <2>3 DEF Delivering, Mine
  <2>7. Closed(r)' => Closed(r)
    BY <2>1, <2>2 DEF Closed, InState
  <2>8. Verdict(r)'
    BY <2>1, <2>3, <2>4, <2>6, <2>7 DEF Verified, Verdict, Visible, InState
  <2>9. Prompt => Undisturbed(r)'
    BY <2>1, <2>2, <2>3 DEF Verified, Undisturbed, Mine
  <2>10. QED BY <2>5, <2>8, <2>9 DEF Verified
<1>2. CASE CheckRecovered(p, r)
  <2>1. /\ UNCHANGED <<row, call, hub, due, answers, notices, up>> /\ job[p][r] = "recheck"
    BY <1>2, Zenon DEF CheckRecovered, told
  <2>2. hub[r] # "idle"
    BY <2>1, Places DEF Verified, Origin
  <2>3. CASE Visible(r) /\ Does(p, r, "ready") /\ UNCHANGED claim
    <3>1. Job("ready")
      BY <2>3, JobIs, Places
    <3>2. ~Closed(r) /\ answers[r] = 0 /\ (claim[r] # None => ~claim[r].done)
      BY <2>3 DEF Verified, Verdict, TypeOK
    <3>3. ~Closed(r)'
      BY <2>1, <2>3, <3>1, <3>2 DEF Closed, InState
    <3>4. Origin(r)'
      BY <2>1, <2>2, <2>3, <3>1 DEF Verified, Origin
    <3>5. Verdict(r)'
      BY <2>1, <2>3, <3>2, <3>3 DEF Verdict
    <3>6. Prompt => Undisturbed(r)'
      BY <2>1, <2>3, <3>1 DEF Verified, Undisturbed, Mine
    <3>7. QED BY <3>4, <3>5, <3>6 DEF Verified
  <2>4. CASE ~Mine(p, r) /\ Does(p, r, None) /\ UNCHANGED claim
    BY <2>1, <2>4, JobIs, Places, LaidDown
  <2>5. CASE /\ ~Visible(r) /\ Mine(p, r) /\ Does(p, r, None)
             /\ claim' = [claim EXCEPT ![r].done = TRUE]
    <3>1. Job(None)
      BY <2>5, JobIs, Places
    <3>2. claim'[r] # None /\ claim'[r].owner = claim[r].owner /\ claim'[r].done
      BY <2>5, ClaimIs DEF Mine
    <3>3. answers[r] = 0 /\ ~Visible(r)'
      BY <2>1, <2>5 DEF Mine, Verified, Verdict, Visible, InState, TypeOK
    <3>4. ~Delivering(r)'
      BY <3>2 DEF Delivering, Mine
    <3>5. Closed(r)' => Closed(r)
      BY <2>1, <3>1, Places DEF Closed, InState
    <3>6. Verdict(r)'
      BY <2>1, <3>2, <3>3, <3>4, <3>5 DEF Verified, Verdict
    <3>7. Origin(r)'
      BY <2>1, <2>2 DEF Verified, Origin
    <3>8. Prompt => Undisturbed(r)'
      <4>1. SUFFICES ASSUME Prompt, NEW q \in Process, job'[q][r] \in {"check", "recheck"}
                     PROVE  FALSE
        BY DEF Undisturbed
      <4>2. q # p /\ job[q][r] \in {"check", "recheck"}
        BY <3>1, <4>1, Places
      <4>3. Mine(q, r)
        BY <4>1, <4>2 DEF Verified, Undisturbed
      <4>4. QED BY <2>5, <4>2, <4>3 DEF Mine
    <3>9. QED BY <3>6, <3>7, <3>8 DEF Verified
  <2>6. QED BY <1>2, <2>3, <2>4, <2>5, Zenon DEF CheckRecovered
<1>3. CASE ListDue(p)
  <2>1. UNCHANGED <<up, row, call, hub, claim, job, answers, notices>>
    BY <1>3, Zenon DEF ListDue, told
  <2>2. ASSUME NEW q \in Process, NEW d \in due'[q], d.ask = r, d.state # "unknown"
        PROVE  Closed(r)
    <3>1. CASE q = p
      <4>1. due'[p] = {[ask |-> s, state |-> row[s].state] : s \in {t \in Ask : Expirable(t)}}
        BY <1>3 DEF ListDue, TypeOK
      <4>2. PICK s \in Ask : Expirable(s) /\ d = [ask |-> s, state |-> row[s].state]
        BY <2>2, <3>1, <4>1
      <4>3. Expirable(r) /\ row[r].state # "unknown"
        BY <2>2, <4>2
      <4>4. QED BY <4>3 DEF Expirable, InState, Closed
    <3>2. CASE q # p
      <4>1. due'[q] = due[q]
        BY <1>3, <3>2 DEF ListDue, TypeOK
      <4>2. QED BY <2>2, <4>1 DEF Closed
    <3>3. QED BY <3>1, <3>2
  <2>3. Closed(r)' => Closed(r)
    BY <2>1, <2>2 DEF Closed, InState
  <2>4. Verdict(r)'
    BY <2>1, <2>3 DEF Verified, Verdict, Visible, InState, Delivering, Mine
  <2>5. Origin(r)' /\ (Prompt => Undisturbed(r)')
    BY <2>1 DEF Verified, Origin, Undisturbed, Mine
  <2>6. QED BY <2>4, <2>5 DEF Verified
<1>4. CASE Expire(p, r)
  <2>1. /\ UNCHANGED <<up, call, hub, claim, answers, notices>>
        /\ job[p][r] = None
        /\ \A q \in Process : \A d \in due'[q] : d \in due[q]
    BY <1>4 DEF Expire, Free, told, TypeOK
  <2>2. PICK d \in due[p] :
          /\ d.ask = r
          /\ IF d.state = "unknown"
             THEN IF InState(r, {"unknown"}) /\ (claim[r] = None \/ claim[r].done)
                  THEN row' = Moved(r, "unknown", "expired") /\ Does(p, r, "notice")
                  ELSE UNCHANGED <<row, job>>
             ELSE UNCHANGED row /\ Does(p, r, "notice")
    BY <1>4 DEF Expire
  <2>3. CASE UNCHANGED <<row, job>>
    <3>1. Closed(r)' => Closed(r)
      BY <2>1, <2>3 DEF Closed, InState
    <3>2. Verdict(r)'
      BY <2>1, <2>3, <3>1 DEF Verified, Verdict, Visible, InState, Delivering, Mine
    <3>3. Origin(r)' /\ (Prompt => Undisturbed(r)')
      BY <2>1, <2>3 DEF Verified, Origin, Undisturbed, Mine
    <3>4. QED BY <3>2, <3>3 DEF Verified
  <2>4. CASE Does(p, r, "notice")
    <3>1. Job("notice")
      BY <2>4, JobIs, Places
    <3>2. /\ call[r] # None /\ answers[r] = 0 /\ ~Visible(r)' /\ ~Delivering(r)
          /\ (row[r] = None => row'[r] = None)
      <4>1. CASE d.state # "unknown"
        <5>1. Closed(r) /\ row' = row
          BY <2>2, <4>1 DEF Closed
        <5>2. QED BY <5>1 DEF Verified, Verdict, Visible, InState
      <4>2. CASE InState(r, {"unknown"}) /\ (claim[r] = None \/ claim[r].done)
                 /\ row' = Moved(r, "unknown", "expired")
        <5>1. Visible(r) /\ row[r] # None
          BY <4>2, Places DEF InState, Visible
        <5>2. claim[r] = None /\ answers[r] = 0 /\ call[r] # None
          BY <4>2, <5>1 DEF Verified, Verdict, Origin, TypeOK
        <5>3. row'[r] = [row[r] EXCEPT !.state = "expired"] /\ row[r] \in Row
          BY <4>2, <5>1 DEF Moved, TypeOK
        <5>4. row'[r].state = "expired"
          BY <5>3 DEF Row
        <5>5. QED BY <5>1, <5>2, <5>4 DEF Visible, InState, Delivering, Mine
      <4>3. QED BY <2>1, <2>2, <2>4, <4>1, <4>2, JobIs, Places
    <3>3. ~Delivering(r)'
      BY <2>1, <3>1, <3>2 DEF Delivering, Mine
    <3>4. Verdict(r)'
      BY <2>1, <3>2, <3>3 DEF Verified, Verdict
    <3>5. Origin(r)'
      BY <2>1, <3>1, <3>2 DEF Verified, Origin
    <3>6. Prompt => Undisturbed(r)'
      BY <2>1, <3>1 DEF Verified, Undisturbed, Mine
    <3>7. QED BY <3>4, <3>5, <3>6 DEF Verified
  <2>5. QED BY <2>2, <2>3, <2>4
<1>5. CASE RecordNotice(p, r) \/ NoticeFails(p, r)
  <2>1. /\ UNCHANGED <<up, call, hub, claim, due, answers>>
        /\ job[p][r] = "notice" /\ Does(p, r, None)
        /\ row' = row \/ row' = Dropped(r, "expired")
    BY <1>5 DEF RecordNotice, NoticeFails, told
  <2>2. Job(None)
    BY <2>1, JobIs, Places
  <2>3. Closed(r)
    BY <2>1 DEF Closed
  <2>4. ~Visible(r)' /\ (row[r] = None => row'[r] = None)
    BY <2>1, <2>3 DEF Verified, Verdict, Dropped, Visible, InState, TypeOK
  <2>5. ~Delivering(r)'
    BY <2>1, <2>2, <2>3, Places DEF Verified, Verdict, Delivering, Mine
  <2>6. Verdict(r)'
    BY <2>1, <2>3, <2>4, <2>5 DEF Verified, Verdict
  <2>7. Origin(r)'
    BY <2>1, <2>2, <2>4 DEF Verified, Origin
  <2>8. Prompt => Undisturbed(r)'
    BY <2>1, <2>2, Places DEF Verified, Undisturbed, Mine
  <2>9. QED BY <2>6, <2>7, <2>8 DEF Verified
<1>6. QED BY <1>1, <1>2, <1>3, <1>4, <1>5

LEMMA VerdictInit == Init => VerdictInv
<1> SUFFICES ASSUME Init, NEW r \in Ask
             PROVE  Origin(r) /\ Verdict(r) /\ Undisturbed(r)
  BY DEF VerdictInv
<1>1. Origin(r)
  BY DEF Init, Origin
<1>2. ~Closed(r)
  BY Places DEF Init, Closed, InState
<1>3. Verdict(r)
  BY <1>2 DEF Init, Verdict
<1>4. Undisturbed(r)
  BY Places DEF Init, Undisturbed
<1>5. QED BY <1>1, <1>3, <1>4

LEMMA VerdictStep == TypeOK /\ PlacedInv /\ VerdictInv /\ [Next]_vars => VerdictInv'
<1> SUFFICES ASSUME TypeOK, PlacedInv, VerdictInv, [Next]_vars, NEW r \in Ask
             PROVE  Verified(r)'
  BY DEF VerdictInv, Verified
<1>1. Verified(r)
  BY DEF VerdictInv, Verified
<1>2. ASSUME NEW p \in Process, NEW s \in Ask, Asking(p, s)
      PROVE  Verified(r)'
  BY <1>1, <1>2, AskingMoves, MovingVerified
<1>3. ASSUME NEW p \in Process, NEW s \in Ask, Replying(p, s)
      PROVE  Verified(r)'
  <2>1. CASE ClearMarker(p, s)
    BY <1>1, <2>1, OthersMove, MovingVerified
  <2>2. CASE ~ClearMarker(p, s) /\ s = r
    BY <1>1, <1>3, <2>2, ReplyVerified DEF Replying
  <2>3. CASE ~ClearMarker(p, s) /\ s # r
    BY <1>1, <1>3, <2>3, OthersSpared, SparedVerified DEF Replying
  <2>4. QED BY <2>1, <2>2, <2>3
<1>4. ASSUME NEW p \in Process, Maintaining(p)
      PROVE  Verified(r)'
  <2>1. CASE Settle(p) \/ \E s \in Ask : Reconcile(p, s) \/ Purge(p, s)
    BY <1>1, <2>1, OthersMove, MovingVerified
  <2>2. CASE ListDue(p)
    BY <1>1, <2>2, MaintenanceVerified
  <2>3. ASSUME NEW s \in Ask,
               \/ Recover(p, s) \/ CheckRecovered(p, s)
               \/ Expire(p, s) \/ RecordNotice(p, s) \/ NoticeFails(p, s)
        PROVE  Verified(r)'
    <3>1. CASE s = r
      BY <1>1, <2>3, <3>1, MaintenanceVerified
    <3>2. CASE s # r
      BY <1>1, <2>3, <3>2, OthersSpared, SparedVerified
    <3>3. QED BY <3>1, <3>2
  <2>4. QED BY <1>4, <2>1, <2>2, <2>3 DEF Maintaining
<1>5. ASSUME NEW p \in Process, Crash(p)
      PROVE  Verified(r)'
  <2>1. /\ UNCHANGED <<row, hub, claim, answers, notices>>
        /\ call'[r] = call[r] \/ (call[r] # None /\ call'[r] # None)
        /\ \A q \in Process : job'[q][r] = job[q][r] \/ job'[q][r] = None
        /\ \A q \in Process : \A d \in due'[q] : d \in due[q]
        /\ \A q \in Process \ {p} : up'[q] = up[q]
        /\ job'[p][r] = None
    BY <1>5 DEF Crash, TypeOK, told, Underway
  <2>2. (Closed(r)' => Closed(r)) /\ (Delivering(r)' => Delivering(r))
    BY <2>1, Places DEF Closed, InState, Delivering, Mine
  <2>3. Verdict(r)'
    BY <1>1, <2>1, <2>2 DEF Verified, Verdict, Visible, InState
  <2>4. Origin(r)'
    BY <1>1, <2>1 DEF Verified, Origin
  <2>5. Prompt => Undisturbed(r)'
    BY <1>1, <2>1, Places DEF Verified, Undisturbed, Mine
  <2>6. QED BY <2>3, <2>4, <2>5 DEF Verified
<1>6. ASSUME NEW s \in Ask, HubAccepts(s) \/ LeaseEnds(s)
      PROVE  Verified(r)'
  <2>1. PICK p \in Process : TRUE
    <3>1. CASE HubAccepts(s)
      <4>1. call[s] \in Call
        BY <3>1 DEF HubAccepts, At, Underway, TypeOK
      <4>2. QED BY <4>1 DEF Call
    <3>2. CASE LeaseEnds(s)
      <4>1. claim[s] \in Claim
        BY <3>2 DEF LeaseEnds, TypeOK
      <4>2. QED BY <4>1 DEF Claim
    <3>3. QED BY <1>6, <3>1, <3>2
  <2>2. CASE s = r
    BY <1>1, <1>6, <2>2, ReplyVerified
  <2>3. CASE s # r
    BY <1>1, <1>6, <2>3, OthersSpared, SparedVerified
  <2>4. QED BY <2>2, <2>3
<1>7. CASE \/ MarkerAges \/ \E s \in Ask : RowAges(s)
           \/ \E p \in Process : Filing(p) \/ Sweep(p)
  BY <1>1, <1>7, FilingMoves, OthersMove, MovingVerified
<1>8. CASE UNCHANGED vars
  <2>1. Moving(r)
    BY <1>8 DEF vars, Moving, Visible, InState
  <2>2. QED BY <1>1, <2>1, MovingVerified
<1>9. QED BY <1>2, <1>3, <1>4, <1>5, <1>6, <1>7, <1>8 DEF Next, Passing

(* "so the answer is never written twice": a room gets the answer to an ask  *)
(* at most once, and never both an answer and the notice that none came.     *)
THEOREM OneVerdictHolds == Spec => []OneVerdict
<1>1. TypeOK /\ VerdictInv => OneVerdict
  BY DEF TypeOK, VerdictInv, Verdict, Closed, OneVerdict
<1>2. QED BY <1>1, VerdictInit, VerdictStep, Sound, PTL DEF Spec

(* When no process sleeps through a lease it has just taken, the hub never   *)
(* hears that nobody waits for an answer that the room has got.              *)
THEOREM RetryIsReplayHolds ==
  ASSUME Prompt
  PROVE  Spec => []RetryIsReplay
<1>1. TypeOK /\ VerdictInv => RetryIsReplay
  BY DEF VerdictInv, Verdict, Closed, RetryIsReplay
<1>2. QED BY <1>1, VerdictInit, VerdictStep, Sound, PTL DEF Spec

-----------------------------------------------------------------------------
(* The life of an ask's row and call: what one step may do to both.        *)
GoesOn(r) ==
  /\ Underway(r) /\ Underway(r)'
  /\ \/ call'[r].at \in {"release", "park", "drop"}
     \/ call[r].at = "marker" /\ call'[r].at = "dispatch"

CallOn(r) == call'[r] = call[r] \/ (Underway(r) /\ call'[r] = Ended) \/ GoesOn(r)

Stays(r) == row'[r] = row[r] /\ CallOn(r)

Begins(r) ==
  /\ call[r] = None /\ Underway(r)' /\ call'[r].at = "marker"
  /\ row'[r] = [state |-> "prepared", age |-> 0]

Leaves(r) ==
  /\ row[r] # None /\ row'[r] = None
  /\ \/ At(r, "drop") /\ call'[r] = Ended
     \/ /\ call'[r] = call[r]
        /\ \/ row[r].age >= 2 \/ InState(r, {"expired"})
           \/ answers'[r] > answers[r] /\ \E p \in Process : job[p][r] = "deliver"
           \/ \E p \in Process : fix[p] # None /\ fix[p].ask = r /\ io[p] = None

Turns(r) ==
  /\ row[r] \in Row /\ row'[r] \in Row /\ row'[r].age = row[r].age
  /\ \/ /\ At(r, "dispatch") /\ Underway(r)' /\ call'[r].at = "hub"
        /\ row[r].state = "prepared" /\ row'[r].state = "dispatched"
     \/ /\ At(r, "hub") /\ call'[r] = Ended
        /\ row[r].state = "dispatched" /\ row'[r].state = "sent"
     \/ Underway(r) /\ call'[r] = Ended /\ row'[r].state = "abandoned"
     \/ /\ call'[r] = call[r] /\ row[r].state = "dispatched" /\ row'[r].state = "unknown"
        /\ \E p \in Process : fix[p] # None /\ fix[p].ask = r
     \/ /\ call'[r] = call[r] /\ row[r].state = "unknown" /\ row'[r].state = "expired"
        /\ \E p \in Process : \E d \in due[p] : d.ask = r

Ages(r) ==
  /\ row[r] \in Row /\ row'[r] \in Row /\ call'[r] = call[r]
  /\ row'[r].state = row[r].state /\ row'[r].age = row[r].age + 1
  /\ Prompt => ~Underway(r)

Life(r) == Stays(r) \/ Begins(r) \/ Leaves(r) \/ Turns(r) \/ Ages(r)

LEMMA MovedIs ==
  ASSUME TypeOK, NEW s \in Ask, NEW from \in State, NEW to \in State
  PROVE  /\ row' = Moved(s, from, to) =>
              /\ \A r \in Ask \ {s} : row'[r] = row[r]
              /\ \/ row'[s] = row[s] /\ ~InState(s, {from})
                 \/ /\ row[s] \in Row /\ row'[s] \in Row /\ row'[s].age = row[s].age
                    /\ row[s].state = from /\ row'[s].state = to
         /\ row' = Dropped(s, from) =>
              /\ \A r \in Ask \ {s} : row'[r] = row[r]
              /\ \/ row'[s] = row[s] /\ ~InState(s, {from})
                 \/ /\ row[s] \in Row /\ row[s] # None /\ row[s].state = from
                    /\ row'[s] = None
<1>1. row \in [Ask -> Row \cup {None}]
  BY DEF TypeOK
<1>2. CASE InState(s, {from})
  <2>1. row[s] \in Row /\ row[s].state = from /\ row[s] # None
    BY <1>1, <1>2 DEF InState
  <2>2. /\ [row[s] EXCEPT !.state = to] \in Row
        /\ [row[s] EXCEPT !.state = to].age = row[s].age
        /\ [row[s] EXCEPT !.state = to].state = to
    BY <2>1 DEF Row
  <2>3. QED BY <1>1, <1>2, <2>1, <2>2 DEF Moved, Dropped
<1>3. CASE ~InState(s, {from})
  BY <1>1, <1>3 DEF Moved, Dropped
<1>4. QED BY <1>2, <1>3

LEMMA AskingLife ==
  ASSUME TypeOK, PlacedInv, NEW p \in Process, NEW s \in Ask, Asking(p, s), NEW r \in Ask
  PROVE  Life(r)
<1>1. CASE Begin(p, s)
  <2>1. /\ row'[s] = [state |-> "prepared", age |-> 0]
        /\ call'[s] \in Call /\ call'[s].at = "marker" /\ call[s] = None
        /\ \A t \in Ask \ {s} : call'[t] = call[t] /\ row'[t] = row[t]
    BY <1>1, BeginIs DEF Begin
  <2>2. QED BY <2>1 DEF Life, Stays, CallOn, Begins, Underway
<1>2. CASE call[s] # None
  <2>1. /\ Underway(s) /\ Parting(s) /\ call[s] \in Call
        /\ call[s].from \in State
    BY <1>2, AskingIs DEF Call, State
  <2>2. /\ \A t \in Ask \ {s} : call'[t] = call[t]
        /\ \/ call'[s] = Ended
           \/ call[s].at = "dispatch" /\ call'[s] \in Call /\ call'[s].at = "hub"
           \/ call'[s] \in Call /\ call'[s].at = "release"
    BY <2>1, PartingIs
  <2> USE DEF Asking, Begin
  <2>3. CASE Dispatch(s)
    <3>1. row' = Moved(s, "prepared", "dispatched") /\ At(s, "dispatch")
      BY <2>3 DEF Dispatch
    <3>2. /\ \A t \in Ask \ {s} : row'[t] = row[t]
          /\ \/ row'[s] = row[s] /\ ~InState(s, {"prepared"})
             \/ /\ row[s] \in Row /\ row'[s] \in Row /\ row'[s].age = row[s].age
                /\ row[s].state = "prepared" /\ row'[s].state = "dispatched"
      BY <3>1, MovedIs, Places
    <3>3. CASE ~InState(s, {"prepared"})
      <4>1. Releases(s)
        BY <2>3, <3>3 DEF Dispatch
      <4>2. call'[s] \in Call /\ call'[s].at = "release"
        BY <2>1, <4>1, CallGoes DEF Releases, Spots
      <4>3. row'[s] = row[s]
        BY <3>2, <3>3 DEF InState
      <4>4. QED BY <2>1, <2>2, <3>2, <4>2, <4>3
                DEF Life, Stays, CallOn, GoesOn, Underway
    <3>4. CASE InState(s, {"prepared"})
      <4>1. call' = [call EXCEPT ![s].at = "hub", ![s].from = "dispatched"]
        BY <2>3, <3>4 DEF Dispatch
      <4>2. call'[s] = [call[s] EXCEPT !.at = "hub", !.from = "dispatched"]
        BY <4>1 DEF TypeOK
      <4>3. call'[s].at = "hub"
        BY <2>1, <4>2 DEF Call
      <4>4. call'[s] \in Call
        BY <2>2, <4>2, <4>3, <2>1 DEF Call
      <4>5. QED BY <2>1, <2>2, <3>1, <3>2, <3>4, <4>3, <4>4
                DEF Life, Stays, CallOn, Turns, Underway
    <3>5. QED BY <3>3, <3>4
  <2>4. CASE DispatchThrows(s) \/ CallRefused(s)
    <3>1. Releases(s) /\ row' = row
      BY <2>4 DEF DispatchThrows, CallRefused
    <3>2. call'[s] \in Call /\ call'[s].at = "release"
      BY <2>1, <3>1, CallGoes DEF Releases, Spots
    <3>3. QED BY <2>1, <2>2, <3>1, <3>2 DEF Life, Stays, CallOn, GoesOn, Underway
  <2>5. CASE CallUncertain(s)
    <3>1. Over(s) /\ row' = row
      BY <2>5 DEF CallUncertain
    <3>2. QED BY <2>1, <3>1, CallEnds DEF Life, Stays, CallOn
  <2>6. CASE CallConfirmed(s)
    <3>1. Over(s) /\ At(s, "hub") /\ row' \in {Moved(s, "dispatched", "sent"), row}
      BY <2>6 DEF CallConfirmed, Returns
    <3>2. call'[s] = Ended
      BY <3>1, CallEnds
    <3>3. CASE row' = row
      BY <2>1, <2>2, <3>2, <3>3 DEF Life, Stays, CallOn
    <3>4. CASE row' = Moved(s, "dispatched", "sent")
      <4>1. /\ \A t \in Ask \ {s} : row'[t] = row[t]
            /\ \/ row'[s] = row[s]
               \/ /\ row[s] \in Row /\ row'[s] \in Row /\ row'[s].age = row[s].age
                  /\ row[s].state = "dispatched" /\ row'[s].state = "sent"
        BY <3>4, MovedIs, Places
      <4>2. QED BY <2>1, <2>2, <3>1, <3>2, <4>1 DEF Life, Stays, CallOn, Turns
    <3>5. QED BY <3>1, <3>3, <3>4
  <2>7. CASE Park(s)
    <3>1. Over(s) /\ row' \in {Moved(s, call[s].from, "abandoned"), row}
      BY <2>7 DEF Park
    <3>2. call'[s] = Ended
      BY <3>1, CallEnds
    <3>3. CASE row' = row
      BY <2>1, <2>2, <3>2, <3>3 DEF Life, Stays, CallOn
    <3>4. CASE row' = Moved(s, call[s].from, "abandoned")
      <4>1. /\ \A t \in Ask \ {s} : row'[t] = row[t]
            /\ \/ row'[s] = row[s]
               \/ /\ row[s] \in Row /\ row'[s] \in Row /\ row'[s].age = row[s].age
                  /\ row'[s].state = "abandoned"
        BY <2>1, <3>4, MovedIs, Places
      <4>2. QED BY <2>1, <2>2, <3>2, <4>1 DEF Life, Stays, CallOn, Turns
    <3>5. QED BY <3>1, <3>3, <3>4
  <2>8. CASE DropRow(s)
    <3>1. Over(s) /\ At(s, "drop") /\ row' = Dropped(s, call[s].from)
      BY <2>8 DEF DropRow
    <3>2. call'[s] = Ended
      BY <3>1, CallEnds
    <3>3. /\ \A t \in Ask \ {s} : row'[t] = row[t]
          /\ row'[s] = row[s] \/ (row[s] # None /\ row'[s] = None)
      BY <2>1, <3>1, MovedIs
    <3>4. QED BY <2>1, <2>2, <3>1, <3>2, <3>3 DEF Life, Stays, CallOn, Leaves
  <2>9. QED BY <1>2, <2>3, <2>4, <2>5, <2>6, <2>7, <2>8
<1>3. QED BY <1>1, <1>2 DEF Asking

LEMMA MaintainingLife ==
  ASSUME TypeOK, NEW p \in Process, Maintaining(p), NEW r \in Ask
  PROVE  Life(r)
<1> USE DEF Life, Stays, CallOn
<1>1. CASE Settle(p)
  <2>1. /\ fix[p] # None /\ fix[p].ask \in Ask /\ fix[p].state \in State /\ io[p] = None
        /\ UNCHANGED call
    BY <1>1 DEF Settle, TypeOK, Fix
  <2>2. PICK s \in Ask : s = fix[p].ask
    BY <2>1
  <2>3. \/ row' = Moved(s, "dispatched", "unknown")
        \/ row' = Dropped(s, fix[p].state)
    BY <1>1, <2>2 DEF Settle
  <2>4. CASE row' = Moved(s, "dispatched", "unknown")
    <3>1. /\ \A t \in Ask \ {s} : row'[t] = row[t]
          /\ \/ row'[s] = row[s]
             \/ /\ row[s] \in Row /\ row'[s] \in Row /\ row'[s].age = row[s].age
                /\ row[s].state = "dispatched" /\ row'[s].state = "unknown"
      BY <2>4, MovedIs, Places
    <3>2. QED BY <2>1, <2>2, <3>1 DEF Turns
  <2>5. CASE row' = Dropped(s, fix[p].state)
    <3>1. /\ \A t \in Ask \ {s} : row'[t] = row[t]
          /\ row'[s] = row[s] \/ (row[s] # None /\ row'[s] = None)
      BY <2>1, <2>5, MovedIs
    <3>2. QED BY <2>1, <2>2, <3>1 DEF Leaves
  <2>6. QED BY <2>3, <2>4, <2>5
<1>2. ASSUME NEW s \in Ask, Purge(p, s)
      PROVE  Life(r)
  <2>1. /\ row[s] \in Row /\ row[s].age >= 2 /\ row' = [row EXCEPT ![s] = None]
        /\ UNCHANGED call
    BY <1>2 DEF Purge, TypeOK, Row
  <2>2. QED BY <2>1 DEF Leaves, TypeOK
<1>3. ASSUME NEW s \in Ask, Expire(p, s)
      PROVE  Life(r)
  <2>1. PICK d \in due[p] :
          /\ d.ask = s
          /\ UNCHANGED call
          /\ row' = Moved(s, "unknown", "expired") \/ row' = row
    BY <1>3 DEF Expire
  <2>2. CASE row' = row
    BY <2>1, <2>2
  <2>3. CASE row' = Moved(s, "unknown", "expired")
    <3>1. /\ \A t \in Ask \ {s} : row'[t] = row[t]
          /\ \/ row'[s] = row[s]
             \/ /\ row[s] \in Row /\ row'[s] \in Row /\ row'[s].age = row[s].age
                /\ row[s].state = "unknown" /\ row'[s].state = "expired"
      BY <2>3, MovedIs, Places
    <3>2. QED BY <2>1, <3>1 DEF Turns
  <2>4. QED BY <2>1, <2>2, <2>3
<1>4. ASSUME NEW s \in Ask, RecordNotice(p, s)
      PROVE  Life(r)
  <2>1. row' = Dropped(s, "expired") /\ UNCHANGED call
    BY <1>4 DEF RecordNotice
  <2>2. /\ \A t \in Ask \ {s} : row'[t] = row[t]
        /\ \/ row'[s] = row[s]
           \/ row[s] # None /\ row[s].state = "expired" /\ row'[s] = None
    BY <2>1, MovedIs, Places
  <2>3. QED BY <2>1, <2>2 DEF Leaves, InState
<1>5. CASE ListDue(p) \/ \E s \in Ask : \/ Reconcile(p, s) \/ Recover(p, s)
                                        \/ CheckRecovered(p, s) \/ NoticeFails(p, s)
  BY <1>5 DEF ListDue, Reconcile, Recover, CheckRecovered, NoticeFails
<1>6. QED BY <1>1, <1>2, <1>3, <1>4, <1>5 DEF Maintaining

LEMMA LifeStep ==
  ASSUME TypeOK, PlacedInv, [Next]_vars, NEW r \in Ask
  PROVE  Life(r)
<1> USE DEF Life, Stays, CallOn
<1>1. ASSUME NEW p \in Process, NEW s \in Ask, Asking(p, s)
      PROVE  Life(r)
  BY <1>1, AskingLife
<1>2. ASSUME NEW p \in Process, NEW s \in Ask, Replying(p, s)
      PROVE  Life(r)
  <2>1. CASE Record(p, s) /\ Mine(p, s)
    <3>1. /\ job[p][s] = "deliver" /\ row' = [row EXCEPT ![s] = None]
          /\ answers' = [answers EXCEPT ![s] = @ + 1] /\ UNCHANGED call
      BY <2>1 DEF Record
    <3>2. answers'[s] > answers[s]
      BY <3>1 DEF TypeOK
    <3>3. QED BY <3>1, <3>2 DEF Leaves, TypeOK
  <2>2. CASE ~(Record(p, s) /\ Mine(p, s))
    BY <1>2, <2>2 DEF Replying, ReplyArrives, ClaimReply, CheckReply, MarkReply, Record,
       DeliveryFails, TellHub, ClearMarker
  <2>3. QED BY <2>1, <2>2
<1>3. ASSUME NEW p \in Process, Filing(p)
      PROVE  Life(r)
  <2>1. UNCHANGED row
    BY <1>3, FilingIs DEF Filed
  <2>2. PICK s \in Ask : s = io[p].ask
    BY <1>3, FilingIs, MarkerType
  <2>3. CASE UNCHANGED call
    BY <2>1, <2>3
  <2>4. CASE /\ Underway(s)
             /\ \/ call[s].at = "marker" /\ call'[s].at \in {"dispatch", "release", "drop"}
                \/ call[s].at = "release" /\ call'[s].at \in {"park", "drop"}
             /\ call'[s] \in Call
             /\ \A t \in Ask \ {s} : call'[t] = call[t]
    BY <2>1, <2>4 DEF GoesOn, Underway
  <2>5. QED BY <1>3, <2>2, <2>3, <2>4, FilingCalls
<1>4. ASSUME NEW p \in Process, Crash(p)
      PROVE  Life(r)
  BY <1>4 DEF Crash, TypeOK
<1>5. ASSUME NEW s \in Ask, RowAges(s)
      PROVE  Life(r)
  <2>1. /\ row[s] \in Row /\ row[s].age < MaxAge /\ row' = [row EXCEPT ![s].age = @ + 1]
        /\ (Prompt => ~Underway(s)) /\ UNCHANGED call
    BY <1>5 DEF RowAges, TypeOK
  <2>2. row'[s] = [row[s] EXCEPT !.age = @ + 1] /\ \A t \in Ask \ {s} : row'[t] = row[t]
    BY <2>1 DEF TypeOK
  <2>3. row'[s] \in Row /\ row'[s].state = row[s].state /\ row'[s].age = row[s].age + 1
    BY <2>1, <2>2 DEF Row
  <2>4. QED BY <2>1, <2>2, <2>3 DEF Ages
<1>6. CASE MarkerAges \/ (\E s \in Ask : LeaseEnds(s) \/ HubAccepts(s))
           \/ \E p \in Process : Sweep(p)
  BY <1>6 DEF MarkerAges, LeaseEnds, HubAccepts, Sweep
<1>7. CASE UNCHANGED vars
  BY <1>7 DEF vars
<1>8. QED BY <1>1, <1>2, <1>3, <1>4, <1>5, <1>6, <1>7, MaintainingLife DEF Next, Passing

-----------------------------------------------------------------------------
(* What maintenance has read of a row stays true of it: the ages of rows   *)
(* only grow, an ask is not begun twice, and while a call is under way its *)
(* row does not age.                                                       *)
Old(r) == row[r] = None \/ row[r].age >= 2

Aged(r) ==
  /\ call[r] = None => row[r] = None
  /\ InState(r, {"abandoned"}) => call[r] = Ended
  /\ InState(r, {"expired"}) => row[r].age >= 2
  /\ row[r] # None /\ row[r].age >= 1 => ~Underway(r)
  /\ \A p \in Process : \A d \in due[p] : d.ask = r => call[r] # None /\ Old(r)
  /\ \A p \in Process :
       fix[p] # None /\ fix[p].ask = r => call[r] = Ended /\ (fix[p].old => Old(r))

AgedInv == \A r \in Ask : Aged(r)

LEMMA ListedIs ==
  ASSUME TypeOK, PlacedInv, [Next]_vars, NEW p \in Process
  PROVE  /\ \/ fix'[p] = fix[p] \/ fix'[p] = None
            \/ \E s \in Ask :
                 /\ Reconcilable(s) /\ UNCHANGED <<row, call>> /\ hub' = hub
                 /\ io'[p] # None
                 /\ fix'[p] = [ask |-> s, state |-> row[s].state, old |-> row[s].age >= 2]
         /\ \A d \in due'[p] :
              d \in due[p] \/ (d.ask \in Ask /\ Expirable(d.ask) /\ UNCHANGED <<row, call>>)
<1> DEFINE Fixes == \/ fix'[p] = fix[p] \/ fix'[p] = None
                    \/ \E s \in Ask :
                         /\ Reconcilable(s) /\ UNCHANGED <<row, call>> /\ hub' = hub
                         /\ io'[p] # None
                         /\ fix'[p] = [ask |-> s, state |-> row[s].state, old |-> row[s].age >= 2]
           Dues == \A d \in due'[p] :
              d \in due[p] \/ (d.ask \in Ask /\ Expirable(d.ask) /\ UNCHANGED <<row, call>>)
<1>1. ASSUME NEW q \in Process, NEW s \in Ask, Asking(q, s)
      PROVE  Fixes /\ Dues
  <2>1. UNCHANGED <<fix, due>>
    BY <1>1, AskingIs DEF Asking, Begin, memory
  <2>2. QED BY <2>1
<1>2. ASSUME NEW q \in Process, NEW s \in Ask, Replying(q, s)
      PROVE  Fixes /\ Dues
  BY <1>2 DEF Replying, ReplyArrives, ClaimReply, CheckReply, MarkReply, Record,
     DeliveryFails, TellHub, ClearMarker
<1>3. ASSUME NEW q \in Process, Filing(q)
      PROVE  Fixes /\ Dues
  <2>1. UNCHANGED due /\ (UNCHANGED fix \/ fix' = [fix EXCEPT ![q] = None])
    BY <1>3, FilingIs DEF Filed, Continuing, Throwing, Turning, Finishing
  <2>2. QED BY <2>1 DEF TypeOK
<1>4. ASSUME NEW q \in Process, Maintaining(q)
      PROVE  Fixes /\ Dues
  <2>1. ASSUME NEW s \in Ask, Reconcile(q, s)
        PROVE  Fixes /\ Dues
    <3>1. /\ Reconcilable(s) /\ UNCHANGED <<row, call, due>> /\ hub' = hub
          /\ fix' = [fix EXCEPT ![q] = [ask |-> s, state |-> row[s].state,
                                        old |-> row[s].age >= 2]]
      BY <2>1 DEF Reconcile
    <3>2. io'[q] # None
      BY <2>1, StartsIs DEF Reconcile, IsAt, Ops, Looks
    <3>3. QED BY <3>1, <3>2 DEF TypeOK
  <2>2. CASE ListDue(q)
    <3>1. /\ UNCHANGED <<row, call, fix>>
          /\ due' = [due EXCEPT ![q] = {[ask |-> r, state |-> row[r].state] :
                                          r \in {s \in Ask : Expirable(s)}}]
      BY <2>2 DEF ListDue
    <3>2. \A d \in due'[p] : d \in due[p] \/ \E r \in Ask : Expirable(r) /\ d.ask = r
      BY <3>1 DEF TypeOK
    <3>3. QED BY <3>1, <3>2
  <2>3. CASE Settle(q)
    BY <2>3 DEF Settle, TypeOK
  <2>4. ASSUME NEW s \in Ask, Expire(q, s)
        PROVE  Fixes /\ Dues
    BY <2>4 DEF Expire, TypeOK
  <2>5. CASE \E s \in Ask : \/ Purge(q, s) \/ Recover(q, s) \/ CheckRecovered(q, s)
                            \/ RecordNotice(q, s) \/ NoticeFails(q, s)
    BY <2>5 DEF Purge, Recover, CheckRecovered, RecordNotice, NoticeFails, memory
  <2>6. QED BY <1>4, <2>1, <2>2, <2>3, <2>4, <2>5 DEF Maintaining
<1>5. ASSUME NEW q \in Process, Crash(q)
      PROVE  Fixes /\ Dues
  BY <1>5 DEF Crash, TypeOK
<1>6. CASE Passing \/ (\E s \in Ask : HubAccepts(s)) \/ \E q \in Process : Sweep(q)
  BY <1>6 DEF Passing, MarkerAges, RowAges, LeaseEnds, HubAccepts, Sweep, memory
<1>7. CASE UNCHANGED vars
  BY <1>7 DEF vars
<1>8. QED BY <1>1, <1>2, <1>3, <1>4, <1>5, <1>6, <1>7 DEF Next

LEMMA OldStays ==
  ASSUME TypeOK, NEW r \in Ask, Life(r)
  PROVE  /\ call[r] # None => call'[r] # None /\ (Old(r) => Old(r)')
         /\ call[r] = Ended => call'[r] = Ended
<1>1. row[r] \in Row => row[r].age \in Nat
  BY DEF Row
<1>2. CASE Stays(r)
  BY <1>2 DEF Stays, CallOn, GoesOn, Old, Underway
<1>3. CASE Begins(r)
  BY <1>3 DEF Begins
<1>4. CASE Leaves(r)
  BY <1>4 DEF Leaves, Old, At, Underway
<1>5. CASE Turns(r)
  BY <1>5 DEF Turns, Old, At, Underway
<1>6. CASE Ages(r)
  BY <1>1, <1>6 DEF Ages, Old
<1>7. QED BY <1>2, <1>3, <1>4, <1>5, <1>6 DEF Life

LEMMA AgedStep ==
  ASSUME Prompt, TypeOK, PlacedInv, AgedInv, [Next]_vars
  PROVE  AgedInv'
<1> SUFFICES ASSUME NEW r \in Ask
             PROVE  Aged(r)'
  BY DEF AgedInv
<1>1. /\ Aged(r) /\ Life(r)
      /\ call[r] # None => call'[r] # None /\ (Old(r) => Old(r)')
      /\ call[r] = Ended => call'[r] = Ended
  BY LifeStep, OldStays DEF AgedInv
<1>2. \/ row[r] = None
      \/ row[r] \in Row /\ row[r].age \in Nat
  BY DEF TypeOK, Row
<1>3. /\ call'[r] = None => row'[r] = None
      /\ InState(r, {"abandoned"})' => call'[r] = Ended
      /\ InState(r, {"expired"})' => row'[r].age >= 2
      /\ row'[r] # None /\ row'[r].age >= 1 => ~Underway(r)'
  <2> USE DEF InState
  <2>1. CASE Stays(r)
    BY <1>1, <2>1 DEF Stays, CallOn, GoesOn, Aged, Underway
  <2>2. CASE Begins(r)
    BY <2>2 DEF Begins, Underway
  <2>3. CASE Leaves(r)
    BY <1>1, <2>3 DEF Leaves, Aged
  <2>4. CASE Turns(r)
    BY <1>1, <1>2, <2>4 DEF Turns, Aged, Underway, At, Old
  <2>5. CASE Ages(r)
    BY <1>1, <1>2, <2>5 DEF Ages, Aged, Underway
  <2>6. QED BY <1>1, <2>1, <2>2, <2>3, <2>4, <2>5 DEF Life
<1>4. ASSUME NEW p \in Process, NEW d \in due'[p], d.ask = r
      PROVE  call'[r] # None /\ Old(r)'
  <2>1. CASE d \in due[p]
    BY <1>1, <1>4, <2>1 DEF Aged
  <2>2. CASE Expirable(r) /\ UNCHANGED <<row, call>>
    BY <1>1, <2>2 DEF Aged, Expirable, InState, Old
  <2>3. QED BY <1>4, <2>1, <2>2, ListedIs
<1>5. ASSUME NEW p \in Process, fix'[p] # None, fix'[p].ask = r
      PROVE  call'[r] = Ended /\ (fix'[p].old => Old(r)')
  <2>1. CASE fix'[p] = fix[p]
    BY <1>1, <1>5, <2>1 DEF Aged
  <2>2. CASE /\ Reconcilable(r) /\ UNCHANGED <<row, call>>
             /\ fix'[p] = [ask |-> r, state |-> row[r].state, old |-> row[r].age >= 2]
    <3>1. call[r] = Ended
      BY <1>1, <2>2 DEF Aged, Reconcilable, InState, Underway
    <3>2. fix'[p].old = (row[r].age >= 2)
      BY <2>2
    <3>3. QED BY <2>2, <3>1, <3>2 DEF Old
  <2>3. CASE \E s \in Ask :
               /\ Reconcilable(s) /\ UNCHANGED <<row, call>>
               /\ fix'[p] = [ask |-> s, state |-> row[s].state, old |-> row[s].age >= 2]
    BY <1>5, <2>2, <2>3
  <2>4. QED BY <1>5, <2>1, <2>3, ListedIs
<1>6. QED BY <1>3, <1>4, <1>5 DEF Aged

-----------------------------------------------------------------------------
(* What a step at the file does to the file: it leaves it alone, removes   *)
(* it, opens it as a new one, truncates it, or writes it.                  *)
Quits(p) == io'[p] # None => io'[p].at # "write"

Leaving(p) ==
  /\ UNCHANGED <<marker, robbed>> /\ revived \subseteq revived' /\ Quits(p)
  /\ desc' = IF io[p].at = "write" THEN desc \ {p} ELSE desc
  /\ io[p].op = "create" /\ io[p].at = "write" =>
       Goes(io[p].ask, "dispatch") \/ Goes(io[p].ask, "release")
Removing(p) ==
  /\ Unlinked /\ UNCHANGED revived /\ Quits(p)
  /\ io[p].op \in {"create", "sweep", "retire", "reconcile", "clear"} /\ io[p].at = "unlink"
  /\ robbed' = robbed \cup Victims(p)
Opening(p) ==
  /\ io[p].op = "create" /\ io[p].at = "open" /\ marker = None
  /\ marker' = Empty(io[p].ask) /\ desc' = desc \cup {p} /\ UNCHANGED <<call, past>>
  /\ IsAt(p, "create", io[p].ask, "write")
Truncating(p) ==
  /\ io[p].op \in {"refresh", "inject"} /\ io[p].at = "open"
  /\ marker' = Empty(io[p].ask) /\ desc' = desc \cup {p} /\ UNCHANGED call
  /\ robbed' = robbed \cup Victims(p) /\ revived' = revived \cup Regained(p)
  /\ IsAt(p, io[p].op, io[p].ask, "write")
Writes(p) ==
  /\ io[p].at = "write" /\ p \in desc /\ UNCHANGED robbed /\ Quits(p)
  /\ marker' = Written(io[p].ask) /\ desc' = desc \ {p}
  /\ \/ io[p].op = "create" /\ Goes(io[p].ask, "dispatch") /\ UNCHANGED revived
     \/ /\ io[p].op \in {"refresh", "inject"}
        /\ revived' = revived \cup Regained(p) /\ UNCHANGED call

LEMMA FilingMarks ==
  ASSUME TypeOK, PlacedInv, NEW p \in Process, Filing(p)
  PROVE  Leaving(p) \/ Removing(p) \/ Opening(p) \/ Truncating(p) \/ Writes(p)
<1>1. /\ io[p] # None /\ io[p] \in File /\ io[p].ask \in Ask /\ io[p].op \in Ops
  BY FilingIs, MarkerType
<1>2. ASSUME Done(p)
      PROVE  Quits(p)
  BY <1>2, DoneIs DEF Quits
<1>3. ASSUME NEW op \in Ops, Starts(p, op, io[p].ask, "look")
      PROVE  Quits(p)
  BY <1>1, <1>3, StartsIs DEF Quits, IsAt, Looks
<1>4. ASSUME NEW place \in Looks \ {"write"}, Then(p, place)
      PROVE  Quits(p)
  BY <1>1, <1>4, ThenIs DEF Quits, IsAt
<1>5. CASE LookToCreate(p) \/ Examine(p) \/ LookToClear(p)
  <2>1. Quits(p)
    <3>1. Done(p) \/ Then(p, "unlink") \/ Then(p, "open") \/ Then(p, "confirm")
      BY <1>5 DEF LookToCreate, Examine, LookToClear, Created
    <3>2. QED BY <3>1, <1>2, <1>4 DEF Looks
  <2>2. UNCHANGED <<marker, desc, past>> /\ io[p].at # "write"
    BY <1>5 DEF LookToCreate, Examine, LookToClear, file, Doing
  <2>3. QED BY <2>1, <2>2 DEF Leaving, past
<1>6. CASE OpenMarker(p)
  <2>1. CASE /\ marker = None /\ marker' = Empty(io[p].ask) /\ desc' = desc \cup {p}
             /\ Then(p, "write") /\ UNCHANGED call
    BY <1>1, <1>6, <2>1, ThenIs DEF OpenMarker, Opening, Doing, past, Looks
  <2>2. CASE io' = [io EXCEPT ![p].at = "examine", ![p].tries = @ + 1] /\ UNCHANGED file
    <3>1. io'[p].at = "examine"
      <4>1. io'[p] = [io[p] EXCEPT !.at = "examine", !.tries = @ + 1]
        BY <2>2 DEF TypeOK
      <4>2. QED BY <1>1, <4>1 DEF File
    <3>2. Quits(p)
      BY <3>1 DEF Quits
    <3>3. QED BY <1>6, <2>2, <3>2 DEF OpenMarker, Leaving, Doing, past, file
  <2>3. CASE CreateThrows(p) /\ UNCHANGED file
    BY <1>3, <1>6, <2>3 DEF OpenMarker, CreateThrows, Leaving, Doing, past, file, Ops
  <2>4. QED BY <1>6, <2>1, <2>2, <2>3 DEF OpenMarker
<1>7. CASE WriteMarker(p)
  <2>1. Quits(p)
    BY <1>2, <1>3, <1>7 DEF WriteMarker, Created, CreateThrows, Ops
  <2>2. /\ UNCHANGED <<robbed, revived>> /\ io[p].op = "create" /\ io[p].at = "write"
        /\ desc' = desc \ {p}
    BY <1>7 DEF WriteMarker, past, Doing
  <2>3. CASE marker' = (IF p \in desc THEN Written(io[p].ask) ELSE marker)
             /\ Goes(io[p].ask, "dispatch")
    BY <2>1, <2>2, <2>3 DEF Leaving, Writes
  <2>4. CASE Goes(io[p].ask, "release") /\ UNCHANGED marker
    BY <2>1, <2>2, <2>4 DEF Leaving
  <2>5. QED BY <1>7, <2>3, <2>4 DEF WriteMarker, Created, CreateThrows, Goes
<1>8. CASE UnlinkMarker(p)
  <2>1. Quits(p)
    <3>1. Done(p) \/ Then(p, "confirm")
      BY <1>8 DEF UnlinkMarker, Cleared
    <3>2. QED BY <3>1, <1>2, <1>4 DEF Looks
  <2>2. /\ io[p].op \in {"create", "sweep", "retire", "reconcile", "clear"}
        /\ io[p].at = "unlink" /\ UNCHANGED revived
    BY <1>8 DEF UnlinkMarker, Doing
  <2>3. \/ Unlinked /\ robbed' = robbed \cup Victims(p)
        \/ UNCHANGED <<marker, desc, robbed>>
    BY <1>8 DEF UnlinkMarker, file
  <2>4. QED BY <2>1, <2>2, <2>3 DEF Leaving, Removing
<1>9. CASE UnlinkStale(p)
  <2>1. Quits(p)
    <3>1. Done(p) \/ Then(p, "open")
      BY <1>9 DEF UnlinkStale, Created
    <3>2. QED BY <3>1, <1>2, <1>4 DEF Looks
  <2>2. /\ io[p].op \in {"create", "sweep", "retire", "reconcile", "clear"}
        /\ io[p].at = "unlink" /\ UNCHANGED revived
    BY <1>9 DEF UnlinkStale, Doing
  <2>3. \/ Unlinked /\ robbed' = robbed \cup Victims(p)
        \/ UNCHANGED <<marker, desc, robbed>>
    BY <1>9 DEF UnlinkStale, file
  <2>4. QED BY <2>1, <2>2, <2>3 DEF Leaving, Removing
<1>10. CASE Confirm(p)
  <2>1. Done(p) /\ io[p].at = "confirm" /\ UNCHANGED <<marker, desc, robbed>>
        /\ revived \subseteq revived'
    BY <1>10 DEF Confirm, Cleared, Doing, file
  <2>2. QED BY <1>2, <2>1 DEF Leaving
<1>11. CASE Truncate(p)
  <2>1. CASE Then(p, "write")
    BY <1>1, <1>11, <2>1, ThenIs, DoneIs
       DEF Truncate, Truncating, Leaving, Quits, Doing, Looks, IsAt, file, past
  <2>2. CASE Done(p) /\ UNCHANGED <<file, past>>
    BY <1>2, <1>11, <2>2 DEF Truncate, Leaving, Doing, file, past
  <2>3. QED BY <1>11, <2>1, <2>2 DEF Truncate
<1>12. CASE Rewrite(p)
  <2>1. Quits(p)
    BY <1>2, <1>3, <1>12 DEF Rewrite, Ops
  <2>2. /\ io[p].op \in {"refresh", "inject"} /\ io[p].at = "write"
        /\ desc' = desc \ {p} /\ UNCHANGED <<call, robbed>>
    BY <1>12 DEF Rewrite, Doing
  <2>3. \/ /\ p \in desc /\ marker' = Written(io[p].ask)
           /\ revived' = revived \cup Regained(p)
        \/ UNCHANGED <<marker, revived>>
    BY <1>12 DEF Rewrite
  <2>4. QED BY <2>1, <2>2, <2>3 DEF Leaving, Writes
<1>13. QED BY <1>5, <1>6, <1>7, <1>8, <1>9, <1>10, <1>11, <1>12
           DEF Filing, Creating, Clearing, Refreshing

(* Every other step but a crash leaves the file alone, but for its age;    *)
(* and it may start some work at it.                                       *)
Elsewhere ==
  \/ \E p \in Process, s \in Ask : Asking(p, s) \/ Replying(p, s)
  \/ \E p \in Process : Sweep(p) \/ Maintaining(p)
  \/ \E s \in Ask : HubAccepts(s)
  \/ Passing
  \/ UNCHANGED vars

SetsOut(p) ==
  /\ io[p] = None /\ io'[p] \in File /\ io'[p].at # "write"
  /\ io'[p].op \in {"refresh", "inject"} => Names(io'[p].ask) /\ UNCHANGED call
  /\ io'[p].op \in {"clear", "inject"} => io'[p].ask \in clear[p]

LEMMA NextIs ==
  ASSUME [Next]_vars
  PROVE  Elsewhere \/ \E p \in Process : Filing(p) \/ Crash(p)
BY DEF Next, Elsewhere

LEMMA ElsewhereIs ==
  ASSUME TypeOK, PlacedInv, Elsewhere
  PROVE  /\ UNCHANGED <<desc, robbed, revived>> /\ (UNCHANGED marker \/ MarkerAges)
         /\ \A q \in Process : io'[q] = io[q] \/ SetsOut(q)
         /\ \A r \in Ask :
              Underway(r)' /\ call'[r] # call[r] =>
                call'[r].at \in {"marker", "hub", "release"}
<1> DEFINE Marks == UNCHANGED <<desc, robbed, revived>> /\ (UNCHANGED marker \/ MarkerAges)
           Ios == \A q \in Process : io'[q] = io[q] \/ SetsOut(q)
           Calls == \A r \in Ask :
                      Underway(r)' /\ call'[r] # call[r] =>
                        call'[r].at \in {"marker", "hub", "release"}
<1> USE DEF file, past
<1>1. ASSUME NEW p \in Process, NEW s \in Ask, Asking(p, s)
      PROVE  Marks /\ Ios /\ Calls
  <2>1. CASE Begin(p, s)
    <3>1. /\ UNCHANGED <<marker, desc, robbed, revived>> /\ io[p] = None
          /\ call'[s].at = "marker" /\ \A r \in Ask \ {s} : call'[r] = call[r]
          /\ IsAt(p, "create", s, "look")
      BY <2>1, BeginIs DEF Begin, Open, Inside
    <3>2. QED BY <3>1 DEF IsAt, SetsOut
  <2>2. CASE call[s] # None
    <3>1. PICK b \in Process : b = call[s].by
      BY <1>1, <2>2, AskingIs
    <3>2. /\ UNCHANGED <<marker, desc, robbed, revived>> /\ io[b] = None
          /\ Underway(s) /\ Parting(s)
      BY <1>1, <2>2, <3>1, AskingIs
    <3>3. /\ \A r \in Ask \ {s} : call'[r] = call[r]
          /\ \/ call'[s] = Ended /\ UNCHANGED io
             \/ UNCHANGED io /\ call'[s].at = "hub"
             \/ call'[s].at = "release" /\ IsAt(b, "retire", s, "look")
      BY <3>1, <3>2, PartingIs
    <3>4. QED BY <3>2, <3>3 DEF IsAt, SetsOut, Underway
  <2>3. QED BY <1>1, <2>1, <2>2 DEF Asking
<1>2. ASSUME NEW p \in Process, Open(p), NEW op \in Ops, NEW s \in Ask, NEW place \in Looks,
             Starts(p, op, s, place), place # "write",
             op \in {"refresh", "inject"} => Names(s) /\ UNCHANGED call,
             op \in {"clear", "inject"} => s \in clear[p]
      PROVE  Ios
  <2>1. IsAt(p, op, s, place) /\ io[p] = None
    BY <1>2, StartsIs DEF Open, Inside
  <2>2. QED BY <1>2, <2>1 DEF IsAt, SetsOut
<1>3. ASSUME NEW p \in Process, NEW s \in Ask, Replying(p, s)
      PROVE  Marks /\ Ios /\ Calls
  <2>1. Marks /\ Calls
    BY <1>3 DEF Replying, ReplyArrives, ClaimReply, CheckReply, MarkReply, Record,
       DeliveryFails, TellHub, ClearMarker
  <2>2. CASE MarkReply(p, s)
    BY <1>2, <2>2 DEF MarkReply, Ops, Looks
  <2>3. CASE ClearMarker(p, s)
    BY <1>2, <2>3 DEF ClearMarker, Ops, Looks
  <2>4. CASE ~MarkReply(p, s) /\ ~ClearMarker(p, s)
    BY <1>3, <2>4 DEF Replying, ReplyArrives, ClaimReply, CheckReply, Record,
       DeliveryFails, TellHub
  <2>5. Ios
    BY <2>2, <2>3, <2>4
  <2>6. QED BY <2>1, <2>5
<1>4. ASSUME NEW p \in Process, Sweep(p)
      PROVE  Marks /\ Ios /\ Calls
  <2>1. marker.of \in Ask
    BY <1>4 DEF Sweep, Readable, TypeOK, Marker
  <2>2. Ios
    BY <1>2, <1>4, <2>1 DEF Sweep, Ops, Looks
  <2>3. QED BY <1>4, <2>2 DEF Sweep
<1>5. ASSUME NEW p \in Process, Maintaining(p)
      PROVE  Marks /\ Ios /\ Calls
  <2>1. ASSUME NEW s \in Ask, Reconcile(p, s)
        PROVE  Marks /\ Ios /\ Calls
    <3>1. Ios
      BY <1>2, <2>1 DEF Reconcile, Ops, Looks
    <3>2. QED BY <2>1, <3>1 DEF Reconcile
  <2>2. CASE Settle(p) \/ ListDue(p) \/ \E s \in Ask :
               \/ Purge(p, s) \/ Recover(p, s) \/ CheckRecovered(p, s)
               \/ Expire(p, s) \/ RecordNotice(p, s) \/ NoticeFails(p, s)
    BY <2>2 DEF Settle, ListDue, Purge, Recover, CheckRecovered, Expire, RecordNotice, NoticeFails
  <2>3. QED BY <1>5, <2>1, <2>2 DEF Maintaining
<1>6. CASE Passing \/ \E s \in Ask : HubAccepts(s)
  BY <1>6 DEF Passing, MarkerAges, RowAges, LeaseEnds, HubAccepts
<1>7. CASE UNCHANGED vars
  BY <1>7 DEF vars
<1>8. QED BY <1>1, <1>3, <1>4, <1>5, <1>6, <1>7 DEF Elsewhere

-----------------------------------------------------------------------------
(* No marker names an ask that has none yet, but for the empty file that   *)
(* its call has just opened.                                               *)
Unmarked(r) == marker = None \/ marker.of # r
Unborn(r) == call[r] = None \/ (Underway(r) /\ call[r].at = "marker")
Writing(r) ==
  \E p \in Process : io[p] # None /\ io[p].op = "create" /\ io[p].ask = r /\ io[p].at = "write"

Marked(r) ==
  /\ ~Unmarked(r) /\ Unborn(r) => Writing(r) /\ marker.empty
  /\ \A p \in Process :
       io[p] # None /\ io[p].op \in {"refresh", "inject"} /\ io[p].ask = r => ~Unborn(r)

MarkedInv == \A r \in Ask : Marked(r)

LEMMA UnbornBefore ==
  ASSUME TypeOK, PlacedInv, [Next]_vars, NEW r \in Ask, Unborn(r)'
  PROVE  Unborn(r)
<1>1. Life(r)
  BY LifeStep
<1>2. QED BY <1>1 DEF Life, Stays, CallOn, GoesOn, Begins, Leaves, Turns, Ages, Unborn,
             Underway, At

LEMMA WroteIs ==
  ASSUME NEW p \in Process, NEW s \in Ask
  PROVE  /\ marker' = Empty(s) => marker' # None /\ marker'.of = s /\ marker'.empty
                                  /\ ~marker'.stale
         /\ marker' = Written(s) => marker' # None /\ marker'.of = s /\ ~marker'.empty
                                    /\ ~marker'.stale
<1>1. Empty(s) \in Marker /\ Written(s) \in Marker
  BY DEF Empty, Written, Marker
<1>2. marker' = Empty(s) \/ marker' = Written(s) => marker' # None
  BY <1>1
<1>3. /\ Empty(s).of = s /\ Empty(s).empty = TRUE /\ Empty(s).stale = FALSE
      /\ Written(s).of = s /\ Written(s).empty = FALSE /\ Written(s).stale = FALSE
  BY DEF Empty, Written
<1>4. QED BY <1>2, <1>3

LEMMA GoesAt ==
  ASSUME TypeOK, NEW s \in Ask, Underway(s), NEW place \in Spots, Goes(s, place)
  PROVE  call'[s] \in Call /\ call'[s].at = place /\ Underway(s)'
BY CallGoes DEF Underway

LEMMA FilingMarked ==
  ASSUME TypeOK, PlacedInv, NEW p \in Process, Filing(p), NEW r \in Ask, Marked(r), Unborn(r)'
  PROVE  ~Unmarked(r)' => Writing(r)' /\ marker'.empty
<1>1. /\ io[p] # None /\ io[p].ask \in Ask /\ Filed(p) /\ Placed(p)
      /\ \A q \in Process \ {p} : io'[q] = io[q]
      /\ Unborn(r)
  BY FilingIs, MarkerType, UnbornBefore DEF Next, PlacedInv, Filed
<1>2. PICK s \in Ask : s = io[p].ask
  BY <1>1
<1>3. \A place \in {"dispatch", "release"} :
        io[p].op = "create" /\ Goes(s, place) => s # r
  <2>1. io[p].op = "create" => Underway(s)
    BY <1>1, <1>2 DEF Placed
  <2>2. QED BY <2>1, GoesAt DEF Spots, Unborn
<1>4. CASE Leaving(p)
  <2>1. ASSUME NEW q \in Process, io[q] # None, io[q].op = "create", io[q].ask = r,
               io[q].at = "write"
        PROVE  q # p
    BY <1>2, <1>3, <1>4, <2>1 DEF Leaving
  <2>2. Writing(r) => Writing(r)'
    BY <1>1, <2>1 DEF Writing
  <2>3. QED BY <1>1, <1>4, <2>2 DEF Leaving, Marked, Unmarked
<1>5. CASE Removing(p)
  BY <1>5 DEF Removing, Unlinked, Unmarked
<1>6. CASE Opening(p)
  <2>1. marker'.of = s /\ marker'.empty
    BY <1>2, <1>6, WroteIs DEF Opening
  <2>2. s = r => Writing(r)'
    BY <1>2, <1>6 DEF Opening, IsAt, Writing
  <2>3. QED BY <2>1, <2>2 DEF Unmarked
<1>7. CASE Truncating(p)
  <2>1. s # r
    BY <1>1, <1>2, <1>7 DEF Truncating, Marked
  <2>2. marker'.of = s
    BY <1>2, <1>7, WroteIs DEF Truncating
  <2>3. QED BY <2>1, <2>2 DEF Unmarked
<1>8. CASE Writes(p)
  <2>1. s # r
    BY <1>1, <1>2, <1>3, <1>8 DEF Writes, Marked
  <2>2. marker'.of = s
    BY <1>2, <1>8, WroteIs DEF Writes
  <2>3. QED BY <2>1, <2>2 DEF Unmarked
<1>9. QED BY <1>4, <1>5, <1>6, <1>7, <1>8, FilingMarks

LEMMA MarkedStep ==
  ASSUME TypeOK, PlacedInv, MarkedInv, [Next]_vars
  PROVE  MarkedInv'
<1> SUFFICES ASSUME NEW r \in Ask, Unborn(r)'
             PROVE  /\ ~Unmarked(r)' => Writing(r)' /\ marker'.empty
                    /\ \A p \in Process :
                         ~(io'[p] # None /\ io'[p].op \in {"refresh", "inject"} /\ io'[p].ask = r)
  BY DEF MarkedInv, Marked
<1>1. Unborn(r) /\ Marked(r)
  BY UnbornBefore DEF MarkedInv
<1>2. ASSUME NEW p \in Process, Filing(p)
      PROVE  /\ ~Unmarked(r)' => Writing(r)' /\ marker'.empty
             /\ \A q \in Process :
                  ~(io'[q] # None /\ io'[q].op \in {"refresh", "inject"} /\ io'[q].ask = r)
  <2>1. ~Unmarked(r)' => Writing(r)' /\ marker'.empty
    BY <1>1, <1>2, FilingMarked
  <2>2. \A q \in Process : io'[q] = io[q] \/ io'[q] = None
            \/ io'[q].op \notin {"refresh", "inject"}
            \/ (io[q] # None /\ io'[q].op = io[q].op /\ io'[q].ask = io[q].ask)
    BY <1>2, FilingIs DEF Filed, Continuing, Throwing, Turning, Finishing, IsAt
  <2>3. QED BY <1>1, <2>1, <2>2 DEF Marked
<1>3. ASSUME NEW p \in Process, Crash(p)
      PROVE  /\ ~Unmarked(r)' => Writing(r)' /\ marker'.empty
             /\ \A q \in Process :
                  ~(io'[q] # None /\ io'[q].op \in {"refresh", "inject"} /\ io'[q].ask = r)
  <2>1. /\ io'[p] = None /\ \A q \in Process \ {p} : io'[q] = io[q]
        /\ UNCHANGED marker
        /\ Underway(r) /\ call[r].by = p => call'[r] = Ended
    BY <1>3, DoneIs DEF Crash
  <2>2. ASSUME NEW q \in Process, io[q] # None, io[q].op = "create", io[q].ask = r
        PROVE  q # p
    BY <2>1, <2>2 DEF PlacedInv, Placed, Unborn, Underway
  <2>3. Writing(r) => Writing(r)'
    BY <2>1, <2>2 DEF Writing
  <2>4. QED BY <1>1, <2>1, <2>3 DEF Marked, Unmarked
<1>4. CASE Elsewhere
  <2>1. \A q \in Process : io'[q] = io[q] \/ SetsOut(q)
    BY <1>4, ElsewhereIs
  <2>2. ~Unmarked(r)' => ~Unmarked(r) /\ (marker.empty => marker'.empty)
    <3>1. CASE MarkerAges
      BY <3>1 DEF MarkerAges, Unmarked, TypeOK, Marker
    <3>2. CASE UNCHANGED marker
      BY <3>2 DEF Unmarked
    <3>3. QED BY <1>4, <3>1, <3>2, ElsewhereIs
  <2>3. Writing(r) => Writing(r)'
    BY <2>1 DEF Writing, SetsOut
  <2>4. ASSUME NEW q \in Process,
               io'[q] # None /\ io'[q].op \in {"refresh", "inject"} /\ io'[q].ask = r
        PROVE  FALSE
    BY <1>1, <2>1, <2>4 DEF Marked, SetsOut, Names, Readable, Unmarked
  <2>5. QED BY <1>1, <2>2, <2>3, <2>4 DEF Marked
<1>5. QED BY <1>2, <1>3, <1>4, NextIs

-----------------------------------------------------------------------------
(* A row that is about to go, with its call or its reconciliation, has no  *)
(* marker left; unless somebody has written it back.                       *)
Gone(r) ==
  r \notin revived =>
    /\ Underway(r) /\ call[r].at = "drop" => Unmarked(r)
    /\ \A p \in Process :
         fix[p] # None /\ fix[p].ask = r /\ io[p] = None /\ ~fix[p].old => Unmarked(r)

GoneInv == \A r \in Ask : Gone(r)

(* The step at the file that lets the row go.                              *)
Freeing(p, r) ==
  \/ Underway(r)' /\ call'[r].at = "drop" /\ call'[r] # call[r]
  \/ io[p].op = "reconcile" /\ io'[p] = None /\ fix'[p] # None /\ ~fix'[p].old

LEMMA FreedIsUnmarked ==
  ASSUME TypeOK, PlacedInv, MarkedInv, NEW p \in Process, Filing(p), NEW r \in Ask,
         r = io[p].ask, r \notin revived', Freeing(p, r)
  PROVE  Unmarked(r)'
<1>1. io[p] # None /\ io[p].op \in Ops /\ Placed(p) /\ Marked(r)
  BY FilingIs, MarkerType DEF PlacedInv, MarkedInv
<1>2. ASSUME NEW place \in Looks, Then(p, place), UNCHANGED call
      PROVE  FALSE
  <2>1. io'[p] # None
    BY <1>1, <1>2, ThenIs DEF IsAt
  <2>2. QED BY <1>2, <2>1 DEF Freeing
<1>3. ASSUME Doing(p, {"create", "clear", "sweep", "refresh", "inject"}, io[p].at),
             UNCHANGED call
      PROVE  FALSE
  BY <1>3 DEF Freeing, Doing
<1>4. ASSUME NEW place \in {"dispatch", "release"}, io[p].op = "create", Goes(r, place)
      PROVE  FALSE
  <2>1. Underway(r)
    BY <1>1, <1>4 DEF Placed
  <2>2. call'[r].at = place
    BY <1>4, <2>1, GoesAt DEF Spots
  <2>3. QED BY <1>4, <2>2 DEF Freeing
<1>5. CASE LookToCreate(p) \/ Examine(p) \/ (UnlinkStale(p) /\ UNCHANGED marker)
  <2>1. UNCHANGED marker /\ io[p].op \in {"create", "sweep"} /\ io[p].at # "write"
    BY <1>5 DEF LookToCreate, Examine, UnlinkStale, Doing, file
  <2>2. CASE io[p].op = "create"
    <3>1. Underway(r) /\ call[r].by = p /\ Unborn(r)
      BY <1>1, <2>2 DEF Placed, Unborn
    <3>2. ~Writing(r)
      <4>1. ASSUME NEW q \in Process, io[q] # None, io[q].op = "create", io[q].ask = r,
                   io[q].at = "write"
            PROVE  FALSE
        <5>1. call[r].by = q
          BY <4>1 DEF PlacedInv, Placed
        <5>2. QED BY <2>1, <3>1, <4>1, <5>1
      <4>2. QED BY <4>1 DEF Writing
    <3>3. QED BY <1>1, <2>1, <3>1, <3>2 DEF Marked, Unmarked
  <2>3. CASE io[p].op = "sweep"
    <3>1. UNCHANGED call
      BY <1>5, <2>3 DEF LookToCreate, Examine, UnlinkStale, Doing
    <3>2. QED BY <1>1, <1>3, <2>3, <3>1 DEF Doing
  <2>4. QED BY <2>1, <2>2, <2>3
<1>6. CASE (UnlinkStale(p) \/ UnlinkMarker(p)) /\ Unlinked
  BY <1>6 DEF Unlinked, Unmarked
<1>7. CASE UnlinkStale(p) /\ ~Unlinked
  BY <1>5, <1>7 DEF UnlinkStale, file
<1>8. CASE UnlinkMarker(p) /\ ~Unlinked
  <2>1. UNCHANGED call /\ (io[p].op = "clear" \/ Then(p, "confirm"))
    BY <1>8 DEF UnlinkMarker
  <2>2. QED BY <1>1, <1>2, <1>3, <2>1 DEF Doing, Looks
<1>9. CASE OpenMarker(p)
  <2>1. io[p].op = "create" /\ (UNCHANGED call \/ Goes(r, "release"))
    BY <1>9 DEF OpenMarker, CreateThrows, Doing, Goes
  <2>2. QED BY <1>1, <1>3, <1>4, <2>1 DEF Doing
<1>10. CASE WriteMarker(p)
  <2>1. io[p].op = "create" /\ (Goes(r, "dispatch") \/ Goes(r, "release"))
    BY <1>10 DEF WriteMarker, Created, CreateThrows, Doing, Goes
  <2>2. QED BY <1>4, <2>1
<1>11. CASE LookToClear(p)
  <2>1. UNCHANGED call /\ (io[p].op = "clear" \/ Then(p, "unlink") \/ Then(p, "confirm"))
    BY <1>11 DEF LookToClear
  <2>2. QED BY <1>1, <1>2, <1>3, <2>1 DEF Doing, Looks
<1>12. CASE Confirm(p)
  <2>1. /\ Cleared(p, ~Names(r)) /\ io[p].op \in {"retire", "reconcile"}
        /\ UNCHANGED marker
        /\ marker # None /\ marker.of = r /\ marker.empty => r \in revived'
    BY <1>12 DEF Confirm, Doing, file
  <2>2. CASE Names(r) /\ io[p].op = "retire"
    <3>1. Goes(r, "park") /\ Underway(r)
      BY <1>1, <2>1, <2>2 DEF Cleared, Goes, Placed
    <3>2. call'[r].at = "park"
      BY <3>1, GoesAt DEF Spots
    <3>3. QED BY <2>2, <3>2 DEF Freeing
  <2>3. CASE Names(r) /\ io[p].op = "reconcile"
    <3>1. /\ UNCHANGED call
          /\ fix' = IF ~fix[p].old THEN [fix EXCEPT ![p] = None] ELSE fix
      BY <2>1, <2>3 DEF Cleared
    <3>2. QED BY <3>1 DEF Freeing, TypeOK
  <2>4. CASE ~Names(r)
    BY <2>1, <2>4 DEF Names, Readable, Unmarked
  <2>5. QED BY <2>1, <2>2, <2>3, <2>4
<1>13. CASE Truncate(p) \/ Rewrite(p)
  BY <1>1, <1>3, <1>13 DEF Truncate, Rewrite, Doing
<1>14. QED BY <1>5, <1>6, <1>7, <1>8, <1>9, <1>10, <1>11, <1>12, <1>13
           DEF Filing, Creating, Clearing, Refreshing

(* Once it has gone, only those who are said to write it back do so.       *)
LEMMA UnmarkedStays ==
  ASSUME TypeOK, PlacedInv, NEW p \in Process, Filing(p), NEW r \in Ask,
         ~Unborn(r), Unmarked(r), r \notin revived'
  PROVE  Unmarked(r)'
<1>1. PICK s \in Ask : s = io[p].ask
  BY FilingIs, MarkerType
<1>2. io[p].op = "create" => s # r
  BY <1>1, FilingIs DEF PlacedInv, Placed, Unborn
<1>3. ASSUME r \in Regained(p), revived' = revived \cup Regained(p)
      PROVE  FALSE
  BY <1>3
<1>4. s = r => r \in Regained(p)
  BY <1>1 DEF Regained, Unmarked
<1>5. CASE Leaving(p) \/ Removing(p)
  BY <1>5 DEF Leaving, Removing, Unlinked, Unmarked
<1>6. CASE Opening(p) \/ Truncating(p) \/ Writes(p)
  <2>1. s # r
    BY <1>2, <1>3, <1>4, <1>6 DEF Opening, Truncating, Writes
  <2>2. marker'.of = s
    BY <1>1, <1>6, WroteIs DEF Opening, Truncating, Writes
  <2>3. QED BY <2>1, <2>2 DEF Unmarked
<1>7. QED BY <1>5, <1>6, FilingMarks

LEMMA GoneStep ==
  ASSUME Prompt, TypeOK, PlacedInv, AgedInv, MarkedInv, GoneInv, [Next]_vars
  PROVE  GoneInv'
<1> SUFFICES ASSUME NEW r \in Ask, r \notin revived'
             PROVE  /\ Underway(r)' /\ call'[r].at = "drop" => Unmarked(r)'
                    /\ \A q \in Process :
                         fix'[q] # None /\ fix'[q].ask = r /\ io'[q] = None /\ ~fix'[q].old =>
                           Unmarked(r)'
  BY DEF GoneInv, Gone
<1>1. Gone(r) /\ Aged(r)
  BY DEF GoneInv, AgedInv
<1>2. ASSUME NEW p \in Process, Filing(p)
      PROVE  /\ Underway(r)' /\ call'[r].at = "drop" => Unmarked(r)'
             /\ \A q \in Process :
                  fix'[q] # None /\ fix'[q].ask = r /\ io'[q] = None /\ ~fix'[q].old =>
                    Unmarked(r)'
  <2>1. /\ io[p] # None /\ Filed(p) /\ Placed(p) /\ r \notin revived
        /\ \A q \in Process \ {p} : io'[q] = io[q]
    <3>1. r \notin revived
      BY <1>2, FilingMarks DEF Leaving, Removing, Opening, Truncating, Writes, past
    <3>2. QED BY <1>2, <3>1, FilingIs DEF PlacedInv, Filed
  <2>2. ASSUME Underway(r)', call'[r].at = "drop"
        PROVE  Unmarked(r)'
    <3>1. CASE call'[r] = call[r]
      <4>1. Underway(r) /\ call[r].at = "drop"
        BY <2>2, <3>1 DEF Underway
      <4>2. Unmarked(r) /\ ~Unborn(r)
        BY <1>1, <2>1, <4>1 DEF Gone, Unborn, Underway
      <4>3. QED BY <1>2, <4>2, UnmarkedStays
    <3>2. CASE call'[r] # call[r]
      <4>1. r = io[p].ask
        BY <1>2, <3>2, FilingCalls
      <4>2. QED BY <1>2, <2>2, <3>2, <4>1, FreedIsUnmarked DEF Freeing
    <3>3. QED BY <3>1, <3>2
  <2>3. ASSUME NEW q \in Process, fix'[q] # None, fix'[q].ask = r, io'[q] = None, ~fix'[q].old
        PROVE  Unmarked(r)'
    <3>1. fix'[q] = fix[q]
      <4>1. UNCHANGED fix \/ fix' = [fix EXCEPT ![p] = None]
        BY <2>1 DEF Filed, Continuing, Throwing, Turning, Finishing
      <4>2. QED BY <2>3, <4>1 DEF TypeOK
    <3>2. CASE q = p
      <4>1. io[p].op = "reconcile" /\ r = io[p].ask
        BY <2>1, <2>3, <3>1, <3>2 DEF Placed
      <4>2. QED BY <1>2, <2>3, <3>2, <4>1, FreedIsUnmarked DEF Freeing
    <3>3. CASE q # p
      <4>1. Unmarked(r) /\ call[r] = Ended
        BY <1>1, <2>1, <2>3, <3>1, <3>3 DEF Gone, Aged
      <4>2. ~Unborn(r)
        BY <4>1 DEF Unborn, Underway
      <4>3. QED BY <1>2, <4>1, <4>2, UnmarkedStays
    <3>4. QED BY <3>2, <3>3
  <2>4. QED BY <2>2, <2>3
<1>3. ASSUME NEW p \in Process, Crash(p)
      PROVE  /\ Underway(r)' /\ call'[r].at = "drop" => Unmarked(r)'
             /\ \A q \in Process :
                  fix'[q] # None /\ fix'[q].ask = r /\ io'[q] = None /\ ~fix'[q].old =>
                    Unmarked(r)'
  <2>1. /\ io'[p] = None /\ fix'[p] = None
        /\ \A q \in Process \ {p} : io'[q] = io[q] /\ fix'[q] = fix[q]
        /\ UNCHANGED <<marker, revived>>
        /\ Underway(r)' => call'[r] = call[r]
    BY <1>3, DoneIs DEF Crash, TypeOK, past, Underway
  <2>2. QED BY <1>1, <2>1 DEF Gone, Unmarked, Underway
<1>4. CASE Elsewhere
  <2>1. /\ revived' = revived
        /\ \A q \in Process : io'[q] = io[q] \/ SetsOut(q)
        /\ Underway(r)' /\ call'[r] # call[r] => call'[r].at \in {"marker", "hub", "release"}
    BY <1>4, ElsewhereIs
  <2>2. Unmarked(r) => Unmarked(r)'
    <3>1. CASE MarkerAges
      BY <3>1 DEF MarkerAges, Unmarked, TypeOK, Marker
    <3>2. CASE UNCHANGED marker
      BY <3>2 DEF Unmarked
    <3>3. QED BY <1>4, <3>1, <3>2, ElsewhereIs
  <2>3. ASSUME NEW q \in Process, fix'[q] # None, fix'[q].ask = r, io'[q] = None, ~fix'[q].old
        PROVE  Unmarked(r)
    <3>1. fix'[q] = fix[q]
      BY <2>3, ListedIs
    <3>2. io[q] = None
      BY <2>1, <2>3 DEF SetsOut
    <3>3. QED BY <1>1, <2>1, <2>3, <3>1, <3>2 DEF Gone
  <2>4. ASSUME Underway(r)', call'[r].at = "drop"
        PROVE  Unmarked(r)
    BY <1>1, <2>1, <2>4 DEF Gone, Underway
  <2>5. QED BY <2>2, <2>3, <2>4
<1>5. QED BY <1>2, <1>3, <1>4, NextIs

FindableInv == AgedInv /\ MarkedInv /\ GoneInv

LEMMA FindableInit == Init => FindableInv
BY DEF Init, FindableInv, AgedInv, Aged, MarkedInv, Marked, Unmarked, GoneInv, Gone, InState,
   Underway, Old

LEMMA FindableStep ==
  ASSUME Prompt
  PROVE  TypeOK /\ PlacedInv /\ FindableInv /\ [Next]_vars => FindableInv'
BY AgedStep, MarkedStep, GoneStep DEF FindableInv

(* Where processes are prompt, a row goes before its TTL only with the     *)
(* record of the answer, or once no marker names its ask, but for an ask   *)
(* whose marker came back, or stayed, after its release.                   *)
THEOREM MarkerIsFindableHolds ==
  ASSUME Prompt
  PROVE  Spec => MarkerIsFindable
<1> DEFINE Safe == \A r \in Ask \ revived :
             row[r] # None /\ row'[r] = None /\ row[r].age < 2 =>
               answers'[r] > answers[r] \/ ~Names(r)
<1>1. TypeOK /\ PlacedInv /\ FindableInv /\ [Next]_vars => [Safe]_vars
  <2> SUFFICES ASSUME TypeOK, PlacedInv, FindableInv, Next, NEW r \in Ask \ revived,
                      row[r] # None, row'[r] = None, row[r].age < 2,
                      ~(answers'[r] > answers[r])
               PROVE  ~Names(r)
    OBVIOUS
  <2>1. Life(r) /\ Aged(r) /\ Gone(r)
    BY LifeStep DEF FindableInv, AgedInv, GoneInv
  <2>2. row[r].age \in Nat
    BY DEF TypeOK, Row
  <2>3. Leaves(r)
    BY <2>1 DEF Life, Stays, Begins, Turns, Ages, Aged
  <2>4. CASE At(r, "drop")
    BY <2>1, <2>4 DEF Gone, At, Unmarked, Names, Readable
  <2>5. ASSUME NEW p \in Process, fix[p] # None, fix[p].ask = r, io[p] = None
        PROVE  ~Names(r)
    <3>1. CASE fix[p].old
      BY <2>1, <2>2, <2>5, <3>1 DEF Aged, Old
    <3>2. CASE ~fix[p].old
      BY <2>1, <2>5, <3>2 DEF Gone, Unmarked, Names, Readable
    <3>3. QED BY <3>1, <3>2
  <2>6. QED BY <2>1, <2>2, <2>3, <2>4, <2>5 DEF Leaves, Aged
<1>2. QED BY <1>1, FindableInit, FindableStep, Sound, PTL DEF Spec, MarkerIsFindable

-----------------------------------------------------------------------------
(* The hub holds an ask only once it is sent, and what is being released,  *)
(* reconciled or cleared does not block the room any more.                 *)
Sent(r) ==
  /\ Underway(r) /\ call[r].at \in {"marker", "dispatch"} => InState(r, {"prepared"})
  /\ Underway(r) /\ call[r].at # "hub" => hub[r] = "idle"
  /\ Underway(r) /\ call[r].at = "hub" => row[r] = None \/ row[r].state = "dispatched"
  /\ \A p \in Process : fix[p] # None /\ fix[p].ask = r => ~Blocks(r)
  /\ \A p \in Process :
       \/ r \in clear[p]
       \/ io[p] # None /\ io[p].op \in {"clear", "inject"} /\ io[p].ask = r
       => row[r] = None /\ call[r] # None

SentInv == \A r \in Ask : Sent(r)

(* What one step may do to what the hub knows.                             *)
HubLife(r) ==
  \/ hub'[r] = hub[r]
  \/ hub[r] = "idle" /\ hub'[r] = "holds" /\ At(r, "hub") /\ UNCHANGED <<call, row>>
  \/ hub'[r] \in {"delivered", "dropped"} /\ hub[r] # "idle" /\ UNCHANGED call

LEMMA HubStep ==
  ASSUME TypeOK, PlacedInv, VerdictInv, [Next]_vars, NEW r \in Ask
  PROVE  HubLife(r)
<1> USE DEF HubLife
<1>1. ASSUME NEW s \in Ask, HubAccepts(s)
      PROVE  HubLife(r)
  BY <1>1 DEF HubAccepts, TypeOK
<1>2. ASSUME NEW p \in Process, NEW s \in Ask, Replying(p, s)
      PROVE  HubLife(r)
  <2>1. job[p][s] \notin {None, "notice"} => hub[s] # "idle"
    BY DEF VerdictInv, Origin
  <2>2. UNCHANGED call
    BY <1>2 DEF Replying, ReplyArrives, ClaimReply, CheckReply, MarkReply, Record,
       DeliveryFails, TellHub, ClearMarker
  <2>3. CASE UNCHANGED hub
    BY <2>3
  <2>4. CASE ReplyArrives(p, s) \/ ClaimReply(p, s)
    <3>1. /\ \A t \in Ask \ {s} : hub'[t] = hub[t]
          /\ hub'[s] \in {hub[s], "delivered", "dropped"}
      BY <2>4 DEF ReplyArrives, ClaimReply, TypeOK
    <3>2. hub[s] # "idle"
      BY <2>1, <2>4, Places DEF ReplyArrives, ClaimReply
    <3>3. QED BY <2>2, <3>1, <3>2
  <2>5. CASE CheckReply(p, s) \/ TellHub(p, s)
    <3>1. /\ \A t \in Ask \ {s} : hub'[t] = hub[t]
          /\ hub'[s] \in {hub[s], "delivered", "dropped"}
      BY <2>5 DEF CheckReply, TellHub, TypeOK
    <3>2. hub[s] # "idle"
      BY <2>1, <2>5, Places DEF CheckReply, TellHub
    <3>3. QED BY <2>2, <3>1, <3>2
  <2>6. QED BY <1>2, <2>3, <2>4, <2>5
            DEF Replying, MarkReply, Record, DeliveryFails, ClearMarker
<1>3. ASSUME NEW p \in Process, NEW s \in Ask, Asking(p, s)
      PROVE  HubLife(r)
  BY <1>3, AskingIs DEF Asking, Begin
<1>4. ASSUME NEW p \in Process, Filing(p)
      PROVE  HubLife(r)
  BY <1>4, FilingIs DEF Filed
<1>5. ASSUME NEW p \in Process, Maintaining(p)
      PROVE  HubLife(r)
  BY <1>5 DEF Maintaining, Settle, ListDue, Reconcile, Purge, Recover, CheckRecovered, Expire,
     RecordNotice, NoticeFails
<1>6. CASE Passing \/ UNCHANGED vars \/ \E p \in Process : Sweep(p) \/ Crash(p)
  BY <1>6 DEF Passing, MarkerAges, RowAges, LeaseEnds, Sweep, Crash, vars
<1>7. QED BY <1>1, <1>2, <1>3, <1>4, <1>5, <1>6 DEF Next

(* With a steady hub a call that is refused has not been accepted.         *)
LEMMA RefusedIsIdle ==
  ASSUME SteadyHub, TypeOK, PlacedInv, [Next]_vars, NEW r \in Ask,
         Underway(r), call[r].at = "hub", Underway(r)', call'[r].at # "hub"
  PROVE  hub[r] = "idle" /\ hub' = hub
<1>1. ASSUME NEW p \in Process, NEW s \in Ask, Asking(p, s)
      PROVE  hub[r] = "idle" /\ hub' = hub
  <2>1. CASE Begin(p, s)
    BY <2>1, BeginIs DEF Begin, Underway
  <2>2. CASE call[s] # None /\ s # r
    BY <1>1, <2>2, AskingIs, PartingIs
  <2>3. CASE call[s] # None /\ s = r
    <3>1. CASE CallRefused(r)
      BY <3>1 DEF CallRefused
    <3>2. CASE Over(r)
      BY <3>2, CallEnds DEF Underway
    <3>3. QED BY <1>1, <2>3, <3>1, <3>2
              DEF Asking, Begin, Dispatch, DispatchThrows, At, CallConfirmed, CallUncertain,
                  Park, DropRow
  <2>4. QED BY <1>1, <2>1, <2>2, <2>3 DEF Asking
<1>2. ASSUME NEW p \in Process, Filing(p)
      PROVE  FALSE
  BY <1>2, FilingCalls
<1>3. ASSUME NEW p \in Process, Crash(p)
      PROVE  FALSE
  BY <1>3 DEF Crash, Underway
<1>4. ASSUME NEW p \in Process, NEW s \in Ask, Replying(p, s)
      PROVE  FALSE
  BY <1>4 DEF Replying, ReplyArrives, ClaimReply, CheckReply, MarkReply, Record,
     DeliveryFails, TellHub, ClearMarker
<1>5. ASSUME NEW p \in Process, Maintaining(p)
      PROVE  FALSE
  BY <1>5 DEF Maintaining, Settle, ListDue, Reconcile, Purge, Recover, CheckRecovered, Expire,
     RecordNotice, NoticeFails
<1>6. CASE Passing \/ UNCHANGED vars \/ (\E s \in Ask : HubAccepts(s))
           \/ \E p \in Process : Sweep(p)
  BY <1>6 DEF Passing, MarkerAges, RowAges, LeaseEnds, HubAccepts, Sweep, vars
<1>7. QED BY <1>1, <1>2, <1>3, <1>4, <1>5, <1>6 DEF Next

LEMMA ClearIs ==
  ASSUME TypeOK, PlacedInv, VerdictInv, [Next]_vars, NEW q \in Process, NEW r \in Ask,
         r \in clear'[q], r \notin clear[q]
  PROVE  row'[r] = None /\ call[r] # None
<1>1. PICK p \in Process, s \in Ask : Record(p, s) /\ Mine(p, s)
  <2>1. ASSUME \A p \in Process, s \in Ask : ~(Record(p, s) /\ Mine(p, s))
        PROVE  clear' = clear \/ \E p \in Process :
                 \/ clear' = [clear EXCEPT ![p] = {}]
                 \/ \E s \in Ask : clear' = [clear EXCEPT ![p] = @ \ {s}]
    <3>1. ASSUME NEW p \in Process, Filing(p)
          PROVE  clear' = clear
      BY <3>1, FilingIs DEF Filed
    <3>2. ASSUME NEW p \in Process, NEW s \in Ask, Asking(p, s)
          PROVE  clear' = clear
      BY <3>2, AskingIs DEF Asking, Begin, memory
    <3>3. ASSUME NEW p \in Process, NEW s \in Ask, Replying(p, s)
          PROVE  clear' = clear \/ clear' = [clear EXCEPT ![p] = @ \ {s}]
      BY <2>1, <3>3 DEF Replying, ReplyArrives, ClaimReply, CheckReply, MarkReply, Record,
         DeliveryFails, TellHub, ClearMarker
    <3>4. ASSUME NEW p \in Process, Maintaining(p)
          PROVE  clear' = clear
      BY <3>4 DEF Maintaining, Settle, ListDue, Reconcile, Purge, Recover, CheckRecovered,
         Expire, RecordNotice, NoticeFails, memory
    <3>5. CASE Passing \/ UNCHANGED vars \/ (\E s \in Ask : HubAccepts(s))
               \/ \E p \in Process : Sweep(p) \/ Crash(p)
      BY <3>5 DEF Passing, MarkerAges, RowAges, LeaseEnds, HubAccepts, Sweep, Crash, vars, memory
    <3>6. QED BY <3>1, <3>2, <3>3, <3>4, <3>5 DEF Next
  <2>2. ASSUME NEW p \in Process,
               \/ clear' = [clear EXCEPT ![p] = {}]
               \/ \E s \in Ask : clear' = [clear EXCEPT ![p] = @ \ {s}]
        PROVE  clear'[q] \subseteq clear[q]
    <3>1. CASE clear' = [clear EXCEPT ![p] = {}]
      BY <3>1 DEF TypeOK
    <3>2. CASE \E s \in Ask : clear' = [clear EXCEPT ![p] = @ \ {s}]
      BY <3>2 DEF TypeOK
    <3>3. QED BY <2>2, <3>1, <3>2
  <2>3. QED BY <2>1, <2>2
<1>2. /\ clear' = [clear EXCEPT ![p] = @ \cup {s}] /\ row' = [row EXCEPT ![s] = None]
      /\ job[p][s] = "deliver"
  BY <1>1 DEF Record
<1>3. r = s
  BY <1>2 DEF TypeOK
<1>4. call[s] # None
  BY <1>2, Places DEF VerdictInv, Origin
<1>5. QED BY <1>2, <1>3, <1>4 DEF TypeOK

LEMMA SentStep ==
  ASSUME Prompt, SteadyHub, TypeOK, PlacedInv, VerdictInv, AgedInv, SentInv, [Next]_vars
  PROVE  SentInv'
<1> SUFFICES ASSUME NEW r \in Ask
             PROVE  Sent(r)'
  BY DEF SentInv
<1>1. Life(r) /\ HubLife(r) /\ Aged(r) /\ Sent(r) /\ Origin(r)
  BY LifeStep, HubStep DEF AgedInv, SentInv, VerdictInv
<1>2. \/ row[r] = None
      \/ row[r] \in Row /\ row[r].age \in Nat
  BY DEF TypeOK, Row
<1>3. ASSUME Underway(r)', call'[r].at \in {"marker", "dispatch"}
      PROVE  InState(r, {"prepared"})'
  <2>1. CASE Stays(r)
    BY <1>1, <1>3, <2>1 DEF Stays, CallOn, GoesOn, Sent, InState, Underway
  <2>2. CASE Begins(r)
    <3>1. [state |-> "prepared", age |-> 0] \in Row
      BY DEF Row, State
    <3>2. QED BY <2>2, <3>1 DEF Begins, InState
  <2>3. CASE Leaves(r)
    <3>1. call'[r] = call[r] /\ Underway(r)
      BY <1>3, <2>3 DEF Leaves, Underway
    <3>2. InState(r, {"prepared"}) /\ hub[r] = "idle"
      BY <1>1, <1>3, <3>1 DEF Sent
    <3>3. \A p \in Process : job[p][r] # "deliver"
      BY <1>1, <3>2, Places DEF Origin
    <3>4. QED BY <1>1, <1>2, <1>3, <2>3, <3>1, <3>2, <3>3 DEF Leaves, Aged, InState, At, Underway
  <2>4. CASE Turns(r)
    BY <1>1, <1>3, <2>4 DEF Turns, Aged, Sent, InState, Underway
  <2>5. CASE Ages(r)
    BY <1>3, <2>5 DEF Ages, Underway
  <2>6. QED BY <1>1, <2>1, <2>2, <2>3, <2>4, <2>5 DEF Life
<1>4. ASSUME Underway(r)', call'[r].at # "hub"
      PROVE  hub'[r] = "idle"
  <2>1. hub[r] = "idle"
    <3>1. CASE call[r] = None
      BY <1>1, <3>1 DEF Origin
    <3>2. CASE Underway(r) /\ call[r].at # "hub"
      BY <1>1, <3>2 DEF Sent
    <3>3. CASE Underway(r) /\ call[r].at = "hub"
      BY <1>4, <3>3, RefusedIsIdle
    <3>4. call[r] # Ended
      BY <1>1, <1>4, OldStays DEF Underway
    <3>5. QED BY <3>1, <3>2, <3>3, <3>4 DEF Underway
  <2>2. QED BY <1>1, <1>4, <2>1 DEF HubLife, At
<1>5. ASSUME Underway(r)', call'[r].at = "hub"
      PROVE  row'[r] = None \/ row'[r].state = "dispatched"
  <2>1. CASE Stays(r)
    BY <1>1, <1>5, <2>1 DEF Stays, CallOn, GoesOn, Sent, Underway
  <2>2. CASE Begins(r) \/ Leaves(r)
    BY <1>5, <2>2 DEF Begins, Leaves
  <2>3. CASE Turns(r)
    BY <1>1, <1>5, <2>3 DEF Turns, Aged, Sent, Underway
  <2>4. CASE Ages(r)
    BY <1>5, <2>4 DEF Ages, Underway
  <2>5. QED BY <1>1, <2>1, <2>2, <2>3, <2>4 DEF Life
<1>6. ASSUME NEW p \in Process, fix'[p] # None, fix'[p].ask = r
      PROVE  ~Blocks(r)'
  <2>1. CASE fix'[p] = fix[p]
    <3>1. call[r] = Ended /\ ~Blocks(r)
      BY <1>1, <1>6, <2>1 DEF Aged, Sent
    <3>2. hub'[r] = "holds" => hub[r] = "holds"
      BY <1>1, <3>1 DEF HubLife, At, Underway
    <3>3. ASSUME Blocks(r)'
          PROVE  FALSE
      <4>1. hub[r] = "holds"
        BY <3>2, <3>3 DEF Blocks
      <4>2. CASE Stays(r)
        BY <3>1, <3>3, <4>1, <4>2 DEF Stays, Blocks
      <4>3. CASE Begins(r) \/ Leaves(r)
        BY <3>1, <3>3, <4>3 DEF Begins, Leaves, Blocks
      <4>4. CASE Turns(r)
        BY <3>1, <3>3, <4>4 DEF Turns, Blocks, Underway, At
      <4>5. CASE Ages(r)
        <5>1. row[r] # None /\ row[r].age \in Nat
          BY <1>2, <4>5 DEF Ages
        <5>2. row'[r].state = row[r].state /\ row'[r].age = row[r].age + 1
          BY <4>5 DEF Ages
        <5>3. QED BY <3>1, <3>3, <4>1, <5>1, <5>2 DEF Blocks
      <4>6. QED BY <1>1, <4>2, <4>3, <4>4, <4>5 DEF Life
    <3>4. QED BY <3>3
  <2>2. ASSUME NEW s \in Ask,
               Reconcilable(s), UNCHANGED <<row, call>>, hub' = hub,
               fix'[p] = [ask |-> s, state |-> row[s].state, old |-> row[s].age >= 2]
        PROVE  ~Blocks(r)'
    <3>1. s = r
      BY <1>6, <2>2
    <3>2. QED BY <2>2, <3>1 DEF Reconcilable, InState, Blocks
  <2>3. QED BY <1>6, <2>1, <2>2, ListedIs
<1>7. ASSUME NEW p \in Process,
             \/ r \in clear'[p]
             \/ io'[p] # None /\ io'[p].op \in {"clear", "inject"} /\ io'[p].ask = r
      PROVE  row'[r] = None /\ call'[r] # None
  <2>1. row[r] = None /\ call[r] # None => row'[r] = None /\ call'[r] # None
    BY <1>1, OldStays DEF Life, Stays, Begins, Leaves, Turns, Ages
  <2>2. CASE r \in clear'[p]
    BY <1>1, <2>1, <2>2, ClearIs, OldStays DEF Sent
  <2>3. ASSUME io'[p] # None, io'[p].op \in {"clear", "inject"}, io'[p].ask = r
        PROVE  \/ r \in clear[p]
               \/ io[p] # None /\ io[p].op \in {"clear", "inject"} /\ io[p].ask = r
    <3>1. ASSUME NEW q \in Process, Filing(q)
          PROVE  io[p] # None /\ io[p].op \in {"clear", "inject"} /\ io[p].ask = r
      <4>1. io[q] # None /\ Filed(q)
        BY <3>1, FilingIs
      <4>2. CASE q = p
        BY <2>3, <4>1, <4>2 DEF Filed, Continuing, Throwing, Turning, Finishing, IsAt
      <4>3. CASE q # p
        BY <2>3, <4>1, <4>3 DEF Filed
      <4>4. QED BY <4>2, <4>3
    <3>2. ASSUME NEW q \in Process, Crash(q)
          PROVE  io[p] # None /\ io[p].op \in {"clear", "inject"} /\ io[p].ask = r
      BY <2>3, <3>2, DoneIs DEF Crash
    <3>3. CASE Elsewhere
      <4>1. io'[p] = io[p] \/ SetsOut(p)
        BY <3>3, ElsewhereIs
      <4>2. QED BY <2>3, <4>1 DEF SetsOut
    <3>4. QED BY <3>1, <3>2, <3>3, NextIs
  <2>4. QED BY <1>1, <1>7, <2>1, <2>2, <2>3 DEF Sent
<1>8. QED BY <1>3, <1>4, <1>5, <1>6, <1>7 DEF Sent

-----------------------------------------------------------------------------
(* Whoever has the file open has it at its path, and is about to write.    *)
DescInv ==
  /\ marker = None => desc = {}
  /\ \A p \in desc : io[p] # None /\ io[p].at = "write"

LEMMA DescStep ==
  ASSUME TypeOK, PlacedInv, DescInv, [Next]_vars
  PROVE  DescInv'
<1>1. desc \subseteq Process
  BY DEF TypeOK
<1>2. ASSUME NEW p \in Process, Filing(p)
      PROVE  DescInv'
  <2>1. /\ \A q \in Process \ {p} : io'[q] = io[q]
        /\ io[p] # None /\ io[p].ask \in Ask
    BY <1>2, FilingIs, MarkerType DEF Filed
  <2>2. CASE Leaving(p)
    BY <1>1, <2>1, <2>2 DEF Leaving, DescInv
  <2>3. CASE Removing(p)
    BY <2>3 DEF Removing, Unlinked, DescInv
  <2>4. CASE Opening(p) \/ Truncating(p)
    <3>1. marker' # None
      BY <2>1, <2>4, WroteIs DEF Opening, Truncating
    <3>2. io'[p] # None /\ io'[p].at = "write" /\ desc' = desc \cup {p}
      BY <2>4 DEF Opening, Truncating, IsAt
    <3>3. QED BY <1>1, <2>1, <3>1, <3>2 DEF DescInv
  <2>5. CASE Writes(p)
    <3>1. marker' # None
      BY <2>1, <2>5, WroteIs DEF Writes
    <3>2. QED BY <1>1, <2>1, <2>5, <3>1 DEF Writes, DescInv
  <2>6. QED BY <1>2, <2>2, <2>3, <2>4, <2>5, FilingMarks
<1>3. ASSUME NEW p \in Process, Crash(p)
      PROVE  DescInv'
  BY <1>1, <1>3, DoneIs DEF Crash, DescInv
<1>4. CASE Elsewhere
  <2>1. UNCHANGED desc /\ \A q \in Process : io'[q] = io[q] \/ SetsOut(q)
    BY <1>4, ElsewhereIs
  <2>2. marker' = None => marker = None
    <3>1. CASE MarkerAges
      BY <3>1 DEF MarkerAges, TypeOK, Marker
    <3>2. QED BY <1>4, <3>1, ElsewhereIs
  <2>3. QED BY <1>1, <2>1, <2>2 DEF SetsOut, DescInv
<1>5. QED BY <1>2, <1>3, <1>4, NextIs

(* An ask that is being sent or still blocks the room has its fresh marker *)
(* at the path, and nobody but its own process has that file open; unless  *)
(* the marker was taken.                                                   *)
Held(r) ==
  row[r] # None /\ (Writing(r) \/ (Underway(r) /\ call[r].at \in {"dispatch", "hub"}) \/ Blocks(r))

Guarded(r) ==
  /\ ~Unmarked(r) /\ ~marker.stale
  /\ \A p \in desc : io[p].ask = r

GuardInv == \A r \in Ask \ robbed : Held(r) => Guarded(r)

LEMMA WritingIs ==
  ASSUME PlacedInv, NEW r \in Ask, Writing(r)
  PROVE  /\ Underway(r) /\ call[r].at = "marker"
         /\ \A p \in Process : call[r].by = p => io[p] # None /\ io[p].at = "write"
BY DEF Writing, PlacedInv, Placed

(* An ask blocks the room from the moment its call has sent it.            *)
LEMMA BlocksBefore ==
  ASSUME TypeOK, PlacedInv, VerdictInv, [Next]_vars, NEW r \in Ask, Blocks(r)'
  PROVE  Blocks(r) \/ (row[r] # None /\ Underway(r) /\ call[r].at \in {"dispatch", "hub"})
<1>1. Life(r) /\ HubLife(r) /\ Origin(r)
  BY LifeStep, HubStep DEF VerdictInv
<1>2. \/ row[r] = None
      \/ row[r] \in Row /\ row[r].age \in Nat
  BY DEF TypeOK, Row
<1>3. CASE hub[r] = "idle"
  BY <1>1, <1>3 DEF HubLife, Blocks, At
<1>4. CASE hub[r] # "idle"
  <2>1. hub[r] = "holds" /\ call[r] # None
    BY <1>1, <1>4 DEF HubLife, Blocks, Origin
  <2>2. CASE Stays(r)
    BY <2>1, <2>2 DEF Stays, Blocks
  <2>3. CASE Begins(r) \/ Leaves(r)
    BY <2>1, <2>3 DEF Begins, Leaves, Blocks
  <2>4. CASE Turns(r)
    BY <2>1, <2>4 DEF Turns, Blocks, At
  <2>5. CASE Ages(r)
    <3>1. row[r] # None /\ row[r].age \in Nat
      BY <1>2, <2>5 DEF Ages
    <3>2. row'[r].state = row[r].state /\ row'[r].age = row[r].age + 1
      BY <2>5 DEF Ages
    <3>3. QED BY <2>1, <3>1, <3>2 DEF Blocks
  <2>6. QED BY <1>1, <2>2, <2>3, <2>4, <2>5 DEF Life
<1>5. QED BY <1>3, <1>4

(* A call sends its ask when its process has written the marker.           *)
LEMMA WrittenIs ==
  ASSUME TypeOK, PlacedInv, NEW p \in Process, Filing(p), NEW r \in Ask,
         call'[r] # call[r], Underway(r)', call'[r].at = "dispatch"
  PROVE  Writing(r)
<1>1. /\ r = io[p].ask /\ io[p] # None /\ Placed(p)
      /\ Underway(r) /\ call[r].at = "marker" /\ io[p].op = "create"
  BY FilingIs, FilingCalls DEF PlacedInv
<1>2. ASSUME NEW place \in {"drop", "release"}, Goes(r, place)
      PROVE  FALSE
  BY <1>1, <1>2, GoesAt DEF Spots
<1>3. CASE WriteMarker(p)
  BY <1>1, <1>3 DEF WriteMarker, Doing, Writing
<1>4. CASE LookToCreate(p) \/ OpenMarker(p) \/ Examine(p) \/ UnlinkStale(p)
  BY <1>1, <1>2, <1>4
     DEF LookToCreate, OpenMarker, Examine, UnlinkStale, Created, CreateThrows, Goes
<1>5. CASE LookToClear(p) \/ UnlinkMarker(p) \/ Confirm(p) \/ Truncate(p) \/ Rewrite(p)
  BY <1>1, <1>5 DEF LookToClear, UnlinkMarker, Confirm, Truncate, Rewrite, Doing
<1>6. QED BY <1>3, <1>4, <1>5 DEF Filing, Creating, Clearing, Refreshing

LEMMA HeldBefore ==
  ASSUME TypeOK, PlacedInv, VerdictInv, [Next]_vars, NEW r \in Ask, Held(r)',
         Writing(r)' => Writing(r)
  PROVE  Held(r)
<1>1. Life(r) /\ Origin(r)
  BY LifeStep DEF VerdictInv
<1>2. row'[r] # None
  BY DEF Held
<1>3. CASE Writing(r)
  <2>1. Underway(r) /\ call[r].at = "marker"
    BY <1>3, WritingIs
  <2>2. row[r] # None
    BY <1>1, <1>2, <2>1 DEF Life, Stays, Begins, Leaves, Turns, Ages, Underway
  <2>3. QED BY <1>3, <2>2 DEF Held
<1>4. CASE Blocks(r)'
  BY <1>4, BlocksBefore DEF Held, Blocks
<1>5. CASE ~Writing(r) /\ Underway(r)' /\ call'[r].at \in {"dispatch", "hub"}
  <2>1. CASE call'[r] = call[r]
    BY <1>1, <1>2, <1>5, <2>1
       DEF Held, Underway, Life, Stays, Begins, Leaves, Turns, Ages
  <2>2. CASE call'[r] # call[r] /\ call'[r].at = "dispatch"
    <3>1. ASSUME NEW p \in Process, Filing(p)
          PROVE  FALSE
      BY <1>5, <2>2, <3>1, WrittenIs
    <3>2. ASSUME NEW p \in Process, Crash(p)
          PROVE  FALSE
      BY <1>5, <2>2, <3>2 DEF Crash, Underway
    <3>3. CASE Elsewhere
      BY <1>5, <2>2, <3>3, ElsewhereIs
    <3>4. QED BY <3>1, <3>2, <3>3, NextIs
  <2>3. CASE call'[r] # call[r] /\ call'[r].at = "hub"
    BY <1>1, <1>5, <2>3
       DEF Held, Underway, At, Life, Stays, CallOn, GoesOn, Begins, Leaves, Turns, Ages, Row
  <2>4. QED BY <1>5, <2>1, <2>2, <2>3
<1>6. QED BY <1>3, <1>4, <1>5 DEF Held

LEMMA GuardFiling ==
  ASSUME Prompt, TypeOK, PlacedInv, VerdictInv, AgedInv, SentInv, DescInv, [Next]_vars,
         NEW p \in Process, Filing(p), NEW r \in Ask, r \notin robbed', Held(r)',
         r \notin robbed /\ Held(r) => Guarded(r)
  PROVE  Guarded(r)'
<1>1. /\ io[p] # None /\ Placed(p) /\ desc \subseteq Process
      /\ \A q \in Process \ {p} : io'[q] = io[q]
  BY FilingIs DEF PlacedInv, Filed, TypeOK
<1>2. PICK s \in Ask : s = io[p].ask
  BY <1>1, MarkerType
<1>3. r \notin robbed
  BY FilingMarks DEF Leaving, Removing, Opening, Truncating, Writes, past
<1>4. ASSUME ~(Opening(p) /\ s = r)
      PROVE  Held(r) /\ Guarded(r)
  <2>1. ASSUME io'[p] # None, io'[p].op = "create", io'[p].ask = r, io'[p].at = "write"
        PROVE  FALSE
    BY <1>1, <1>2, <1>4, <2>1, FilingMarks
       DEF Leaving, Removing, Opening, Truncating, Writes, Quits, IsAt
  <2>2. Writing(r)' => Writing(r)
    BY <1>1, <2>1 DEF Writing
  <2>3. Held(r)
    BY <2>2, HeldBefore
  <2>4. QED BY <1>3, <2>3
<1>5. CASE Leaving(p)
  <2>1. (Held(r) /\ Guarded(r)) \/ (Opening(p) /\ s = r)
    BY <1>4
  <2>2. ~Opening(p)
    BY <1>1, <1>2, <1>5, WroteIs DEF Leaving, Opening
  <2>3. p \notin desc' /\ desc' \subseteq desc
    BY <1>5 DEF Leaving, DescInv
  <2>4. QED BY <1>1, <1>5, <2>1, <2>2, <2>3 DEF Leaving, Guarded, Unmarked
<1>6. CASE Removing(p)
  <2>1. ~Opening(p)
    BY <1>6 DEF Removing, Opening
  <2>2. Held(r) /\ ~Unmarked(r) /\ ~marker.stale
    BY <1>4, <2>1 DEF Guarded
  <2>3. s = r /\ io[p].op # "sweep"
    BY <1>2, <1>6, <2>2 DEF Removing, Victims, Unmarked
  <2>4. Sent(r)
    BY DEF SentInv
  <2>5. \/ io[p].op \in {"create", "retire"} /\ Underway(r) /\ call[r].by = p
           /\ call[r].at \in {"marker", "release"}
        \/ io[p].op = "reconcile" /\ fix[p] # None /\ fix[p].ask = r
        \/ io[p].op = "clear"
    BY <1>1, <1>2, <1>6, <2>3 DEF Removing, Placed
  <2>6. CASE io[p].op \in {"create", "retire"}
    <3>1. ~Writing(r)
      BY <1>6, <2>5, <2>6, WritingIs DEF Removing
    <3>2. ~Blocks(r) /\ call[r].at \notin {"dispatch", "hub"}
      BY <2>4, <2>5, <2>6 DEF Sent, Blocks
    <3>3. QED BY <2>2, <3>1, <3>2 DEF Held
  <2>7. CASE io[p].op = "reconcile"
    <3>1. call[r] = Ended /\ ~Blocks(r)
      BY <2>4, <2>5, <2>7 DEF AgedInv, Aged, Sent
    <3>2. ~Underway(r)
      BY <3>1 DEF Underway
    <3>3. QED BY <2>2, <3>1, <3>2, WritingIs DEF Held
  <2>8. CASE io[p].op = "clear"
    BY <1>1, <1>2, <2>2, <2>3, <2>4, <2>8 DEF Sent, Held
  <2>9. QED BY <2>5, <2>6, <2>7, <2>8
<1>7. CASE Opening(p)
  <2>1. s = r
    BY <1>4, <1>7 DEF Opening, Guarded, Unmarked
  <2>2. marker' # None /\ marker'.of = r /\ ~marker'.stale
    BY <1>2, <1>7, <2>1, WroteIs DEF Opening
  <2>3. desc' = {p} /\ io'[p].ask = r
    BY <1>2, <1>7, <2>1 DEF Opening, DescInv, IsAt
  <2>4. QED BY <2>2, <2>3 DEF Guarded, Unmarked
<1>8. CASE Truncating(p) \/ Writes(p)
  <2>1. ~Opening(p)
    BY <1>8 DEF Truncating, Writes, Opening
  <2>2. Guarded(r)
    BY <1>4, <2>1
  <2>3. s = r
    <3>1. CASE Truncating(p)
      BY <1>2, <2>2, <3>1 DEF Truncating, Victims, Guarded, Unmarked
    <3>2. CASE Writes(p)
      BY <1>2, <2>2, <3>2 DEF Writes, Guarded
    <3>3. QED BY <1>8, <3>1, <3>2
  <2>4. marker' # None /\ marker'.of = r /\ ~marker'.stale
    BY <1>2, <1>8, <2>3, WroteIs DEF Truncating, Writes
  <2>5. desc' \subseteq desc \cup {p} /\ (p \in desc' => io'[p].ask = r)
    BY <1>2, <1>8, <2>3 DEF Truncating, Writes, IsAt
  <2>6. QED BY <1>1, <2>2, <2>4, <2>5 DEF Guarded, Unmarked
<1>9. QED BY <1>5, <1>6, <1>7, <1>8, FilingMarks

LEMMA GuardStep ==
  ASSUME Prompt, TypeOK, PlacedInv, VerdictInv, AgedInv, SentInv, DescInv, GuardInv, [Next]_vars
  PROVE  GuardInv'
<1> SUFFICES ASSUME NEW r \in Ask, r \notin robbed', Held(r)'
             PROVE  Guarded(r)'
  BY DEF GuardInv
<1>1. r \notin robbed /\ Held(r) => Guarded(r)
  BY DEF GuardInv
<1>2. ASSUME NEW p \in Process, Filing(p)
      PROVE  Guarded(r)'
  BY <1>1, <1>2, GuardFiling
<1>3. ASSUME NEW p \in Process, Crash(p)
      PROVE  Guarded(r)'
  <2>1. /\ UNCHANGED <<marker, robbed>> /\ desc' = desc \ {p}
        /\ io'[p] = None /\ \A q \in Process \ {p} : io'[q] = io[q]
    BY <1>3, DoneIs DEF Crash, past
  <2>2. Writing(r)' => Writing(r)
    BY <2>1 DEF Writing
  <2>3. Guarded(r)
    BY <1>1, <2>1, <2>2, HeldBefore
  <2>4. desc \subseteq Process
    BY DEF TypeOK
  <2>5. QED BY <2>1, <2>3, <2>4 DEF Guarded, Unmarked
<1>4. CASE Elsewhere
  <2>1. /\ UNCHANGED <<desc, robbed>> /\ desc \subseteq Process
        /\ \A q \in Process : io'[q] = io[q] \/ SetsOut(q)
    BY <1>4, ElsewhereIs DEF TypeOK
  <2>2. Writing(r)' => Writing(r)
    BY <2>1 DEF Writing, SetsOut
  <2>3. Held(r) /\ Guarded(r)
    BY <1>1, <2>1, <2>2, HeldBefore
  <2>4. \A q \in desc : io'[q] = io[q]
    BY <2>1 DEF DescInv, SetsOut
  <2>5. ~MarkerAges
    <3>1. SUFFICES ASSUME MarkerAges
                   PROVE  FALSE
      OBVIOUS
    <3>2. row[r] # None /\ row[r].age >= 2
      BY <2>3, <3>1 DEF MarkerAges, Guarded, Unmarked, Held
    <3>3. ~Underway(r)
      <4>1. row[r].age \in Nat
        BY <3>2 DEF TypeOK, Row
      <4>2. QED BY <3>2, <4>1 DEF AgedInv, Aged
    <3>4. ~Blocks(r)
      <4>1. row[r].age \in Nat
        BY <3>2 DEF TypeOK, Row
      <4>2. QED BY <3>2, <4>1 DEF Blocks
    <3>5. QED BY <2>3, <3>3, <3>4, WritingIs DEF Held
  <2>6. UNCHANGED marker
    BY <1>4, <2>5, ElsewhereIs
  <2>7. QED BY <2>1, <2>3, <2>4, <2>6 DEF Guarded, Unmarked
<1>5. QED BY <1>2, <1>3, <1>4, NextIs

SingleInv == SentInv /\ DescInv /\ GuardInv

LEMMA SingleInit == Init => SingleInv
BY DEF Init, SingleInv, SentInv, Sent, DescInv, GuardInv, Held, Underway, Blocks, InState

LEMMA SingleStep ==
  ASSUME Prompt, SteadyHub
  PROVE  TypeOK /\ PlacedInv /\ VerdictInv /\ FindableInv /\ SingleInv /\ [Next]_vars => SingleInv'
BY SentStep, DescStep, GuardStep DEF FindableInv, SingleInv

(* One ask at a time: where processes are prompt and the hub steady, the    *)
(* hub holds one ask of the room whose marker still guards it, but for      *)
(* asks whose own marker was taken by a process that had read the file      *)
(* before.                                                                  *)
THEOREM OneAskAtATimeHolds ==
  ASSUME Prompt, SteadyHub
  PROVE  Spec => []OneAskAtATime
<1>1. SingleInv => OneAskAtATime
  <2> SUFFICES ASSUME SingleInv, NEW r \in Ask \ robbed, NEW s \in Ask \ robbed,
                      Blocks(r), Blocks(s)
               PROVE  r = s
    BY DEF OneAskAtATime
  <2>1. Held(r) /\ Held(s)
    BY DEF Held, Blocks
  <2>2. QED BY <2>1 DEF SingleInv, GuardInv, Guarded, Unmarked
<1>2. QED BY <1>1, SingleInit, SingleStep, FindableInit, FindableStep, VerdictInit, VerdictStep,
          Sound, PTL DEF Spec
=============================================================================
