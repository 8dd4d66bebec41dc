----------------------------- MODULE RemoteAsk -----------------------------
(***************************************************************************)
(* An ask that a room sends through the hub to a room of another node, on  *)
(* the side of the room that asks.                                         *)
(*                                                                         *)
(*   storage/remote-session.ts        the ask's row, the claim of its reply*)
(*   storage/session-asks.ts          the marker: one pending ask at a time*)
(*   runtime/remote-session-inbox.ts   the reply, its recovery, the notice *)
(*   runtime/remote-session-reply-outbox.ts    the maintenance pass        *)
(*   mcp/session-comm/default-host.ts, hub-remote-session.ts   the hub call*)
(*                                                                         *)
(* All asks go from one room to one other, the pair that shares a marker   *)
(* file, and under one principal.  A step is one SQL transaction, or one   *)
(* operation on the marker file (a read, an open, a write, an unlink),     *)
(* with what the process computes from it.  A callback is several such     *)
(* steps; between them other processes act, its own does nothing else.     *)
(* Time is the age of a row: 0 at first, 1 past the grace of its state, 2  *)
(* past the ask's TTL, 3 past twice the TTL.                               *)
(***************************************************************************)
EXTENDS Integers, FiniteSets

CONSTANTS
  Process,    \* runtime processes that share the store; a restart is a new one
  Ask,        \* request ids
  Answered,   \* the asks that the other node may answer
  MaxAge,     \* the age rows get to at most, in the classes above
  MaxFaults,  \* how often an open, a write, an unlink or a delivery fails, or
              \* a delivery is slower than its lease
  Prompt,     \* no process sleeps through the grace of an ask it is sending, or
              \* through a lease that it has just taken
  SteadyHub,  \* the hub never refuses the retry of a call that it has accepted
  None,       \* no row, no marker, no claim, nobody at work
  Ended       \* the ask_session call has returned

ASSUME MaxAgeAssumption == MaxAge \in 0..3
ASSUME AnsweredAssumption == Answered \subseteq Ask
ASSUME FaultAssumption  == MaxFaults \in Nat
ASSUME TimingAssumption == Prompt \in BOOLEAN
ASSUME HubAssumption    == SteadyHub \in BOOLEAN

State  == {"prepared", "dispatched", "sent", "abandoned", "unknown", "expired"}
Row    == [state : State, age : 0..MaxAge]

(* The marker file: who wrote or opened it last, whether its TTL is over,  *)
(* and whether it is still empty (opened or truncated, and not yet         *)
(* written).                                                               *)
Marker == [of : Ask, stale : BOOLEAN, empty : BOOLEAN]

(* An ask_session call: the step before it, and the state of the row from  *)
(* which it would retire the ask.                                          *)
Call == [by : Process, from : {"prepared", "dispatched"},
         at : {"marker", "dispatch", "hub", "release", "park", "drop"}]

(* What a process is doing to the marker file, on account of an ask: to    *)
(* create it, to release it for a call or for a reconciliation, to clear   *)
(* it, to rewrite it (and then to clear it, when the answer is injected),  *)
(* or to sweep a stale one. tries: how often open has found a file in the  *)
(* way.                                                                    *)
File == [op : {"create", "retire", "reconcile", "clear", "refresh", "inject", "sweep"},
         ask : Ask,
         at : {"look", "unlink", "confirm", "open", "examine", "write"},
         tries : 0..2]

(* The owner token of a claim is its process: what the request lock        *)
(* leaves.                                                                 *)
Claim == [owner : Process, live : BOOLEAN, done : BOOLEAN]

(* What a process does under the request lock of an ask; a row as a pass   *)
(* of its maintenance has read it.                                         *)
Work == {"claim", "check", "ready", "deliver", "queued", "tell", "recheck", "notice"}
Read == [ask : Ask, state : State]
Fix  == [ask : Ask, state : State, old : BOOLEAN]

ASSUME NoneAssumption ==
  /\ None \notin Row \cup Marker \cup Call \cup File \cup Claim \cup Work \cup Fix \cup {Ended}
  /\ Ended \notin Call

VARIABLES
  up,       \* up[p]: the process is alive
  row,      \* row[r]: the row of remote_session_asks
  marker,   \* the pending marker of the pair of rooms, the file at its path
  desc,     \* processes that hold a descriptor of that very file
  io,       \* io[p]: what p is doing to it
  call,     \* call[r]: None, under way, or Ended
  hub,      \* hub[r]: what the hub knows of the ask
  claim,    \* claim[r]: the row of remote_session_inbox_claims for the reply
  job,      \* job[p][r]: what p does under the request lock of r
  fix,      \* fix[p]: the row that p's reconciliation is at, as read
  due,      \* due[p]: rows p's maintenance has listed to be expired, as read
  clear,    \* clear[p]: asks whose marker p clears when the answer is injected
  answers,  \* answers[r]: how often the answer was recorded in the room
  notices,  \* notices[r]: how often "no reply arrived" was
  robbed,   \* history: asks whose fresh marker was removed or overwritten on
            \* account of another ask, or by a sweep
  revived,  \* history: asks whose marker came back, or stayed, although it had
            \* been released
  faults

vars == <<up, row, marker, desc, io, call, hub, claim, job, fix, due, clear, answers,
          notices, robbed, revived, faults>>

file   == <<marker, desc>>
memory == <<job, fix, due, clear>>
told   == <<answers, notices>>
past   == <<robbed, revived>>

TypeOK ==
  /\ up \in [Process -> BOOLEAN]
  /\ row \in [Ask -> Row \cup {None}]
  /\ marker \in Marker \cup {None}
  /\ desc \subseteq Process
  /\ io \in [Process -> File \cup {None}]
  /\ call \in [Ask -> Call \cup {None, Ended}]
  /\ hub \in [Ask -> {"idle", "holds", "delivered", "dropped"}]
  /\ claim \in [Ask -> Claim \cup {None}]
  /\ job \in [Process -> [Ask -> Work \cup {None}]]
  /\ fix \in [Process -> Fix \cup {None}]
  /\ due \in [Process -> SUBSET Read]
  /\ clear \in [Process -> SUBSET Ask]
  /\ answers \in [Ask -> Nat]
  /\ notices \in [Ask -> 0..2]
  /\ robbed \subseteq Ask
  /\ revived \subseteq Ask
  /\ faults \in 0..MaxFaults

Init ==
  /\ up = [p \in Process |-> TRUE]
  /\ row = [r \in Ask |-> None]
  /\ marker = None
  /\ desc = {}
  /\ io = [p \in Process |-> None]
  /\ call = [r \in Ask |-> None]
  /\ hub = [r \in Ask |-> "idle"]
  /\ claim = [r \in Ask |-> None]
  /\ job = [p \in Process |-> [r \in Ask |-> None]]
  /\ fix = [p \in Process |-> None]
  /\ due = [p \in Process |-> {}]
  /\ clear = [p \in Process |-> {}]
  /\ answers = [r \in Ask |-> 0]
  /\ notices = [r \in Ask |-> 0]
  /\ robbed = {}
  /\ revived = {}
  /\ faults = 0

-----------------------------------------------------------------------------
InState(r, states) == row[r] # None /\ row[r].state \in states
Visible(r) == InState(r, State \ {"expired"})    \* getRemoteSessionAsk

(* Compare-and-set and compare-and-delete of the row's state.              *)
Moved(r, from, to) ==
  IF InState(r, {from}) THEN [row EXCEPT ![r].state = to] ELSE row
Dropped(r, from) ==
  IF InState(r, {from}) THEN [row EXCEPT ![r] = None] ELSE row

Underway(r) == call[r] \notin {None, Ended}
At(r, place) == Underway(r) /\ call[r].at = place /\ up[call[r].by]
Goes(r, place) == call' = [call EXCEPT ![r].at = place]
Over(r) == call' = [call EXCEPT ![r] = Ended]

(* p is in the middle of a callback: of an ask_session call before or      *)
(* after it waits for the hub, of a reply, of its recovery, of a           *)
(* reconciliation, or of its work on the marker file.                      *)
Inside(p) ==
  \/ \E r \in Ask : Underway(r) /\ call[r].by = p /\ call[r].at # "hub"
  \/ \E r \in Ask : job[p][r] \in {"claim", "check", "recheck"}
  \/ fix[p] # None
  \/ io[p] # None

Open(p) == up[p] /\ ~Inside(p)

MayFail == faults < MaxFaults /\ faults' = faults + 1

-----------------------------------------------------------------------------
(* The marker file. A file that is opened but not yet written reads like   *)
(* no marker. An unlink leaves descriptors behind that write to nobody.    *)
Readable == marker # None /\ ~marker.empty
Names(r) == Readable /\ marker.of = r

Starts(p, op, r, place) ==
  io' = [io EXCEPT ![p] = [op |-> op, ask |-> r, at |-> place, tries |-> 0]]
Doing(p, ops, place) == io[p] # None /\ io[p].op \in ops /\ io[p].at = place
Then(p, place) == io' = [io EXCEPT ![p].at = place]
Done(p) == io' = [io EXCEPT ![p] = None]

Empty(r)   == [of |-> r, stale |-> FALSE, empty |-> TRUE]
Written(r) == [of |-> r, stale |-> FALSE, empty |-> FALSE]
Unlinked   == marker # None /\ marker' = None /\ desc' = {}

(* The asks that lose a fresh marker when p removes or truncates the file. *)
Victims(p) ==
  IF marker # None /\ ~marker.stale /\ (io[p].op # "sweep" => marker.of # io[p].ask)
  THEN {marker.of} ELSE {}

(* The ask that gets a marker back when p writes what it has read before.  *)
Regained(p) ==
  IF marker # None /\ marker.of = io[p].ask THEN {} ELSE {io[p].ask}

(* createPendingAsk returns, or throws: then the call releases what it     *)
(* left.                                                                   *)
Created(p, place) ==
  /\ Done(p)
  /\ call' = [call EXCEPT ![io[p].ask].at = place]
CreateThrows(p) ==
  /\ Starts(p, "retire", io[p].ask, "look")
  /\ call' = [call EXCEPT ![io[p].ask].at = "release"]

(* releasePendingAsk and clearPendingAsk return. A call goes on to its     *)
(* row; a reconciliation too, if the marker is gone or the row past the    *)
(* TTL.                                                                    *)
Cleared(p, gone) ==
  /\ Done(p)
  /\ call' = IF io[p].op = "retire"
             THEN [call EXCEPT ![io[p].ask].at = IF gone THEN "drop" ELSE "park"]
             ELSE call
  /\ fix' = IF io[p].op = "reconcile" /\ ~gone /\ ~fix[p].old
            THEN [fix EXCEPT ![p] = None] ELSE fix

(* createPendingAsk first reads the marker: a fresh one of another ask     *)
(* stands in the way, a stale one is unlinked.                             *)
LookToCreate(p) ==
  /\ Doing(p, {"create"}, "look")
  /\ IF Readable /\ ~marker.stale
     THEN Created(p, "drop")
     ELSE Then(p, IF Readable THEN "unlink" ELSE "open") /\ UNCHANGED call
  /\ UNCHANGED <<up, row, file, hub, claim, memory, told, past, faults>>

(* Mutant: the file is opened for writing, not exclusively.                *)
OpenOverAny(p) ==
  /\ Doing(p, {"create"}, "open")
  /\ marker' = Empty(io[p].ask)
  /\ desc' = desc \cup {p}
  /\ Then(p, "write")
  /\ UNCHANGED <<up, row, call, hub, claim, memory, told, past, faults>>

(* open(path, "wx") makes an empty file, finds one in the way, or throws.  *)
OpenMarker(p) ==
  /\ Doing(p, {"create"}, "open")
  /\ \/ /\ marker = None
        /\ marker' = Empty(io[p].ask)
        /\ desc' = desc \cup {p}
        /\ Then(p, "write")
        /\ UNCHANGED <<call, faults>>
     \/ /\ marker # None
        /\ io' = [io EXCEPT ![p].at = "examine", ![p].tries = @ + 1]
        /\ UNCHANGED <<file, call, faults>>
     \/ MayFail /\ CreateThrows(p) /\ UNCHANGED file
  /\ UNCHANGED <<up, row, hub, claim, memory, told, past>>

(* What is in the way may be stale, or an empty file that is.              *)
Examine(p) ==
  /\ Doing(p, {"create"}, "examine")
  /\ IF marker # None /\ marker.stale
     THEN Then(p, "unlink") /\ UNCHANGED call
     ELSE Created(p, "drop")
  /\ UNCHANGED <<up, row, file, hub, claim, memory, told, past, faults>>

(* The unlink takes whatever is there by now; if that is nothing, it       *)
(* fails. The file is opened twice at most.                                *)
UnlinkStale(p) ==
  /\ Doing(p, {"create", "sweep"}, "unlink")
  /\ \/ /\ Unlinked
        /\ robbed' = robbed \cup Victims(p)
        /\ IF io[p].op = "create" /\ io[p].tries < 2
           THEN Then(p, "open") /\ UNCHANGED call
           ELSE IF io[p].op = "create" THEN Created(p, "drop") ELSE Done(p) /\ UNCHANGED call
        /\ UNCHANGED faults
     \/ /\ (marker = None /\ UNCHANGED faults) \/ MayFail
        /\ IF io[p].op = "create" THEN Created(p, "drop") ELSE Done(p) /\ UNCHANGED call
        /\ UNCHANGED <<file, robbed>>
  /\ UNCHANGED <<up, row, hub, claim, memory, told, revived>>

(* The write reaches the file only if nobody has unlinked it meanwhile.    *)
WriteMarker(p) ==
  /\ Doing(p, {"create"}, "write")
  /\ \/ /\ marker' = IF p \in desc THEN Written(io[p].ask) ELSE marker
        /\ Created(p, "dispatch")
        /\ UNCHANGED faults
     \/ MayFail /\ CreateThrows(p) /\ UNCHANGED marker
  /\ desc' = desc \ {p}
  /\ UNCHANGED <<up, row, hub, claim, memory, told, past>>

(* clearPendingAsk spares the marker of another ask if it can read it, and *)
(* goes on to unlink if it reads nothing.                                  *)
LookToClear(p) ==
  /\ Doing(p, {"retire", "reconcile", "clear"}, "look")
  /\ IF ~Readable \/ Names(io[p].ask)
     THEN Then(p, "unlink")
     ELSE IF io[p].op = "clear" THEN Done(p) ELSE Then(p, "confirm")
  /\ UNCHANGED <<up, row, file, call, hub, claim, memory, told, past, faults>>

UnlinkMarker(p) ==
  /\ Doing(p, {"retire", "reconcile", "clear"}, "unlink")
  /\ \/ /\ Unlinked
        /\ robbed' = robbed \cup Victims(p)
        /\ Cleared(p, TRUE)
        /\ UNCHANGED faults
     \/ /\ (marker = None /\ UNCHANGED faults) \/ MayFail
        /\ IF io[p].op = "clear" THEN Done(p) ELSE Then(p, "confirm")
        /\ UNCHANGED <<file, call, fix, robbed>>
  /\ UNCHANGED <<up, row, hub, claim, job, due, clear, told, revived>>

(* releasePendingAsk reads again what it could not unlink: an empty file   *)
(* counts as none.                                                         *)
Confirm(p) ==
  /\ Doing(p, {"retire", "reconcile"}, "confirm")
  /\ Cleared(p, ~Names(io[p].ask))
  /\ revived' = IF marker # None /\ marker.of = io[p].ask /\ marker.empty
                THEN revived \cup {io[p].ask} ELSE revived
  /\ UNCHANGED <<up, row, file, hub, claim, job, due, clear, told, robbed, faults>>

(* markPendingAskState has read its own marker, and truncates or creates   *)
(* whatever is there by now.                                               *)
Truncate(p) ==
  /\ Doing(p, {"refresh", "inject"}, "open")
  /\ \/ /\ marker' = Empty(io[p].ask)
        /\ desc' = desc \cup {p}
        /\ robbed' = robbed \cup Victims(p)
        /\ revived' = revived \cup Regained(p)
        /\ Then(p, "write")
        /\ UNCHANGED faults
     \/ MayFail /\ Done(p) /\ UNCHANGED <<file, past>>
  /\ UNCHANGED <<up, row, call, hub, claim, memory, told>>

Rewrite(p) ==
  /\ Doing(p, {"refresh", "inject"}, "write")
  /\ \/ /\ marker' = IF p \in desc THEN Written(io[p].ask) ELSE marker
        /\ IF io[p].op = "inject" THEN Starts(p, "clear", io[p].ask, "look") ELSE Done(p)
        /\ UNCHANGED faults
        /\ revived' = IF p \in desc THEN revived \cup Regained(p) ELSE revived
     \/ MayFail /\ Done(p) /\ UNCHANGED <<marker, revived>>
  /\ desc' = desc \ {p}
  /\ UNCHANGED <<up, row, call, hub, claim, memory, told, robbed>>

(* listPendingAsksForCaller unlinks a marker that it has read as stale.    *)
Sweep(p) ==
  /\ Open(p)
  /\ Readable
  /\ marker.stale
  /\ Starts(p, "sweep", marker.of, "unlink")
  /\ UNCHANGED <<up, row, file, call, hub, claim, memory, told, past, faults>>

Creating(p) == LookToCreate(p) \/ OpenMarker(p) \/ Examine(p) \/ WriteMarker(p)
Clearing(p) == LookToClear(p) \/ UnlinkMarker(p) \/ Confirm(p)
Refreshing(p) == Truncate(p) \/ Rewrite(p)
Filing(p) == Creating(p) \/ Clearing(p) \/ Refreshing(p) \/ UnlinkStale(p)

-----------------------------------------------------------------------------
(* askSession: beginRemoteSessionAsk writes the row first.                 *)
Begin(p, r) ==
  /\ Open(p)
  /\ call[r] = None
  /\ row' = [row EXCEPT ![r] = [state |-> "prepared", age |-> 0]]
  /\ call' = [call EXCEPT ![r] = [by |-> p, from |-> "prepared", at |-> "marker"]]
  /\ Starts(p, "create", r, "look")
  /\ UNCHANGED <<up, file, hub, claim, memory, told, past, faults>>

(* The call starts to release its marker.                                  *)
Releases(r) == Goes(r, "release") /\ Starts(call[r].by, "retire", r, "look")

(* markRemoteSessionAskDispatched; if the row has vanished, it throws.     *)
Dispatch(r) ==
  /\ At(r, "dispatch")
  /\ row' = Moved(r, "prepared", "dispatched")
  /\ IF InState(r, {"prepared"})
     THEN call' = [call EXCEPT ![r].at = "hub", ![r].from = "dispatched"] /\ UNCHANGED io
     ELSE Releases(r)
  /\ UNCHANGED <<up, file, hub, claim, memory, told, past, faults>>

DispatchThrows(r) ==
  /\ At(r, "dispatch")
  /\ MayFail
  /\ Releases(r)
  /\ UNCHANGED <<up, row, file, hub, claim, memory, told, past>>

(* An attempt of the call reaches the hub, which forwards the ask.         *)
HubAccepts(r) ==
  /\ At(r, "hub")
  /\ hub[r] = "idle"
  /\ hub' = [hub EXCEPT ![r] = "holds"]
  /\ UNCHANGED <<up, row, file, io, call, claim, memory, told, past, faults>>

Returns(r) == At(r, "hub") /\ Open(call[r].by)

(* hubRemoteAsk returns. Acknowledged: markRemoteSessionAskSent, which may *)
(* fail without consequence.                                               *)
CallConfirmed(r) ==
  /\ Returns(r)
  /\ hub[r] # "idle"
  /\ \/ row' = Moved(r, "dispatched", "sent") /\ UNCHANGED faults
     \/ MayFail /\ UNCHANGED row
  /\ Over(r)
  /\ UNCHANGED <<up, file, io, hub, claim, memory, told, past>>

(* Unconfirmed after the last attempt: row and marker stay.                *)
CallUncertain(r) ==
  /\ Returns(r)
  /\ Over(r)
  /\ UNCHANGED <<up, row, file, io, hub, claim, memory, told, past, faults>>

(* Refused, by the answer to the last attempt alone, whatever became of    *)
(* the earlier ones: the ask is retired.                                   *)
CallRefused(r) ==
  /\ Returns(r)
  /\ SteadyHub => hub[r] = "idle"
  /\ Releases(r)
  /\ UNCHANGED <<up, row, file, hub, claim, memory, told, past, faults>>

(* Mutant: the row is dropped although its marker could not be released.   *)
ParkDropping(r) ==
  /\ At(r, "park")
  /\ row' = Dropped(r, call[r].from)
  /\ Over(r)
  /\ UNCHANGED <<up, file, io, hub, claim, memory, told, past, faults>>

(* retireRemoteSessionAsk: the marker first. If it is still there, the row *)
(* is parked for reconciliation, or that fails as well.                    *)
Park(r) ==
  /\ At(r, "park")
  /\ row' \in {Moved(r, call[r].from, "abandoned"), row}
  /\ Over(r)
  /\ UNCHANGED <<up, file, io, hub, claim, memory, told, past, faults>>

(* Once it is gone, or was never this ask's, the row goes too.             *)
DropRow(r) ==
  /\ At(r, "drop")
  /\ row' = Dropped(r, call[r].from)
  /\ Over(r)
  /\ UNCHANGED <<up, file, io, hub, claim, memory, told, past, faults>>

Asking(p, r) ==
  /\ Underway(r) => call[r].by = p
  /\ \/ Begin(p, r)
     \/ /\ call[r] # None
        /\ \/ Dispatch(r) \/ DispatchThrows(r)
           \/ CallConfirmed(r) \/ CallUncertain(r) \/ CallRefused(r)
           \/ Park(r) \/ DropRow(r)

-----------------------------------------------------------------------------
Free(p, r) == Open(p) /\ job[p][r] = None
Does(p, r, work) == job' = [job EXCEPT ![p][r] = work]

(* The hub has the answer and posts it, to any process, and again until it *)
(* is told that it was delivered or that nobody waits. deliverAskReply     *)
(* looks for the ask; without one it only answers the hub.                 *)
ReplyArrives(p, r) ==
  /\ Free(p, r)
  /\ r \in Answered
  /\ hub[r] = "holds"
  /\ IF Visible(r)
     THEN Does(p, r, "claim") /\ UNCHANGED hub
     ELSE /\ hub' = [hub EXCEPT ![r] = IF claim[r] = None THEN "dropped"
                                       ELSE IF claim[r].done THEN "delivered" ELSE @]
          /\ UNCHANGED job
  /\ UNCHANGED <<up, row, file, io, call, claim, fix, due, clear, told, past, faults>>

Mine(p, r)  == claim[r] # None /\ claim[r].owner = p /\ ~claim[r].done
Taken(p, r) == [claim EXCEPT ![r] = [owner |-> p, live |-> TRUE, done |-> FALSE]]

(* claimRemoteSessionInboxOwned: a new claim, or one whose lease is over.  *)
ClaimReply(p, r) ==
  /\ up[p]
  /\ job[p][r] = "claim"
  /\ IF claim[r] = None \/ (~claim[r].done /\ ~claim[r].live)
     THEN claim' = Taken(p, r) /\ Does(p, r, "check") /\ UNCHANGED hub
     ELSE /\ Does(p, r, None)
          /\ hub' = [hub EXCEPT ![r] = IF claim[r].done THEN "delivered" ELSE @]
          /\ UNCHANGED claim
  /\ UNCHANGED <<up, row, file, io, call, fix, due, clear, told, past, faults>>

(* Under the claim the ask is read again; if it is gone, so is the claim.  *)
CheckReply(p, r) ==
  /\ up[p]
  /\ job[p][r] = "check"
  /\ IF Visible(r)
     THEN Does(p, r, "ready") /\ UNCHANGED <<hub, claim>>
     ELSE /\ claim' = IF Mine(p, r) THEN [claim EXCEPT ![r] = None] ELSE claim
          /\ Does(p, r, None)
          /\ hub' = [hub EXCEPT ![r] = "dropped"]
  /\ UNCHANGED <<up, row, file, io, call, fix, due, clear, told, past, faults>>

(* markPendingAskFile, before the record ("reply_ready") and after it      *)
(* ("queued_for_caller"): it reads the marker and rewrites its own.        *)
MarkReply(p, r) ==
  /\ Open(p)
  /\ \/ job[p][r] = "ready" /\ Does(p, r, "deliver")
     \/ job[p][r] = "queued" /\ Does(p, r, "tell")
  /\ IF Names(r) THEN Starts(p, "refresh", r, "open") ELSE UNCHANGED io
  /\ UNCHANGED <<up, row, file, call, hub, claim, fix, due, clear, told, past, faults>>

(* Mutant: the claim is given back with the record, not kept as completed. *)
RecordReleasing(p, r) ==
  /\ Open(p)
  /\ job[p][r] = "deliver"
  /\ IF Mine(p, r)
     THEN /\ answers' = [answers EXCEPT ![r] = @ + 1]
          /\ claim' = [claim EXCEPT ![r] = None]
          /\ row' = [row EXCEPT ![r] = None]
          /\ clear' = [clear EXCEPT ![p] = @ \cup {r}]
          /\ Does(p, r, "queued")
     ELSE Does(p, r, None) /\ UNCHANGED <<answers, claim, row, clear>>
  /\ UNCHANGED <<up, file, io, call, hub, fix, due, notices, past, faults>>

(* runAskReplyDelivery: one transaction completes the claim, records the   *)
(* answer and deletes the row, or does nothing if the claim has a new      *)
(* owner. The marker goes later, when the answer is injected.              *)
Record(p, r) ==
  /\ Open(p)
  /\ job[p][r] = "deliver"
  /\ IF Mine(p, r)
     THEN /\ answers' = [answers EXCEPT ![r] = @ + 1]
          /\ claim' = [claim EXCEPT ![r].done = TRUE]
          /\ row' = [row EXCEPT ![r] = None]
          /\ clear' = [clear EXCEPT ![p] = @ \cup {r}]
          /\ Does(p, r, "queued")
     ELSE Does(p, r, None) /\ UNCHANGED <<answers, claim, row, clear>>
  /\ UNCHANGED <<up, file, io, call, hub, fix, due, notices, past, faults>>

(* The delivery fails: the claim is given back for the hub's next try, or  *)
(* that fails as well.                                                     *)
DeliveryFails(p, r) ==
  /\ Open(p)
  /\ job[p][r] = "deliver"
  /\ MayFail
  /\ Does(p, r, None)
  /\ claim' \in {claim, IF Mine(p, r) THEN [claim EXCEPT ![r] = None] ELSE claim}
  /\ UNCHANGED <<up, row, file, io, call, hub, fix, due, clear, told, past>>

(* The hub's call is answered; the answer may be lost on its way.          *)
TellHub(p, r) ==
  /\ Open(p)
  /\ job[p][r] = "tell"
  /\ Does(p, r, None)
  /\ hub' \in {hub, [hub EXCEPT ![r] = "delivered"]}
  /\ UNCHANGED <<up, row, file, io, call, claim, fix, due, clear, told, past, faults>>

(* The answer's turn starts in the caller's room, or the room has no agent *)
(* and needs none: clearPendingAskFile rewrites the marker and clears it,  *)
(* or only clears it.                                                      *)
ClearMarker(p, r) ==
  /\ Open(p)
  /\ r \in clear[p]
  /\ clear' = [clear EXCEPT ![p] = @ \ {r}]
  /\ \/ Starts(p, "clear", r, "look")
     \/ Names(r) /\ Starts(p, "inject", r, "open")
  /\ UNCHANGED <<up, row, file, call, hub, claim, job, fix, due, told, past, faults>>

Replying(p, r) ==
  \/ ReplyArrives(p, r) \/ ClaimReply(p, r) \/ CheckReply(p, r) \/ MarkReply(p, r)
  \/ Record(p, r) \/ DeliveryFails(p, r) \/ TellHub(p, r) \/ ClearMarker(p, r)

-----------------------------------------------------------------------------
(* reconcileRemoteSessionAsks, for one row. First the marker: a release    *)
(* that fails leaves the row for the next pass, unless the row is past the *)
(* TTL.                                                                    *)
Reconcilable(r) ==
  InState(r, {"abandoned"}) \/ (InState(r, {"prepared", "dispatched"}) /\ row[r].age >= 1)

Reconcile(p, r) ==
  /\ Open(p)
  /\ Reconcilable(r)
  /\ fix' = [fix EXCEPT ![p] = [ask |-> r, state |-> row[r].state, old |-> row[r].age >= 2]]
  /\ Starts(p, "reconcile", r, "look")
  /\ UNCHANGED <<up, row, file, call, hub, claim, job, due, clear, told, past, faults>>

(* Mutant: an ask the hub may hold is forgotten like one that was refused. *)
SettleDropping(p) ==
  /\ fix[p] # None
  /\ io[p] = None
  /\ row' = Dropped(fix[p].ask, fix[p].state)
  /\ fix' = [fix EXCEPT ![p] = None]
  /\ UNCHANGED <<up, file, io, call, hub, claim, job, due, clear, told, past, faults>>

(* Then the row, if it is still as it was read.                            *)
Settle(p) ==
  /\ fix[p] # None
  /\ io[p] = None
  /\ LET r == fix[p].ask IN
     row' = IF fix[p].state = "dispatched" THEN Moved(r, "dispatched", "unknown")
            ELSE Dropped(r, fix[p].state)
  /\ fix' = [fix EXCEPT ![p] = None]
  /\ UNCHANGED <<up, file, io, call, hub, claim, job, due, clear, told, past, faults>>

(* purgeStaleRemoteSessionAsks                                             *)
Purge(p, r) ==
  /\ Open(p)
  /\ row[r] # None
  /\ (row[r].state = "sent" /\ row[r].age >= 2) \/ row[r].age >= 3
  /\ row' = [row EXCEPT ![r] = None]
  /\ UNCHANGED <<up, file, io, call, hub, claim, memory, told, past, faults>>

(* recoverRemoteSessionInbox takes a claim over whose lease is over, or,   *)
(* at startup, whose owner is dead.                                        *)
Recover(p, r) ==
  /\ Free(p, r)
  /\ claim[r] # None
  /\ ~claim[r].done
  /\ ~claim[r].live \/ ~up[claim[r].owner]
  /\ claim' = Taken(p, r)
  /\ Does(p, r, "recheck")
  /\ UNCHANGED <<up, row, file, io, call, hub, fix, due, clear, told, past, faults>>

(* Without an ask the claim counts as completed, else the reply is         *)
(* delivered.                                                              *)
CheckRecovered(p, r) ==
  /\ up[p]
  /\ job[p][r] = "recheck"
  /\ IF Visible(r)
     THEN Does(p, r, "ready") /\ UNCHANGED claim
     ELSE /\ claim' = IF Mine(p, r) THEN [claim EXCEPT ![r].done = TRUE] ELSE claim
          /\ Does(p, r, None)
  /\ UNCHANGED <<up, row, file, io, call, hub, fix, due, clear, told, past, faults>>

(* listRemoteSessionAsksToExpire: read once per pass.                      *)
Expirable(r) == InState(r, {"expired"}) \/ (InState(r, {"unknown"}) /\ row[r].age >= 2)

ListDue(p) ==
  /\ Open(p)
  /\ due[p] = {}
  /\ \E r \in Ask : Expirable(r)
  /\ due' = [due EXCEPT ![p] = {[ask |-> r, state |-> row[r].state] :
                                  r \in {s \in Ask : Expirable(s)}}]
  /\ UNCHANGED <<up, row, file, io, call, hub, claim, job, fix, clear, told, past, faults>>

(* Mutant: a reply that is being delivered does not hold the notice back.  *)
ExpireOverReply(p, r) ==
  /\ Free(p, r)
  /\ \E d \in due[p] :
       /\ d.ask = r
       /\ due' = [due EXCEPT ![p] = @ \ {d}]
       /\ IF d.state = "unknown"
          THEN /\ row' = Moved(r, "unknown", "expired")
               /\ Does(p, r, IF InState(r, {"unknown"}) THEN "notice" ELSE None)
          ELSE UNCHANGED row /\ Does(p, r, "notice")
  /\ UNCHANGED <<up, file, io, call, hub, claim, fix, clear, told, past, faults>>

(* expireUnknownRemoteSessionAsks: an unknown ask expires unless a claim   *)
(* of its reply is being processed; one read as expired is not looked at   *)
(* again.                                                                  *)
Expire(p, r) ==
  /\ Free(p, r)
  /\ \E d \in due[p] :
       /\ d.ask = r
       /\ due' = [due EXCEPT ![p] = @ \ {d}]
       /\ IF d.state = "unknown"
          THEN IF InState(r, {"unknown"}) /\ (claim[r] = None \/ claim[r].done)
               THEN row' = Moved(r, "unknown", "expired") /\ Does(p, r, "notice")
               ELSE UNCHANGED <<row, job>>
          ELSE UNCHANGED row /\ Does(p, r, "notice")
  /\ UNCHANGED <<up, file, io, call, hub, claim, fix, clear, told, past, faults>>

(* The notice and the deletion of the row are one transaction.             *)
RecordNotice(p, r) ==
  /\ Open(p)
  /\ job[p][r] = "notice"
  /\ notices' = [notices EXCEPT ![r] = IF @ = 2 THEN 2 ELSE @ + 1]
  /\ row' = Dropped(r, "expired")
  /\ Does(p, r, None)
  /\ UNCHANGED <<up, file, io, call, hub, claim, fix, due, clear, answers, past, faults>>

NoticeFails(p, r) ==
  /\ Open(p)
  /\ job[p][r] = "notice"
  /\ MayFail
  /\ Does(p, r, None)
  /\ UNCHANGED <<up, row, file, io, call, hub, claim, fix, due, clear, told, past>>

Maintaining(p) ==
  \/ Settle(p)
  \/ ListDue(p)
  \/ \E r \in Ask :
       \/ Reconcile(p, r) \/ Purge(p, r)
       \/ Recover(p, r) \/ CheckRecovered(p, r)
       \/ Expire(p, r) \/ RecordNotice(p, r) \/ NoticeFails(p, r)

-----------------------------------------------------------------------------
RowAges(r) ==
  /\ row[r] # None
  /\ row[r].age < MaxAge
  /\ Prompt => ~Underway(r)
  /\ row' = [row EXCEPT ![r].age = @ + 1]
  /\ UNCHANGED <<up, file, io, call, hub, claim, memory, told, past, faults>>

(* A marker is never older than the row of its ask.                        *)
MarkerAges ==
  /\ marker # None
  /\ ~marker.stale
  /\ row[marker.of] # None => row[marker.of].age >= 2
  /\ marker' = [marker EXCEPT !.stale = TRUE]
  /\ UNCHANGED <<up, row, desc, io, call, hub, claim, memory, told, past, faults>>

(* A lease runs out, whether its owner still works or not. The claim and   *)
(* the second look at the ask are one synchronous stretch of code.         *)
LeaseEnds(r) ==
  /\ claim[r] # None
  /\ claim[r].live
  /\ ~claim[r].done
  /\ Prompt => job[claim[r].owner][r] \notin {"check", "recheck"}
  /\ IF job[claim[r].owner][r] \in {"ready", "deliver"} THEN MayFail ELSE UNCHANGED faults
  /\ claim' = [claim EXCEPT ![r].live = FALSE]
  /\ UNCHANGED <<up, row, file, io, call, hub, memory, told, past>>

Crash(p) ==
  /\ up[p]
  /\ up' = [up EXCEPT ![p] = FALSE]
  /\ desc' = desc \ {p}
  /\ Done(p)
  /\ call' = [r \in Ask |-> IF Underway(r) /\ call[r].by = p THEN Ended ELSE call[r]]
  /\ job' = [job EXCEPT ![p] = [r \in Ask |-> None]]
  /\ fix' = [fix EXCEPT ![p] = None]
  /\ due' = [due EXCEPT ![p] = {}]
  /\ clear' = [clear EXCEPT ![p] = {}]
  /\ UNCHANGED <<row, marker, hub, claim, told, past, faults>>

Passing == MarkerAges \/ \E r \in Ask : RowAges(r) \/ LeaseEnds(r)

Next ==
  \/ \E p \in Process, r \in Ask : Asking(p, r) \/ Replying(p, r)
  \/ \E p \in Process : Filing(p) \/ Sweep(p) \/ Maintaining(p) \/ Crash(p)
  \/ \E r \in Ask : HubAccepts(r)
  \/ Passing

Spec == Init /\ [][Next]_vars

(* Maintenance runs every five seconds and its promises settle; a process  *)
(* that is at the marker file goes on; time passes. The hub may never      *)
(* answer, and nothing has to fail.                                        *)
Fairness ==
  /\ \A p \in Process :
       /\ WF_vars(Filing(p)) /\ WF_vars(Settle(p)) /\ WF_vars(ListDue(p))
       /\ \A r \in Ask :
            /\ WF_vars(Reconcile(p, r)) /\ WF_vars(Expire(p, r))
            /\ WF_vars(RecordNotice(p, r)) /\ WF_vars(Recover(p, r))
            /\ WF_vars(CheckRecovered(p, r)) /\ WF_vars(Record(p, r))
            /\ WF_vars(ClaimReply(p, r)) /\ WF_vars(CheckReply(p, r))
            /\ WF_vars(MarkReply(p, r)) /\ WF_vars(TellHub(p, r))
  /\ \A r \in Ask : WF_vars(RowAges(r)) /\ WF_vars(LeaseEnds(r))

FairSpec == Spec /\ Fairness

-----------------------------------------------------------------------------
(* "so the answer is never written twice": however often the hub delivers, *)
(* claims are taken over and processes die, the room gets the answer at    *)
(* most once, and never both an answer and the notice that none arrived.   *)
OneVerdict == \A r \in Ask : answers[r] <= 1 /\ (notices[r] > 0 => answers[r] = 0)

(* "losing it would turn the hub's next retry into a 404 (an ask-reply     *)
(* whose answer already landed)": the hub never hears that nobody waits    *)
(* for an answer that the room has got.                                    *)
RetryIsReplay == \A r \in Ask : hub[r] = "dropped" => answers[r] = 0

(* "The row is never deleted while its marker may still exist ... so a     *)
(* marker is always findable through its row": up to the TTL a row goes    *)
(* only once no marker names its ask, or with the record of the answer,    *)
(* but for an ask whose marker another process has written back after it   *)
(* was released, or was rewriting when the release failed.                 *)
MarkerIsFindable ==
  [][\A r \in Ask \ revived :
       row[r] # None /\ row'[r] = None /\ row[r].age < 2 =>
         answers'[r] > answers[r] \/ ~Names(r)]_vars

(* One ask at a time: the marker keeps a room from asking while the hub    *)
(* holds its last ask, until the TTL of that ask, or the grace of one      *)
(* whose delivery is unconfirmed; but for an ask whose own marker was      *)
(* taken by a process that had read the file before, when it was stale,    *)
(* empty, missing or another ask's.                                        *)
Blocks(r) ==
  /\ hub[r] = "holds"
  /\ row[r] # None
  /\ \/ row[r].state = "dispatched" /\ row[r].age = 0
     \/ row[r].state = "sent" /\ row[r].age < 2

OneAskAtATime == \A r, s \in Ask \ robbed : Blocks(r) /\ Blocks(s) => r = s

(* An ask whose delivery nobody confirmed ends with its answer or with the *)
(* notice, whatever crashed, as long as one process stays up.              *)
Unconfirmed(r) == call[r] = Ended /\ InState(r, {"dispatched", "unknown", "expired"})

UnconfirmedIsTold ==
  (\E p \in Process : <>[]up[p]) =>
    \A r \in Ask : Unconfirmed(r) ~> (answers[r] > 0 \/ notices[r] > 0)

-----------------------------------------------------------------------------
(* What the code or its comments say and does not hold; see the README.    *)

(* Expiring an ask is "idempotent": the room is told once that no reply    *)
(* came.                                                                   *)
ToldOnce == \A r \in Ask : notices[r] <= 1

(* "Never a false replay": what the hub may take for delivered was         *)
(* recorded.                                                               *)
ReplayIsTrue == \A r \in Ask : claim[r] # None /\ claim[r].done => answers[r] = 1

(* "A marker is always findable through its row", the answer's record too. *)
RowOutlivesMarker ==
  [][\A r \in Ask :
       row[r] # None /\ row'[r] = None /\ row[r].age < 2 => ~Names(r)]_vars

(* "The slot now belongs to a different - newer - ask, which is never      *)
(* touched": a release unlinks the marker of its own ask only.             *)
NewerIsSpared ==
  [][\A p \in Process :
       Doing(p, {"retire", "reconcile"}, "unlink") /\ Unlinked => marker.of = io[p].ask]_vars

(* "The hub definitively refused (nothing was forwarded)".                 *)
RefusedWasNotForwarded ==
  \A r \in Ask : At(r, "release") /\ call[r].from = "dispatched" => hub[r] = "idle"
=============================================================================
