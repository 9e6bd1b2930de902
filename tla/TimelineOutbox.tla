--------------------------- MODULE TimelineOutbox ---------------------------
(***************************************************************************)
(* Upload of the local timelines of agent runs (device_run_outbox.rs,      *)
(* device_runs.rs, timeline_drain.rs).  A hook publishes a run: in one     *)
(* SQLite transaction the new events, and an upload request for those of   *)
(* them that have a hosted form.  The network daemon drains the outbox,    *)
(* one request of one run at a time, in the order of hosted positions; a   *)
(* request keeps its operation id over all retries.                        *)
(*                                                                         *)
(* The server is not in the repository.  It is modelled from what the      *)
(* client relies on: an operation id is applied once and answered alike    *)
(* afterwards, a request that starts beyond the server's position is       *)
(* answered by a gap and not written, one that starts below is a conflict. *)
(* Calls time out although the server may still apply them, the server may *)
(* refuse, and it may lose its newest writes.                              *)
(*                                                                         *)
(* The byte and request limits of the outbox are one budget, of which a    *)
(* request, an acceptance and a pending registration use one unit each.    *)
(***************************************************************************)
EXTENDS Integers, Sequences, FiniteSets, SequencesExt

CONSTANTS
  Run,          \* runs, in the order of their rows
  None,
  MaxPending,   \* MAX_PENDING_REQUESTS, MAX_PENDING_BYTES
  ScanLimit,    \* local events that one transaction looks at
  BatchLimit,   \* events of one request
  LongAfter,    \* retries of a request after which its delay is longer than a drain interval
  MaxEvents,    \* bound: MaxEvents[r] local events of run r
  MaxSnapshots, \* bound: MaxSnapshots[r] states of run r
  MaxFaults     \* bound: failed, refused or late calls, restarts, server losses

Request == [op : Nat, run : Run, first : Nat, next : Nat, events : Seq(Nat)]

ASSUME OutboxAssumption ==
  /\ IsFiniteSet(Run) /\ None \notin Run \union Request
  /\ {MaxPending, ScanLimit, BatchLimit} \subseteq Nat \ {0}
  /\ {MaxEvents, MaxSnapshots} \subseteq [Run -> Nat]
  /\ {LongAfter, MaxFaults} \subseteq Nat

VARIABLES
  local,     \* local[r]: the events of run_timeline, TRUE if they have a hosted form
  snapshot,  \* snapshot[r]: the state of the run record
  up,        \* up[r]: its row of timeline_upload_runs and timeline_upload_event_map
  queue,     \* timeline_upload_outbox, by rowid
  nextOp,    \* next operation id
  daemon,    \* the drain of the network daemon
  net,       \* upload calls that the server has not seen yet
  server,    \* server[r]: requests the server has applied
  high,      \* high[r]: most events the server has held
  faults,    \* faults so far
  unscanned, \* history: runs whose scan after an acknowledgement was cut off
  replaced   \* history: runs whose report of a final refusal was replaced

store == <<local, snapshot, up, queue, nextOp>>
remote == <<net, server, high>>
history == <<unscanned, replaced>>
vars == <<store, daemon, remote, faults, history>>

Reasons == {"", "origin_unavailable", "outbox_overflow", "scan_pending",
            "needs_current_acceptance", "acceptance_overflow", "resource_gone",
            "conflict", "registration_denied", "re-enroll"}

(* A run without a row in timeline_upload_runs *)
NoRow == [row |-> FALSE, origin |-> FALSE, registered |-> 0, regDue |-> TRUE, rev |-> 0,
          seen |-> 0, last |-> 0, acked |-> 0, map |-> << >>, incomplete |-> ""]

Rows == [req : Request, accept : BOOLEAN, due : {"now", "later", "long", "never"},
         attempts : 0 .. LongAfter, terminal : BOOLEAN]

Idle == [at |-> "idle", todo |-> {}, reg |-> None, upload |-> None, answer |-> None, gap |-> 0]

Init ==
  /\ local = [r \in Run |-> << >>]
  /\ snapshot = [r \in Run |-> 0]
  /\ up = [r \in Run |-> NoRow]
  /\ queue = << >>
  /\ nextOp = 1
  /\ daemon = Idle
  /\ net = {}
  /\ server = [r \in Run |-> << >>]
  /\ high = [r \in Run |-> 0]
  /\ faults = 0
  /\ unscanned = {} /\ replaced = {}

-----------------------------------------------------------------------------
(* The tables.                                                             *)

Lesser(a, b) == IF a <= b THEN a ELSE b

(* pending_usage *)
Usage(q, u) ==
  Cardinality({i \in DOMAIN q : ~q[i].terminal})
  + Cardinality({i \in DOMAIN q : ~q[i].terminal /\ q[i].accept})
  + Cardinality({r \in Run : u[r].origin /\ u[r].registered = 0})

(* No room for another unit, when the rows of the runs are u *)
Full_OffByOne(u) == Usage(queue, u) > MaxPending
Full(u) == Usage(queue, u) >= MaxPending

Index(op) == {i \in DOMAIN queue : queue[i].req.op = op}

(* The rows of the same run that come before row i *)
Earlier(i) ==
  {j \in DOMAIN queue :
     /\ queue[j].req.run = queue[i].req.run
     /\ \/ queue[j].req.first < queue[i].req.first
        \/ queue[j].req.first = queue[i].req.first /\ j < i}

NewRow(r, first, events) ==
  [req |-> [op |-> nextOp, run |-> r, first |-> first, next |-> first + Len(events),
            events |-> events],
   accept |-> FALSE, due |-> "now", attempts |-> 0, terminal |-> FALSE]

(* The last local event that one transaction looks at *)
Scanned(l, from) ==
  LET end == Lesser(from + ScanLimit, Len(l))
      full == {i \in from + 1 .. end :
                 Cardinality({j \in from + 1 .. i : l[j]}) = BatchLimit}
  IN IF full = {} THEN end ELSE CHOOSE i \in full : \A j \in full : i <= j

(* Events of a state that append_with_limits does not touch *)
Blocked == {"needs_current_acceptance", "acceptance_overflow", "resource_gone", "conflict"}

(* The positions of a set, in their order *)
Ascending(S) ==
  CHOOSE s \in [1 .. Cardinality(S) -> S] : \A i, j \in DOMAIN s : i < j => s[i] < s[j]

(* append_with_limits for a run whose row is u, with events l and state s  *)
AppendInTx(r, u, l, s) ==
  LET scanned == Scanned(l, u.last)
      projected == Ascending({i \in u.last + 1 .. scanned : l[i]})
      scanState == IF scanned < Len(l) THEN "scan_pending" ELSE ""
      visible == IF u.incomplete \in {"registration_denied", "re-enroll"} THEN u.incomplete
                                                                          ELSE scanState
      nothing == projected = << >> /\ u.rev > 0 /\ s = u.seen
      overflow == Full([up EXCEPT ![r] = u])
  IN
  /\ unscanned' = unscanned \ {r}
  /\ UNCHANGED replaced
  /\ \/ /\ ~u.origin \/ u.incomplete \in Blocked
        /\ up' = [up EXCEPT ![r] = u]
        /\ UNCHANGED <<queue, nextOp>>
     \/ /\ u.origin /\ u.incomplete \notin Blocked
        /\ nothing
        /\ up' = [up EXCEPT ![r] = IF u.incomplete \in {"", "outbox_overflow", "scan_pending"}
                                   THEN [u EXCEPT !.last = scanned, !.incomplete = scanState]
                                   ELSE u]
        /\ UNCHANGED <<queue, nextOp>>
     \/ /\ u.origin /\ u.incomplete \notin Blocked
        /\ ~nothing /\ overflow
        /\ up' = [up EXCEPT ![r] = [u EXCEPT !.incomplete = "outbox_overflow"]]
        /\ UNCHANGED <<queue, nextOp>>
     \/ /\ u.origin /\ u.incomplete \notin Blocked
        /\ ~nothing /\ ~overflow
        /\ queue' = Append(queue, NewRow(r, Len(u.map), projected))
        /\ nextOp' = nextOp + 1
        /\ up' = [up EXCEPT ![r] =
                    [u EXCEPT !.rev = IF @ = 0 \/ s # u.seen THEN @ + 1 ELSE @, !.seen = s,
                              !.last = scanned, !.map = @ \o projected, !.incomplete = visible]]

(* The row that the first report of a run makes: without an origin, or     *)
(* without room for its registration, nothing of the run is ever uploaded  *)
Created(r, origin) ==
  IF ~origin THEN [NoRow EXCEPT !.row = TRUE, !.incomplete = "origin_unavailable"]
  ELSE IF Full(up)
       THEN [NoRow EXCEPT !.row = TRUE, !.incomplete = "outbox_overflow"]
       ELSE [NoRow EXCEPT !.row = TRUE, !.origin = TRUE]

-----------------------------------------------------------------------------
(* Hooks, and the owner.                                                   *)

(* publish_report *)
Publish(r) ==
  \E events \in {<< >>, <<TRUE>>, <<FALSE>>, <<TRUE, TRUE>>},
     s \in snapshot[r] .. MaxSnapshots[r], origin \in BOOLEAN :
    /\ Len(local[r]) + Len(events) <= MaxEvents[r]
    /\ s \in 1 .. snapshot[r] + 1
    /\ local' = [local EXCEPT ![r] = @ \o events]
    /\ snapshot' = [snapshot EXCEPT ![r] = s]
    /\ up[r].row => ~origin
    /\ AppendInTx(r, IF up[r].row THEN up[r] ELSE Created(r, origin), local'[r], s)
    /\ UNCHANGED <<daemon, remote, faults>>

(* The reason of a final refusal of the run gives way to another one *)
Replaced(r) == replaced' = replaced \union {x \in {r} : up[x].incomplete \in {"resource_gone",
                                                                            "conflict"}}

(* attach_acceptance: current authority for a request; for the first one of *)
(* a run that waits for it                                                  *)
AttachAcceptance(i) ==
  LET r == queue[i].req.run
      blocked == up[r].incomplete \in {"needs_current_acceptance", "acceptance_overflow"}
      used == Usage([queue EXCEPT ![i].accept = FALSE], up)
  IN
  /\ ~queue[i].terminal
  /\ blocked => \A j \in Earlier(i) : queue[j].terminal
  /\ \/ /\ used + 1 > MaxPending
        /\ up' = [up EXCEPT ![r].incomplete = "acceptance_overflow"]
        /\ queue' = [queue EXCEPT ![i].due = "never"]
        /\ Replaced(r)
     \/ /\ used + 1 <= MaxPending
        /\ up' = [up EXCEPT ![r].incomplete = IF blocked THEN "" ELSE @]
        /\ queue' = [queue EXCEPT ![i].accept = TRUE, ![i].due = "now"]
        /\ UNCHANGED replaced
  /\ UNCHANGED <<local, snapshot, nextOp, daemon, remote, faults, unscanned>>

(* The retry delay of a request, or of a registration, is over *)
DueUpload(r) ==
  /\ \E i \in DOMAIN queue :
       /\ queue[i].req.run = r /\ queue[i].due = "later"
       /\ queue' = [queue EXCEPT ![i].due = "now"]
  /\ UNCHANGED <<local, snapshot, up, nextOp, daemon, remote, faults, history>>

DueRegistration(r) ==
  /\ ~up[r].regDue
  /\ up' = [up EXCEPT ![r].regDue = TRUE]
  /\ UNCHANGED <<local, snapshot, queue, nextOp, daemon, remote, faults, history>>

-----------------------------------------------------------------------------
(* The drain.                                                              *)

Fault ==
  /\ faults < MaxFaults
  /\ faults' = faults + 1

(* incomplete_timeline_runs *)
DrainBegin ==
  /\ daemon.at = "idle"
  /\ daemon' = [daemon EXCEPT !.at = "repair",
                              !.todo = {r \in Run : /\ up[r].origin
                                                    /\ up[r].incomplete \in {"outbox_overflow",
                                                                             "scan_pending"}}]
  /\ UNCHANGED <<store, remote, faults, history>>

(* repair_timeline_upload for each of them *)
DrainRepair(r) ==
  /\ daemon.at = "repair" /\ r \in daemon.todo
  /\ AppendInTx(r, up[r], local[r], snapshot[r])
  /\ daemon' = [daemon EXCEPT !.todo = @ \ {r}]
  /\ UNCHANGED <<local, snapshot, remote, faults>>

(* next_registration and next_upload: the first that are due.  A delay     *)
(* longer than the drain interval outlasts one drain at least.             *)
Registrable == {r \in Run : up[r].origin /\ up[r].registered = 0 /\ up[r].regDue}
Uploadable ==
  {i \in DOMAIN queue :
     /\ ~queue[i].terminal /\ queue[i].due = "now"
     /\ up[queue[i].req.run].incomplete \notin {"needs_current_acceptance",
                                                "acceptance_overflow"}
     /\ Earlier(i) = {}}

DrainPick ==
  /\ daemon.at = "repair" /\ daemon.todo = {}
  /\ \/ /\ Registrable = {} /\ Uploadable = {}
        /\ daemon' = Idle
     \/ /\ Registrable \union Uploadable # {}
        /\ \E r \in IF Registrable = {} THEN {None} ELSE Registrable :
             daemon' = [daemon EXCEPT !.at = "connect", !.reg = r,
                          !.upload = IF Uploadable = {} THEN None
                                     ELSE queue[Min(Uploadable)].req]
  /\ queue' = [i \in DOMAIN queue |->
                 [queue[i] EXCEPT !.due = IF @ = "long" THEN "later" ELSE @]]
  /\ UNCHANGED <<local, snapshot, up, nextOp, remote, faults, history>>

(* The device has no bearer any more: require_reenrollment *)
Reenroll ==
  /\ Fault
  /\ daemon.at = "connect"
  /\ up' = [r \in Run |->
              IF /\ up[r].row /\ up[r].incomplete \in {"", "registration_denied"}
                 /\ \/ up[r].registered = 0
                    \/ \E i \in DOMAIN queue : queue[i].req.run = r /\ ~queue[i].terminal
              THEN [up[r] EXCEPT !.incomplete = "re-enroll"] ELSE up[r]]
  /\ daemon' = Idle
  /\ UNCHANGED <<local, snapshot, queue, nextOp, remote, history>>

(* retry, whose delays double, and retry_registration *)
Later(op) ==
  [i \in DOMAIN queue |->
     IF i \notin Index(op) THEN queue[i]
     ELSE [queue[i] EXCEPT !.due = IF queue[i].attempts = LongAfter THEN "long" ELSE "later",
                           !.attempts = Lesser(@ + 1, LongAfter)]]
LaterRegistration(r) == IF r = None THEN up ELSE [up EXCEPT ![r].regDue = FALSE]

ConnectFails ==
  /\ Fault
  /\ daemon.at = "connect"
  /\ up' = LaterRegistration(daemon.reg)
  /\ queue' = IF daemon.upload = None THEN queue ELSE Later(daemon.upload.op)
  /\ daemon' = Idle
  /\ UNCHANGED <<local, snapshot, nextOp, remote, history>>

(* After the registration comes the upload, if there is one *)
Onward == daemon' = IF daemon.upload = None THEN Idle ELSE [daemon EXCEPT !.at = "upload"]

(* process_registration *)
Register ==
  /\ daemon.at = "connect"
  /\ \/ /\ daemon.reg = None
        /\ UNCHANGED <<up, faults, replaced>>
     \/ /\ daemon.reg # None
        /\ up' = [up EXCEPT ![daemon.reg].registered = 1,
                            ![daemon.reg].incomplete = IF @ = "registration_denied" THEN ""
                                                                                   ELSE @]
        /\ UNCHANGED <<faults, replaced>>
     \/ /\ daemon.reg # None /\ Fault
        /\ up' = LaterRegistration(daemon.reg)
        /\ UNCHANGED replaced
     \/ /\ daemon.reg # None /\ Fault
        /\ up' = [up EXCEPT ![daemon.reg].registered = -1,
                            ![daemon.reg].incomplete = "registration_denied"]
        /\ Replaced(daemon.reg)
  /\ Onward
  /\ UNCHANGED <<local, snapshot, queue, nextOp, remote, unscanned>>

SendUpload ==
  /\ daemon.at = "upload"
  /\ net' = net \union {[req |-> daemon.upload, late |-> FALSE]}
  /\ daemon' = [daemon EXCEPT !.at = "sent"]
  /\ UNCHANGED <<store, server, high, faults, history>>

(* Nobody waits for the calls any more, but the server may still see them *)
Abandoned == {[c EXCEPT !.late = TRUE] : c \in net}

(* No answer within ten seconds, or none at all: retry *)
UploadFails ==
  /\ Fault
  /\ daemon.at = "sent"
  /\ queue' = Later(daemon.upload.op)
  /\ net' = Abandoned
  /\ daemon' = Idle
  /\ UNCHANGED <<local, snapshot, up, nextOp, server, high, history>>

(* acknowledge.  The row must be there and begin at the acked prefix, else *)
(* the drain ends with an error; AckContinues: this does not happen        *)
AckFits == Index(daemon.upload.op) # {} /\ up[daemon.upload.run].acked = daemon.upload.first

Acknowledge_ByPosition ==
  /\ daemon.at = "answered" /\ daemon.answer = "ack"
  /\ AckFits
  /\ queue' = SelectSeq(queue, LAMBDA x : \/ x.req.run # daemon.upload.run
                                          \/ x.req.first # daemon.upload.first)
  /\ up' = [up EXCEPT ![daemon.upload.run].acked = daemon.upload.next]
  /\ daemon' = [daemon EXCEPT !.at = "scan"]
  /\ UNCHANGED <<local, snapshot, nextOp, remote, faults, history>>

Acknowledge ==
  /\ daemon.at = "answered" /\ daemon.answer = "ack"
  /\ AckFits
  /\ \E i \in Index(daemon.upload.op) : queue' = RemoveAt(queue, i)
  /\ up' = [up EXCEPT ![daemon.upload.run].acked = daemon.upload.next,
                      ![daemon.upload.run].incomplete =
                         IF @ \in {"registration_denied", "needs_current_acceptance", "re-enroll"}
                         THEN "" ELSE @]
  /\ daemon' = [daemon EXCEPT !.at = "scan"]
  /\ UNCHANGED <<local, snapshot, nextOp, remote, faults, history>>

(* ... and repair_timeline_upload *)
ScanAfterAck_Skipped ==
  /\ daemon.at = "scan"
  /\ daemon' = Idle
  /\ UNCHANGED <<store, remote, faults, history>>

ScanAfterAck ==
  /\ daemon.at = "scan"
  /\ AppendInTx(daemon.upload.run, up[daemon.upload.run], local[daemon.upload.run],
                snapshot[daemon.upload.run])
  /\ daemon' = Idle
  /\ UNCHANGED <<local, snapshot, remote, faults>>

(* deny *)
Terminal(op) == [i \in DOMAIN queue |-> IF i \in Index(op) THEN [queue[i] EXCEPT !.terminal = TRUE]
                                                           ELSE queue[i]]
Reason(a) ==
  CASE a = "denied" -> "needs_current_acceptance"
    [] a = "gone" -> "resource_gone"
    [] a = "conflict" -> "conflict"

Deny ==
  /\ daemon.at = "answered" /\ daemon.answer \in {"denied", "conflict", "gone"}
  /\ up' = [up EXCEPT ![daemon.upload.run].incomplete = Reason(daemon.answer)]
  /\ queue' = IF daemon.answer = "denied" THEN queue ELSE Terminal(daemon.upload.op)
  /\ daemon' = Idle
  /\ UNCHANGED <<local, snapshot, nextOp, remote, faults, history>>

(* repair_gap: the projected events the server lacks, up to a full request, *)
(* again, in a request of its own                                           *)
Missing_ByLocalPosition(r, from, to) == [i \in 1 .. to - from |-> from + i]
Missing(r, from, to) == SubSeq(up[r].map, from + 1, to)

(* acked_position goes back to what the server has *)
Lowered_Kept(r, from) == up
Lowered(r, from) == [up EXCEPT ![r].acked = Lesser(@, from)]

RepairGap ==
  LET r == daemon.upload.run
      from == daemon.gap
      to == Lesser(daemon.upload.first, from + BatchLimit)
  IN
  /\ daemon.at = "answered" /\ daemon.answer = "gap"
  /\ \/ /\ Full(up)
        /\ up' = [Lowered(r, from) EXCEPT ![r].incomplete = "outbox_overflow"]
        /\ queue' = Later(daemon.upload.op)
        /\ UNCHANGED nextOp
     \/ /\ ~Full(up)
        /\ up' = Lowered(r, from)
        /\ queue' = Append(queue, NewRow(r, from, Missing(r, from, to)))
        /\ nextOp' = nextOp + 1
  /\ daemon' = Idle
  /\ UNCHANGED <<local, snapshot, remote, faults, history>>

(* The daemon is stopped, or its drain is cancelled *)
Stop ==
  /\ Fault
  /\ daemon.at # "idle"
  /\ net' = Abandoned
  /\ daemon' = Idle
  /\ unscanned' = IF daemon.at = "scan" THEN unscanned \union {daemon.upload.run}
                                        ELSE unscanned
  /\ UNCHANGED <<store, server, high, replaced>>

-----------------------------------------------------------------------------
(* The server.                                                             *)

(* Where the timeline of the requests s ends, and what it has at each place *)
Position(s) == IF s = << >> THEN 0 ELSE Last(s).next
Events(s) ==
  [n \in 1 .. Position(s) |->
     LET q == CHOOSE x \in Range(s) : x.first < n /\ n <= x.next IN q.events[n - q.first]]

Answer(c, a, gap) ==
  daemon' = IF c.late THEN daemon
                      ELSE [daemon EXCEPT !.at = "answered", !.answer = a, !.gap = gap]

(* One call: applied once, in order *)
Serve(c) ==
  LET q == c.req
      r == q.run
      have == Position(server[r])
      applied == \E i \in DOMAIN server[r] : server[r][i].op = q.op
  IN
  /\ net' = net \ {c}
  /\ \/ /\ applied
        /\ Answer(c, "ack", 0)
        /\ UNCHANGED <<server, high>>
     \/ /\ ~applied /\ q.first = have
        /\ server' = [server EXCEPT ![r] = Append(@, q)]
        /\ high' = [high EXCEPT ![r] = IF @ < q.next THEN q.next ELSE @]
        /\ Answer(c, "ack", 0)
     \/ /\ ~applied /\ q.first # have
        /\ Answer(c, IF q.first > have THEN "gap" ELSE "conflict", have)
        /\ UNCHANGED <<server, high>>
  /\ UNCHANGED <<store, faults, history>>

(* The server refuses *)
Refuse(c) ==
  /\ Fault
  /\ net' = net \ {c}
  /\ \E a \in {"denied", "gone", "conflict"} : Answer(c, a, 0)
  /\ UNCHANGED <<store, server, high, history>>

(* The server comes back without its newest writes, and without the calls *)
(* of the connections it had                                              *)
ServerLoses(r) ==
  /\ Fault
  /\ \A c \in net : c.late
  /\ net' = {}
  /\ \E n \in 0 .. Len(server[r]) - 1 : server' = [server EXCEPT ![r] = SubSeq(@, 1, n)]
  /\ UNCHANGED <<store, daemon, high, history>>

-----------------------------------------------------------------------------
Drain ==
  \/ DrainBegin \/ DrainPick \/ Register \/ SendUpload
  \/ Acknowledge \/ ScanAfterAck \/ Deny \/ RepairGap
  \/ \E r \in Run : DrainRepair(r)

Next ==
  \/ Drain
  \/ Reenroll \/ ConnectFails \/ UploadFails \/ Stop
  \/ \E r \in Run : Publish(r) \/ DueUpload(r) \/ DueRegistration(r) \/ ServerLoses(r)
  \/ \E i \in DOMAIN queue : AttachAcceptance(i)
  \/ \E c \in net : Serve(c) \/ Refuse(c)

Spec == Init /\ [][Next]_vars

(* The daemon drains every thirty seconds, delays end, calls are answered *)
FairSpec ==
  /\ Spec
  /\ WF_vars(Drain)
  /\ \A r \in Run : WF_vars(DueUpload(r)) /\ WF_vars(DueRegistration(r))
  /\ WF_vars(\E c \in net : Serve(c))

-----------------------------------------------------------------------------
(* Types; the scan and the acknowledgements of a run stay within its events. *)
TypeOK ==
  /\ local \in [Run -> Seq(BOOLEAN)]
  /\ snapshot \in [Run -> Nat]
  /\ \A r \in Run :
       /\ up[r].registered \in {-1, 0, 1}
       /\ up[r].last \in 0 .. Len(local[r])
       /\ up[r].acked \in 0 .. Len(up[r].map)
       /\ up[r].incomplete \in Reasons
  /\ queue \in Seq(Rows)
  /\ net \in SUBSET [req : Request, late : BOOLEAN]
  /\ daemon.upload \in Request \union {None}
  /\ faults \in 0 .. MaxFaults

(* The hosted timeline of a run is its uploadable local events, each once   *)
(* and in their order: retries, late calls, gaps and repairs never skip,    *)
(* repeat or swap one.                                                      *)
Faithful ==
  \A r \in Run :
    LET all == Ascending({i \in DOMAIN local[r] : local[r][i]})
    IN IsPrefix(Events(server[r]), all)

(* A request leaves the outbox only when the server has its events: an      *)
(* event with a hosted position has reached the server or is still queued.  *)
NothingDropped ==
  \A r \in Run : \A n \in high[r] + 1 .. Len(up[r].map) :
    \E i \in DOMAIN queue : queue[i].req.run = r /\ queue[i].req.first < n /\ n <= queue[i].req.next

(* An acknowledgement always finds its request in the outbox, at the end of *)
(* the acknowledged prefix: the two ensures of acknowledge, which would     *)
(* fail this drain and every later one, never do, although repair_gap moves *)
(* acked_position back.                                                     *)
AckContinues == daemon.at = "answered" /\ daemon.answer = "ack" => AckFits

(* pending_usage stays within its limit, repairs and acceptances included. *)
PendingBounded == Usage(queue, up) <= MaxPending

(* A run whose uploadable events do not all reach the server stays visible  *)
(* in health (upload_incomplete), whatever else failed, was refused or was  *)
(* lost on the way, but for three cases that the code lets pass unreported: *)
(* the daemon stops between acknowledge_timeline_upload and                 *)
(* repair_timeline_upload and nothing scans the run again (unscanned); a    *)
(* denied registration or an acceptance without room replaces the reason of *)
(* a final refusal (replaced); such an acceptance leaves a request at       *)
(* due_millis = MAX.  It is assumed that the daemon connects to the         *)
(* deployment of each run, which else ends every drain with an error.       *)
Parked(r) == \E i \in DOMAIN queue :
               queue[i].req.run = r /\ ~queue[i].terminal /\ queue[i].due = "never"

ReachedOrReported ==
  \A r \in Run :
    \/ <>[](up[r].row => Cardinality({i \in DOMAIN local[r] : local[r][i]}) <= high[r])
    \/ []<>(up[r].incomplete # "")
    \/ <>[](r \in unscanned) \/ <>[](r \in replaced) \/ <>[]Parked(r)
=============================================================================
