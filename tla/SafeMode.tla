-------------------------------- MODULE SafeMode -------------------------------
(***************************************************************************)
(* The database-backed safe mode (app/services/safe_mode_persistence.py)   *)
(* around the in-memory state machine, drift policy and event consumer of  *)
(* app/services/recovery_policy_engine.py.                                 *)
(*                                                                         *)
(* One manager lives in the application and uses one database session. Its *)
(* owner commits, or rolls back after an error; a crash loses the memory   *)
(* and the uncommitted writes, and the next start restores the manager     *)
(* from the rows. A rollback undoes the rows only: the manager that        *)
(* outlives one holds a mode, processed ids and fingerprints the database  *)
(* has not got. What such a manager writes is marked not sure, so that the *)
(* properties can say where they stop.                                     *)
(*                                                                         *)
(* The drift rows are there from the start: one that is written later is   *)
(* one not consumed yet. A fingerprint cools down at any time after it was *)
(* recorded, and the batch over all unprocessed candidates is a sequence   *)
(* of Consume steps. The columns nothing reads back into a decision        *)
(* (reasons, details, times, cooldown_until) are left out.                 *)
(***************************************************************************)
EXTENDS Naturals, Sequences

CONSTANTS
    Events,      \* rows of drift_ledger
    Prints,      \* fingerprints: bundle type, both hashes and the action
    PrintOf,     \* the fingerprint of each event
    Qualifying,  \* the candidates for SM3 whose action qualifies
    NoEvent,     \* source of a transition no event caused
    MaxLog       \* bound on the transitions recorded

ASSUME EventAssumption ==
    /\ PrintOf \in [Events -> Prints]
    /\ Qualifying \subseteq Events
    /\ NoEvent \notin Events

ASSUME BoundAssumption == MaxLog \in Nat

VARIABLES
    db,    \* committed rows the manager reads and writes
    view,  \* the same rows as the manager's session sees them
    mem    \* the manager's memory

vars == <<db, view, mem>>

--------------------------------------------------------------------------------
Modes == {"normal", "sm3", "sm2", "sm1"}

Automatic == {<<"normal", "sm3">>}
Manual == {<<"sm3", "sm2">>, <<"sm2", "sm1">>, <<"sm1", "normal">>,
           <<"normal", "sm2">>, <<"normal", "sm1">>, <<"sm3", "sm1">>}

Sources == Events \cup {NoEvent}

Transitions == [from : Modes, to : Modes, source : Sources, sure : BOOLEAN]

(* What became of an event: whether its row is processed, and the          *)
(* transition to the safe mode it found in force, if it did.               *)
Fates == [done : BOOLEAN, at : Nat, sure : BOOLEAN]
Open == [done |-> FALSE, at |-> 0, sure |-> FALSE]

Rows == [status : Modes \cup {"absent"}, log : Seq(Transitions),
         fate : [Events -> Fates]]

Done(rows) == {e \in Events : rows.fate[e].done}

(* The policy's memory of fingerprints and the consumer's of ids. intact:  *)
(* no rollback has undone what this manager did.                           *)
Memory == [up : BOOLEAN, mode : Modes, known : SUBSET Events,
           seen : SUBSET Prints, intact : BOOLEAN]

Fresh == [up |-> FALSE, mode |-> "normal", known |-> {}, seen |-> {},
          intact |-> TRUE]

--------------------------------------------------------------------------------
(* _apply_transition and the writes of a transition and of the status row. *)
(* Every caller makes the memory and both rows change together.            *)
RecordNoStatus(rows, to, source) ==   \* a slip: the status row is not written
    [rows EXCEPT !.log = Append(@, [from |-> mem.mode, to |-> to,
                                    source |-> source, sure |-> mem.intact])]

Record(rows, to, source) ==
    [rows EXCEPT !.status = to,
                 !.log = Append(@, [from |-> mem.mode, to |-> to,
                                    source |-> source, sure |-> mem.intact])]

HasEntered(source) ==
    \E i \in DOMAIN view.log : /\ view.log[i].from = "normal"
                               /\ view.log[i].to = "sm3"
                               /\ view.log[i].source = source

CanEnter == <<mem.mode, "sm3">> \in Automatic /\ Len(view.log) < MaxLog

MarkDone(rows, e, at) ==
    [rows EXCEPT !.fate[e] = [done |-> TRUE, at |-> at, sure |-> mem.intact]]

(* restore_from_db: the status row, made at first boot, and the processed  *)
(* ids; no fingerprints.                                                   *)
RowAsIs(status) == status   \* a slip: first boot is not handled
StateOf(status) == IF status = "absent" THEN "normal" ELSE status
NewRow(rows) == [rows EXCEPT !.status = StateOf(rows.status)]
RestoredIds(rows) ==   \* a slip: the mode is not restored
    [Fresh EXCEPT !.up = TRUE, !.known = Done(rows)]
Restored(rows) ==
    [Fresh EXCEPT !.up = TRUE, !.mode = StateOf(rows.status),
                  !.known = IF rows.status = "absent" THEN {} ELSE Done(rows)]

--------------------------------------------------------------------------------
Init ==
    /\ db = [status |-> "absent", log |-> <<>>,
             fate |-> [e \in Events |-> Open]]
    /\ view = db
    /\ mem = Fresh

Start ==
    /\ ~mem.up
    /\ mem' = Restored(view)
    /\ view' = NewRow(view)
    /\ UNCHANGED db

(* enter_sm3: an event enters once by this path; in any safe mode the call *)
(* does nothing.                                                           *)
EnterSm3(source) ==
    /\ mem.up
    /\ CanEnter
    /\ source # NoEvent => ~HasEntered(source)
    /\ mem' = [mem EXCEPT !.mode = "sm3"]
    /\ view' = Record(view, "sm3", source)
    /\ UNCHANGED db

(* manual_transition with an approver; anything else raises.               *)
ManualTransition(to) ==
    /\ mem.up
    /\ <<mem.mode, to>> \in Manual
    /\ Len(view.log) < MaxLog
    /\ mem' = [mem EXCEPT !.mode = to]
    /\ view' = Record(view, to, NoEvent)
    /\ UNCHANGED db

(* consume_drift_event and DriftEventConsumer.consume: whatever the        *)
(* decision, the row is marked processed.                                  *)
Consuming(e) ==
    /\ mem.up
    /\ ~view.fate[e].done
    /\ UNCHANGED db

(* The answer of an evaluation that says ENTER_SM3.                        *)
Remembers(e) == mem.seen \cup {PrintOf[e]}
Evaluates(e) ==
    e \notin mem.known /\ e \in Qualifying /\ PrintOf[e] \notin mem.seen

ConsumeAndEnter(e) ==
    /\ Consuming(e)
    /\ Evaluates(e)
    /\ CanEnter
    /\ mem' = [mem EXCEPT !.mode = "sm3", !.known = @ \cup {e},
                          !.seen = Remembers(e)]
    /\ view' = MarkDone(Record(view, "sm3", e), e, 0)

(* Safe mode is in force already.                                          *)
ConsumeWhileActive(e) ==
    /\ Consuming(e)
    /\ Evaluates(e)
    /\ mem.mode # "normal"
    /\ mem' = [mem EXCEPT !.known = @ \cup {e}, !.seen = Remembers(e)]
    /\ view' = MarkDone(view, e, Len(view.log))

(* The policy says NOOP or DUPLICATE_SUPPRESSED, or the id is known.       *)
SuppressedAndSeen(e) ==   \* a slip: the fingerprint is recorded first
    /\ ~Evaluates(e)
    /\ mem' = [mem EXCEPT !.known = @ \cup {e}, !.seen = Remembers(e)]
Suppressed(e) ==
    /\ ~Evaluates(e)
    /\ mem' = [mem EXCEPT !.known = @ \cup {e}]
ConsumeAndSuppress(e) ==
    /\ Consuming(e)
    /\ Suppressed(e)
    /\ view' = MarkDone(view, e, 0)

CoolDown(p) ==
    /\ p \in mem.seen
    /\ mem' = [mem EXCEPT !.seen = @ \ {p}]
    /\ UNCHANGED <<db, view>>

--------------------------------------------------------------------------------
Commit ==
    /\ mem.up
    /\ view # db
    /\ db' = view
    /\ UNCHANGED <<view, mem>>

RollBack ==
    /\ mem.up
    /\ view # db
    /\ view' = db
    /\ mem' = [mem EXCEPT !.intact = FALSE]
    /\ UNCHANGED db

Crash ==
    /\ mem.up
    /\ view' = db
    /\ mem' = Fresh
    /\ UNCHANGED db

Next ==
    \/ Start
    \/ Commit
    \/ RollBack
    \/ Crash
    \/ \E e \in Events : \/ ConsumeAndEnter(e)
                         \/ ConsumeWhileActive(e)
                         \/ ConsumeAndSuppress(e)
    \/ \E source \in Sources : EnterSm3(source)
    \/ \E to \in Modes : ManualTransition(to)
    \/ \E p \in Prints : CoolDown(p)

Spec == Init /\ [][Next]_vars

--------------------------------------------------------------------------------
(* The rows and the memory are of their types; safe_mode.py keeps one      *)
(* status row and it never holds anything but a mode once written.         *)
TypeOK ==
    /\ db \in Rows
    /\ view \in Rows
    /\ mem \in Memory

(* The committed status is where the last committed transition led, also   *)
(* after rollbacks a manager outlived: "every transition writes            *)
(* SafeModeStatus + SafeModeTransition" (safe_mode_persistence.py:5).      *)
StatusFollowsHistory ==
    IF db.log = <<>> THEN db.status \in {"absent", "normal"}
    ELSE db.status = db.log[Len(db.log)].to

(* Across restarts the committed transitions are one path from NORMAL:     *)
(* each starts where the one before it ended, unless it was made by a      *)
(* manager that had outlived a rollback (safe_mode_persistence.py:75-118,  *)
(* 253-306).                                                               *)
HistoryIsOnePath ==
    \A i \in DOMAIN db.log :
        db.log[i].sure =>
            db.log[i].from = IF i = 1 THEN "normal" ELSE db.log[i - 1].to

(* e made the system enter SM3, or found a safe mode in force.             *)
Answered(rows, e) ==
    \/ \E i \in DOMAIN rows.log : /\ rows.log[i].to = "sm3"
                                  /\ rows.log[i].source = e
    \/ /\ rows.fate[e].done
       /\ rows.fate[e].at \in DOMAIN rows.log
       /\ rows.log[rows.fate[e].at].to # "normal"

(* No qualifying drift is marked processed without an answer: it, or an    *)
(* event of the same fingerprint, entered SM3 or met a safe mode in force, *)
(* whatever crashes come between (safe_mode_persistence.py:178-234), unless *)
(* it was consumed by a manager that had outlived a rollback.              *)
DriftIsAnswered ==
    \A e \in Done(db) \cap Qualifying :
        db.fate[e].sure =>
            \E d \in Qualifying : PrintOf[d] = PrintOf[e] /\ Answered(db, d)
=============================================================================
