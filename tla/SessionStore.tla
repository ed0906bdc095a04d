---------------------------- MODULE SessionStore ----------------------------
(***************************************************************************)
(* The HTTP handlers of api/http.go over the session store of              *)
(* internal/runtime: concurrent requests that create sessions, delete them *)
(* and run turns on them, the per-session turn semaphore, the bolt bucket  *)
(* behind the map, and the server process around them (crash, graceful     *)
(* shutdown, restart).                                                     *)
(*                                                                         *)
(* A request is a goroutine of net/http; its pc says which statement of    *)
(* its handler comes next.  What a turn does to a session's memory is      *)
(* written here as the engine does it, one access of shared state per      *)
(* step; that every session then behaves like SessionMemory is checked.    *)
(***************************************************************************)
EXTENDS ShortTerm, FiniteSets, Functions

CONSTANTS
  Ids,            \* session ids (fresh UUIDs: no id is drawn twice)
  NoSession,      \* the sid of an idle request slot
  Requests,       \* request slots: how many handlers run at the same time
  DiskMayFail,    \* a bolt transaction may fail
  MaxMessages,    \* bound: the conversation of each id ends after so many messages
  MaxRestarts     \* bound: how often the process is started again

ASSUME NoSessionAssumption == NoSession \notin Ids
ASSUME DiskMayFailAssumption == DiskMayFail \in BOOLEAN

VARIABLES
  persistent, \* a session_db_path is configured
  server,     \* "up", "draining" (Shutdown waits), "closed" (bolt), "down"
  restarts,   \* how often the process was started again
  used,       \* ids drawn so far
  known,      \* ids a client was told of
  sessions,   \* keys of SessionStore.sessions
  turnSem,    \* the turnSem of each session object
  history, summary, count, drained,     \* each session object's memory
  disk,       \* the bolt bucket: no or one row per id
  missed,     \* ids whose last write to the bucket failed
  deleted,    \* ids whose DELETE was answered and left no row
  pc, sid,    \* each request's next statement and session
  batch,      \* what the request's turn drained and compresses
  seen,       \* the length of the conversation its prompt was built from
  existing,   \* the summary Compress read before it called the model
  snap        \* the snapshot it is about to save

memory == <<history, summary, count, drained>>
locals == <<batch, seen, existing, snap>>
lifecycle == <<persistent, server, restarts>>
naming == <<used, known, deleted>>
vars == <<lifecycle, naming, sessions, turnSem, memory, disk, missed, pc, sid, locals>>

(* Statements at which a request holds its session's turnSem, and those    *)
(* between ProcessTurn and the write to the bucket.                        *)
Storing == {"generating", "half", "stored", "drained", "compressing",
            "persisting", "summarizing", "saving"}
InTurn == {"validating", "replying"} \union Storing
Pcs == {"idle", "creating", "announcing", "deleting", "found", "refused"} \union InTurn

(* The server accepts a request: the handler starts in an idle slot. *)
Accept(r) == server = "up" /\ pc[r] = "idle"
Goto(r, statement) == pc' = [pc EXCEPT ![r] = statement]
Start(r, s, statement) == Goto(r, statement) /\ sid' = [sid EXCEPT ![r] = s]
Finish(r) == Start(r, NoSession, "idle")

Row(s) == [history |-> history[s], summary |-> summary[s],
           count |-> count[s], drained |-> drained[s]]

Init ==
  /\ persistent \in BOOLEAN
  /\ server = "up" /\ restarts = 0
  /\ used = {} /\ known = {} /\ deleted = {}
  /\ sessions = {}
  /\ turnSem = [s \in Ids |-> "none"]
  /\ history = [s \in Ids |-> <<>>] /\ summary = [s \in Ids |-> {}]
  /\ count = [s \in Ids |-> 0] /\ drained = [s \in Ids |-> 0]
  /\ disk = [s \in Ids |-> {}] /\ missed = {}
  /\ pc = [r \in Requests |-> "idle"] /\ sid = [r \in Requests |-> NoSession]
  /\ batch = [r \in Requests |-> <<>>] /\ seen = [r \in Requests |-> 0]
  /\ existing = [r \in Requests |-> {}] /\ snap = [r \in Requests |-> {}]

(* The bucket gets rows as the row of s: without a persister nothing is    *)
(* done; else the transaction commits, or it fails and the caller ignores  *)
(* the error.  Once the bucket is closed every transaction fails.          *)
Write(s, rows) ==
  \/ ~persistent /\ UNCHANGED <<disk, missed>>
  \/ /\ persistent /\ server # "closed"
     /\ disk' = [disk EXCEPT ![s] = rows]
     /\ missed' = missed \ {s}
  \/ /\ persistent /\ (DiskMayFail \/ server = "closed")
     /\ missed' = missed \union {s}
     /\ UNCHANGED disk

-----------------------------------------------------------------------------
(* createSession: store.Create inserts, then saves; then the client learns *)
(* the id.  Nobody else can use the session before that.                   *)

CreateInsert(r) ==
  /\ Accept(r)
  /\ \E s \in Ids \ used :
       /\ used' = used \union {s}
       /\ sessions' = sessions \union {s}
       /\ turnSem' = [turnSem EXCEPT ![s] = "free"]
       /\ Start(r, s, "creating")
  /\ UNCHANGED <<lifecycle, known, deleted, memory, disk, missed, locals>>

CreateSave(r) ==
  /\ pc[r] = "creating"
  /\ Write(sid[r], {Row(sid[r])})
  /\ Goto(r, "announcing")
  /\ UNCHANGED <<lifecycle, naming, sessions, turnSem, memory, sid, locals>>

CreateReply(r) ==
  /\ pc[r] = "announcing"
  /\ known' = known \union {sid[r]}
  /\ Finish(r)
  /\ UNCHANGED <<lifecycle, used, deleted, sessions, turnSem, memory, disk, missed, locals>>

-----------------------------------------------------------------------------
(* deleteSession: store.Delete takes the session out of the map, then the  *)
(* row out of the bucket.  A turn that is running keeps its object.        *)

DeleteFromMap(r) ==
  /\ Accept(r)
  /\ \E s \in known :
       /\ sessions' = sessions \ {s}
       /\ Start(r, s, "deleting")
  /\ UNCHANGED <<lifecycle, naming, turnSem, memory, disk, missed, locals>>

DeleteRow(r) ==
  /\ pc[r] = "deleting"
  /\ Write(sid[r], {})
  /\ deleted' = IF disk'[sid[r]] = {} THEN deleted \union {sid[r]} ELSE deleted
  /\ Finish(r)
  /\ UNCHANGED <<lifecycle, used, known, sessions, turnSem, memory, locals>>

-----------------------------------------------------------------------------
(* createTurn, up to ProcessTurn.  A request for a session that is not in  *)
(* the map is answered 404 and changes nothing.                            *)

TurnLookup(r) ==
  /\ Accept(r)
  /\ \E s \in known \intersect sessions : Start(r, s, "found")
  /\ UNCHANGED <<lifecycle, naming, sessions, turnSem, memory, disk, missed, locals>>

(* AcquireTurn sends on turnSem without waiting. *)
AcquireTurnUnchecked(r) ==
  /\ pc[r] = "found"
  /\ turnSem' = [turnSem EXCEPT ![sid[r]] = "held"]
  /\ Goto(r, "validating")
  /\ UNCHANGED <<lifecycle, naming, sessions, memory, disk, missed, sid, locals>>
AcquireTurn(r) ==
  /\ pc[r] = "found"
  /\ turnSem[sid[r]] = "free"
  /\ turnSem' = [turnSem EXCEPT ![sid[r]] = "held"]
  /\ Goto(r, "validating")
  /\ UNCHANGED <<lifecycle, naming, sessions, memory, disk, missed, sid, locals>>

(* The buffer is full, or turnSem is the nil channel, which is never ready. *)
TurnRefused(r) ==
  /\ pc[r] = "found"
  /\ turnSem[sid[r]] # "free"
  /\ Goto(r, "refused")
  /\ UNCHANGED <<lifecycle, naming, sessions, turnSem, memory, disk, missed, sid, locals>>

ReplyConflict(r) ==
  /\ pc[r] = "refused"
  /\ Finish(r)
  /\ UNCHANGED <<lifecycle, naming, sessions, turnSem, memory, disk, missed, locals>>

(* The deferred ReleaseTurn, when the handler returns. *)
ReleaseTurnLeavesSession(r) ==
  /\ turnSem' = [turnSem EXCEPT ![sid[r]] = "free"]
  /\ Goto(r, "idle") /\ UNCHANGED sid
ReleaseTurn(r) ==
  /\ turnSem' = [turnSem EXCEPT ![sid[r]] = "free"]
  /\ Finish(r)

(* The body is too large, not JSON, without a message, or the message is   *)
(* too long.                                                               *)
TurnInvalidKeepsTurn(r) ==
  /\ pc[r] = "validating"
  /\ Finish(r)
  /\ UNCHANGED <<lifecycle, naming, sessions, turnSem, memory, disk, missed, locals>>
TurnInvalid(r) ==
  /\ pc[r] = "validating"
  /\ ReleaseTurn(r)
  /\ UNCHANGED <<lifecycle, naming, sessions, memory, disk, missed, locals>>

-----------------------------------------------------------------------------
(* runTurn.  Session.mu is held across the two appends, and taken to read  *)
(* the history.                                                            *)

MuFree(s) == \A q \in Requests : ~(pc[q] = "half" /\ sid[q] = s)

BeginTurn(r) ==
  /\ pc[r] = "validating"
  /\ MuFree(sid[r])
  /\ count[sid[r]] + 2 =< MaxMessages[sid[r]]
  /\ seen' = [seen EXCEPT ![r] = count[sid[r]]]
  /\ Goto(r, "generating")
  /\ UNCHANGED <<lifecycle, naming, sessions, turnSem, memory, disk, missed, sid,
                 batch, existing, snap>>

TurnFails(r) ==
  /\ pc[r] = "generating"
  /\ Goto(r, "persisting")
  /\ UNCHANGED <<lifecycle, naming, sessions, turnSem, memory, disk, missed, sid, locals>>

Store(r) ==
  LET s == sid[r]
  IN /\ history' = [history EXCEPT ![s] = AppendMessage(history[s], count[s] + 1)]
     /\ count' = [count EXCEPT ![s] = count[s] + 1]
     /\ UNCHANGED <<lifecycle, naming, sessions, turnSem, summary, drained,
                    disk, missed, sid, locals>>

AppendUser(r) ==
  /\ pc[r] = "generating"
  /\ MuFree(sid[r])
  /\ Store(r)
  /\ Goto(r, "half")

AppendAssistant(r) ==
  /\ pc[r] = "half"
  /\ Store(r)
  /\ Goto(r, "stored")

DrainOldestIfAbove(r) ==
  LET s == sid[r]
  IN /\ pc[r] = "stored"
     /\ history' = [history EXCEPT ![s] = Remaining(history[s])]
     /\ drained' = [drained EXCEPT ![s] = drained[s] + Len(Drained(history[s]))]
     /\ batch' = [batch EXCEPT ![r] = Drained(history[s])]
     /\ Goto(r, IF Drained(history[s]) = <<>> THEN "persisting" ELSE "drained")
     /\ UNCHANGED <<lifecycle, naming, sessions, turnSem, summary, count,
                    disk, missed, sid, seen, existing, snap>>

(* Compress reads the summary, calls the model, and sets the summary to    *)
(* the model's text: of the old one and the batch, or blank.  If the call  *)
(* fails the summary is left alone.                                        *)
CompressReads(r) ==
  /\ pc[r] = "drained"
  /\ existing' = [existing EXCEPT ![r] = summary[sid[r]]]
  /\ Goto(r, "compressing")
  /\ UNCHANGED <<lifecycle, naming, sessions, turnSem, memory, disk, missed, sid,
                 batch, seen, snap>>

EndCompress(r, text) ==
  /\ pc[r] = "compressing"
  /\ summary' = [summary EXCEPT ![sid[r]] = text]
  /\ batch' = [batch EXCEPT ![r] = <<>>]
  /\ existing' = [existing EXCEPT ![r] = {}]
  /\ Goto(r, "persisting")
  /\ UNCHANGED <<lifecycle, naming, sessions, turnSem, history, count, drained,
                 disk, missed, sid, seen, snap>>

CompressOkNoMerge(r) == EndCompress(r, Range(batch[r]))
CompressOk(r) == EndCompress(r, existing[r] \union Range(batch[r]))
CompressBlank(r) == EndCompress(r, {})
CompressFails(r) == EndCompress(r, summary[sid[r]])

-----------------------------------------------------------------------------
(* The handler has the final event: store.Persist looks the session up and *)
(* reads its history, reads its summary, and writes the row; then the      *)
(* client gets its answer and the handler returns.                         *)

PersistLookupNever(r) ==
  /\ pc[r] = "persisting"
  /\ Goto(r, "replying")
  /\ UNCHANGED <<lifecycle, naming, sessions, turnSem, memory, disk, missed, sid, locals>>
PersistLookup(r) ==
  LET s == sid[r]
  IN /\ pc[r] = "persisting"
     /\ IF persistent /\ s \in sessions
        THEN /\ snap' = [snap EXCEPT ![r] = {[Row(s) EXCEPT !.summary = {}]}]
             /\ Goto(r, "summarizing")
        ELSE /\ Goto(r, "replying")
             /\ UNCHANGED snap
     /\ UNCHANGED <<lifecycle, naming, sessions, turnSem, memory, disk, missed, sid,
                    batch, seen, existing>>

SnapshotSummary(r) ==
  /\ pc[r] = "summarizing"
  /\ snap' = [snap EXCEPT ![r] = {[row EXCEPT !.summary = summary[sid[r]]] : row \in snap[r]}]
  /\ Goto(r, "saving")
  /\ UNCHANGED <<lifecycle, naming, sessions, turnSem, memory, disk, missed, sid,
                 batch, seen, existing>>

Save(r) ==
  /\ pc[r] = "saving"
  /\ Write(sid[r], snap[r])
  /\ snap' = [snap EXCEPT ![r] = {}]
  /\ Goto(r, "replying")
  /\ UNCHANGED <<lifecycle, naming, sessions, turnSem, memory, sid, batch, seen, existing>>

EndTurn(r) ==
  /\ pc[r] = "replying"
  /\ ReleaseTurn(r)
  /\ seen' = [seen EXCEPT ![r] = 0]
  /\ UNCHANGED <<lifecycle, naming, sessions, memory, disk, missed, batch, existing, snap>>

-----------------------------------------------------------------------------
(* The server process. *)

(* main gets SIGINT or SIGTERM: no request is accepted any more. *)
Shutdown ==
  /\ server = "up"
  /\ server' = "draining"
  /\ UNCHANGED <<persistent, restarts, naming, sessions, turnSem, memory, disk, missed, pc, sid, locals>>

(* All handlers have returned, or the ten seconds of shutCtx are over. *)
CloseStore ==
  /\ server = "draining"
  /\ server' = "closed"
  /\ UNCHANGED <<persistent, restarts, naming, sessions, turnSem, memory, disk, missed, pc, sid, locals>>

(* main returns after Close, or the process dies at any time before. *)
ProcessEnds ==
  /\ server # "down"
  /\ server' = "down"
  /\ sessions' = {} /\ missed' = {}
  /\ turnSem' = [s \in Ids |-> "none"]
  /\ history' = [s \in Ids |-> <<>>] /\ summary' = [s \in Ids |-> {}]
  /\ count' = [s \in Ids |-> 0] /\ drained' = [s \in Ids |-> 0]
  /\ pc' = [r \in Requests |-> "idle"] /\ sid' = [r \in Requests |-> NoSession]
  /\ batch' = [r \in Requests |-> <<>>] /\ seen' = [r \in Requests |-> 0]
  /\ existing' = [r \in Requests |-> {}] /\ snap' = [r \in Requests |-> {}]
  /\ UNCHANGED <<persistent, restarts, naming, disk>>

Stored(s) == CHOOSE row \in disk[s] : TRUE
OnDisk(s) == disk[s] # {}

(* NewPersistentSessionStore loads every row; sessionFromSnapshot makes a  *)
(* session without a turnSem, which is the nil channel.                    *)
Restart ==
  /\ server = "down"
  /\ restarts < MaxRestarts
  /\ server' = "up" /\ restarts' = restarts + 1
  /\ sessions' = {s \in Ids : OnDisk(s)}
  /\ turnSem' = [s \in Ids |-> IF OnDisk(s) THEN "nil" ELSE "none"]
  /\ history' = [s \in Ids |-> IF OnDisk(s) THEN Trim(Stored(s).history) ELSE <<>>]
  /\ summary' = [s \in Ids |-> IF OnDisk(s) THEN Stored(s).summary ELSE {}]
  /\ count' = [s \in Ids |-> IF OnDisk(s) THEN Stored(s).count ELSE 0]
  /\ drained' = [s \in Ids |-> IF OnDisk(s) THEN Stored(s).drained ELSE 0]
  /\ UNCHANGED <<persistent, naming, disk, missed, pc, sid, locals>>

-----------------------------------------------------------------------------
(* The rest of a handler that has started, and the start of one. *)
Proceed(r) ==
  \/ CreateSave(r) \/ CreateReply(r) \/ DeleteRow(r)
  \/ AcquireTurn(r) \/ TurnRefused(r) \/ ReplyConflict(r) \/ TurnInvalid(r)
  \/ BeginTurn(r) \/ TurnFails(r) \/ AppendUser(r) \/ AppendAssistant(r)
  \/ DrainOldestIfAbove(r) \/ CompressReads(r)
  \/ CompressOk(r) \/ CompressBlank(r) \/ CompressFails(r)
  \/ PersistLookup(r) \/ SnapshotSummary(r) \/ Save(r) \/ EndTurn(r)

Arrive(r) == CreateInsert(r) \/ DeleteFromMap(r) \/ TurnLookup(r)

Next ==
  \/ \E r \in Requests : Arrive(r) \/ Proceed(r)
  \/ Shutdown \/ CloseStore \/ ProcessEnds \/ Restart

Spec == Init /\ [][Next]_vars

-----------------------------------------------------------------------------
Rows == [history : Seq(Nat), summary : SUBSET Nat, count : Nat, drained : Nat]

ControlTypeOK ==
  /\ persistent \in BOOLEAN
  /\ server \in {"up", "draining", "closed", "down"} /\ restarts \in Nat
  /\ used \in SUBSET Ids /\ known \in SUBSET used /\ deleted \in SUBSET used
  /\ sessions \in SUBSET used /\ missed \in SUBSET Ids
  /\ turnSem \in [Ids -> {"none", "nil", "free", "held"}]
  /\ pc \in [Requests -> Pcs]
  /\ sid \in [Requests -> Ids \union {NoSession}]
  /\ \A r \in Requests : pc[r] = "idle" <=> sid[r] = NoSession

MemoryTypeOK ==
  /\ history \in [Ids -> Seq(Nat)] /\ summary \in [Ids -> SUBSET Nat]
  /\ count \in [Ids -> Nat] /\ drained \in [Ids -> Nat]
  /\ disk \in [Ids -> SUBSET Rows]
  /\ batch \in [Requests -> Seq(Nat)] /\ seen \in [Requests -> Nat]
  /\ existing \in [Requests -> SUBSET Nat] /\ snap \in [Requests -> SUBSET Rows]

TypeOK == ControlTypeOK /\ MemoryTypeOK

Holds(r, s) == pc[r] \in InTurn /\ sid[r] = s

(* "serializes concurrent turns on this session": at most one request is   *)
(* between AcquireTurn and ReleaseTurn, and the semaphore is taken exactly *)
(* while there is one: no path out of createTurn keeps it.                 *)
OneTurnPerSession ==
  \A s \in Ids :
    /\ \A r, q \in Requests : Holds(r, s) /\ Holds(q, s) => r = q
    /\ turnSem[s] = "held" <=> \E r \in Requests : Holds(r, s)

(* What a turn read before it waited for the model is still so when it     *)
(* writes: the conversation its prompt was built from has not moved on,    *)
(* and the summary it merges the batch into is the one it read.            *)
NothingReadIsStale ==
  \A r \in Requests :
    /\ pc[r] = "generating" => seen[r] = count[sid[r]]
    /\ pc[r] = "compressing" => existing[r] = summary[sid[r]]

(* A client that has its answer can rely on the disk: unless the write     *)
(* failed or the session is being deleted, the row is the session as it is *)
(* in memory, from before the answer until the next turn stores something. *)
AnsweredIsDurable ==
  \A s \in sessions \ missed :
    \/ ~persistent
    \/ \E r \in Requests :
         sid[r] = s /\ pc[r] \in {"creating"} \union (Storing \ {"generating"})
    \/ disk[s] = {Row(s)}

(* A snapshot joins the history and the summary of the same moment,        *)
(* although it reads them one after the other under separate locks.        *)
SnapshotIsNotTorn ==
  \A r \in Requests : pc[r] = "saving" => snap[r] = {Row(sid[r])}

(* A turn is refused only when "another turn is already in progress".      *)
RefusedOnlyWhenBusy ==
  [][\A r \in Requests :
       pc[r] = "found" /\ pc'[r] = "refused" =>
         \E q \in Requests : Holds(q, sid[r])]_vars

(* A session whose DELETE was answered after its row was removed without    *)
(* an error has no row that brings it back when the store is loaded again. *)
DeleteIsFinal == \A s \in deleted : disk[s] = {}

-----------------------------------------------------------------------------
(* Every session behaves like SessionMemory.  Its phase is the statement   *)
(* of the request that holds it; before it is created a session is as      *)
(* Create makes it, and without an object in the process it is absent.     *)
Holder(s) == {r \in Requests : sid[r] = s /\ pc[r] \in {"creating"} \union Storing}

PhaseOf(statement) ==
  CASE statement \in {"generating", "half", "stored"} -> statement
    [] statement \in {"drained", "compressing"} -> "compressing"
    [] OTHER -> "unsaved"

Phase(s) ==
  IF s \notin used THEN "unsaved"
  ELSE IF turnSem[s] = "none" THEN "absent"
  ELSE IF Holder(s) = {} THEN "idle"
  ELSE PhaseOf(pc[CHOOSE r \in Holder(s) : TRUE])

BatchOf(s) == IF Holder(s) = {} THEN <<>> ELSE batch[CHOOSE r \in Holder(s) : TRUE]

Memory(s) == INSTANCE SessionMemory WITH
  MaxMessages <- MaxMessages[s], phase <- Phase(s),
  history <- history[s], summary <- summary[s], batch <- BatchOf(s),
  count <- count[s], drained <- drained[s], saved <- disk[s]

(* Each session starts as SessionMemory does, and each step of the server  *)
(* is a step of SessionMemory or no step for each session.                 *)
EverySessionIsAMemory ==
  /\ \A s \in Ids : Memory(s)!Init
  /\ [][\A s \in Ids : [Memory(s)!Next]_(Memory(s)!vars)]_vars
=============================================================================
