------------------------- MODULE SessionStoreProofs -------------------------
(***************************************************************************)
(* Theorems about SessionStore, for any number of sessions, of concurrent  *)
(* requests, of restarts and of messages, with or without a bucket.        *)
(***************************************************************************)
EXTENDS SessionStore, ShortTermProofs

USE NoSessionAssumption

(* A started request works on an id that was drawn; before an id is drawn  *)
(* its session has no semaphore; and a process that is down runs nothing.  *)
Started ==
  /\ \A r \in Requests : pc[r] # "idle" => sid[r] \in used
  /\ server = "down" => \A r \in Requests : pc[r] = "idle"

(* Only an id that was drawn has a row, so a reload makes no new session. *)
RowsUsed ==
  /\ DOMAIN disk = Ids
  /\ \A s \in Ids : disk[s] # {} => s \in used

MutexInv == ControlTypeOK /\ Started /\ RowsUsed /\ OneTurnPerSession

LEMMA MutexInit == Init => MutexInv
BY DEF Init, MutexInv, ControlTypeOK, Started, RowsUsed, OneTurnPerSession, Holds,
   Pcs, InTurn, Storing

(* A write to the bucket gives a row to no other id than its own. *)
LEMMA WriteRows ==
  ASSUME RowsUsed, NEW s \in used, NEW rows, Write(s, rows), UNCHANGED used
  PROVE  RowsUsed'
BY DEF RowsUsed, Write

(* A step that changes neither semaphores nor ids, and moves one request   *)
(* that does not enter or leave its turn.                                  *)
LEMMA InnerStep ==
  ASSUME MutexInv, NEW r \in Requests, NEW statement \in Pcs \ {"idle"},
         pc[r] # "idle", pc[r] \in InTurn <=> statement \in InTurn,
         Goto(r, statement), UNCHANGED <<turnSem, sid, used, server>>,
         ControlTypeOK', RowsUsed'
  PROVE  MutexInv'
<1>1. ControlTypeOK /\ Started /\ RowsUsed /\ OneTurnPerSession
  BY DEF MutexInv
<1>2. \A q \in Requests : /\ pc'[q] \in InTurn <=> pc[q] \in InTurn
                          /\ pc'[q] = "idle" <=> pc[q] = "idle"
  BY <1>1 DEF ControlTypeOK, Goto
<1>3. Started'
  BY <1>1, <1>2 DEF Started
<1>4. OneTurnPerSession'
  BY <1>1, <1>2 DEF OneTurnPerSession, Holds
<1> QED
  BY <1>3, <1>4 DEF MutexInv

(* The steps inside a turn, inside createSession, and the refusal. *)
LEMMA ProceedInv ==
  ASSUME MutexInv, NEW r \in Requests,
         \/ CreateSave(r) \/ TurnRefused(r) \/ BeginTurn(r) \/ TurnFails(r)
         \/ AppendUser(r) \/ AppendAssistant(r) \/ DrainOldestIfAbove(r)
         \/ CompressReads(r) \/ CompressOk(r) \/ CompressBlank(r) \/ CompressFails(r)
         \/ PersistLookup(r) \/ SnapshotSummary(r) \/ Save(r)
  PROVE  MutexInv'
<1>1. ControlTypeOK
  BY DEF MutexInv
<1>2. /\ UNCHANGED <<lifecycle, naming, sessions, turnSem, sid>>
      /\ missed' \in SUBSET Ids
      /\ \E statement \in Pcs \ {"idle"} :
           /\ Goto(r, statement)
           /\ pc[r] # "idle"
           /\ pc[r] \in InTurn <=> statement \in InTurn
  <2> USE <1>1 DEF ControlTypeOK, Pcs, InTurn, Storing, naming, lifecycle
  <2>1. CASE CreateSave(r)
    BY <2>1 DEF CreateSave, Write
  <2>2. CASE TurnRefused(r)
    BY <2>2 DEF TurnRefused
  <2>3. CASE BeginTurn(r) \/ TurnFails(r)
    BY <2>3 DEF BeginTurn, TurnFails
  <2>4. CASE AppendUser(r) \/ AppendAssistant(r)
    BY <2>4 DEF AppendUser, AppendAssistant, Store
  <2>5. CASE DrainOldestIfAbove(r)
    BY <2>5 DEF DrainOldestIfAbove
  <2>6. CASE CompressReads(r)
    BY <2>6 DEF CompressReads
  <2>7. CASE CompressOk(r) \/ CompressBlank(r) \/ CompressFails(r)
    BY <2>7 DEF CompressOk, CompressBlank, CompressFails, EndCompress
  <2>8. CASE PersistLookup(r)
    BY <2>8 DEF PersistLookup
  <2>9. CASE SnapshotSummary(r)
    BY <2>9 DEF SnapshotSummary
  <2>10. CASE Save(r)
    BY <2>10 DEF Save, Write
  <2> QED
    BY <2>1, <2>2, <2>3, <2>4, <2>5, <2>6, <2>7, <2>8, <2>9, <2>10
<1>3. PICK statement \in Pcs \ {"idle"} :
        /\ Goto(r, statement)
        /\ pc[r] # "idle"
        /\ pc[r] \in InTurn <=> statement \in InTurn
  BY <1>2
<1>4. ControlTypeOK'
  BY <1>1, <1>2, <1>3 DEF ControlTypeOK, Goto, naming, lifecycle
<1>5. RowsUsed'
  <2>1. RowsUsed /\ sid[r] \in used /\ UNCHANGED used
    BY <1>2, <1>3 DEF MutexInv, Started, naming
  <2>2. CASE CreateSave(r)
    BY <2>1, <2>2, WriteRows DEF CreateSave
  <2>3. CASE Save(r)
    BY <2>1, <2>3, WriteRows DEF Save
  <2>4. CASE UNCHANGED disk
    BY <2>1, <2>4 DEF RowsUsed
  <2>5. CreateSave(r) \/ Save(r) \/ UNCHANGED disk
    BY DEF TurnRefused, BeginTurn, TurnFails, AppendUser, AppendAssistant, Store,
       DrainOldestIfAbove, CompressReads, CompressOk, CompressBlank, CompressFails,
       EndCompress, PersistLookup, SnapshotSummary
  <2> QED
    BY <2>2, <2>3, <2>4, <2>5
<1> QED
  BY <1>2, <1>3, <1>4, <1>5, InnerStep DEF naming, lifecycle

(* A handler that starts gets a slot that held nothing; createSession may  *)
(* also make a new semaphore, for an id nobody works on.                   *)
LEMMA ArriveInv ==
  ASSUME MutexInv, NEW r \in Requests, Arrive(r)
  PROVE  MutexInv'
<1>1. ControlTypeOK /\ Started /\ RowsUsed /\ OneTurnPerSession
  BY DEF MutexInv
<1>2. CASE CreateInsert(r)
  <2>1. PICK s \in Ids \ used :
          /\ used' = used \union {s}
          /\ sessions' = sessions \union {s}
          /\ turnSem' = [turnSem EXCEPT ![s] = "free"]
          /\ Start(r, s, "creating")
    BY <1>2 DEF CreateInsert
  <2>2. ControlTypeOK'
    BY <1>1, <1>2, <2>1 DEF ControlTypeOK, CreateInsert, Start, Goto, Pcs, lifecycle
  <2>3. Started'
    BY <1>1, <1>2, <2>1 DEF ControlTypeOK, Started, CreateInsert, Start, Goto, Accept, lifecycle
  <2>4. \A q \in Requests, t \in Ids :
          /\ Holds(q, t)' <=> Holds(q, t)
          /\ Holds(q, t) => t # s
    BY <1>1, <1>2, <2>1
       DEF ControlTypeOK, Started, CreateInsert, Accept, Holds, Start, Goto, InTurn, Storing
  <2>5. OneTurnPerSession'
    BY <1>1, <2>1, <2>4 DEF ControlTypeOK, OneTurnPerSession
  <2>6. RowsUsed'
    BY <1>1, <1>2, <2>1 DEF RowsUsed, CreateInsert
  <2> QED
    BY <2>2, <2>3, <2>5, <2>6 DEF MutexInv
<1>3. CASE DeleteFromMap(r) \/ TurnLookup(r)
  <2>1. PICK s \in known, statement \in {"deleting", "found"} : Start(r, s, statement)
    BY <1>3 DEF DeleteFromMap, TurnLookup
  <2>2. ControlTypeOK'
    <3>1. s \in Ids /\ s # NoSession /\ s \in used
      BY <1>1, <2>1 DEF ControlTypeOK
    <3>2. /\ UNCHANGED <<persistent, server, restarts, used, known, deleted, turnSem, missed>>
          /\ sessions' \subseteq sessions
      BY <1>3 DEF DeleteFromMap, TurnLookup, lifecycle, naming
    <3>3. /\ pc' \in [Requests -> Pcs] /\ sid' \in [Requests -> Ids \union {NoSession}]
          /\ \A q \in Requests : pc'[q] = "idle" <=> sid'[q] = NoSession
      BY <1>1, <2>1, <3>1 DEF ControlTypeOK, Start, Goto, Pcs
    <3> QED
      BY <1>1, <3>2, <3>3 DEF ControlTypeOK
  <2>3. Started'
    BY <1>1, <1>3, <2>1
       DEF ControlTypeOK, Started, DeleteFromMap, TurnLookup, Start, Goto, Accept, lifecycle, naming
  <2>4. \A q \in Requests, t \in Ids : Holds(q, t)' <=> Holds(q, t)
    BY <1>1, <1>3, <2>1
       DEF ControlTypeOK, DeleteFromMap, TurnLookup, Accept, Holds, Start, Goto, InTurn, Storing
  <2>5. OneTurnPerSession'
    BY <1>1, <1>3, <2>4 DEF OneTurnPerSession, DeleteFromMap, TurnLookup
  <2>6. RowsUsed'
    BY <1>1, <1>3 DEF RowsUsed, DeleteFromMap, TurnLookup, naming
  <2> QED
    BY <2>2, <2>3, <2>5, <2>6 DEF MutexInv
<1> QED
  BY <1>2, <1>3 DEF Arrive

(* A handler that returns without having entered its turn. *)
LEMMA LeaveInv ==
  ASSUME MutexInv, NEW r \in Requests, CreateReply(r) \/ DeleteRow(r) \/ ReplyConflict(r)
  PROVE  MutexInv'
<1>1. ControlTypeOK /\ Started /\ RowsUsed /\ OneTurnPerSession
  BY DEF MutexInv
<1>2. Finish(r) /\ UNCHANGED <<lifecycle, used, turnSem>> /\ pc[r] \notin InTurn
  BY DEF CreateReply, DeleteRow, ReplyConflict, naming, InTurn, Storing
<1>3. sid[r] \in Ids
  BY <1>1 DEF ControlTypeOK, CreateReply, DeleteRow, ReplyConflict
<1>4. ControlTypeOK'
  <2>1. CASE CreateReply(r)
    BY <1>1, <1>2, <1>3, <2>1
       DEF ControlTypeOK, Started, CreateReply, Finish, Start, Goto, Pcs, lifecycle
  <2>2. CASE DeleteRow(r)
    <3>1. missed' \in SUBSET Ids /\ deleted' \in SUBSET used
      BY <1>1, <1>3, <2>2 DEF ControlTypeOK, Started, DeleteRow, Write
    <3>2. UNCHANGED <<lifecycle, used, known, sessions, turnSem>>
      BY <2>2 DEF DeleteRow
    <3> QED
      BY <1>1, <1>2, <3>1, <3>2 DEF ControlTypeOK, Finish, Start, Goto, Pcs, lifecycle
  <2>3. CASE ReplyConflict(r)
    BY <1>1, <1>2, <2>3 DEF ControlTypeOK, ReplyConflict, Finish, Start, Goto, Pcs, lifecycle, naming
  <2> QED
    BY <2>1, <2>2, <2>3
<1>5. Started'
  BY <1>1, <1>2 DEF ControlTypeOK, Started, Finish, Start, Goto, lifecycle
<1>6. \A q \in Requests, t \in Ids : Holds(q, t)' <=> Holds(q, t)
  BY <1>1, <1>2 DEF ControlTypeOK, Holds, Finish, Start, Goto, InTurn, Storing
<1>7. OneTurnPerSession'
  BY <1>1, <1>2, <1>6 DEF OneTurnPerSession
<1>8. RowsUsed'
  <2>1. pc[r] # "idle" => sid[r] \in used
    BY <1>1 DEF Started
  <2>2. CASE DeleteRow(r)
    BY <1>1, <1>2, <2>1, <2>2, WriteRows DEF DeleteRow
  <2>3. CASE UNCHANGED disk
    BY <1>1, <1>2, <2>3 DEF RowsUsed
  <2> QED
    BY <2>2, <2>3 DEF CreateReply, ReplyConflict
<1> QED
  BY <1>4, <1>5, <1>7, <1>8 DEF MutexInv

(* AcquireTurn succeeds only on a free semaphore, so nobody holds it. *)
LEMMA AcquireInv ==
  ASSUME MutexInv, NEW r \in Requests, AcquireTurn(r)
  PROVE  MutexInv'
<1>1. ControlTypeOK /\ Started /\ RowsUsed /\ OneTurnPerSession
  BY DEF MutexInv
<1> DEFINE s == sid[r]
<1>2. s \in Ids /\ turnSem[s] = "free" /\ turnSem' = [turnSem EXCEPT ![s] = "held"]
  BY <1>1 DEF ControlTypeOK, Started, AcquireTurn
<1>3. ControlTypeOK'
  BY <1>1, <1>2 DEF ControlTypeOK, AcquireTurn, Goto, Pcs, InTurn, lifecycle, naming
<1>4. Started'
  BY <1>1 DEF ControlTypeOK, Started, AcquireTurn, Goto, lifecycle, naming
<1>5. \A q \in Requests, t \in Ids :
        /\ Holds(q, t)' <=> Holds(q, t) \/ (q = r /\ t = s)
        /\ ~Holds(q, s)
  BY <1>1, <1>2 DEF ControlTypeOK, OneTurnPerSession, AcquireTurn, Holds, Goto, InTurn, Storing
<1>6. OneTurnPerSession'
  BY <1>1, <1>2, <1>5 DEF ControlTypeOK, OneTurnPerSession
<1>7. RowsUsed'
  BY <1>1 DEF RowsUsed, AcquireTurn, naming
<1> QED
  BY <1>3, <1>4, <1>6, <1>7 DEF MutexInv

(* ReleaseTurn, on every way out of createTurn after AcquireTurn. *)
LEMMA ReleaseInv ==
  ASSUME MutexInv, NEW r \in Requests, TurnInvalid(r) \/ EndTurn(r)
  PROVE  MutexInv'
<1>1. ControlTypeOK /\ Started /\ RowsUsed /\ OneTurnPerSession
  BY DEF MutexInv
<1> DEFINE s == sid[r]
<1>2. /\ ReleaseTurn(r) /\ pc[r] \in InTurn /\ s \in Ids
      /\ UNCHANGED <<lifecycle, naming, sessions, missed>>
  BY <1>1 DEF ControlTypeOK, Started, TurnInvalid, EndTurn, InTurn
<1>3. ControlTypeOK'
  BY <1>1, <1>2 DEF ControlTypeOK, ReleaseTurn, Finish, Start, Goto, Pcs, lifecycle, naming
<1>4. Started'
  BY <1>1, <1>2 DEF ControlTypeOK, Started, ReleaseTurn, Finish, Start, Goto, lifecycle, naming
<1>5. \A q \in Requests, t \in Ids :
        /\ Holds(q, t)' <=> Holds(q, t) /\ q # r
        /\ Holds(q, s) <=> q = r
        /\ Holds(r, t) => t = s
  BY <1>1, <1>2 DEF ControlTypeOK, OneTurnPerSession, ReleaseTurn, Holds, Finish, Start, Goto,
     InTurn, Storing
<1>6. OneTurnPerSession'
  BY <1>1, <1>2, <1>5 DEF ControlTypeOK, OneTurnPerSession, ReleaseTurn
<1>7. RowsUsed'
  BY <1>1 DEF RowsUsed, TurnInvalid, EndTurn, naming
<1> QED
  BY <1>3, <1>4, <1>6, <1>7 DEF MutexInv

(* Shutdown, crash and restart: when the process ends every handler and    *)
(* every semaphore goes with it, and a reload makes only nil ones.         *)
LEMMA ServerInv ==
  ASSUME MutexInv, Shutdown \/ CloseStore \/ ProcessEnds \/ Restart \/ UNCHANGED vars
  PROVE  MutexInv'
<1>1. ControlTypeOK /\ Started /\ RowsUsed /\ OneTurnPerSession
  BY DEF MutexInv
<1>2. CASE Shutdown \/ CloseStore \/ UNCHANGED vars
  BY <1>1, <1>2 DEF MutexInv, ControlTypeOK, Started, RowsUsed, OneTurnPerSession, Holds,
     Shutdown, CloseStore, naming, lifecycle, vars
<1>3. CASE ProcessEnds
  BY <1>1, <1>3 DEF MutexInv, ControlTypeOK, Started, RowsUsed, OneTurnPerSession, Holds,
     ProcessEnds, naming, Pcs, InTurn, Storing
<1>4. CASE Restart
  <2>1. \A s \in Ids : turnSem'[s] \in {"none", "nil"}
    BY <1>4 DEF Restart
  <2>2. \A r \in Requests : pc'[r] = "idle" /\ pc[r] = "idle"
    BY <1>1, <1>4 DEF Restart, Started
  <2>3. \A q \in Requests, t \in Ids : ~Holds(q, t)'
    BY <2>2 DEF Holds, InTurn, Storing
  <2>4. OneTurnPerSession'
    BY <2>1, <2>3 DEF OneTurnPerSession
  <2>5. Started' /\ RowsUsed'
    BY <1>1, <1>4, <2>2 DEF Started, RowsUsed, Restart, naming
  <2>6. ControlTypeOK'
    <3>1. sessions' \subseteq used
      BY <1>1, <1>4 DEF RowsUsed, Restart, OnDisk
    <3>2. turnSem' \in [Ids -> {"none", "nil", "free", "held"}]
      BY <1>4 DEF Restart
    <3>3. server' = "up" /\ restarts' \in Nat
      BY <1>1, <1>4 DEF ControlTypeOK, Restart
    <3> QED
      BY <1>1, <1>4, <3>1, <3>2, <3>3 DEF ControlTypeOK, Restart, naming
  <2> QED
    BY <2>4, <2>5, <2>6 DEF MutexInv
<1> QED
  BY <1>2, <1>3, <1>4

LEMMA MutexInvariant == Spec => []MutexInv
<1>1. Init => MutexInv
  BY MutexInit
<1>2. MutexInv /\ [Next]_vars => MutexInv'
  BY ProceedInv, ArriveInv, LeaveInv, AcquireInv, ReleaseInv, ServerInv DEF Next, Proceed
<1> QED
  BY <1>1, <1>2, PTL DEF Spec

(* At most one turn runs on a session, and the semaphore is taken exactly  *)
(* while one does: for all sessions, requests, crashes and deletions.      *)
THEOREM StoreOneTurnPerSession == Spec => []OneTurnPerSession
<1>1. MutexInv => OneTurnPerSession
  BY DEF MutexInv
<1> QED
  BY <1>1, MutexInvariant, PTL

-----------------------------------------------------------------------------
(* The types of the sessions' memories, of the rows and of what a turn     *)
(* holds.  They rest on the control part only to know that a started       *)
(* request works on an id.                                                 *)

LEMMA RowType ==
  ASSUME MemoryTypeOK, NEW s \in Ids
  PROVE  Row(s) \in Rows
BY DEF MemoryTypeOK, Row, Rows

LEMMA WriteType ==
  ASSUME MemoryTypeOK, NEW s, NEW rows \in SUBSET Rows, Write(s, rows)
  PROVE  disk' \in [Ids -> SUBSET Rows]
BY DEF MemoryTypeOK, Write

(* The steps of a turn, which need the id. *)
LEMMA TurnTypes ==
  ASSUME MemoryTypeOK, NEW r \in Requests, sid[r] \in Ids,
         \/ BeginTurn(r) \/ AppendUser(r) \/ AppendAssistant(r)
         \/ DrainOldestIfAbove(r) \/ CompressReads(r)
         \/ CompressOk(r) \/ CompressBlank(r) \/ CompressFails(r)
         \/ PersistLookup(r) \/ SnapshotSummary(r) \/ Save(r) \/ EndTurn(r)
  PROVE  MemoryTypeOK'
<1> USE DEF MemoryTypeOK
<1>1. CASE BeginTurn(r) \/ EndTurn(r)
  <2>1. count[sid[r]] \in Nat
    OBVIOUS
  <2>2. seen' \in [Requests -> Nat]
    BY <1>1, <2>1 DEF BeginTurn, EndTurn
  <2>3. UNCHANGED <<memory, disk, batch, existing, snap>>
    BY <1>1 DEF BeginTurn, EndTurn
  <2> QED
    BY <2>2, <2>3 DEF memory
<1>2. CASE AppendUser(r) \/ AppendAssistant(r)
  <2>1. history[sid[r]] \in Seq(Nat) /\ count[sid[r]] + 1 \in Nat
    OBVIOUS
  <2>2. AppendMessage(history[sid[r]], count[sid[r]] + 1) \in Seq(Nat)
    BY <2>1, HistoryTypes
  <2>3. Store(r)
    BY <1>2 DEF AppendUser, AppendAssistant
  <2>4. history' \in [Ids -> Seq(Nat)] /\ count' \in [Ids -> Nat]
    BY <2>1, <2>2, <2>3 DEF Store
  <2>5. UNCHANGED <<summary, drained, disk, locals>>
    BY <2>3 DEF Store
  <2> QED
    BY <2>4, <2>5 DEF locals
<1>3. CASE DrainOldestIfAbove(r)
  <2>1. /\ Drained(history[sid[r]]) \in Seq(Nat)
        /\ Remaining(history[sid[r]]) \in Seq(Nat)
    <3>1. history[sid[r]] \in Seq(Nat) /\ 0 \in Nat
      OBVIOUS
    <3> QED
      BY <3>1, HistoryTypes
  <2> QED
    BY <1>3, <2>1 DEF DrainOldestIfAbove
<1>4. CASE CompressReads(r)
  BY <1>4 DEF CompressReads, memory
<1>5. CASE CompressOk(r) \/ CompressBlank(r) \/ CompressFails(r)
  <2>1. Range(batch[r]) \in SUBSET Nat
    BY ElementOfSeq DEF Range
  <2>2. PICK text \in SUBSET Nat : EndCompress(r, text)
    BY <1>5, <2>1 DEF CompressOk, CompressBlank, CompressFails
  <2> QED
    BY <2>2 DEF EndCompress
<1>6. CASE PersistLookup(r)
  <2>1. [Row(sid[r]) EXCEPT !.summary = {}] \in Rows
    BY DEF Row, Rows
  <2>2. PICK row \in Rows : snap' = snap \/ snap' = [snap EXCEPT ![r] = {row}]
    BY <1>6, <2>1 DEF PersistLookup
  <2>3. {row} \in SUBSET Rows
    OBVIOUS
  <2>4. snap' \in [Requests -> SUBSET Rows]
    BY <2>2, <2>3
  <2>5. UNCHANGED <<memory, disk, batch, seen, existing>>
    BY <1>6 DEF PersistLookup
  <2> QED
    BY <2>4, <2>5 DEF memory
<1>7. CASE SnapshotSummary(r)
  <2> DEFINE rows == {[row EXCEPT !.summary = summary[sid[r]]] : row \in snap[r]}
  <2>1. summary[sid[r]] \in SUBSET Nat /\ snap[r] \in SUBSET Rows
    OBVIOUS
  <2>2. ASSUME NEW row \in Rows
        PROVE  [row EXCEPT !.summary = summary[sid[r]]] \in Rows
    BY <2>1 DEF Rows
  <2>3. rows \in SUBSET Rows
    BY <2>1, <2>2
  <2>4. snap' = [snap EXCEPT ![r] = rows]
    BY <1>7 DEF SnapshotSummary
  <2> HIDE DEF rows
  <2>5. snap' \in [Requests -> SUBSET Rows]
    BY <2>3, <2>4
  <2>6. UNCHANGED <<memory, disk, batch, seen, existing>>
    BY <1>7 DEF SnapshotSummary
  <2> QED
    BY <2>5, <2>6 DEF memory
<1>8. CASE Save(r)
  <2>1. disk' \in [Ids -> SUBSET Rows]
    BY <1>8, WriteType DEF Save
  <2> QED
    BY <1>8, <2>1 DEF Save, memory
<1> QED
  BY <1>1, <1>2, <1>3, <1>4, <1>5, <1>6, <1>7, <1>8

(* The other steps of a handler. *)
LEMMA HandlerTypes ==
  ASSUME MemoryTypeOK, NEW r \in Requests, sid[r] \in Ids,
         \/ CreateSave(r) \/ CreateReply(r) \/ DeleteRow(r) \/ AcquireTurn(r)
         \/ TurnRefused(r) \/ ReplyConflict(r) \/ TurnInvalid(r) \/ TurnFails(r)
  PROVE  MemoryTypeOK'
<1>1. UNCHANGED <<memory, locals>>
  BY DEF CreateSave, CreateReply, DeleteRow, AcquireTurn, TurnRefused, ReplyConflict,
     TurnInvalid, TurnFails
<1>2. disk' \in [Ids -> SUBSET Rows]
  <2>1. CASE CreateSave(r)
    BY <2>1, WriteType, RowType DEF CreateSave
  <2>2. CASE DeleteRow(r)
    BY <2>2, WriteType DEF DeleteRow
  <2>3. CASE UNCHANGED disk
    BY <2>3 DEF MemoryTypeOK
  <2> QED
    BY <2>1, <2>2, <2>3 DEF CreateReply, AcquireTurn, TurnRefused, ReplyConflict,
       TurnInvalid, TurnFails
<1> QED
  BY <1>1, <1>2 DEF MemoryTypeOK, memory, locals

LEMMA ServerTypes ==
  ASSUME MemoryTypeOK,
         \/ \E r \in Requests : Arrive(r)
         \/ Shutdown \/ CloseStore \/ ProcessEnds \/ Restart \/ UNCHANGED vars
  PROVE  MemoryTypeOK'
<1> USE DEF MemoryTypeOK
<1>1. CASE UNCHANGED <<memory, locals, disk>>
  BY <1>1 DEF memory, locals
<1>2. CASE ProcessEnds
  BY <1>2 DEF ProcessEnds
<1>3. CASE Restart
  <2>1. \A s \in Ids : OnDisk(s) => Stored(s) \in Rows
    BY DEF OnDisk, Stored
  <2>2. \A s \in Ids : OnDisk(s) =>
          /\ Stored(s).history \in Seq(Nat) /\ Stored(s).summary \in SUBSET Nat
          /\ Stored(s).count \in Nat /\ Stored(s).drained \in Nat
    BY <2>1 DEF Rows
  <2>3. \A s \in Ids : OnDisk(s) => Trim(Stored(s).history) \in Seq(Nat)
    BY <2>2, HistoryTypes
  <2> HIDE DEF MemoryTypeOK
  <2>4. /\ history' \in [Ids -> Seq(Nat)] /\ summary' \in [Ids -> SUBSET Nat]
        /\ count' \in [Ids -> Nat] /\ drained' \in [Ids -> Nat]
    BY <1>3, <2>2, <2>3 DEF Restart
  <2> QED
    BY <1>3, <2>4 DEF Restart, locals, MemoryTypeOK
<1> QED
  BY <1>1, <1>2, <1>3 DEF Arrive, CreateInsert, DeleteFromMap, TurnLookup,
     Shutdown, CloseStore, vars

(* Every variable keeps its type. *)
THEOREM StoreTypeOK == Spec => []TypeOK
<1>1. Init => MemoryTypeOK
  BY DEF Init, MemoryTypeOK
<1>2. ASSUME MutexInv, MemoryTypeOK, [Next]_vars
      PROVE  MemoryTypeOK'
  <2>1. ASSUME NEW r \in Requests, Proceed(r)
        PROVE  MemoryTypeOK'
    <3>1. pc[r] # "idle"
      BY <2>1 DEF Proceed, CreateSave, CreateReply, DeleteRow, AcquireTurn, TurnRefused,
         ReplyConflict, TurnInvalid, BeginTurn, TurnFails, AppendUser, AppendAssistant,
         DrainOldestIfAbove, CompressReads, CompressOk, CompressBlank, CompressFails,
         EndCompress, PersistLookup, SnapshotSummary, Save, EndTurn
    <3>2. sid[r] \in Ids
      BY <1>2, <3>1 DEF MutexInv, ControlTypeOK, Started
    <3> QED
      BY <1>2, <2>1, <3>2, TurnTypes, HandlerTypes DEF Proceed
  <2> QED
    BY <1>2, <2>1, ServerTypes DEF Next
<1>3. MutexInv => ControlTypeOK
  BY DEF MutexInv
<1> QED
  BY <1>1, <1>2, <1>3, MutexInvariant, PTL DEF Spec, TypeOK

-----------------------------------------------------------------------------
(***************************************************************************)
(* What a turn reads is not stale when it is used, a snapshot is of one    *)
(* moment, and an answered turn is on the disk.                            *)
(***************************************************************************)

(* The statements that use something read earlier. *)
Reading == {"generating", "compressing", "summarizing", "saving"}

WithoutSummary(s) == [Row(s) EXCEPT !.summary = {}]

LEMMA SummaryOfRow ==
  ASSUME NEW h, NEW u, NEW c, NEW d, NEW v
  PROVE  [[history |-> h, summary |-> u, count |-> c, drained |-> d] EXCEPT !.summary = v]
           = [history |-> h, summary |-> v, count |-> c, drained |-> d]
OBVIOUS

(* What request r has read of its session is still so. *)
Fresh(r) ==
  /\ pc[r] = "generating" => seen[r] = count[sid[r]]
  /\ pc[r] = "compressing" => existing[r] = summary[sid[r]]
  /\ pc[r] = "summarizing" => snap[r] = {WithoutSummary(sid[r])}
  /\ pc[r] = "saving" => snap[r] = {Row(sid[r])}

ReadsInv == \A r \in Requests : Fresh(r)

BaseInv == MutexInv /\ MemoryTypeOK

LEMMA BaseInvariant == Spec => []BaseInv
<1>1. TypeOK => MemoryTypeOK
  BY DEF TypeOK
<1> QED
  BY <1>1, MutexInvariant, StoreTypeOK, PTL DEF BaseInv

MemoryKept(s) ==
  /\ history'[s] = history[s] /\ summary'[s] = summary[s]
  /\ count'[s] = count[s] /\ drained'[s] = drained[s]

(* A request changes the memory of its own session, and only in its turn. *)
LEMMA OwnMemory ==
  ASSUME BaseInv, NEW r \in Requests, Arrive(r) \/ Proceed(r),
         NEW s \in Ids, pc[r] \in InTurn => s # sid[r]
  PROVE  MemoryKept(s)
<1> USE DEF MemoryKept, memory
<1>0. MemoryTypeOK
  BY DEF BaseInv
<1>1. CASE Arrive(r)
  BY <1>1 DEF Arrive, CreateInsert, DeleteFromMap, TurnLookup
<1>2. CASE \/ CreateSave(r) \/ CreateReply(r) \/ DeleteRow(r) \/ AcquireTurn(r) \/ TurnRefused(r)
           \/ ReplyConflict(r) \/ TurnInvalid(r) \/ BeginTurn(r) \/ TurnFails(r) \/ CompressReads(r)
           \/ PersistLookup(r) \/ SnapshotSummary(r) \/ Save(r) \/ EndTurn(r)
  BY <1>2 DEF CreateSave, CreateReply, DeleteRow, AcquireTurn, TurnRefused, ReplyConflict, TurnInvalid,
     BeginTurn, TurnFails, CompressReads, PersistLookup, SnapshotSummary, Save, EndTurn
<1>3. CASE AppendUser(r) \/ AppendAssistant(r)
  <2>1. Store(r) /\ s # sid[r]
    BY <1>3 DEF AppendUser, AppendAssistant, InTurn, Storing
  <2> QED
    BY <1>0, <2>1 DEF Store, MemoryTypeOK
<1>4. CASE DrainOldestIfAbove(r)
  <2>1. s # sid[r]
    BY <1>4 DEF DrainOldestIfAbove, InTurn, Storing
  <2> QED
    BY <1>0, <1>4, <2>1 DEF DrainOldestIfAbove, MemoryTypeOK
<1>5. CASE CompressOk(r) \/ CompressBlank(r) \/ CompressFails(r)
  <2>1. PICK text : EndCompress(r, text)
    BY <1>5 DEF CompressOk, CompressBlank, CompressFails
  <2>2. s # sid[r]
    BY <2>1 DEF EndCompress, InTurn, Storing
  <2> QED
    BY <1>0, <2>1, <2>2 DEF EndCompress, MemoryTypeOK
<1> QED
  BY <1>1, <1>2, <1>3, <1>4, <1>5 DEF Proceed

(* A request changes the locals of no other. *)
LocalsKept(q) ==
  /\ pc'[q] = pc[q] /\ sid'[q] = sid[q]
  /\ seen'[q] = seen[q] /\ existing'[q] = existing[q] /\ snap'[q] = snap[q]

LEMMA OwnLocals ==
  ASSUME BaseInv, NEW r \in Requests, Arrive(r) \/ Proceed(r), NEW q \in Requests, q # r
  PROVE  LocalsKept(q)
<1> USE DEF LocalsKept, locals, Goto
<1>0. ControlTypeOK /\ MemoryTypeOK
  BY DEF BaseInv, MutexInv
<1> USE <1>0 DEF ControlTypeOK, MemoryTypeOK
<1>1. CASE Arrive(r)
  BY <1>1 DEF Arrive, CreateInsert, DeleteFromMap, TurnLookup, Start
<1>2. CASE CreateSave(r) \/ CreateReply(r) \/ DeleteRow(r) \/ AcquireTurn(r)
  BY <1>2 DEF CreateSave, CreateReply, DeleteRow, AcquireTurn, Finish, Start
<1>3. CASE TurnRefused(r) \/ ReplyConflict(r) \/ TurnInvalid(r) \/ BeginTurn(r) \/ TurnFails(r)
  BY <1>3 DEF TurnRefused, ReplyConflict, TurnInvalid, BeginTurn, TurnFails, ReleaseTurn, Finish, Start
<1>4. CASE AppendUser(r) \/ AppendAssistant(r) \/ DrainOldestIfAbove(r) \/ CompressReads(r)
  BY <1>4 DEF AppendUser, AppendAssistant, Store, DrainOldestIfAbove, CompressReads
<1>5. CASE CompressOk(r) \/ CompressBlank(r) \/ CompressFails(r)
  BY <1>5 DEF CompressOk, CompressBlank, CompressFails, EndCompress
<1>6. CASE PersistLookup(r) \/ SnapshotSummary(r)
  BY <1>6 DEF PersistLookup, SnapshotSummary
<1>7. CASE Save(r) \/ EndTurn(r)
  BY <1>7 DEF Save, EndTurn, ReleaseTurn, Finish, Start
<1> QED
  BY <1>1, <1>2, <1>3, <1>4, <1>5, <1>6, <1>7 DEF Proceed

(* Two requests in their turns work on different sessions. *)
LEMMA OthersFresh ==
  ASSUME BaseInv, ReadsInv, NEW r \in Requests, Arrive(r) \/ Proceed(r), NEW q \in Requests, q # r
  PROVE  Fresh(q)'
<1>1. LocalsKept(q)
  BY OwnLocals
<1>2. CASE pc[q] \notin Reading
  BY <1>1, <1>2 DEF LocalsKept, Fresh, Reading
<1>3. CASE pc[q] \in Reading
  <2>1. pc[q] \in InTurn /\ sid[q] \in Ids
    BY <1>3 DEF BaseInv, MutexInv, Started, ControlTypeOK, Reading, InTurn, Storing
  <2>2. pc[r] \in InTurn => sid[q] # sid[r]
    BY <2>1 DEF BaseInv, MutexInv, OneTurnPerSession, Holds
  <2>3. MemoryKept(sid[q])
    BY <2>1, <2>2, OwnMemory
  <2>4. Row(sid[q])' = Row(sid[q]) /\ WithoutSummary(sid[q])' = WithoutSummary(sid[q])
    BY <1>1, <2>3 DEF LocalsKept, MemoryKept, Row, WithoutSummary
  <2> QED
    BY <1>1, <2>3, <2>4 DEF LocalsKept, MemoryKept, Fresh, ReadsInv
<1> QED
  BY <1>2, <1>3

(* A request that reads takes what is there. *)
LEMMA OwnFresh ==
  ASSUME BaseInv, ReadsInv, NEW r \in Requests, Arrive(r) \/ Proceed(r)
  PROVE  Fresh(r)'
<1>0. ControlTypeOK /\ MemoryTypeOK /\ Fresh(r)
  BY DEF BaseInv, MutexInv, ReadsInv
<1>1. CASE pc'[r] \notin Reading
  BY <1>1 DEF Fresh, Reading
<1>2. CASE BeginTurn(r)
  BY <1>0, <1>2 DEF BeginTurn, Goto, memory, Fresh, ControlTypeOK, MemoryTypeOK
<1>3. CASE CompressReads(r)
  BY <1>0, <1>3 DEF CompressReads, Goto, memory, Fresh, ControlTypeOK, MemoryTypeOK
<1>4. CASE PersistLookup(r)
  <2>1. pc'[r] \in Reading => pc'[r] = "summarizing" /\ snap'[r] = {WithoutSummary(sid[r])}
    BY <1>0, <1>4 DEF PersistLookup, Goto, ControlTypeOK, MemoryTypeOK, WithoutSummary, Reading
  <2>2. WithoutSummary(sid[r])' = WithoutSummary(sid[r])
    BY <1>4 DEF PersistLookup, memory, WithoutSummary, Row
  <2> QED
    BY <1>1, <2>1, <2>2 DEF Fresh
<1>5. CASE SnapshotSummary(r)
  <2>1. /\ snap[r] = {WithoutSummary(sid[r])} /\ pc'[r] = "saving"
        /\ snap'[r] = {[row EXCEPT !.summary = summary[sid[r]]] : row \in snap[r]}
    BY <1>0, <1>5 DEF SnapshotSummary, Goto, Fresh, ControlTypeOK, MemoryTypeOK
  <2>2. [WithoutSummary(sid[r]) EXCEPT !.summary = summary[sid[r]]] = Row(sid[r])
    <3> DEFINE s == sid[r]
               blank == [history |-> history[s], summary |-> {}, count |-> count[s],
                         drained |-> drained[s]]
    <3>1. WithoutSummary(s) = blank
      BY SummaryOfRow DEF WithoutSummary, Row
    <3>2. [blank EXCEPT !.summary = summary[s]] = Row(s)
      BY SummaryOfRow DEF Row
    <3> HIDE DEF blank
    <3> QED
      BY <3>1, <3>2, Zenon
  <2>3. snap'[r] = {Row(sid[r])}
    BY <2>1, <2>2
  <2>4. Row(sid[r])' = Row(sid[r])
    BY <1>5 DEF SnapshotSummary, memory, Row
  <2> QED
    BY <2>1, <2>3, <2>4 DEF Fresh
<1>6. pc'[r] \notin Reading \/ BeginTurn(r) \/ CompressReads(r) \/ PersistLookup(r) \/ SnapshotSummary(r)
  <2> USE <1>0 DEF Goto, Reading, ControlTypeOK
  <2>1. CASE Arrive(r)
    BY <2>1 DEF Arrive, CreateInsert, DeleteFromMap, TurnLookup, Start
  <2>2. CASE CreateSave(r) \/ CreateReply(r) \/ DeleteRow(r) \/ AcquireTurn(r)
    BY <2>2 DEF CreateSave, CreateReply, DeleteRow, AcquireTurn, Finish, Start
  <2>3. CASE TurnRefused(r) \/ ReplyConflict(r) \/ TurnInvalid(r) \/ TurnFails(r)
    BY <2>3 DEF TurnRefused, ReplyConflict, TurnInvalid, TurnFails, ReleaseTurn, Finish, Start
  <2>4. CASE AppendUser(r) \/ AppendAssistant(r) \/ DrainOldestIfAbove(r)
    BY <2>4 DEF AppendUser, AppendAssistant, Store, DrainOldestIfAbove
  <2>5. CASE CompressOk(r) \/ CompressBlank(r) \/ CompressFails(r)
    BY <2>5 DEF CompressOk, CompressBlank, CompressFails, EndCompress
  <2>6. CASE Save(r) \/ EndTurn(r)
    BY <2>6 DEF Save, EndTurn, ReleaseTurn, Finish, Start
  <2>7. CASE BeginTurn(r) \/ CompressReads(r) \/ PersistLookup(r) \/ SnapshotSummary(r)
    BY <2>7
  <2> QED
    BY <2>1, <2>2, <2>3, <2>4, <2>5, <2>6, <2>7 DEF Proceed
<1> QED
  BY <1>1, <1>2, <1>3, <1>4, <1>5, <1>6

LEMMA ReadsInvariant == Spec => []ReadsInv
<1>1. Init => ReadsInv
  BY DEF Init, ReadsInv, Fresh
<1>2. BaseInv /\ ReadsInv /\ [Next]_vars => ReadsInv'
  <2> SUFFICES ASSUME BaseInv, ReadsInv, [Next]_vars
               PROVE  ReadsInv'
    OBVIOUS
  <2>1. ASSUME NEW r \in Requests, Arrive(r) \/ Proceed(r)
        PROVE  ReadsInv'
    BY <2>1, OthersFresh, OwnFresh DEF ReadsInv
  <2>2. CASE ProcessEnds \/ Restart
    <3>1. \A r \in Requests : pc'[r] = "idle"
      BY <2>2 DEF ProcessEnds, Restart, BaseInv, MutexInv, Started
    <3> QED
      BY <3>1 DEF ReadsInv, Fresh
  <2>3. CASE Shutdown \/ CloseStore \/ UNCHANGED vars
    BY <2>3 DEF Shutdown, CloseStore, vars, memory, locals, ReadsInv, Fresh, Row, WithoutSummary
  <2> QED
    BY <2>1, <2>2, <2>3 DEF Next
<1> QED
  BY <1>1, <1>2, BaseInvariant, PTL DEF Spec

(* What a turn read before it waited for the model is still so when it     *)
(* writes.                                                                 *)
THEOREM StoreNothingReadIsStale == Spec => []NothingReadIsStale
<1>1. ReadsInv => NothingReadIsStale
  BY DEF ReadsInv, Fresh, NothingReadIsStale
<1> QED
  BY <1>1, ReadsInvariant, PTL

(* The history and the summary of a snapshot are of the same moment. *)
THEOREM StoreSnapshotIsNotTorn == Spec => []SnapshotIsNotTorn
<1>1. ReadsInv => SnapshotIsNotTorn
  BY DEF ReadsInv, Fresh, SnapshotIsNotTorn
<1> QED
  BY <1>1, ReadsInvariant, PTL

-----------------------------------------------------------------------------
(* The row on the disk.  No history is longer than its capacity, so that a *)
(* reload trims nothing; and a session being deleted is not in the map.    *)

Fits(row) == Len(row.history) =< MaxSize

RowsInv ==
  /\ \A s \in Ids : Len(history[s]) =< MaxSize
  /\ \A s \in Ids : disk[s] = {} \/ \E row \in Rows : disk[s] = {row} /\ Fits(row)

DeletingInv == \A r \in Requests : pc[r] = "deleting" => sid[r] \notin sessions

Writes(r, s) == sid[r] = s /\ pc[r] \in {"creating"} \union (Storing \ {"generating"})

Durable(s) ==
  \/ ~persistent
  \/ \E r \in Requests : Writes(r, s)
  \/ disk[s] = {Row(s)}

DurableInv == RowsInv /\ DeletingInv /\ \A s \in sessions \ missed : Durable(s)

(* Whatever goes into a history, trimming makes it fit. *)
LEMMA TrimFits ==
  ASSUME NEW S, NEW h \in Seq(S)
  PROVE  Len(Trim(h)) =< MaxSize
<1>1. Len(h) \in Nat /\ MaxSize \in Nat
  BY MaxSizeAssumption
<1>2. \A n \in Nat : Dropped(n) \in Nat /\ Dropped(n) =< n /\ n - Dropped(n) =< MaxSize
  BY MaxSizeAssumption DEF Dropped
<1>3. \A i \in 1..Len(h) : h[i] \in S
  BY ElementOfSeq
<1> DEFINE n == Dropped(Len(h))
<1>4. n \in Nat /\ n =< Len(h) /\ Len(h) - n =< MaxSize
  BY <1>1, <1>2
<1> HIDE DEF n
<1>5. Len(SubSeq(h, n + 1, Len(h))) = Len(h) - n
  BY <1>1, <1>3, <1>4, SubSeqProperties
<1> QED
  BY <1>4, <1>5 DEF Trim, n

LEMMA AppendFits ==
  ASSUME NEW S, NEW h \in Seq(S), NEW m \in S
  PROVE  Len(AppendMessage(h, m)) =< MaxSize
<1>1. Append(h, m) \in Seq(S)
  OBVIOUS
<1> QED
  BY <1>1, TrimFits DEF AppendMessage

LEMMA RemainingFits ==
  ASSUME NEW S, NEW h \in Seq(S), Len(h) =< MaxSize
  PROVE  Len(Remaining(h)) =< MaxSize
<1>1. Len(h) \in Nat /\ MaxSize \in Nat
  BY MaxSizeAssumption
<1> DEFINE n == DrainLen(Len(h))
<1>2. n \in Nat /\ n =< Len(h)
  BY <1>1, MaxSizeAssumption DEF DrainLen, DrainCount, Threshold
<1>3. \A i \in 1..Len(h) : h[i] \in S
  BY ElementOfSeq
<1> HIDE DEF n
<1>4. Len(SubSeq(h, n + 1, Len(h))) = Len(h) - n
  BY <1>1, <1>2, <1>3, SubSeqProperties
<1>5. Len(h) - n =< MaxSize
  BY <1>1, <1>2
<1> QED
  BY <1>4, <1>5 DEF Remaining, n

(* A handler touches no row but that of its session. *)
RowKept(s) == disk'[s] = disk[s] /\ (s \in missed' <=> s \in missed)

LEMMA WriteOwn ==
  ASSUME MemoryTypeOK, NEW t, NEW rows, Write(t, rows), NEW s \in Ids, s # t
  PROVE  RowKept(s)
BY DEF MemoryTypeOK, Write, RowKept

LEMMA OwnRow ==
  ASSUME BaseInv, NEW r \in Requests, Arrive(r) \/ Proceed(r), NEW s \in Ids, s # sid[r]
  PROVE  RowKept(s)
<1>0. MemoryTypeOK
  BY DEF BaseInv
<1>1. CASE Arrive(r)
  BY <1>1 DEF Arrive, CreateInsert, DeleteFromMap, TurnLookup, RowKept
<1>2. CASE CreateSave(r) \/ DeleteRow(r) \/ Save(r)
  BY <1>0, <1>2, WriteOwn DEF CreateSave, DeleteRow, Save
<1>3. CASE \/ CreateReply(r) \/ AcquireTurn(r) \/ TurnRefused(r) \/ ReplyConflict(r) \/ TurnInvalid(r)
           \/ BeginTurn(r) \/ TurnFails(r) \/ AppendUser(r) \/ AppendAssistant(r)
           \/ DrainOldestIfAbove(r) \/ CompressReads(r)
           \/ CompressOk(r) \/ CompressBlank(r) \/ CompressFails(r)
           \/ PersistLookup(r) \/ SnapshotSummary(r) \/ EndTurn(r)
  BY <1>3 DEF CreateReply, AcquireTurn, TurnRefused, ReplyConflict, TurnInvalid, BeginTurn, TurnFails,
     AppendUser, AppendAssistant, Store, DrainOldestIfAbove, CompressReads, CompressOk, CompressBlank,
     CompressFails, EndCompress, PersistLookup, SnapshotSummary, EndTurn, RowKept
<1> QED
  BY <1>1, <1>2, <1>3 DEF Proceed

LEMMA OwnControl ==
  ASSUME NEW r \in Requests, Arrive(r) \/ Proceed(r)
  PROVE  persistent' = persistent /\ (Proceed(r) => sessions' = sessions)
<1>1. CASE Arrive(r)
  BY <1>1 DEF Arrive, CreateInsert, DeleteFromMap, TurnLookup, lifecycle, Accept,
     Proceed, CreateSave, CreateReply, DeleteRow, AcquireTurn, TurnRefused, ReplyConflict, TurnInvalid,
     BeginTurn, TurnFails, AppendUser, AppendAssistant, DrainOldestIfAbove, CompressReads, CompressOk,
     CompressBlank, CompressFails, EndCompress, PersistLookup, SnapshotSummary, Save, EndTurn
<1>2. CASE Proceed(r)
  BY <1>2 DEF Proceed, CreateSave, CreateReply, DeleteRow, AcquireTurn, TurnRefused, ReplyConflict,
     TurnInvalid, BeginTurn, TurnFails, AppendUser, AppendAssistant, Store, DrainOldestIfAbove,
     CompressReads, CompressOk, CompressBlank, CompressFails, EndCompress, PersistLookup,
     SnapshotSummary, Save, EndTurn, lifecycle
<1> QED
  BY <1>1, <1>2

LEMMA WritesKept ==
  ASSUME BaseInv, NEW r \in Requests, Arrive(r) \/ Proceed(r), NEW q \in Requests, q # r, NEW s,
         Writes(q, s)
  PROVE  Writes(q, s)'
BY OwnLocals DEF LocalsKept, Writes

(* What a step of a request does to a session it does not work on. *)
LEMMA DurableOther ==
  ASSUME BaseInv, NEW r \in Requests, Arrive(r) \/ Proceed(r), NEW s \in Ids, s # sid[r], Durable(s)
  PROVE  Durable(s)'
<1>1. RowKept(s) /\ MemoryKept(s) /\ persistent' = persistent
  BY OwnRow, OwnMemory, OwnControl
<1>2. CASE ~persistent
  BY <1>1, <1>2 DEF Durable
<1>3. CASE \E q \in Requests : Writes(q, s)
  <2>1. PICK q \in Requests : Writes(q, s)
    BY <1>3
  <2>2. q # r
    BY <2>1 DEF Writes
  <2> QED
    BY <2>1, <2>2, WritesKept DEF Durable
<1>4. CASE disk[s] = {Row(s)}
  BY <1>1, <1>4 DEF Durable, RowKept, MemoryKept, Row
<1> QED
  BY <1>2, <1>3, <1>4 DEF Durable

(* ... and to its own. *)
LEMMA DurableOwn ==
  ASSUME BaseInv, ReadsInv, DurableInv, NEW r \in Requests, Proceed(r),
         NEW s \in sessions \ missed', sid[r] = s
  PROVE  Durable(s)'
<1>0. ControlTypeOK /\ MemoryTypeOK /\ s \in Ids /\ DOMAIN pc = Requests /\ DOMAIN sid = Requests
  BY DEF BaseInv, MutexInv, ControlTypeOK
<1>1. CASE CreateSave(r) \/ Save(r)
  <2>1. Write(s, {Row(s)}) /\ sid' = sid /\ Row(s)' = Row(s)
    BY <1>1 DEF CreateSave, Save, ReadsInv, Fresh, memory, Row
  <2>2. ~persistent' \/ disk'[s] = {Row(s)}
    BY <1>0, <1>1, <2>1 DEF Write, CreateSave, Save, MemoryTypeOK, lifecycle
  <2> QED
    BY <2>1, <2>2 DEF Durable
<1>2. CASE DeleteRow(r)
  BY <1>2 DEF DeleteRow, DurableInv, DeletingInv
<1>3. CASE \/ TurnFails(r) \/ AppendUser(r) \/ AppendAssistant(r) \/ DrainOldestIfAbove(r)
           \/ CompressReads(r) \/ CompressOk(r) \/ CompressBlank(r) \/ CompressFails(r)
           \/ SnapshotSummary(r)
  <2>1. sid' = sid /\ pc'[r] \in Storing \ {"generating"}
    BY <1>0, <1>3 DEF TurnFails, AppendUser, AppendAssistant, Store, DrainOldestIfAbove, CompressReads,
       CompressOk, CompressBlank, CompressFails, EndCompress, SnapshotSummary, Goto, Storing
  <2>2. Writes(r, s)'
    BY <2>1 DEF Writes
  <2> QED
    BY <2>1, <2>2 DEF Durable
<1>4. CASE PersistLookup(r)
  <2>1. sid' = sid /\ persistent' = persistent
    BY <1>4 DEF PersistLookup, lifecycle
  <2>2. persistent => pc'[r] = "summarizing"
    BY <1>0, <1>4 DEF PersistLookup, Goto
  <2>3. persistent => Writes(r, s)'
    BY <2>1, <2>2 DEF Writes, Storing
  <2> QED
    BY <2>1, <2>3 DEF Durable
<1>5. CASE \/ CreateReply(r) \/ AcquireTurn(r) \/ TurnRefused(r) \/ ReplyConflict(r) \/ TurnInvalid(r)
           \/ BeginTurn(r) \/ EndTurn(r)
  <2>1. /\ pc[r] \notin {"creating"} \union (Storing \ {"generating"})
        /\ UNCHANGED <<memory, disk, missed, persistent>>
    BY <1>5 DEF CreateReply, AcquireTurn, TurnRefused, ReplyConflict, TurnInvalid, BeginTurn, EndTurn,
       lifecycle, Storing
  <2>4. Durable(s)
    BY <2>1 DEF DurableInv
  <2>5. CASE \E q \in Requests : Writes(q, s)
    <3>1. PICK q \in Requests : Writes(q, s)
      BY <2>5
    <3>2. q # r
      BY <2>1, <3>1 DEF Writes
    <3>3. sid'[q] = s /\ pc'[q] \in {"creating"} \union (Storing \ {"generating"})
      BY <3>1, <3>2, OwnLocals DEF LocalsKept, Writes
    <3> QED
      BY <3>3 DEF Durable, Writes
  <2> QED
    BY <2>1, <2>4, <2>5 DEF Durable, memory, Row
<1> QED
  BY <1>1, <1>2, <1>3, <1>4, <1>5 DEF Proceed

LEMMA RowsStep ==
  ASSUME BaseInv, ReadsInv, RowsInv, NEW r \in Requests, Arrive(r) \/ Proceed(r)
  PROVE  RowsInv'
<1>0. ControlTypeOK /\ MemoryTypeOK /\ Started
  BY DEF BaseInv, MutexInv
<1>1. ASSUME NEW s \in Ids
      PROVE  Len(history'[s]) =< MaxSize
  <2>1. CASE pc[r] \in InTurn => s # sid[r]
    BY <2>1, OwnMemory DEF MemoryKept, RowsInv
  <2>2. CASE AppendUser(r) \/ AppendAssistant(r)
    <3>1. history' = [history EXCEPT ![sid[r]] = AppendMessage(history[sid[r]], count[sid[r]] + 1)]
      BY <2>2 DEF AppendUser, AppendAssistant, Store
    <3>2. CASE s = sid[r]
      <4>1. history[s] \in Seq(Nat) /\ count[s] + 1 \in Nat
        BY <1>0 DEF MemoryTypeOK
      <4>2. Len(AppendMessage(history[s], count[s] + 1)) =< MaxSize
        BY <4>1, AppendFits
      <4> QED
        BY <1>0, <3>1, <3>2, <4>2 DEF MemoryTypeOK
    <3> QED
      BY <1>0, <3>1, <3>2 DEF MemoryTypeOK, RowsInv
  <2>3. CASE DrainOldestIfAbove(r)
    <3>1. history' = [history EXCEPT ![sid[r]] = Remaining(history[sid[r]])]
      BY <2>3 DEF DrainOldestIfAbove
    <3>2. CASE s = sid[r]
      <4>1. history[s] \in Seq(Nat) /\ Len(history[s]) =< MaxSize
        BY <1>0 DEF MemoryTypeOK, RowsInv
      <4>2. Len(Remaining(history[s])) =< MaxSize
        BY <4>1, RemainingFits
      <4> QED
        BY <1>0, <3>1, <3>2, <4>2 DEF MemoryTypeOK
    <3> QED
      BY <1>0, <3>1, <3>2 DEF MemoryTypeOK, RowsInv
  <2>4. CASE ~(AppendUser(r) \/ AppendAssistant(r) \/ DrainOldestIfAbove(r))
    <3>1. history' = history
      BY <2>4 DEF Arrive, CreateInsert, DeleteFromMap, TurnLookup, Proceed, CreateSave, CreateReply,
         DeleteRow, AcquireTurn, TurnRefused, ReplyConflict, TurnInvalid, BeginTurn, TurnFails,
         CompressReads, CompressOk, CompressBlank, CompressFails, EndCompress, PersistLookup,
         SnapshotSummary, Save, EndTurn, memory
    <3> QED
      BY <3>1 DEF RowsInv
  <2> QED
    BY <2>2, <2>3, <2>4
<1>2. ASSUME NEW s \in Ids
      PROVE  disk'[s] = {} \/ \E row \in Rows : disk'[s] = {row} /\ Fits(row)
  <2>1. CASE s # sid[r]
    BY <2>1, OwnRow DEF RowKept, RowsInv
  <2>2. CASE s = sid[r] /\ (CreateSave(r) \/ Save(r))
    <3>1. Write(s, {Row(s)})
      BY <2>2 DEF CreateSave, Save, ReadsInv, Fresh
    <3>2. Row(s) \in Rows /\ Fits(Row(s))
      BY <1>0, RowType DEF RowsInv, Fits, Row
    <3> QED
      BY <1>0, <3>1, <3>2 DEF Write, MemoryTypeOK, RowsInv
  <2>3. CASE s = sid[r] /\ DeleteRow(r)
    BY <1>0, <2>3 DEF DeleteRow, Write, MemoryTypeOK, RowsInv
  <2>4. CASE ~(CreateSave(r) \/ Save(r) \/ DeleteRow(r))
    <3>1. disk' = disk
      BY <2>4 DEF Arrive, CreateInsert, DeleteFromMap, TurnLookup, Proceed, CreateReply,
         AcquireTurn, TurnRefused, ReplyConflict, TurnInvalid, BeginTurn, TurnFails,
         AppendUser, AppendAssistant, Store, DrainOldestIfAbove,
         CompressReads, CompressOk, CompressBlank, CompressFails, EndCompress, PersistLookup,
         SnapshotSummary, EndTurn
    <3> QED
      BY <3>1 DEF RowsInv
  <2> QED
    BY <2>1, <2>2, <2>3, <2>4
<1> QED
  BY <1>1, <1>2 DEF RowsInv

(* Only createSession puts a session in the map, under an id of its own. *)
LEMMA DeletingStep ==
  ASSUME BaseInv, DeletingInv, NEW r \in Requests, Arrive(r) \/ Proceed(r)
  PROVE  DeletingInv'
<1>0. ControlTypeOK /\ Started
  BY DEF BaseInv, MutexInv
<1>1. ASSUME NEW q \in Requests, q # r, pc'[q] = "deleting"
      PROVE  sid'[q] \notin sessions'
  <2>1. pc[q] = "deleting" /\ sid'[q] = sid[q] /\ sid[q] \in used
    BY <1>0, <1>1, OwnLocals DEF LocalsKept, Started
  <2>2. sessions' \subseteq sessions \union (Ids \ used)
    BY OwnControl DEF Arrive, CreateInsert, DeleteFromMap, TurnLookup
  <2> QED
    BY <2>1, <2>2 DEF DeletingInv
<1>2. ASSUME pc'[r] = "deleting"
      PROVE  sid'[r] \notin sessions'
  <2>1. DeleteFromMap(r)
    <3> USE <1>0, <1>2 DEF Goto, ControlTypeOK
    <3>1. CASE CreateInsert(r) \/ TurnLookup(r)
      BY <3>1 DEF CreateInsert, TurnLookup, Start
    <3>2. CASE CreateSave(r) \/ CreateReply(r) \/ DeleteRow(r) \/ AcquireTurn(r)
      BY <3>2 DEF CreateSave, CreateReply, DeleteRow, AcquireTurn, Finish, Start
    <3>3. CASE TurnRefused(r) \/ ReplyConflict(r) \/ TurnInvalid(r) \/ BeginTurn(r) \/ TurnFails(r)
      BY <3>3 DEF TurnRefused, ReplyConflict, TurnInvalid, BeginTurn, TurnFails, ReleaseTurn, Finish, Start
    <3>4. CASE AppendUser(r) \/ AppendAssistant(r) \/ DrainOldestIfAbove(r) \/ CompressReads(r)
      BY <3>4 DEF AppendUser, AppendAssistant, DrainOldestIfAbove, CompressReads
    <3>5. CASE CompressOk(r) \/ CompressBlank(r) \/ CompressFails(r)
      BY <3>5 DEF CompressOk, CompressBlank, CompressFails, EndCompress
    <3>6. CASE PersistLookup(r) \/ SnapshotSummary(r)
      BY <3>6 DEF PersistLookup, SnapshotSummary
    <3>7. CASE Save(r) \/ EndTurn(r)
      BY <3>7 DEF Save, EndTurn, ReleaseTurn, Finish, Start
    <3> QED
      BY <3>1, <3>2, <3>3, <3>4, <3>5, <3>6, <3>7 DEF Arrive, Proceed
  <2> QED
    BY <1>0, <2>1 DEF DeleteFromMap, Start, ControlTypeOK
<1> QED
  BY <1>1, <1>2 DEF DeletingInv

LEMMA DurableStep ==
  ASSUME BaseInv, ReadsInv, DurableInv, NEW r \in Requests, Arrive(r) \/ Proceed(r)
  PROVE  DurableInv'
<1>0. ControlTypeOK
  BY DEF BaseInv, MutexInv
<1>1. RowsInv' /\ DeletingInv'
  BY RowsStep, DeletingStep DEF DurableInv
<1>2. ASSUME NEW s \in sessions' \ missed'
      PROVE  Durable(s)'
  <2>1. CASE Proceed(r)
    <3>1. s \in sessions /\ s \in Ids
      BY <1>0, <2>1, OwnControl DEF ControlTypeOK
    <3>2. CASE s = sid[r]
      BY <2>1, <3>1, <3>2, DurableOwn
    <3>3. CASE s # sid[r]
      <4>1. s \notin missed
        BY <3>1, <3>3, OwnRow DEF RowKept
      <4> QED
        BY <3>1, <3>3, <4>1, DurableOther DEF DurableInv
    <3> QED
      BY <3>2, <3>3
  <2>2. CASE Arrive(r)
    <3>1. sid[r] = NoSession /\ missed' = missed
      BY <1>0, <2>2 DEF Arrive, CreateInsert, DeleteFromMap, TurnLookup, Accept, ControlTypeOK
    <3>2. CASE s \in sessions
      <4>1. s \in Ids /\ s # sid[r]
        BY <1>0, <3>1, <3>2, NoSessionAssumption DEF ControlTypeOK
      <4> QED
        BY <3>1, <3>2, <4>1, DurableOther DEF DurableInv
    <3>3. CASE s \notin sessions
      <4>1. CreateInsert(r)
        BY <2>2, <3>3 DEF Arrive, DeleteFromMap, TurnLookup
      <4>2. pc'[r] = "creating" /\ sid'[r] = s
        BY <1>0, <3>3, <4>1 DEF CreateInsert, Start, Goto, ControlTypeOK
      <4> QED
        BY <4>2 DEF Durable, Writes
    <3> QED
      BY <3>2, <3>3
  <2> QED
    BY <2>1, <2>2
<1> QED
  BY <1>1, <1>2 DEF DurableInv

(* A reload gives every session back as its row has it. *)
LEMMA RestartDurable ==
  ASSUME BaseInv, DurableInv, Restart
  PROVE  DurableInv'
<1>0. MemoryTypeOK /\ Started
  BY DEF BaseInv, MutexInv
<1>1. \A r \in Requests : pc'[r] = "idle"
  BY <1>0 DEF Restart, Started
<1>2. ASSUME NEW s \in Ids, OnDisk(s)
      PROVE  /\ disk[s] = {Row(s)'} /\ Fits(Row(s)')
             /\ Len(history'[s]) =< MaxSize
  <2>1. PICK row \in Rows : disk[s] = {row} /\ Fits(row)
    BY <1>2 DEF OnDisk, DurableInv, RowsInv
  <2>2. Stored(s) = row
    BY <2>1 DEF Stored
  <2>3. Trim(row.history) = row.history
    <3>1. row.history \in Seq(Nat) /\ Len(row.history) =< MaxSize
      BY <2>1 DEF Rows, Fits
    <3> QED
      BY <3>1, TrimKeeps
  <2>4. /\ history'[s] = row.history /\ summary'[s] = row.summary
        /\ count'[s] = row.count /\ drained'[s] = row.drained
    BY <1>2, <2>2, <2>3 DEF Restart
  <2>5. Row(s)' = row
    <3>1. row = [history |-> row.history, summary |-> row.summary, count |-> row.count,
                 drained |-> row.drained]
      BY DEF Rows
    <3> QED
      BY <2>4, <3>1 DEF Row
  <2> QED
    BY <2>1, <2>4, <2>5 DEF Fits
<1>3. RowsInv'
  <2>1. ASSUME NEW s \in Ids, ~OnDisk(s)
        PROVE  Len(history'[s]) =< MaxSize
    <3>1. history'[s] = <<>>
      BY <2>1 DEF Restart
    <3> QED
      BY <3>1, MaxSizeAssumption
  <2>2. UNCHANGED disk
    BY DEF Restart
  <2> QED
    BY <1>2, <2>1, <2>2 DEF RowsInv, DurableInv
<1>4. \A s \in sessions' : Durable(s)'
  <2>1. sessions' = {s \in Ids : OnDisk(s)} /\ disk' = disk
    BY DEF Restart
  <2> QED
    BY <1>2, <2>1 DEF Durable
<1>5. DeletingInv'
  BY <1>1 DEF DeletingInv
<1> QED
  BY <1>3, <1>4, <1>5 DEF DurableInv

LEMMA ServerDurable ==
  ASSUME BaseInv, DurableInv, Shutdown \/ CloseStore \/ ProcessEnds \/ UNCHANGED vars
  PROVE  DurableInv'
<1>1. CASE Shutdown \/ CloseStore \/ UNCHANGED vars
  BY <1>1 DEF Shutdown, CloseStore, vars, lifecycle, memory, DurableInv, RowsInv, DeletingInv,
     Durable, Writes, Row
<1>2. CASE ProcessEnds
  <2>1. /\ sessions' = {} /\ disk' = disk /\ \A r \in Requests : pc'[r] = "idle"
        /\ \A s \in Ids : history'[s] = <<>>
    BY <1>2 DEF ProcessEnds
  <2>2. Len(<<>>) =< MaxSize
    BY MaxSizeAssumption
  <2> QED
    BY <2>1, <2>2 DEF DurableInv, RowsInv, DeletingInv
<1> QED
  BY <1>1, <1>2

LEMMA DurableInvariant == Spec => []DurableInv
<1>1. Init => DurableInv
  <2> SUFFICES ASSUME Init
               PROVE  DurableInv
    OBVIOUS
  <2>1. sessions = {} /\ \A r \in Requests : pc[r] = "idle"
    BY DEF Init
  <2>2. \A s \in Ids : history[s] = <<>> /\ disk[s] = {}
    BY DEF Init
  <2>3. Len(<<>>) =< MaxSize
    BY MaxSizeAssumption
  <2> QED
    BY <2>1, <2>2, <2>3 DEF DurableInv, RowsInv, DeletingInv
<1>2. BaseInv /\ ReadsInv /\ DurableInv /\ [Next]_vars => DurableInv'
  BY DurableStep, RestartDurable, ServerDurable DEF Next
<1> QED
  BY <1>1, <1>2, BaseInvariant, ReadsInvariant, PTL DEF Spec

(* A session that is in the map, and not being written, is on the disk as  *)
(* it is in memory, unless its last write failed.                          *)
THEOREM StoreAnsweredIsDurable == Spec => []AnsweredIsDurable
<1>1. DurableInv => AnsweredIsDurable
  BY DEF DurableInv, Durable, Writes, AnsweredIsDurable
<1> QED
  BY <1>1, DurableInvariant, PTL
=============================================================================
