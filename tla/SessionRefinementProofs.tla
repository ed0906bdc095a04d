---------------------- MODULE SessionRefinementProofs -----------------------
(***************************************************************************)
(* The concurrent handlers of SessionStore implement SessionMemory for     *)
(* every session: for any number of sessions, requests and restarts, with  *)
(* a bucket or without, whatever fails.  So what SessionMemoryProofs shows *)
(* of SessionMemory holds of every session of the server.                  *)
(***************************************************************************)
EXTENDS SessionStoreProofs

CONSTANT Focus      \* any one session, of which the last theorems speak

(* Nobody else works on an id that is being created. *)
NewInv ==
  \A r \in Requests :
    pc[r] \in {"creating", "announcing"} =>
      /\ sid[r] \notin known
      /\ turnSem[sid[r]] = "free"
      /\ \A q \in Requests : q # r => sid[q] # sid[r]

(* A session without an object is blank, and is not on the disk of a       *)
(* process that runs.                                                      *)
Blank(s) == history[s] = <<>> /\ summary[s] = {} /\ count[s] = 0 /\ drained[s] = 0

ObjectInv ==
  \A s \in Ids :
    /\ s \notin used \/ server = "down" => turnSem[s] = "none"
    /\ turnSem[s] = "none" => Blank(s) /\ (server = "down" \/ disk[s] = {})

(* There is a batch only while it is compressed. *)
BatchInv == \A r \in Requests : pc[r] \notin {"drained", "compressing"} => batch[r] = <<>>

RefInv == BaseInv /\ ReadsInv /\ NewInv /\ ObjectInv /\ BatchInv

-----------------------------------------------------------------------------
(* What a step of a request changes outside memory and locals. *)
LEMMA SemStep ==
  ASSUME BaseInv, NEW r \in Requests, Arrive(r) \/ Proceed(r), NEW s \in Ids
  PROVE  /\ server' = server /\ used \subseteq used'
         /\ s \in used' \ used => CreateInsert(r) /\ s = sid'[r]
         /\ \/ turnSem'[s] = turnSem[s]
            \/ /\ turnSem'[s] \in {"free", "held"} /\ s \in used'
               /\ turnSem[s] \in {"free", "held"} \/ s \notin used
               /\ s = sid[r] \/ s \notin used
<1>0. /\ turnSem \in [Ids -> {"none", "nil", "free", "held"}] /\ used \subseteq Ids
      /\ pc[r] # "idle" => sid[r] \in used
      /\ DOMAIN sid = Requests /\ DOMAIN pc = Requests
  BY DEF BaseInv, MutexInv, ControlTypeOK, Started
<1>1. CASE CreateInsert(r)
  BY <1>0, <1>1 DEF CreateInsert, Start, lifecycle
<1>2. CASE \/ DeleteFromMap(r) \/ TurnLookup(r) \/ CreateSave(r) \/ CreateReply(r) \/ DeleteRow(r)
           \/ TurnRefused(r) \/ ReplyConflict(r) \/ BeginTurn(r) \/ TurnFails(r)
  BY <1>2 DEF DeleteFromMap, TurnLookup, CreateSave, CreateReply, DeleteRow, TurnRefused, ReplyConflict,
     BeginTurn, TurnFails, lifecycle, naming
<1>3. CASE \/ AppendUser(r) \/ AppendAssistant(r) \/ DrainOldestIfAbove(r) \/ CompressReads(r)
           \/ CompressOk(r) \/ CompressBlank(r) \/ CompressFails(r)
           \/ PersistLookup(r) \/ SnapshotSummary(r) \/ Save(r)
  BY <1>3 DEF AppendUser, AppendAssistant, Store, DrainOldestIfAbove, CompressReads, CompressOk,
     CompressBlank, CompressFails, EndCompress, PersistLookup, SnapshotSummary, Save, lifecycle, naming
<1>4. CASE AcquireTurn(r)
  BY <1>0, <1>4 DEF AcquireTurn, lifecycle, naming
<1>5. CASE TurnInvalid(r) \/ EndTurn(r)
  <2>1. pc[r] \in InTurn
    BY <1>5 DEF TurnInvalid, EndTurn, InTurn
  <2>2. s = sid[r] => turnSem[s] = "held"
    BY <2>1 DEF BaseInv, MutexInv, OneTurnPerSession, Holds
  <2>3. s = sid[r] => s \in used
    BY <1>0, <2>1 DEF InTurn, Storing
  <2> QED
    BY <1>0, <1>5, <2>2, <2>3 DEF TurnInvalid, EndTurn, ReleaseTurn, lifecycle, naming
<1> QED
  BY <1>1, <1>2, <1>3, <1>4, <1>5 DEF Arrive, Proceed

(* Where a request goes, and which ids become known. *)
LEMMA MoveStep ==
  ASSUME BaseInv, NEW r \in Requests, Arrive(r) \/ Proceed(r)
  PROVE  /\ \/ sid'[r] \in {sid[r], NoSession}
            \/ pc[r] = "idle" /\ sid'[r] \in known /\ pc'[r] \in {"deleting", "found"}
            \/ CreateInsert(r) /\ sid'[r] \in Ids \ used
         /\ known' \subseteq known \union {sid[r]}
         /\ pc'[r] \in {"creating", "announcing"} => CreateInsert(r) \/ CreateSave(r)
<1>0. DOMAIN sid = Requests /\ DOMAIN pc = Requests
  BY DEF BaseInv, MutexInv, ControlTypeOK
<1> USE <1>0 DEF Goto
<1>1. CASE CreateInsert(r)
  BY <1>1 DEF CreateInsert, Start
<1>2. CASE DeleteFromMap(r) \/ TurnLookup(r)
  BY <1>2 DEF DeleteFromMap, TurnLookup, Start, Accept, naming
<1>3. CASE CreateSave(r) \/ CreateReply(r) \/ DeleteRow(r)
  BY <1>3 DEF CreateSave, CreateReply, DeleteRow, Finish, Start, naming
<1>4. CASE AcquireTurn(r) \/ TurnRefused(r) \/ ReplyConflict(r) \/ TurnInvalid(r)
  BY <1>4 DEF AcquireTurn, TurnRefused, ReplyConflict, TurnInvalid, ReleaseTurn, Finish, Start, naming
<1>5. CASE BeginTurn(r) \/ TurnFails(r) \/ AppendUser(r) \/ AppendAssistant(r)
  BY <1>5 DEF BeginTurn, TurnFails, AppendUser, AppendAssistant, Store, naming
<1>6. CASE \/ DrainOldestIfAbove(r) \/ CompressReads(r)
           \/ CompressOk(r) \/ CompressBlank(r) \/ CompressFails(r)
  BY <1>6 DEF DrainOldestIfAbove, CompressReads, CompressOk, CompressBlank, CompressFails, EndCompress,
     naming
<1>7. CASE PersistLookup(r) \/ SnapshotSummary(r) \/ Save(r) \/ EndTurn(r)
  BY <1>7 DEF PersistLookup, SnapshotSummary, Save, EndTurn, ReleaseTurn, Finish, Start, naming
<1> QED
  BY <1>1, <1>2, <1>3, <1>4, <1>5, <1>6, <1>7 DEF Arrive, Proceed

LEMMA NewStep ==
  ASSUME BaseInv, NewInv, NEW r \in Requests, Arrive(r) \/ Proceed(r)
  PROVE  NewInv'
<1>0. /\ known \subseteq used /\ used \subseteq Ids /\ NoSession \notin Ids
      /\ \A q \in Requests : (pc[q] # "idle" => sid[q] \in used) /\ (pc[q] = "idle" => sid[q] = NoSession)
  BY NoSessionAssumption DEF BaseInv, MutexInv, ControlTypeOK, Started
<1> SUFFICES ASSUME NEW q \in Requests, pc'[q] \in {"creating", "announcing"}
             PROVE  /\ sid'[q] \notin known'
                    /\ turnSem'[sid'[q]] = "free"
                    /\ \A p \in Requests : p # q => sid'[p] # sid'[q]
  BY DEF NewInv
<1>1. CASE q # r
  <2>1. /\ pc[q] \in {"creating", "announcing"} /\ sid'[q] = sid[q] /\ sid[q] \in used
        /\ sid[q] \notin known /\ turnSem[sid[q]] = "free"
        /\ \A p \in Requests : p # q => sid[p] # sid[q]
    BY <1>0, <1>1, OwnLocals DEF LocalsKept, NewInv
  <2>2. sid'[q] \notin known'
    BY <1>1, <2>1, MoveStep
  <2>3. turnSem'[sid[q]] = "free"
    BY <1>0, <1>1, <2>1, SemStep
  <2>4. ASSUME NEW p \in Requests, p # q
        PROVE  sid'[p] # sid[q]
    <3>1. CASE p = r
      BY <1>0, <2>1, <2>4, <3>1, MoveStep
    <3>2. CASE p # r
      BY <2>1, <2>4, <3>2, OwnLocals DEF LocalsKept
    <3> QED
      BY <3>1, <3>2
  <2> QED
    BY <2>1, <2>2, <2>3, <2>4
<1>2. CASE q = r /\ CreateInsert(r)
  <2>1. DOMAIN sid = Requests /\ DOMAIN turnSem = Ids
    BY DEF BaseInv, MutexInv, ControlTypeOK
  <2>2. /\ sid'[r] \in Ids \ used /\ turnSem'[sid'[r]] = "free" /\ known' = known
        /\ \A p \in Requests : p # r => sid'[p] = sid[p]
    BY <1>2, <2>1 DEF CreateInsert, Start
  <2> QED
    BY <1>0, <1>2, <2>2
<1>3. CASE q = r /\ CreateSave(r)
  <2>1. pc[r] = "creating" /\ UNCHANGED <<known, turnSem, sid>>
    BY <1>3 DEF CreateSave, naming
  <2> QED
    BY <1>3, <2>1 DEF NewInv
<1> QED
  BY <1>1, <1>2, <1>3, MoveStep

LEMMA ObjectStep ==
  ASSUME BaseInv, NewInv, ObjectInv, NEW r \in Requests, Arrive(r) \/ Proceed(r)
  PROVE  ObjectInv'
<1> SUFFICES ASSUME NEW s \in Ids
             PROVE  /\ s \notin used' \/ server' = "down" => turnSem'[s] = "none"
                    /\ turnSem'[s] = "none" => Blank(s)' /\ (server' = "down" \/ disk'[s] = {})
  BY DEF ObjectInv
<1>1. server # "down"
  BY DEF Arrive, CreateInsert, DeleteFromMap, TurnLookup, Accept, Proceed, CreateSave, CreateReply,
     DeleteRow, AcquireTurn, TurnRefused, ReplyConflict, TurnInvalid, BeginTurn, TurnFails, AppendUser,
     AppendAssistant, DrainOldestIfAbove, CompressReads, CompressOk, CompressBlank, CompressFails,
     EndCompress, PersistLookup, SnapshotSummary, Save, EndTurn, BaseInv, MutexInv, Started
<1>2. s \notin used' \/ server' = "down" => turnSem'[s] = "none"
  BY <1>1, SemStep DEF ObjectInv
<1>3. ASSUME turnSem'[s] = "none"
      PROVE  Blank(s)' /\ (server' = "down" \/ disk'[s] = {})
  <2>1. turnSem[s] = "none"
    BY <1>3, SemStep
  <2>2. Blank(s) /\ disk[s] = {}
    BY <1>1, <2>1 DEF ObjectInv
  <2>3. pc[r] \in InTurn \union {"creating"} => sid[r] # s
    BY <2>1 DEF NewInv, BaseInv, MutexInv, OneTurnPerSession, Holds
  <2>4. MemoryKept(s)
    BY <2>3, OwnMemory
  <2>5. disk'[s] = {}
    <3>1. CASE s # sid[r]
      BY <2>2, <3>1, OwnRow DEF RowKept
    <3>2. CASE DeleteRow(r) /\ s = sid[r]
      <4>1. DOMAIN disk = Ids
        BY DEF BaseInv, MutexInv, RowsUsed
      <4> QED
        BY <2>2, <3>2, <4>1 DEF DeleteRow, Write
    <3>3. CASE s = sid[r] /\ ~DeleteRow(r)
      <4>1. UNCHANGED disk
        BY <2>3, <3>3 DEF Arrive, CreateInsert, DeleteFromMap, TurnLookup, Accept, Proceed, CreateSave,
           CreateReply, AcquireTurn, TurnRefused, ReplyConflict, TurnInvalid, BeginTurn, TurnFails,
           AppendUser, AppendAssistant, Store, DrainOldestIfAbove, CompressReads, CompressOk, CompressBlank,
           CompressFails, EndCompress, PersistLookup, SnapshotSummary, Save, EndTurn, InTurn, Storing
      <4> QED
        BY <2>2, <4>1
    <3> QED
      BY <3>1, <3>2, <3>3
  <2> QED
    BY <2>2, <2>4, <2>5 DEF Blank, MemoryKept
<1> QED
  BY <1>2, <1>3

LEMMA BatchStep ==
  ASSUME BaseInv, BatchInv, NEW r \in Requests, Arrive(r) \/ Proceed(r)
  PROVE  /\ BatchInv'
         /\ \A q \in Requests : q # r => batch'[q] = batch[q]
<1>0. pc \in [Requests -> Pcs] /\ batch \in [Requests -> Seq(Nat)] /\ DOMAIN sid = Requests
  BY DEF BaseInv, MutexInv, ControlTypeOK, MemoryTypeOK
<1> USE <1>0 DEF Goto, BatchInv, locals
<1>1. CASE Arrive(r)
  BY <1>1 DEF Arrive, CreateInsert, DeleteFromMap, TurnLookup, Start, Accept
<1>2. CASE CreateSave(r) \/ CreateReply(r) \/ DeleteRow(r) \/ AcquireTurn(r) \/ TurnRefused(r)
  BY <1>2 DEF CreateSave, CreateReply, DeleteRow, AcquireTurn, TurnRefused, Finish, Start
<1>3. CASE ReplyConflict(r) \/ TurnInvalid(r) \/ BeginTurn(r) \/ TurnFails(r)
  BY <1>3 DEF ReplyConflict, TurnInvalid, BeginTurn, TurnFails, ReleaseTurn, Finish, Start
<1>4. CASE AppendUser(r) \/ AppendAssistant(r)
  BY <1>4 DEF AppendUser, AppendAssistant, Store
<1>5. CASE DrainOldestIfAbove(r)
  BY <1>5 DEF DrainOldestIfAbove
<1>6. CASE CompressReads(r) \/ CompressOk(r) \/ CompressBlank(r) \/ CompressFails(r)
  BY <1>6 DEF CompressReads, CompressOk, CompressBlank, CompressFails, EndCompress
<1>7. CASE PersistLookup(r) \/ SnapshotSummary(r) \/ Save(r) \/ EndTurn(r)
  BY <1>7 DEF PersistLookup, SnapshotSummary, Save, EndTurn, ReleaseTurn, Finish, Start
<1> QED
  BY <1>1, <1>2, <1>3, <1>4, <1>5, <1>6, <1>7 DEF Proceed

(* What the server does to all of its sessions at once. *)
LEMMA ServerStep ==
  ASSUME BaseInv, NewInv, ObjectInv, BatchInv,
         Shutdown \/ CloseStore \/ ProcessEnds \/ Restart \/ UNCHANGED vars
  PROVE  NewInv' /\ ObjectInv' /\ BatchInv'
<1>1. CASE Shutdown \/ CloseStore \/ UNCHANGED vars
  <2>1. /\ UNCHANGED <<naming, turnSem, memory, disk, pc, sid, locals>>
        /\ server' = "down" <=> server = "down"
    BY <1>1 DEF Shutdown, CloseStore, vars, lifecycle
  <2> QED
    BY <2>1 DEF NewInv, ObjectInv, BatchInv, Blank, naming, memory, locals
<1>2. CASE ProcessEnds
  <2>1. /\ server' = "down"
        /\ \A r \in Requests : pc'[r] = "idle" /\ batch'[r] = <<>>
        /\ \A s \in Ids : turnSem'[s] = "none" /\ Blank(s)'
    BY <1>2 DEF ProcessEnds, Blank
  <2> QED
    BY <2>1 DEF NewInv, ObjectInv, BatchInv
<1>3. CASE Restart
  <2>1. server' = "up" /\ UNCHANGED <<used, disk, pc, batch>>
    BY <1>3 DEF Restart, naming, locals
  <2>2. \A r \in Requests : pc[r] = "idle"
    BY <1>3 DEF Restart, BaseInv, MutexInv, Started
  <2>3. NewInv' /\ BatchInv'
    BY <2>1, <2>2 DEF NewInv, BatchInv
  <2>4. ASSUME NEW s \in Ids
        PROVE  /\ turnSem'[s] = IF OnDisk(s) THEN "nil" ELSE "none"
               /\ ~OnDisk(s) => Blank(s)'
    BY <1>3 DEF Restart, Blank
  <2>5. \A s \in Ids : OnDisk(s) => s \in used
    BY DEF OnDisk, BaseInv, MutexInv, RowsUsed
  <2>6. ObjectInv'
    BY <2>1, <2>4, <2>5 DEF ObjectInv, OnDisk
  <2> QED
    BY <2>3, <2>6
<1> QED
  BY <1>1, <1>2, <1>3

LEMMA RefInvariant == Spec => []RefInv
<1>1. Init => NewInv /\ ObjectInv /\ BatchInv
  BY DEF Init, NewInv, ObjectInv, BatchInv, Blank
<1>2. BaseInv /\ NewInv /\ ObjectInv /\ BatchInv /\ [Next]_vars => NewInv' /\ ObjectInv' /\ BatchInv'
  BY NewStep, ObjectStep, BatchStep, ServerStep DEF Next
<1> QED
  BY <1>1, <1>2, BaseInvariant, ReadsInvariant, PTL DEF Spec, RefInv

-----------------------------------------------------------------------------
(* The refinement mapping, by the request that works on the session. *)
Works(r, s) == sid[r] = s /\ pc[r] \in {"creating"} \union Storing

Views ==
  \A s \in Ids :
    /\ s \notin used => Phase(s) = "unsaved"
    /\ s \in used /\ turnSem[s] = "none" => Phase(s) = "absent"
    /\ \A r \in Requests : Works(r, s) =>
         /\ s \in used /\ turnSem[s] # "none"
         /\ Phase(s) = PhaseOf(pc[r]) /\ BatchOf(s) = batch[r]
    /\ (\A r \in Requests : ~Works(r, s)) =>
         /\ s \in used /\ turnSem[s] # "none" => Phase(s) = "idle"
         /\ BatchOf(s) = <<>>

(* Whoever creates a session or runs a turn on it works on it alone. *)
LEMMA WorksAlone ==
  ASSUME RefInv, NEW s \in Ids, NEW r \in Requests, NEW q \in Requests,
         pc[r] \in {"creating"} \union InTurn, sid[r] = s, Works(q, s)
  PROVE  q = r
BY DEF RefInv, BaseInv, MutexInv, OneTurnPerSession, Holds, NewInv, Works, InTurn

LEMMA ViewsHold == RefInv => Views
<1> SUFFICES ASSUME RefInv, NEW s \in Ids
             PROVE  /\ s \notin used => Phase(s) = "unsaved"
                    /\ s \in used /\ turnSem[s] = "none" => Phase(s) = "absent"
                    /\ \A r \in Requests : Works(r, s) =>
                         /\ s \in used /\ turnSem[s] # "none"
                         /\ Phase(s) = PhaseOf(pc[r]) /\ BatchOf(s) = batch[r]
                    /\ (\A r \in Requests : ~Works(r, s)) =>
                         /\ s \in used /\ turnSem[s] # "none" => Phase(s) = "idle"
                         /\ BatchOf(s) = <<>>
  BY DEF Views
<1>1. (s \notin used => Phase(s) = "unsaved") /\ (s \in used /\ turnSem[s] = "none" => Phase(s) = "absent")
  BY DEF Phase
<1>2. ASSUME NEW r \in Requests, Works(r, s)
      PROVE  s \in used /\ turnSem[s] # "none" /\ Phase(s) = PhaseOf(pc[r]) /\ BatchOf(s) = batch[r]
  <2>1. pc[r] \in {"creating"} \union InTurn /\ sid[r] = s /\ pc[r] # "idle"
    BY <1>2 DEF Works, InTurn, Storing
  <2>2. Holder(s) = {r}
    BY <1>2, <2>1, WorksAlone DEF Holder, Works
  <2>3. (CHOOSE q \in Holder(s) : TRUE) = r
    BY <2>2
  <2>4. s \in used /\ turnSem[s] # "none"
    BY <1>2, <2>1 DEF RefInv, BaseInv, MutexInv, Started, OneTurnPerSession, Holds, NewInv, Works
  <2> QED
    BY <2>2, <2>3, <2>4 DEF Phase, BatchOf
<1>3. ASSUME \A r \in Requests : ~Works(r, s)
      PROVE  (s \in used /\ turnSem[s] # "none" => Phase(s) = "idle") /\ BatchOf(s) = <<>>
  <2>1. Holder(s) = {}
    BY <1>3 DEF Holder, Works
  <2> QED
    BY <2>1 DEF Phase, BatchOf
<1> QED
  BY <1>1, <1>2, <1>3

LEMMA ViewsHoldNext == RefInv' => Views'
BY ViewsHold, PTL

(* A session whose picture does not change. *)
Still(s) == Phase(s)' = Phase(s) /\ BatchOf(s)' = BatchOf(s)

LEMMA Stutters ==
  ASSUME NEW s \in Ids, Still(s), MemoryKept(s), disk'[s] = disk[s]
  PROVE  UNCHANGED Memory(s)!vars
BY DEF Still, MemoryKept, Memory!vars

(* A step of a request leaves the session as it looks, unless the request  *)
(* works on it before the step or after.                                   *)
LEMMA Uninvolved ==
  ASSUME RefInv, RefInv', NEW r \in Requests, Arrive(r) \/ Proceed(r), NEW s \in Ids,
         ~Works(r, s), ~Works(r, s)'
  PROVE  Still(s)
<1>1. Views /\ Views'
  BY ViewsHold, ViewsHoldNext
<1>2. \A q \in Requests : Works(q, s)' <=> Works(q, s)
  <2>1. ASSUME NEW q \in Requests, q # r
        PROVE  Works(q, s)' <=> Works(q, s)
    BY <2>1, OwnLocals DEF RefInv, LocalsKept, Works
  <2> QED
    BY <2>1
<1>3. s \notin used' \ used
  <2>1. ASSUME CreateInsert(r), s = sid'[r]
        PROVE  Works(r, s)'
    <3>1. DOMAIN pc = Requests
      BY DEF RefInv, BaseInv, MutexInv, ControlTypeOK
    <3> QED
      BY <2>1, <3>1 DEF CreateInsert, Start, Goto, Works
  <2> QED
    BY <2>1, SemStep DEF RefInv
<1>4. (s \in used' <=> s \in used) /\ (turnSem'[s] = "none" <=> turnSem[s] = "none" )
  BY <1>3, SemStep DEF RefInv
<1>5. CASE \A q \in Requests : ~Works(q, s)
  BY <1>1, <1>2, <1>4, <1>5 DEF Views, Still
<1>6. CASE \E q \in Requests : Works(q, s)
  <2>1. PICK q \in Requests : Works(q, s)
    BY <1>6
  <2>2. Phase(s) = PhaseOf(pc[q]) /\ BatchOf(s) = batch[q]
    BY <1>1, <2>1 DEF Views
  <2>3. Phase(s)' = PhaseOf(pc'[q]) /\ BatchOf(s)' = batch'[q]
    BY <1>1, <1>2, <2>1 DEF Views
  <2>4. pc'[q] = pc[q] /\ batch'[q] = batch[q]
    BY <2>1, OwnLocals, BatchStep DEF RefInv, LocalsKept
  <2> QED
    BY <2>2, <2>3, <2>4 DEF Still
<1> QED
  BY <1>5, <1>6

(* What the mapping shows of a session around a step of the request that   *)
(* works on it, begins to, or ceases to.                                   *)
LEMMA Involved ==
  ASSUME RefInv, RefInv', NEW r \in Requests, Proceed(r), NEW s \in Ids, s = sid[r],
         pc[r] \in {"creating"} \union InTurn, sid'[r] = s
  PROVE  /\ pc[r] \in {"creating"} \union Storing => Phase(s) = PhaseOf(pc[r]) /\ BatchOf(s) = batch[r]
         /\ pc[r] \notin {"creating"} \union Storing => Phase(s) = "idle" /\ BatchOf(s) = <<>>
         /\ pc'[r] \in {"creating"} \union Storing =>
              Phase(s)' = PhaseOf(pc'[r]) /\ BatchOf(s)' = batch'[r]
         /\ pc'[r] \notin {"creating"} \union Storing => Phase(s)' = "idle" /\ BatchOf(s)' = <<>>
<1>1. Views /\ Views'
  BY ViewsHold, ViewsHoldNext
<1>2. s \in used /\ turnSem[s] # "none"
  BY DEF RefInv, BaseInv, MutexInv, Started, OneTurnPerSession, Holds, NewInv, InTurn, Storing
<1>3. s \in used' /\ turnSem'[s] # "none"
  BY <1>2, SemStep DEF RefInv
<1>4. \A q \in Requests : q # r => ~Works(q, s) /\ ~Works(q, s)'
  <2> SUFFICES ASSUME NEW q \in Requests, q # r
               PROVE  ~Works(q, s) /\ ~Works(q, s)'
    OBVIOUS
  <2>1. ~Works(q, s)
    BY WorksAlone
  <2> QED
    BY <2>1, OwnLocals DEF RefInv, LocalsKept, Works
<1>5. pc[r] \in {"creating"} \union Storing <=> Works(r, s)
  BY DEF Works
<1>6. pc'[r] \in {"creating"} \union Storing <=> Works(r, s)'
  BY DEF Works
<1> QED
  BY <1>1, <1>2, <1>3, <1>4, <1>5, <1>6 DEF Views

MemoryStep(s) == [Memory(s)!Next]_(Memory(s)!vars)

(* A write of the row ends the creation or the turn.                       *)
LEMMA WriteStep ==
  ASSUME RefInv, RefInv', NEW r \in Requests, CreateSave(r) \/ Save(r), NEW s \in Ids, s = sid[r]
  PROVE  MemoryStep(s)
<1>0. DOMAIN pc = Requests /\ MemoryTypeOK
  BY DEF RefInv, BaseInv, MutexInv, ControlTypeOK
<1>1. /\ Write(s, {Row(s)}) /\ sid'[r] = s /\ MemoryKept(s)
      /\ pc[r] \in {"creating", "saving"} /\ pc'[r] \in {"announcing", "replying"}
  BY <1>0 DEF CreateSave, Save, Goto, RefInv, ReadsInv, Fresh, memory, MemoryKept
<1>2. Phase(s) = "unsaved" /\ BatchOf(s) = <<>> /\ Phase(s)' = "idle" /\ BatchOf(s)' = <<>>
  <2>1. batch[r] = <<>>
    BY <1>1 DEF RefInv, BatchInv
  <2> QED
    BY <1>1, <2>1, Involved DEF Proceed, InTurn, Storing, PhaseOf
<1>3. disk'[s] = {Row(s)} \/ disk'[s] = disk[s]
  BY <1>0, <1>1 DEF Write, MemoryTypeOK
<1> QED
  BY <1>1, <1>2, <1>3 DEF MemoryStep, MemoryKept, Row, Memory!Next, Memory!Persist, Memory!PersistSkipped,
     Memory!Snap

LEMMA BeginStep ==
  ASSUME RefInv, RefInv', NEW r \in Requests, BeginTurn(r) \/ TurnFails(r), NEW s \in Ids, s = sid[r]
  PROVE  MemoryStep(s)
<1>0. DOMAIN pc = Requests /\ DOMAIN batch = Requests
  BY DEF RefInv, BaseInv, MutexInv, ControlTypeOK, MemoryTypeOK
<1>1. /\ sid'[r] = s /\ MemoryKept(s) /\ disk'[s] = disk[s] /\ batch'[r] = batch[r]
      /\ \/ pc[r] = "validating" /\ pc'[r] = "generating" /\ count[s] + 2 =< MaxMessages[s]
         \/ pc[r] = "generating" /\ pc'[r] = "persisting"
  BY <1>0 DEF BeginTurn, TurnFails, Goto, memory, locals, MemoryKept
<1>2. batch[r] = <<>>
  BY <1>1 DEF RefInv, BatchInv
<1>3. /\ BatchOf(s) = <<>> /\ BatchOf(s)' = <<>>
      /\ \/ Phase(s) = "idle" /\ Phase(s)' = "generating" /\ count[s] + 2 =< MaxMessages[s]
         \/ Phase(s) = "generating" /\ Phase(s)' = "unsaved"
  BY <1>1, <1>2, Involved DEF Proceed, InTurn, Storing, PhaseOf
<1> QED
  BY <1>1, <1>3 DEF MemoryStep, MemoryKept, Memory!Next, Memory!BeginTurn, Memory!TurnFails

LEMMA AppendStep ==
  ASSUME RefInv, RefInv', NEW r \in Requests, AppendUser(r) \/ AppendAssistant(r), NEW s \in Ids, s = sid[r]
  PROVE  MemoryStep(s)
<1>0. DOMAIN pc = Requests /\ DOMAIN batch = Requests /\ MemoryTypeOK
  BY DEF RefInv, BaseInv, MutexInv, ControlTypeOK, MemoryTypeOK
<1>1. /\ sid'[r] = s /\ disk'[s] = disk[s] /\ batch'[r] = batch[r]
      /\ history'[s] = AppendMessage(history[s], count[s] + 1) /\ count'[s] = count[s] + 1
      /\ summary'[s] = summary[s] /\ drained'[s] = drained[s]
      /\ \/ pc[r] = "generating" /\ pc'[r] = "half"
         \/ pc[r] = "half" /\ pc'[r] = "stored"
  BY <1>0 DEF AppendUser, AppendAssistant, Store, Goto, locals, MemoryTypeOK
<1>2. /\ BatchOf(s) = batch[r] /\ BatchOf(s)' = batch[r]
      /\ \/ Phase(s) = "generating" /\ Phase(s)' = "half"
         \/ Phase(s) = "half" /\ Phase(s)' = "stored"
  BY <1>1, Involved DEF Proceed, InTurn, Storing, PhaseOf
<1> QED
  BY <1>1, <1>2 DEF MemoryStep, Memory!Next, Memory!AppendUser, Memory!AppendAssistant,
     Memory!AppendMessage, Memory!Trim, Memory!Dropped, AppendMessage, Trim, Dropped

LEMMA DrainStep ==
  ASSUME RefInv, RefInv', NEW r \in Requests, DrainOldestIfAbove(r), NEW s \in Ids, s = sid[r]
  PROVE  MemoryStep(s)
<1>0. DOMAIN pc = Requests /\ MemoryTypeOK
  BY DEF RefInv, BaseInv, MutexInv, ControlTypeOK
<1>1. /\ sid'[r] = s /\ disk'[s] = disk[s]
      /\ batch'[r] = Drained(history[s]) /\ history'[s] = Remaining(history[s])
      /\ drained'[s] = drained[s] + Len(Drained(history[s]))
      /\ summary'[s] = summary[s] /\ count'[s] = count[s]
      /\ pc[r] = "stored"
      /\ pc'[r] = IF Drained(history[s]) = <<>> THEN "persisting" ELSE "drained"
  BY <1>0 DEF DrainOldestIfAbove, Goto, MemoryTypeOK
<1>2. /\ Phase(s) = "stored" /\ BatchOf(s)' = Drained(history[s])
      /\ Phase(s)' = IF Drained(history[s]) = <<>> THEN "unsaved" ELSE "compressing"
  BY <1>1, Involved DEF Proceed, InTurn, Storing, PhaseOf
<1>3. Memory(s)!Drained(history[s]) = Drained(history[s]) /\ Memory(s)!Remaining(history[s]) = Remaining(history[s])
  BY DEF Memory!Drained, Memory!Remaining, Memory!DrainLen, Memory!DrainCount, Memory!Threshold,
     Drained, Remaining, DrainLen, DrainCount, Threshold
<1> QED
  BY <1>1, <1>2, <1>3 DEF MemoryStep, Memory!Next, Memory!DrainOldestIfAbove

LEMMA CompressStep ==
  ASSUME RefInv, RefInv', NEW r \in Requests, CompressOk(r) \/ CompressBlank(r) \/ CompressFails(r),
         NEW s \in Ids, s = sid[r]
  PROVE  MemoryStep(s)
<1>0. DOMAIN pc = Requests /\ MemoryTypeOK
  BY DEF RefInv, BaseInv, MutexInv, ControlTypeOK
<1>1. PICK text \in {summary[s] \union Range(batch[r]), {}, summary[s]} : EndCompress(r, text)
  <2>1. pc[r] = "compressing"
    BY DEF CompressOk, CompressBlank, CompressFails, EndCompress
  <2>2. existing[r] = summary[s]
    BY <2>1 DEF RefInv, ReadsInv, Fresh
  <2> QED
    BY <2>2 DEF CompressOk, CompressBlank, CompressFails
<1>2. /\ sid'[r] = s /\ disk'[s] = disk[s] /\ batch'[r] = <<>>
      /\ history'[s] = history[s] /\ drained'[s] = drained[s] /\ count'[s] = count[s]
      /\ summary'[s] = text
      /\ pc[r] = "compressing" /\ pc'[r] = "persisting"
  BY <1>0, <1>1 DEF EndCompress, Goto, MemoryTypeOK
<1>3. /\ Phase(s) = "compressing" /\ BatchOf(s) = batch[r]
      /\ Phase(s)' = "unsaved" /\ BatchOf(s)' = <<>>
  BY <1>2, Involved DEF Proceed, InTurn, Storing, PhaseOf
<1>4. Memory(s)!Range(batch[r]) = Range(batch[r])
  BY DEF Memory!Range, Range
<1>5. Memory(s)!EndCompress
  BY <1>2, <1>3 DEF Memory!EndCompress
<1> QED
  BY <1>1, <1>2, <1>3, <1>4, <1>5 DEF MemoryStep, Memory!Next, Memory!CompressOk, Memory!CompressBlank,
     Memory!CompressFails

(* The steps between: the turn reads, or finds nothing to save.            *)
LEMMA ReadStep ==
  ASSUME RefInv, RefInv', NEW r \in Requests, CompressReads(r) \/ PersistLookup(r) \/ SnapshotSummary(r),
         NEW s \in Ids, s = sid[r]
  PROVE  MemoryStep(s)
<1>0. DOMAIN pc = Requests
  BY DEF RefInv, BaseInv, MutexInv, ControlTypeOK
<1>1. /\ sid'[r] = s /\ MemoryKept(s) /\ disk'[s] = disk[s] /\ batch'[r] = batch[r]
      /\ \/ pc[r] = "drained" /\ pc'[r] = "compressing"
         \/ pc[r] = "persisting" /\ pc'[r] = "summarizing"
         \/ pc[r] = "summarizing" /\ pc'[r] = "saving"
         \/ pc[r] = "persisting" /\ pc'[r] = "replying"
  BY <1>0 DEF CompressReads, PersistLookup, SnapshotSummary, Goto, memory, MemoryKept
<1>2. pc[r] = "persisting" => batch[r] = <<>>
  BY DEF RefInv, BatchInv
<1>3. \/ Phase(s)' = Phase(s) /\ BatchOf(s)' = BatchOf(s)
      \/ Phase(s) = "unsaved" /\ Phase(s)' = "idle" /\ BatchOf(s)' = BatchOf(s)
  BY <1>1, <1>2, Involved DEF Proceed, InTurn, Storing, PhaseOf
<1> QED
  BY <1>1, <1>3, Stutters DEF MemoryStep, MemoryKept, Still, Memory!Next, Memory!PersistSkipped

(* deleteSession removes a row, or there was none; a session without an    *)
(* object has none.                                                        *)
LEMMA DeleteStep ==
  ASSUME RefInv, RefInv', NEW r \in Requests, DeleteRow(r), NEW s \in Ids, s = sid[r]
  PROVE  MemoryStep(s)
<1>0. DOMAIN pc = Requests /\ MemoryTypeOK
  BY DEF RefInv, BaseInv, MutexInv, ControlTypeOK
<1>1. /\ Write(s, {}) /\ MemoryKept(s) /\ pc[r] = "deleting" /\ pc'[r] = "idle"
      /\ server # "down" /\ s \in used
  BY <1>0 DEF DeleteRow, Finish, Start, Goto, memory, MemoryKept, RefInv, BaseInv, MutexInv, Started
<1>2. Still(s)
  BY <1>1, Uninvolved DEF Proceed, Works, Storing
<1>3. disk'[s] = {} \/ disk'[s] = disk[s]
  BY <1>0, <1>1 DEF Write, MemoryTypeOK
<1>4. CASE disk'[s] = disk[s]
  BY <1>1, <1>2, <1>4, Stutters DEF MemoryStep
<1>5. CASE disk'[s] = {} /\ disk[s] # {}
  <2>1. turnSem[s] # "none"
    BY <1>1, <1>5 DEF RefInv, ObjectInv
  <2>2. Views
    BY ViewsHold
  <2>3. Phase(s) # "absent"
    <3>1. CASE \E q \in Requests : Works(q, s)
      BY <2>2, <3>1 DEF Views, PhaseOf
    <3>2. CASE \A q \in Requests : ~Works(q, s)
      BY <1>1, <2>1, <2>2, <3>2 DEF Views
    <3> QED
      BY <3>1, <3>2
  <2> QED
    BY <1>1, <1>2, <1>5, <2>3 DEF MemoryStep, MemoryKept, Still, Memory!Next, Memory!Forget
<1> QED
  BY <1>3, <1>4, <1>5

(* createSession makes a session that looks as it did before.              *)
LEMMA InsertStep ==
  ASSUME RefInv, RefInv', NEW r \in Requests, CreateInsert(r), NEW s \in Ids, s = sid'[r]
  PROVE  MemoryStep(s)
<1>1. Views /\ Views'
  BY ViewsHold, ViewsHoldNext
<1>2. /\ s \notin used /\ pc'[r] = "creating" /\ pc[r] = "idle" /\ batch'[r] = batch[r]
      /\ MemoryKept(s) /\ disk'[s] = disk[s]
  <2>1. DOMAIN pc = Requests /\ DOMAIN sid = Requests
    BY DEF RefInv, BaseInv, MutexInv, ControlTypeOK
  <2> QED
    BY <2>1 DEF CreateInsert, Accept, Start, Goto, locals, memory, MemoryKept
<1>3. Works(r, s)'
  BY <1>2 DEF Works
<1>4. \A q \in Requests : ~Works(q, s)
  BY <1>1, <1>2 DEF Views
<1>5. batch'[r] = <<>>
  BY <1>2 DEF RefInv, BatchInv
<1>6. Phase(s) = "unsaved" /\ BatchOf(s) = <<>>
  BY <1>1, <1>2, <1>4 DEF Views
<1>7. Phase(s)' = "unsaved" /\ BatchOf(s)' = <<>>
  BY <1>1, <1>2, <1>3, <1>5 DEF Views, PhaseOf
<1> QED
  BY <1>2, <1>6, <1>7, Stutters DEF Still, MemoryStep

(* Every other step of a request, and every step as the other sessions     *)
(* see it.                                                                 *)
LEMMA QuietStep ==
  ASSUME RefInv, RefInv', NEW r \in Requests, Arrive(r) \/ Proceed(r), NEW s \in Ids,
         ~Works(r, s), ~Works(r, s)', ~(DeleteRow(r) /\ s = sid[r])
  PROVE  MemoryStep(s)
<1>1. Still(s)
  BY Uninvolved
<1>2. CASE s # sid[r]
  BY <1>1, <1>2, OwnMemory, OwnRow, Stutters DEF RefInv, RowKept, MemoryStep
<1>3. CASE s = sid[r]
  <2>1. pc[r] \notin Storing \union {"creating"}
    BY <1>3 DEF Works
  <2>2. UNCHANGED <<memory, disk>>
    BY <1>3, <2>1 DEF Arrive, CreateInsert, DeleteFromMap, TurnLookup, Proceed, CreateSave, CreateReply,
       AcquireTurn, TurnRefused, ReplyConflict, TurnInvalid, BeginTurn, TurnFails,
       AppendUser, AppendAssistant, DrainOldestIfAbove, CompressReads, CompressOk, CompressBlank,
       CompressFails, EndCompress, PersistLookup, SnapshotSummary, Save, EndTurn, Storing
  <2> QED
    BY <1>1, <2>2, Stutters DEF memory, MemoryKept, MemoryStep
<1> QED
  BY <1>2, <1>3

LEMMA RequestStep ==
  ASSUME RefInv, RefInv', NEW r \in Requests, Arrive(r) \/ Proceed(r), NEW s \in Ids
  PROVE  MemoryStep(s)
<1>0. DOMAIN pc = Requests /\ DOMAIN sid = Requests
  BY DEF RefInv, BaseInv, MutexInv, ControlTypeOK
<1>1. CASE s = sid[r] /\ \/ CreateSave(r) \/ Save(r) \/ BeginTurn(r) \/ TurnFails(r)
                         \/ AppendUser(r) \/ AppendAssistant(r) \/ DrainOldestIfAbove(r)
  BY <1>1, WriteStep, BeginStep, AppendStep, DrainStep
<1>2. CASE s = sid[r] /\ \/ CompressReads(r) \/ PersistLookup(r) \/ SnapshotSummary(r)
                         \/ CompressOk(r) \/ CompressBlank(r) \/ CompressFails(r) \/ DeleteRow(r)
  BY <1>2, CompressStep, ReadStep, DeleteStep
<1>3. CASE CreateInsert(r) /\ s = sid'[r]
  BY <1>3, InsertStep
<1>4. CASE s # sid[r] /\ ~(CreateInsert(r) /\ s = sid'[r])
  <2>1. ~Works(r, s)
    BY <1>4 DEF Works
  <2>2. ~Works(r, s)'
    BY <1>4, MoveStep, NoSessionAssumption DEF RefInv, Works, Storing
  <2> QED
    BY <1>4, <2>1, <2>2, QuietStep
<1>5. CASE s = sid[r] /\ \/ Arrive(r) \/ CreateReply(r) \/ AcquireTurn(r) \/ TurnRefused(r)
                         \/ ReplyConflict(r) \/ TurnInvalid(r) \/ EndTurn(r)
  <2>1. ~Works(r, s) /\ ~Works(r, s)' /\ ~DeleteRow(r)
    <3>1. CASE Arrive(r)
      BY <1>5, <3>1, NoSessionAssumption DEF Arrive, CreateInsert, DeleteFromMap, TurnLookup, Accept,
         RefInv, BaseInv, MutexInv, ControlTypeOK
    <3>2. CASE CreateReply(r) \/ AcquireTurn(r) \/ TurnRefused(r)
      BY <1>0, <3>2 DEF CreateReply, AcquireTurn, TurnRefused, DeleteRow, Finish, Start, Goto, Works, Storing
    <3>3. CASE ReplyConflict(r) \/ TurnInvalid(r) \/ EndTurn(r)
      BY <1>0, <3>3 DEF ReplyConflict, TurnInvalid, EndTurn, ReleaseTurn, DeleteRow, Finish, Start, Goto,
         Works, Storing
    <3> QED
      BY <1>5, <3>1, <3>2, <3>3
  <2> QED
    BY <2>1, QuietStep
<1> QED
  BY <1>1, <1>2, <1>3, <1>4, <1>5 DEF Proceed

-----------------------------------------------------------------------------
(* The process ends, and all its sessions with it; it starts, and loads    *)
(* those that have a row.                                                  *)
LEMMA AllIdle ==
  ASSUME RefInv, Views, NEW s \in Ids, \A r \in Requests : pc[r] = "idle"
  PROVE  /\ BatchOf(s) = <<>>
         /\ Phase(s) = IF s \notin used THEN "unsaved" ELSE IF turnSem[s] = "none" THEN "absent" ELSE "idle"
BY DEF Views, Works, Storing

LEMMA EndStep ==
  ASSUME RefInv, RefInv', ProcessEnds, NEW s \in Ids
  PROVE  MemoryStep(s)
<1>1. Views /\ Views'
  BY ViewsHold, ViewsHoldNext
<1>2. /\ history'[s] = <<>> /\ summary'[s] = {} /\ count'[s] = 0 /\ drained'[s] = 0
      /\ disk'[s] = disk[s] /\ used' = used /\ turnSem'[s] = "none"
      /\ \A r \in Requests : pc'[r] = "idle"
  BY DEF ProcessEnds, naming
<1>3. \A r \in Requests : ~Works(r, s)'
  BY <1>2 DEF Works, Storing
<1>4. BatchOf(s)' = <<>> /\ Phase(s)' = IF s \notin used THEN "unsaved" ELSE "absent"
  BY <1>1, <1>2, <1>3 DEF Views
<1>5. CASE turnSem[s] = "none"
  <2>1. Blank(s)
    BY <1>5 DEF RefInv, ObjectInv
  <2>2. \A r \in Requests : ~Works(r, s)
    BY <1>1, <1>5 DEF Views
  <2>3. BatchOf(s) = <<>> /\ Phase(s) = IF s \notin used THEN "unsaved" ELSE "absent"
    BY <1>1, <1>5, <2>2 DEF Views
  <2> QED
    BY <1>2, <1>4, <2>1, <2>3, Stutters DEF Blank, MemoryKept, Still, MemoryStep
<1>6. CASE turnSem[s] # "none"
  <2>1. s \in used
    BY <1>6 DEF RefInv, ObjectInv
  <2>2. Phase(s) # "absent"
    <3>1. CASE \E q \in Requests : Works(q, s)
      BY <1>1, <3>1 DEF Views, PhaseOf
    <3>2. CASE \A q \in Requests : ~Works(q, s)
      BY <1>1, <1>6, <2>1, <3>2 DEF Views
    <3> QED
      BY <3>1, <3>2
  <2> QED
    BY <1>2, <1>4, <2>1, <2>2 DEF MemoryStep, Memory!Next, Memory!Crash
<1> QED
  BY <1>5, <1>6

LEMMA RestartStep ==
  ASSUME RefInv, RefInv', Restart, NEW s \in Ids
  PROVE  MemoryStep(s)
<1>1. Views /\ Views'
  BY ViewsHold, ViewsHoldNext
<1>2. /\ \A r \in Requests : pc[r] = "idle" /\ pc'[r] = "idle"
      /\ disk'[s] = disk[s] /\ used' = used
  BY DEF Restart, naming, RefInv, BaseInv, MutexInv, Started
<1>3. turnSem[s] = "none" /\ Blank(s)
  BY DEF Restart, RefInv, ObjectInv
<1>4. \A r \in Requests : ~Works(r, s) /\ ~Works(r, s)'
  BY <1>2 DEF Works, Storing
<1>5. /\ BatchOf(s) = <<>> /\ BatchOf(s)' = <<>>
      /\ Phase(s) = IF s \notin used THEN "unsaved" ELSE "absent"
  BY <1>1, <1>3, <1>4 DEF Views
<1>6. CASE OnDisk(s)
  <2>1. s \in used
    BY <1>6 DEF OnDisk, RefInv, BaseInv, MutexInv, RowsUsed
  <2>2. Stored(s) \in disk[s]
    BY <1>6 DEF OnDisk, Stored
  <2>3. /\ history'[s] = Trim(Stored(s).history) /\ summary'[s] = Stored(s).summary
        /\ count'[s] = Stored(s).count /\ drained'[s] = Stored(s).drained
        /\ turnSem'[s] = "nil"
    BY <1>6 DEF Restart
  <2>4. Phase(s)' = "idle"
    BY <1>1, <1>2, <1>4, <2>1, <2>3 DEF Views
  <2>5. Memory(s)!Trim(Stored(s).history) = Trim(Stored(s).history)
    BY DEF Memory!Trim, Memory!Dropped, Trim, Dropped
  <2>6. Memory(s)!Reload
    BY <1>2, <1>5, <2>1, <2>2, <2>3, <2>4, <2>5 DEF Memory!Reload
  <2> QED
    BY <2>6 DEF MemoryStep, Memory!Next
<1>7. CASE ~OnDisk(s)
  <2>1. Blank(s)' /\ turnSem'[s] = "none"
    BY <1>7 DEF Restart, Blank
  <2>2. Phase(s)' = Phase(s)
    BY <1>1, <1>2, <1>4, <1>5, <2>1 DEF Views
  <2> QED
    BY <1>2, <1>3, <1>5, <2>1, <2>2, Stutters DEF Blank, MemoryKept, Still, MemoryStep
<1> QED
  BY <1>6, <1>7

LEMMA CalmStep ==
  ASSUME RefInv, RefInv', Shutdown \/ CloseStore \/ UNCHANGED vars, NEW s \in Ids
  PROVE  MemoryStep(s)
<1>1. Views /\ Views'
  BY ViewsHold, ViewsHoldNext
<1>2. UNCHANGED <<naming, turnSem, memory, disk, pc, sid, locals>>
  BY DEF Shutdown, CloseStore, vars
<1>3. \A q \in Requests : Works(q, s)' <=> Works(q, s)
  BY <1>2 DEF Works
<1>4. Still(s)
  <2>1. used' = used /\ turnSem' = turnSem /\ batch' = batch /\ pc' = pc
    BY <1>2 DEF naming, locals
  <2>2. CASE \E q \in Requests : Works(q, s)
    BY <1>1, <1>3, <2>1, <2>2 DEF Views, Still
  <2>3. CASE \A q \in Requests : ~Works(q, s)
    BY <1>1, <1>3, <2>1, <2>3 DEF Views, Still
  <2> QED
    BY <2>2, <2>3
<1> QED
  BY <1>2, <1>4, Stutters DEF memory, MemoryKept, MemoryStep

(* Every session behaves as SessionMemory, whatever its handlers and the   *)
(* process do: at its beginning, and with every step of the server.        *)
THEOREM StoreEverySessionIsAMemory == Spec => EverySessionIsAMemory
<1>1. Init => \A s \in Ids : Memory(s)!Init
  <2> SUFFICES ASSUME Init, NEW s \in Ids
               PROVE  Memory(s)!Init
    OBVIOUS
  <2>1. Phase(s) = "unsaved"
    BY DEF Init, Phase
  <2>2. Holder(s) = {}
    BY DEF Init, Holder, Storing
  <2>3. BatchOf(s) = <<>>
    BY <2>2 DEF BatchOf
  <2> QED
    BY <2>1, <2>3 DEF Init, Memory!Init
<1>2. RefInv /\ RefInv' /\ [Next]_vars => \A s \in Ids : [Memory(s)!Next]_(Memory(s)!vars)
  BY RequestStep, EndStep, RestartStep, CalmStep DEF Next, MemoryStep
<1>3. Spec => [][\A s \in Ids : [Memory(s)!Next]_(Memory(s)!vars)]_vars
  BY <1>2, RefInvariant, PTL DEF Spec
<1> QED
  BY <1>1, <1>3, PTL DEF Spec, EverySessionIsAMemory

-----------------------------------------------------------------------------
(* RefusedOnlyWhenBusy fails only for sessions that a restart has loaded.  *)
(* A session of the map has a semaphore, and only a reload makes it the    *)
(* nil channel.                                                            *)
SemInv ==
  /\ \A s \in sessions : turnSem[s] # "none"
  /\ \A r \in Requests : pc[r] = "found" => turnSem[sid[r]] # "none"
  /\ restarts = 0 => \A s \in Ids : turnSem[s] # "nil"

(* The rest of a handler leaves the map of sessions alone, and no handler  *)
(* looks its session up twice.                                             *)
LEMMA ProceedKeepsMap ==
  ASSUME BaseInv, NEW r \in Requests, Proceed(r)
  PROVE  /\ UNCHANGED <<sessions, restarts>>
         /\ pc'[r] # "found"
         /\ pc'[r] = "refused" => TurnRefused(r)
<1>0. DOMAIN pc = Requests
  BY DEF BaseInv, MutexInv, ControlTypeOK
<1> USE <1>0 DEF Goto, lifecycle
<1>1. CASE CreateSave(r) \/ CreateReply(r) \/ DeleteRow(r)
  BY <1>1 DEF CreateSave, CreateReply, DeleteRow, Finish, Start
<1>2. CASE AcquireTurn(r) \/ TurnRefused(r) \/ ReplyConflict(r) \/ TurnInvalid(r)
  BY <1>2 DEF AcquireTurn, TurnRefused, ReplyConflict, TurnInvalid, ReleaseTurn, Finish, Start
<1>3. CASE BeginTurn(r) \/ TurnFails(r) \/ AppendUser(r) \/ AppendAssistant(r)
  BY <1>3 DEF BeginTurn, TurnFails, AppendUser, AppendAssistant, Store
<1>4. CASE \/ DrainOldestIfAbove(r) \/ CompressReads(r)
           \/ CompressOk(r) \/ CompressBlank(r) \/ CompressFails(r)
  BY <1>4 DEF DrainOldestIfAbove, CompressReads, CompressOk, CompressBlank, CompressFails, EndCompress
<1>5. CASE PersistLookup(r) \/ SnapshotSummary(r) \/ Save(r) \/ EndTurn(r)
  BY <1>5 DEF PersistLookup, SnapshotSummary, Save, EndTurn, ReleaseTurn, Finish, Start
<1> QED
  BY <1>1, <1>2, <1>3, <1>4, <1>5 DEF Proceed

(* Only AcquireTurn's failure refuses a turn. *)
LEMMA RefusalIsATurnRefused ==
  ASSUME BaseInv, [Next]_vars, NEW r \in Requests, pc[r] = "found", pc'[r] = "refused"
  PROVE  TurnRefused(r)
<1>1. CASE Shutdown \/ CloseStore \/ Restart \/ UNCHANGED vars
  BY <1>1 DEF Shutdown, CloseStore, Restart, vars
<1>2. CASE ProcessEnds
  BY <1>2 DEF ProcessEnds
<1>3. ASSUME NEW q \in Requests, Arrive(q) \/ Proceed(q)
      PROVE  TurnRefused(r)
  <2>1. CASE q # r
    BY <1>3, <2>1, OwnLocals DEF LocalsKept
  <2>2. CASE q = r /\ Arrive(r)
    BY <2>2 DEF Arrive, CreateInsert, DeleteFromMap, TurnLookup, Accept
  <2>3. CASE q = r /\ Proceed(r)
    BY <2>3, ProceedKeepsMap
  <2> QED
    BY <1>3, <2>1, <2>2, <2>3
<1> QED
  BY <1>1, <1>2, <1>3 DEF Next

LEMMA SemInvStep ==
  ASSUME BaseInv, SemInv, NEW r \in Requests, Arrive(r) \/ Proceed(r)
  PROVE  SemInv'
<1>0. /\ sessions \subseteq Ids /\ used \subseteq Ids /\ DOMAIN turnSem = Ids
      /\ \A q \in Requests : pc[q] # "idle" => sid[q] \in Ids
  BY DEF BaseInv, MutexInv, ControlTypeOK, Started
<1>1. \A s \in Ids : turnSem'[s] = turnSem[s] \/ turnSem'[s] \in {"free", "held"}
  BY SemStep
<1>2. /\ \A s \in sessions' \ sessions : s \in Ids /\ turnSem'[s] = "free"
      /\ restarts' = restarts
      /\ pc'[r] = "found" => sid'[r] \in sessions
  <2>1. CASE CreateInsert(r)
    BY <1>0, <2>1 DEF CreateInsert, Start, Goto, lifecycle, BaseInv, MutexInv, ControlTypeOK
  <2>2. CASE DeleteFromMap(r) \/ TurnLookup(r)
    BY <2>2 DEF DeleteFromMap, TurnLookup, Start, Goto, lifecycle, BaseInv, MutexInv, ControlTypeOK
  <2>3. CASE Proceed(r)
    <3>1. UNCHANGED <<sessions, restarts>> /\ pc'[r] # "found"
      BY <2>3, ProceedKeepsMap
    <3> QED
      BY <3>1
  <2> QED
    BY <2>1, <2>2, <2>3 DEF Arrive
<1>3. ASSUME NEW q \in Requests, pc'[q] = "found"
      PROVE  turnSem'[sid'[q]] # "none"
  <2>1. CASE q = r
    BY <1>0, <1>1, <1>2, <1>3, <2>1 DEF SemInv
  <2>2. CASE q # r
    BY <1>0, <1>1, <1>3, <2>2, OwnLocals DEF LocalsKept, SemInv
  <2> QED
    BY <2>1, <2>2
<1> QED
  BY <1>0, <1>1, <1>2, <1>3 DEF SemInv

LEMMA SemInvariant == Spec => []SemInv
<1>1. Init => SemInv
  BY DEF Init, SemInv
<1>2. ASSUME BaseInv, SemInv, [Next]_vars
      PROVE  SemInv'
  <2>1. CASE Shutdown \/ CloseStore \/ UNCHANGED vars
    BY <1>2, <2>1 DEF Shutdown, CloseStore, SemInv, vars, lifecycle
  <2>2. CASE ProcessEnds
    BY <1>2, <2>2 DEF ProcessEnds, SemInv
  <2>3. CASE Restart
    <3>1. restarts' # 0 /\ \A q \in Requests : pc'[q] = "idle"
      BY <1>2, <2>3 DEF Restart, BaseInv, MutexInv, ControlTypeOK, Started
    <3> QED
      BY <2>3, <3>1 DEF Restart, SemInv
  <2> QED
    BY <1>2, <2>1, <2>2, <2>3, SemInvStep DEF Next
<1> QED
  BY <1>1, <1>2, BaseInvariant, PTL DEF Spec

(* What a refusal can mean to the client that gets 409. *)
RefusedForAReason ==
  \A r \in Requests :
    pc[r] = "found" /\ pc'[r] = "refused" =>
      \/ \E q \in Requests : Holds(q, sid[r])
      \/ turnSem[sid[r]] = "nil" /\ restarts > 0

(* A turn is refused while another turn runs on its session, or because    *)
(* the process was restarted and has loaded the session: as long as the    *)
(* process was never restarted, only when another turn is in progress.     *)
THEOREM StoreRefusesForAReason == Spec => [][RefusedForAReason]_vars
<1>1. BaseInv /\ SemInv /\ [Next]_vars => RefusedForAReason
  <2> SUFFICES ASSUME BaseInv, SemInv, [Next]_vars,
                      NEW r \in Requests, pc[r] = "found", pc'[r] = "refused"
               PROVE  \/ \E q \in Requests : Holds(q, sid[r])
                      \/ turnSem[sid[r]] = "nil" /\ restarts > 0
    BY DEF RefusedForAReason
  <2>1. turnSem[sid[r]] # "free"
    BY RefusalIsATurnRefused DEF TurnRefused
  <2>2. sid[r] \in Ids /\ turnSem[sid[r]] \in {"nil", "held"} /\ restarts \in Nat
    BY <2>1 DEF SemInv, BaseInv, MutexInv, ControlTypeOK, Started
  <2> QED
    BY <2>2 DEF SemInv, BaseInv, MutexInv, OneTurnPerSession
<1> QED
  BY <1>1, BaseInvariant, SemInvariant, PTL DEF Spec

-----------------------------------------------------------------------------
(* What SessionMemoryProofs shows of SessionMemory carries over to each    *)
(* session of the server, here to the one that Focus names.                *)
Its == INSTANCE SessionMemoryProofs WITH
  MaxMessages <- MaxMessages[Focus], phase <- Phase(Focus),
  history <- history[Focus], summary <- summary[Focus], batch <- BatchOf(Focus),
  count <- count[Focus], drained <- drained[Focus], saved <- disk[Focus]

(* The session's part of every behaviour of the server is a behaviour of   *)
(* SessionMemory, in the variables that Its maps.                          *)
LEMMA StoreImplementsIts == Focus \in Ids => (Spec => Its!Spec)
<1> SUFFICES ASSUME Focus \in Ids
             PROVE  Spec => Its!Spec
  OBVIOUS
<1>1. (\A s \in Ids : Memory(s)!Init) => Its!Init
  BY DEF Memory!Init, Its!Init
<1>2. (\A s \in Ids : [Memory(s)!Next]_(Memory(s)!vars)) => [Its!Next]_(Its!vars)
  <2>1. Memory(Focus)!AppendUser \/ Memory(Focus)!AppendAssistant => Its!AppendUser \/ Its!AppendAssistant
    BY DEF Memory!AppendUser, Memory!AppendAssistant, Memory!AppendMessage, Memory!Trim, Memory!Dropped,
       Its!AppendUser, Its!AppendAssistant, Its!AppendMessage, Its!Trim, Its!Dropped
  <2>2. Memory(Focus)!DrainOldestIfAbove => Its!DrainOldestIfAbove
    BY DEF Memory!DrainOldestIfAbove, Memory!Drained, Memory!Remaining, Memory!DrainLen,
       Memory!DrainCount, Memory!Threshold,
       Its!DrainOldestIfAbove, Its!Drained, Its!Remaining, Its!DrainLen, Its!DrainCount, Its!Threshold
  <2>3. Memory(Focus)!CompressOk => Its!CompressOk
    BY DEF Memory!EndCompress, Memory!CompressOk, Memory!Range, Its!EndCompress, Its!CompressOk, Its!Range
  <2>4. Memory(Focus)!Reload => Its!Reload
    BY DEF Memory!Reload, Memory!Trim, Memory!Dropped, Its!Reload, Its!Trim, Its!Dropped
  <2>5. /\ Memory(Focus)!BeginTurn => Its!BeginTurn
        /\ Memory(Focus)!TurnFails => Its!TurnFails
        /\ Memory(Focus)!CompressBlank => Its!CompressBlank
        /\ Memory(Focus)!CompressFails => Its!CompressFails
        /\ Memory(Focus)!Persist => Its!Persist
        /\ Memory(Focus)!PersistSkipped => Its!PersistSkipped
        /\ Memory(Focus)!Forget => Its!Forget
        /\ Memory(Focus)!Crash => Its!Crash
    BY DEF Memory!BeginTurn, Memory!TurnFails, Memory!EndCompress, Memory!CompressBlank,
       Memory!CompressFails, Memory!Persist, Memory!PersistSkipped, Memory!Snap, Memory!Forget, Memory!Crash,
       Its!BeginTurn, Its!TurnFails, Its!EndCompress, Its!CompressBlank,
       Its!CompressFails, Its!Persist, Its!PersistSkipped, Its!Snap, Its!Forget, Its!Crash
  <2>6. Memory(Focus)!Next => Its!Next
    BY <2>1, <2>2, <2>3, <2>4, <2>5 DEF Memory!Next, Its!Next
  <2> QED
    BY <2>6 DEF Memory!vars, Its!vars
<1>3. UNCHANGED vars => UNCHANGED (Its!vars)
  BY DEF vars, lifecycle, naming, memory, locals, Its!vars, Phase, BatchOf, Holder, PhaseOf
<1>4. Spec => (\A s \in Ids : Memory(s)!Init) /\ [][\A s \in Ids : [Memory(s)!Next]_(Memory(s)!vars)]_vars
  BY StoreEverySessionIsAMemory, PTL DEF EverySessionIsAMemory
<1> QED
  BY <1>1, <1>2, <1>3, <1>4, PTL DEF Its!Spec

(* With concurrent handlers, deletions, failing writes, crash and restart  *)
(* too, a message leaves a session's history only by being drained, and    *)
(* summary, batch and history follow one another without overlap.          *)
THEOREM StoreSessionsLoseNothing ==
  MaxSize >= 6 /\ Focus \in Ids =>
    (Spec => [](Its!NoSilentLoss /\ Its!SummaryPrecedesHistory /\ Its!DrainKeepsUp))
BY StoreImplementsIts, Its!MemoryNoSilentLoss, Its!MemorySummaryPrecedesHistory,
   Its!MemoryDrainKeepsUp, MaxSizeAssumption, MaxHistoryAssumption, PTL

(* Whatever fails and whenever the process dies, the row of a session is   *)
(* that session between two turns, and a restart gets all of it back.      *)
THEOREM StoreRowsAreWhole ==
  MaxSize >= 6 /\ Focus \in Ids => (Spec => []Its!SavedIsWhole)
BY StoreImplementsIts, Its!MemorySavedIsWhole, MaxSizeAssumption, MaxHistoryAssumption, PTL

(* Every prompt that a handler sends alternates between user and           *)
(* assistant, if the window is even.                                       *)
THEOREM StorePromptsAlternate ==
  MaxSize >= 6 /\ MaxHistory % 2 = 0 /\ Focus \in Ids => (Spec => []Its!PromptAlternates)
BY StoreImplementsIts, Its!MemoryPromptAlternates, MaxSizeAssumption, MaxHistoryAssumption, PTL
=============================================================================
