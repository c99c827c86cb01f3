------------------------ MODULE WebhookLedger_proofs ------------------------
(***************************************************************************)
(* No event is lost; with a webhook URL none is recorded as delivered that *)
(* was not received; what is recorded is not sent again while the ledger   *)
(* has room; and the file stays near its caps: for any number of blocks,   *)
(* kinds, workers, faults and replays.                                     *)
(***************************************************************************)
EXTENDS WebhookLedger, FiniteSetTheorems, TLAPS

(* Which keys the operations of Recency hold, for every finite key set.    *)
(* The order that the ages express decides only WHICH keys a cut removes;  *)
(* that it removes keys and never invents one is what the proofs need.     *)

LEMMA NothingHolds ==
    ASSUME NEW S
    PROVE  Nothing(S) \in [S -> Nat] /\ Held(Nothing(S)) = {}
BY DEF Nothing, Held

(* How many keys satisfy a condition is a number, and zero only for none. *)
LEMMA CountedKeys ==
    ASSUME NEW S, IsFiniteSet(S), NEW T \in SUBSET S
    PROVE  Cardinality(T) \in Nat /\ (T # {} => Cardinality(T) # 0)
<1>1. IsFiniteSet(T)
  BY FS_Subset
<1>2. QED
  BY <1>1, FS_CardinalityType, FS_EmptySet

(* A touched key is held, and every other key stays as it was. *)
LEMMA TouchHolds ==
    ASSUME NEW S, IsFiniteSet(S), NEW a \in [S -> Nat], NEW e \in S
    PROVE  /\ Touch(a, e) \in [S -> Nat]
           /\ Held(Touch(a, e)) = Held(a) \cup {e}
<1> DEFINE Younger(k) == {j \in Held(a) \ {e} : a[j] <= a[k]}
<1>1. \A k \in S : Cardinality(Younger(k)) \in Nat
  <2> TAKE k \in S
  <2>1. Younger(k) \in SUBSET S
    BY DEF Held
  <2>2. QED
    BY <2>1, CountedKeys
<1>2. Touch(a, e) = [k \in S |-> IF k = e THEN 1
                                 ELSE IF a[k] = 0 THEN 0
                                 ELSE 1 + Cardinality(Younger(k))]
  BY DEF Touch
<1> HIDE DEF Younger
<1>3. Touch(a, e) \in [S -> Nat]
  BY <1>1, <1>2
<1>4. \A k \in S : Touch(a, e)[k] # 0 <=> k = e \/ a[k] # 0
  BY <1>1, <1>2
<1>5. QED
  BY <1>3, <1>4 DEF Held

(* A dropped key is not held, and every other key stays as it was. *)
LEMMA DropHolds ==
    ASSUME NEW S, IsFiniteSet(S), NEW a \in [S -> Nat], NEW e \in S
    PROVE  /\ Drop(a, e) \in [S -> Nat]
           /\ Held(Drop(a, e)) = Held(a) \ {e}
<1> DEFINE Younger(k) == {j \in Held(a) \cap (S \ {e}) : a[j] <= a[k]}
<1>1. ASSUME NEW k \in S
      PROVE  /\ Cardinality(Younger(k)) \in Nat
             /\ k # e /\ a[k] # 0 => Cardinality(Younger(k)) # 0
  <2>1. Younger(k) \in SUBSET S
    BY DEF Held
  <2>2. k # e /\ a[k] # 0 => k \in Younger(k)
    BY DEF Held
  <2>3. QED
    BY <2>1, <2>2, CountedKeys
<1>2. Drop(a, e) = [k \in S |-> IF k \in S \ {e} /\ a[k] # 0
                                THEN Cardinality(Younger(k)) ELSE 0]
  BY DEF Drop, Among
<1> HIDE DEF Younger
<1>3. Drop(a, e) \in [S -> Nat]
  BY <1>1, <1>2
<1>4. \A k \in S : Drop(a, e)[k] # 0 <=> k # e /\ a[k] # 0
  BY <1>1, <1>2
<1>5. QED
  BY <1>3, <1>4 DEF Held

(* A cut only removes keys, and leaves ages up to the cap. *)
LEMMA NewestHolds ==
    ASSUME NEW S, NEW a \in [S -> Nat], NEW cap \in Nat
    PROVE  /\ Newest(a, cap) \in [S -> Nat]
           /\ Held(Newest(a, cap)) \subseteq Held(a)
           /\ \A k \in S : Newest(a, cap)[k] <= cap
BY DEF Newest, Held
-----------------------------------------------------------------------------

(* The run is at most one block ahead of its checkpoint, in its range. *)
RunInv ==
    phase # "down" =>
        /\ mode \in Modes
        /\ next \in Nat \ {0}
        /\ next <= mem.last + 1

(* A worker is at work only in a run; the save that is running is one that *)
(* a worker awaits.                                                        *)
WorkInv ==
    \A e \in Event :
        /\ stage[e] # "none" => phase # "down"
        /\ e \in writing => stage[e] \in {"caching", "marking", "recording"}
        /\ e \in todo => stage[e] = "none"

(* An event whose worker awaits a save of its outcome is accounted for,    *)
(* and so is each event of the current block that no worker has to deal    *)
(* with any more.                                                          *)
EventInv ==
    \A e \in Event :
        /\ stage[e] \in {"marking", "recording"} => Accounted(mem, e)
        /\ (phase = "scanning" /\ BlockOf(e) = next) =>
              e \in todo \/ stage[e] # "none" \/ Accounted(mem, e)

(* What an id in the ledger vouches for: without a webhook URL an event    *)
(* counts as delivered that the run was never able to send.                *)
Vouched == IF "noUrl" \in Modes THEN received \cup waived ELSE received

LedgerInv == \A c \in {mem, disk} : Held(c.delivered) \subseteq Vouched

IInv ==
    /\ TypeOK
    /\ RunInv
    /\ WorkInv
    /\ EventInv
    /\ NothingLost
    /\ LedgerInv

-----------------------------------------------------------------------------
LEMMA EventFinite == IsFiniteSet(Event)
<1>1. IsFiniteSet(1 .. LastBlock)
  BY LedgerAssumption, FS_Interval
<1>2. QED
  BY <1>1, LedgerAssumption, FS_Product DEF Event

LEMMA EmptyOK == Empty \in Checkpoint /\ Held(Empty.delivered) = {} /\ Held(Empty.pending) = {}
<1>1. Nothing(Event) \in [Event -> Nat] /\ Held(Nothing(Event)) = {}
  BY NothingHolds
<1>2. QED
  BY <1>1, LedgerAssumption DEF Empty, Checkpoint

(* Marking, recording and cutting keep the type of a checkpoint and change *)
(* what its two maps hold in the expected way.                             *)
LEMMA MarkOK ==
    ASSUME NEW c \in Checkpoint, NEW e \in Event
    PROVE  /\ Mark(c, e) \in Checkpoint
           /\ Mark(c, e).last = c.last
           /\ Held(Mark(c, e).delivered) = Held(c.delivered) \cup {e}
           /\ Held(Mark(c, e).pending) = Held(c.pending) \ {e}
<1>1. c.delivered \in [Event -> Nat] /\ c.pending \in [Event -> Nat]
  BY DEF Checkpoint
<1>2. /\ Touch(c.delivered, e) \in [Event -> Nat]
      /\ Held(Touch(c.delivered, e)) = Held(c.delivered) \cup {e}
  BY <1>1, EventFinite, TouchHolds
<1>3. /\ Drop(c.pending, e) \in [Event -> Nat]
      /\ Held(Drop(c.pending, e)) = Held(c.pending) \ {e}
  BY <1>1, EventFinite, DropHolds
<1>4. QED
  BY <1>2, <1>3 DEF Mark, Checkpoint

LEMMA RecordOK ==
    ASSUME NEW c \in Checkpoint, NEW e \in Event
    PROVE  /\ Record(c, e) \in Checkpoint
           /\ Record(c, e).last = c.last
           /\ Held(Record(c, e).delivered) = Held(c.delivered)
           /\ Held(Record(c, e).pending) = Held(c.pending) \cup {e}
<1>1. c.pending \in [Event -> Nat]
  BY DEF Checkpoint
<1>2. /\ Touch(c.pending, e) \in [Event -> Nat]
      /\ Held(Touch(c.pending, e)) = Held(c.pending) \cup {e}
  BY <1>1, EventFinite, TouchHolds
<1>3. QED
  BY <1>2 DEF Record, Checkpoint

LEMMA CutOK ==
    ASSUME NEW c \in Checkpoint
    PROVE  /\ Cut(c) \in Checkpoint
           /\ Cut(c).last = c.last
           /\ Held(Cut(c).delivered) \subseteq Held(c.delivered)
           /\ Held(Cut(c).pending) \subseteq Held(c.pending)
<1>1. c.delivered \in [Event -> Nat] /\ c.pending \in [Event -> Nat]
  BY DEF Checkpoint
<1>2. /\ Newest(c.delivered, MaxDelivered) \in [Event -> Nat]
      /\ Held(Newest(c.delivered, MaxDelivered)) \subseteq Held(c.delivered)
      /\ Newest(c.pending, MaxPending) \in [Event -> Nat]
      /\ Held(Newest(c.pending, MaxPending)) \subseteq Held(c.pending)
  BY <1>1, LedgerAssumption, NewestHolds
<1>3. QED
  BY <1>2 DEF Cut, Checkpoint

-----------------------------------------------------------------------------
LEMMA IInvInit == Init => IInv
<1> SUFFICES ASSUME Init PROVE IInv
  OBVIOUS
<1>1. TypeOK
  BY EmptyOK, LedgerAssumption DEF Init, TypeOK, AllModes, Stages
<1>2. NothingLost
  BY LedgerAssumption DEF Init, NothingLost, Empty, Event, BlockOf
<1>3. LedgerInv
  BY EmptyOK DEF Init, LedgerInv, Vouched
<1>4. QED
  BY <1>1, <1>2, <1>3 DEF Init, IInv, RunInv, WorkInv, EventInv

(* A step that only adds to what is accounted for, and of whose checkpoint *)
(* in memory nothing gets lost, keeps every event accounted for.           *)
Keeps ==
    /\ received \subseteq received'
    /\ pruned \subseteq pruned'
    /\ waived \subseteq waived'
    /\ Held(mem.pending) \subseteq
          received' \cup pruned' \cup waived' \cup Held(mem'.pending)

LEMMA StillAccounted ==
    ASSUME Keeps, NEW e \in Event, Accounted(mem, e)
    PROVE  Accounted(mem, e)'
BY DEF Keeps, Accounted

(* Such a step keeps NothingLost as long as the height of the checkpoint   *)
(* stays and the file stays or gets what is in memory.                     *)
LEMMA KeepsNothingLost ==
    ASSUME NothingLost, Keeps, mem'.last = mem.last, disk' \in {disk, mem'}
    PROVE  NothingLost'
<1>1. ASSUME NEW e \in Event, BlockOf(e) <= mem'.last
      PROVE  e \in received' \cup Held(mem'.pending) \cup pruned' \cup waived'
  <2>1. e \in received \cup Held(mem.pending) \cup pruned \cup waived
    BY <1>1 DEF NothingLost, Accounted
  <2>2. QED
    BY <2>1 DEF Keeps
<1>2. ASSUME NEW e \in Event, BlockOf(e) <= disk.last
      PROVE  e \in received' \cup Held(disk.pending) \cup pruned' \cup waived'
  <2>1. e \in received \cup Held(disk.pending) \cup pruned \cup waived
    BY <1>2 DEF NothingLost, Accounted
  <2>2. QED
    BY <2>1 DEF Keeps
<1>3. CASE disk' = disk
  BY <1>1, <1>2, <1>3 DEF NothingLost, Accounted, BlockOf
<1>4. CASE disk' = mem'
  BY <1>1, <1>4 DEF NothingLost, Accounted, BlockOf
<1>5. QED
  BY <1>3, <1>4

(* The same for EventInv, when each event a worker is done with is         *)
(* accounted for.                                                          *)
LEMMA KeepsEventInv ==
    ASSUME EventInv, Keeps, phase' = phase, next' = next,
           \A x \in Event :
               /\ stage'[x] \in {"marking", "recording"} =>
                     stage[x] \in {"marking", "recording"} \/ Accounted(mem, x)'
               /\ (phase = "scanning" /\ x \notin todo' /\ stage'[x] = "none") =>
                     \/ x \notin todo /\ stage[x] = "none"
                     \/ Accounted(mem, x)'
    PROVE  EventInv'
<1>1. ASSUME NEW x \in Event, stage'[x] \in {"marking", "recording"}
      PROVE  Accounted(mem, x)'
  BY <1>1, StillAccounted DEF EventInv
<1>2. ASSUME NEW x \in Event, phase' = "scanning", BlockOf(x) = next'
      PROVE  x \in todo' \/ stage'[x] # "none" \/ Accounted(mem, x)'
  BY <1>2, StillAccounted DEF EventInv
<1>3. QED
  BY <1>1, <1>2 DEF EventInv, BlockOf

(* A step of a worker: what it may change, and that it keeps IInv.         *)
LEMMA WorkerStep ==
    ASSUME IInv, TypeOK', NEW e \in Event,
           UNCHANGED <<phase, mode, next, stopAt, replays>>,
           Keeps, mem'.last = mem.last, disk' \in {disk, mem'},
           Held(mem'.delivered) \subseteq Vouched',
           \A x \in Event \ {e} :
               stage'[x] = stage[x] /\ (x \in todo' <=> x \in todo),
           stage'[e] \in {"marking", "recording"} =>
               stage[e] \in {"marking", "recording"} \/ Accounted(mem, e)',
           (phase = "scanning" /\ e \notin todo' /\ stage'[e] = "none") =>
               (e \notin todo /\ stage[e] = "none") \/ Accounted(mem, e)',
           phase # "down",
           e \in todo' => stage'[e] = "none",
           e \in writing' => stage'[e] \in {"caching", "marking", "recording"},
           writing' \subseteq writing \cup {e}
    PROVE  IInv'
<1>1. EventInv'
  BY KeepsEventInv DEF IInv
<1>2. NothingLost'
  BY KeepsNothingLost DEF IInv
<1>3. RunInv'
  BY DEF IInv, RunInv
<1>4. LedgerInv'
  BY DEF IInv, LedgerInv, Vouched, Keeps
<1>5. WorkInv'
  BY DEF IInv, WorkInv
<1>6. QED
  BY <1>1, <1>2, <1>3, <1>4, <1>5 DEF IInv

-----------------------------------------------------------------------------
(* The actions of a worker, each with what it does to the two maps. *)
LEMMA EventStep ==
    ASSUME IInv, NEW e \in Event,
           \/ TakeAudit(e)     \/ SkipDelivered(e) \/ SkipMuted(e)
           \/ BeginPost(e)     \/ PostOk(e)        \/ PostNowhere(e)
           \/ PostDry(e)       \/ PostFail(e)      \/ BeginSave(e)
           \/ EndSave(e)       \/ MarkSaveFails(e) \/ SaveFails(e)
    PROVE  IInv'
<1> USE DEF Emit, Take, At, InFlight, Waive, Fault, Prune, Vouched
<1>a. /\ mem \in Checkpoint /\ disk \in Checkpoint /\ phase \in {"down", "replaying", "scanning"}
      /\ stage \in [Event -> Stages]
      /\ Held(mem.delivered) \subseteq Vouched
  BY DEF IInv, TypeOK, LedgerInv
<1>b. Held(Mark(mem, e).pending) = Held(mem.pending) \ {e}
  BY <1>a, MarkOK
<1>c. /\ stage[e] # "none" => phase # "down"
      /\ e \in writing => stage[e] \in {"caching", "marking", "recording"}
      /\ e \in todo => stage[e] = "none"
      /\ writing \subseteq Event /\ todo \subseteq Event
  BY DEF IInv, TypeOK, WorkInv
<1>1. CASE TakeAudit(e)
  <2>1. TypeOK'
    BY <1>1 DEF TakeAudit, IInv, TypeOK, Stages
  <2>2. Keeps
    BY <1>1 DEF TakeAudit, Keeps
  <2>3. QED
    BY <1>1, <1>a, <1>c, <2>1, <2>2, WorkerStep DEF TakeAudit
<1>2. CASE SkipDelivered(e)
  <2>1. TypeOK'
    BY <1>2 DEF SkipDelivered, IInv, TypeOK, Stages
  <2>2. Keeps
    BY <1>2 DEF SkipDelivered, Keeps
  <2>3. Accounted(mem, e)'
    BY <1>2, <1>a DEF SkipDelivered, Accounted, Held, Checkpoint, Vouched
  <2>4. QED
    BY <1>2, <1>a, <1>c, <2>1, <2>2, <2>3, WorkerStep DEF SkipDelivered
<1>3. CASE SkipMuted(e)
  <2>1. TypeOK'
    BY <1>3 DEF SkipMuted, IInv, TypeOK, Stages
  <2>2. Keeps
    BY <1>3 DEF SkipMuted, Keeps
  <2>3. phase = "scanning" => Accounted(mem, e)'
    BY <1>3 DEF SkipMuted, Accounted
  <2>4. QED
    BY <1>3, <1>a, <1>c, <2>1, <2>2, <2>3, WorkerStep DEF SkipMuted
<1>4. CASE BeginPost(e)
  <2>1. TypeOK'
    BY <1>4 DEF BeginPost, IInv, TypeOK, Stages
  <2>2. Keeps
    BY <1>4 DEF BeginPost, Keeps
  <2>3. QED
    BY <1>4, <1>a, <1>c, <2>1, <2>2, WorkerStep DEF BeginPost
<1>5. CASE PostOk(e)
  <2>1. TypeOK'
    BY <1>5, <1>a, MarkOK DEF PostOk, IInv, TypeOK, Stages
  <2>2. Keeps
    BY <1>5, <1>b DEF PostOk, Keeps
  <2>3. Held(mem'.delivered) \subseteq Vouched' /\ mem'.last = mem.last
    <3>1. /\ Held(mem'.delivered) = Held(mem.delivered) \cup {e}
          /\ mem'.last = mem.last
      BY <1>5, <1>a, MarkOK DEF PostOk
    <3>2. Vouched \subseteq Vouched' /\ e \in Vouched'
      BY <1>5 DEF PostOk
    <3>3. QED
      BY <3>1, <3>2, <1>a
  <2>4. Accounted(mem, e)'
    BY <1>5 DEF PostOk, Accounted
  <2>5. QED
    BY <1>5, <1>a, <1>c, <2>1, <2>2, <2>3, <2>4, WorkerStep DEF PostOk
<1>6. CASE PostNowhere(e)
  <2>1. TypeOK'
    BY <1>6, <1>a, MarkOK DEF PostNowhere, IInv, TypeOK, Stages
  <2>2. Keeps
    BY <1>6, <1>b DEF PostNowhere, Keeps
  <2>3. "noUrl" \in Modes
    BY <1>6, <1>c DEF PostNowhere, IInv, RunInv
  <2>4. Held(mem'.delivered) \subseteq Vouched' /\ mem'.last = mem.last
    <3>1. /\ Held(mem'.delivered) = Held(mem.delivered) \cup {e}
          /\ mem'.last = mem.last
      BY <1>6, <1>a, MarkOK DEF PostNowhere
    <3>2. Vouched \subseteq Vouched' /\ e \in Vouched'
      BY <1>6, <2>3 DEF PostNowhere
    <3>3. QED
      BY <3>1, <3>2, <1>a
  <2>5. Accounted(mem, e)'
    BY <1>6 DEF PostNowhere, Accounted
  <2>6. QED
    BY <1>6, <1>a, <1>c, <2>1, <2>2, <2>4, <2>5, WorkerStep DEF PostNowhere
<1>7. CASE PostDry(e)
  <2>1. TypeOK'
    BY <1>7 DEF PostDry, IInv, TypeOK, Stages
  <2>2. Keeps
    BY <1>7 DEF PostDry, Keeps
  <2>3. phase = "scanning" => Accounted(mem, e)'
    BY <1>7 DEF PostDry, Accounted
  <2>4. QED
    BY <1>7, <1>a, <1>c, <2>1, <2>2, <2>3, WorkerStep DEF PostDry
<1>8. CASE PostFail(e)
  <2>1. TypeOK'
    BY <1>8, <1>a, RecordOK DEF PostFail, IInv, TypeOK, Stages
  <2>a. mem' = Record(mem, e) /\ received \subseteq received'
    BY <1>8 DEF PostFail
  <2>b. Held(mem'.pending) = Held(mem.pending) \cup {e}
    BY <2>a, <1>a, RecordOK
  <2>2. Keeps
    BY <1>8, <2>a, <2>b DEF PostFail, Keeps
  <2>3. Held(mem'.delivered) \subseteq Vouched' /\ mem'.last = mem.last
    <3>1. /\ Held(mem'.delivered) = Held(mem.delivered)
          /\ mem'.last = mem.last
      BY <2>a, <1>a, RecordOK
    <3>2. Vouched \subseteq Vouched'
      BY <1>8, <2>a DEF PostFail
    <3>3. QED
      BY <3>1, <3>2, <1>a
  <2>4. Accounted(mem, e)'
    BY <2>b DEF Accounted
  <2>5. QED
    BY <1>8, <1>a, <1>c, <2>1, <2>2, <2>3, <2>4, WorkerStep DEF PostFail
<1>9. CASE BeginSave(e)
  <2>1. TypeOK'
    <3>1. Held(mem.pending) \subseteq Event
      BY <1>a DEF Held, Checkpoint
    <3>2. QED
      BY <3>1, <1>9, <1>a, CutOK DEF BeginSave, IInv, TypeOK
  <2>2. Keeps
    BY <1>9 DEF BeginSave, Keeps
  <2>3. Held(mem'.delivered) \subseteq Vouched' /\ mem'.last = mem.last
    BY <1>9, <1>a, CutOK DEF BeginSave
  <2>4. QED
    BY <1>9, <1>a, <1>c, <2>1, <2>2, <2>3, WorkerStep DEF BeginSave
<1>10. CASE EndSave(e)
  <2>1. TypeOK'
    BY <1>10 DEF EndSave, IInv, TypeOK, Stages
  <2>2. Keeps
    BY <1>10 DEF EndSave, Keeps
  <2>3. stage[e] \in {"caching", "marking", "recording"}
    BY <1>10, <1>c DEF EndSave
  <2>4. stage[e] # "caching" => Accounted(mem, e)'
    BY <2>2, <2>3, StillAccounted DEF IInv, EventInv
  <2>5. QED
    BY <1>10, <1>a, <1>c, <2>1, <2>2, <2>3, <2>4, WorkerStep DEF EndSave
<1>11. CASE MarkSaveFails(e)
  <2>1. TypeOK'
    BY <1>11, <1>a, RecordOK DEF MarkSaveFails, IInv, TypeOK, Stages
  <2>2. Keeps
    <3>1. Held(mem'.pending) = Held(mem.pending) \cup {e}
      BY <1>11, <1>a, RecordOK DEF MarkSaveFails
    <3>2. QED
      BY <1>11, <3>1 DEF MarkSaveFails, Keeps
  <2>3. Held(mem'.delivered) \subseteq Vouched' /\ mem'.last = mem.last
    BY <1>11, <1>a, RecordOK DEF MarkSaveFails
  <2>4. QED
    BY <1>11, <1>a, <1>c, <2>1, <2>2, <2>3, WorkerStep DEF MarkSaveFails
<1>12. CASE SaveFails(e)
  <2>1. TypeOK'
    BY <1>12 DEF SaveFails, IInv, TypeOK, Stages
  <2>2. Keeps
    BY <1>12 DEF SaveFails, Keeps
  <2>3. QED
    BY <1>12, <1>a, <1>c, <2>1, <2>2, WorkerStep DEF SaveFails
<1>13. QED
  BY <1>1, <1>2, <1>3, <1>4, <1>5, <1>6, <1>7, <1>8, <1>9, <1>10, <1>11, <1>12

(* The steps of a run as a whole: it starts, goes on or dies. *)
LEMMA StartStep ==
    ASSUME IInv, NEW m \in Modes, NEW b \in Nat \ {0}, b <= disk.last + 1,
           NEW to \in 0 .. LastBlock, StartRun(m, b, to), replays' \in Nat
    PROVE  IInv'
<1> USE DEF StartRun
<1>1. TypeOK'
  <2>1. Held(disk.pending) \subseteq Event
    BY DEF IInv, TypeOK, Held, Checkpoint
  <2>2. QED
    BY <2>1, LedgerAssumption DEF IInv, TypeOK
<1>2. RunInv'
  BY DEF RunInv
<1>3. WorkInv' /\ EventInv'
  <2>1. \A e \in Event : stage'[e] = "none" /\ e \notin writing'
    BY DEF IInv, WorkInv
  <2>2. QED
    BY <2>1 DEF WorkInv, EventInv
<1>4. NothingLost'
  BY DEF IInv, NothingLost, Accounted
<1>5. LedgerInv'
  BY DEF IInv, LedgerInv, Vouched
<1>6. QED
  BY <1>1, <1>2, <1>3, <1>4, <1>5 DEF IInv

LEMMA FinishRetriesStep == ASSUME IInv, FinishRetries PROVE IInv'
<1> USE DEF FinishRetries, Proceed, Idle, InFlight
<1>1. TypeOK'
  BY LedgerAssumption DEF IInv, TypeOK, RunInv, EventsOf
<1>2. RunInv'
  BY DEF IInv, RunInv
<1>3. WorkInv' /\ EventInv'
  <2>1. \A e \in Event : stage'[e] = "none" /\ e \notin writing'
    BY DEF IInv, WorkInv
  <2>2. phase' = "scanning" => todo' = {e \in Event : BlockOf(e) = next'}
    BY DEF EventsOf
  <2>3. QED
    BY <2>1, <2>2 DEF WorkInv, EventInv, BlockOf
<1>4. NothingLost'
  BY DEF IInv, NothingLost, Accounted
<1>5. LedgerInv'
  BY DEF IInv, LedgerInv, Vouched
<1>6. QED
  BY <1>1, <1>2, <1>3, <1>4, <1>5 DEF IInv

LEMMA FinishBlockStep == ASSUME IInv, FinishBlock PROVE IInv'
<1> DEFINE c == [mem EXCEPT !.last = next]
<1> USE DEF FinishBlock, Proceed, Idle, InFlight
<1>1. /\ c \in Checkpoint /\ c.last = next
      /\ c.delivered = mem.delivered /\ c.pending = mem.pending
  BY DEF IInv, TypeOK, Checkpoint
<1> HIDE DEF c
<1>2. /\ mem' = Cut(c) /\ disk' = Cut(c)
      /\ pruned' = pruned \cup (Held(c.pending) \ Held(Cut(c).pending))
  BY DEF Prune, c
<1>3. /\ mem' \in Checkpoint /\ mem'.last = next
      /\ Held(mem'.delivered) \subseteq Held(mem.delivered)
      /\ Held(mem'.pending) \subseteq Held(mem.pending)
  BY <1>1, <1>2, CutOK
<1>4. Keeps
  BY <1>1, <1>2 DEF Keeps
<1>5. TypeOK'
  <2>1. Held(mem.pending) \subseteq Event
    BY DEF IInv, TypeOK, Held, Checkpoint
  <2>2. QED
    BY <2>1, <1>1, <1>2, <1>3, LedgerAssumption DEF IInv, TypeOK, RunInv, EventsOf
<1>6. RunInv'
  BY <1>3 DEF IInv, RunInv
<1>7. WorkInv' /\ EventInv'
  <2>1. \A e \in Event : stage'[e] = "none" /\ e \notin writing'
    BY DEF IInv, WorkInv
  <2>2. phase' = "scanning" => todo' = {e \in Event : BlockOf(e) = next'}
    BY DEF EventsOf
  <2>3. QED
    BY <2>1, <2>2 DEF WorkInv, EventInv, BlockOf
<1>8. NothingLost'
  <2>1. ASSUME NEW e \in Event, BlockOf(e) <= next
        PROVE  Accounted(mem, e)
    <3>1. CASE BlockOf(e) = next
      BY <3>1 DEF IInv, EventInv
    <3>2. CASE BlockOf(e) # next
      <4>1. BlockOf(e) <= mem.last
        <5>1. /\ mem.last \in Nat /\ next \in Nat /\ BlockOf(e) \in Nat
              /\ next <= mem.last + 1
          BY LedgerAssumption DEF IInv, RunInv, TypeOK, Checkpoint, Event, BlockOf
        <5>2. QED
          BY <5>1, <2>1, <3>2
      <4>2. QED
        BY <4>1 DEF IInv, NothingLost
    <3>3. QED
      BY <3>1, <3>2
  <2>2. ASSUME NEW e \in Event, BlockOf(e) <= next
        PROVE  e \in received' \cup Held(mem'.pending) \cup pruned' \cup waived'
    BY <2>1, <2>2, <1>4, StillAccounted DEF Accounted
  <2>3. QED
    BY <2>2, <1>2, <1>3 DEF NothingLost, Accounted, BlockOf
<1>9. LedgerInv'
  BY <1>2, <1>3 DEF IInv, LedgerInv, Vouched
<1>10. QED
  BY <1>5, <1>6, <1>7, <1>8, <1>9 DEF IInv

LEMMA EndStep == ASSUME IInv, RunFails \/ Die PROVE IInv'
<1> USE DEF RunFails, Die, End, Fault
<1>1. TypeOK'
  BY DEF IInv, TypeOK, Stages
<1>2. RunInv' /\ WorkInv' /\ EventInv'
  BY DEF RunInv, WorkInv, EventInv
<1>3. NothingLost'
  BY DEF IInv, NothingLost, Accounted
<1>4. LedgerInv'
  BY DEF IInv, LedgerInv, Vouched
<1>5. QED
  BY <1>1, <1>2, <1>3, <1>4 DEF IInv

LEMMA IInvStep == ASSUME IInv, [Next]_vars PROVE IInv'
<1>1. ASSUME NEW m \in Modes, StartOnce(m)
      PROVE  IInv'
  <2>1. /\ disk.last + 1 \in Nat \ {0} /\ disk.last + 1 <= disk.last + 1
        /\ LastBlock \in 0 .. LastBlock /\ replays' \in Nat
    BY <1>1, LedgerAssumption DEF StartOnce, IInv, TypeOK, Checkpoint
  <2>2. QED
    BY <1>1, <2>1, StartStep DEF StartOnce
<1>2. ASSUME NEW m \in Modes, NEW b \in 1 .. LastBlock, NEW to \in 1 .. LastBlock,
             StartReplay(m, b, to)
      PROVE  IInv'
  <2>1. /\ b \in Nat \ {0} /\ b <= disk.last + 1
        /\ to \in 0 .. LastBlock /\ replays' \in Nat
    BY <1>2, LedgerAssumption DEF StartReplay, IInv, TypeOK, Checkpoint
  <2>2. QED
    BY <1>2, <2>1, StartStep DEF StartReplay
<1>3. CASE RunStep
  BY <1>3, EventStep, FinishRetriesStep, FinishBlockStep, EndStep DEF RunStep
<1>4. CASE UNCHANGED vars
  <2>1. TypeOK'
    BY <1>4 DEF vars, IInv, TypeOK
  <2>2. RunInv' /\ WorkInv' /\ EventInv'
    BY <1>4 DEF vars, IInv, RunInv, WorkInv, EventInv, Accounted
  <2>3. NothingLost' /\ LedgerInv'
    BY <1>4 DEF vars, IInv, NothingLost, LedgerInv, Vouched, Accounted
  <2>4. QED
    BY <2>1, <2>2, <2>3 DEF IInv
<1>5. QED
  BY <1>1, <1>2, <1>3, <1>4, EndStep DEF Next

-----------------------------------------------------------------------------
(* The variables of the ledger always have their types; in particular the  *)
(* run never scans a block beyond the last one.                            *)
THEOREM TypeCorrect == Spec => []TypeOK
<1>1. IInv /\ [Next]_vars => IInv'
  BY IInvStep
<1>2. IInv => TypeOK
  BY DEF IInv
<1>3. QED
  BY <1>1, <1>2, IInvInit, PTL DEF Spec

(* Every event of every block the checkpoint has passed was received or is *)
(* pending, in memory and in checkpoint.json alike -- unless the pending   *)
(* cap cut it or the operator ran without a webhook.                       *)
THEOREM NoEventLost == Spec => []NothingLost
<1>1. IInv /\ [Next]_vars => IInv'
  BY IInvStep
<1>2. IInv => NothingLost
  BY DEF IInv
<1>3. QED
  BY <1>1, <1>2, IInvInit, PTL DEF Spec

(* With a webhook URL in place, an id in the ledger of delivered events    *)
(* was received.                                                           *)
THEOREM LedgerIsSound == "noUrl" \notin Modes /\ Spec => []DeliveredMeansReceived
<1> SUFFICES ASSUME "noUrl" \notin Modes
             PROVE  Spec => []DeliveredMeansReceived
  OBVIOUS
<1>1. IInv /\ [Next]_vars => IInv'
  BY IInvStep
<1>2. IInv => DeliveredMeansReceived
  BY DEF IInv, LedgerInv, Vouched, DeliveredMeansReceived
<1>3. QED
  BY <1>1, <1>2, IInvInit, PTL DEF Spec

-----------------------------------------------------------------------------
(* With room for every event in the ledger, no save cuts it: the file      *)
(* never holds an id that memory has lost.                                 *)
RoomInv ==
    /\ Held(disk.delivered) \subseteq Held(mem.delivered)
    /\ \A c \in {mem, disk} : \A e \in Event :
           c.delivered[e] <= Cardinality(Event)

(* A touched key is the newest, and none gets older than there are keys. *)
LEMMA TouchAges ==
    ASSUME NEW S, IsFiniteSet(S), NEW a \in [S -> Nat], NEW e \in S,
           \A k \in S : a[k] <= Cardinality(S)
    PROVE  \A k \in S : Touch(a, e)[k] <= Cardinality(S)
<1> DEFINE Younger(k) == {j \in Held(a) \ {e} : a[j] <= a[k]}
<1>1. Touch(a, e) = [k \in S |-> IF k = e THEN 1
                                 ELSE IF a[k] = 0 THEN 0
                                 ELSE 1 + Cardinality(Younger(k))]
  BY DEF Touch
<1>2. /\ IsFiniteSet(S \ {e}) /\ Cardinality(S \ {e}) = Cardinality(S) - 1
      /\ Cardinality(S) \in Nat /\ Cardinality(S) # 0
  BY FS_RemoveElement, FS_CardinalityType, FS_EmptySet
<1>3. \A k \in S : /\ Cardinality(Younger(k)) \in Nat
                   /\ Cardinality(Younger(k)) <= Cardinality(S) - 1
  <2> TAKE k \in S
  <2>1. Younger(k) \subseteq S \ {e}
    BY DEF Held
  <2>2. /\ IsFiniteSet(Younger(k))
        /\ Cardinality(Younger(k)) <= Cardinality(S \ {e})
    BY <2>1, <1>2, FS_Subset
  <2>3. QED
    BY <2>2, <1>2, FS_CardinalityType
<1> HIDE DEF Younger
<1>4. QED
  BY <1>1, <1>2, <1>3

(* A cut with room for every age changes nothing. *)
LEMMA NewestKeepsAll ==
    ASSUME NEW S, NEW a \in [S -> Nat], NEW cap \in Nat, \A k \in S : a[k] <= cap
    PROVE  Newest(a, cap) = a
BY DEF Newest

(* What a step may do to the two ledgers. *)
LEMMA RoomKept ==
    ASSUME IInv, RoomInv,
           \/ mem'.delivered = mem.delivered
           \/ mem'.delivered = disk.delivered
           \/ \E e \in Event : mem'.delivered = Touch(mem.delivered, e),
           \/ disk'.delivered = mem'.delivered
           \/ /\ disk' = disk
              /\ Held(mem.delivered) \subseteq Held(mem'.delivered)
    PROVE  RoomInv'
<1>1. /\ mem.delivered \in [Event -> Nat] /\ disk.delivered \in [Event -> Nat]
  BY DEF IInv, TypeOK, Checkpoint
<1>2. /\ \A e \in Event : mem.delivered[e] <= Cardinality(Event)
      /\ \A e \in Event : disk.delivered[e] <= Cardinality(Event)
  BY DEF RoomInv
<1>3. \A e \in Event : mem'.delivered[e] <= Cardinality(Event)
  <2>1. ASSUME NEW e \in Event, mem'.delivered = Touch(mem.delivered, e)
        PROVE  \A k \in Event : mem'.delivered[k] <= Cardinality(Event)
    BY <1>1, <1>2, <2>1, TouchAges, EventFinite
  <2>2. QED
    BY <1>2, <2>1
<1>4. Event' = Event
  BY DEF Event
<1>5. CASE disk'.delivered = mem'.delivered
  BY <1>3, <1>4, <1>5 DEF RoomInv
<1>6. CASE disk' = disk /\ Held(mem.delivered) \subseteq Held(mem'.delivered)
  BY <1>2, <1>3, <1>4, <1>6 DEF RoomInv
<1>7. QED
  BY <1>5, <1>6

LEMMA RoomStep ==
    ASSUME Cardinality(Event) <= MaxDelivered, IInv, RoomInv, [Next]_vars
    PROVE  RoomInv'
<1>1. /\ mem \in Checkpoint /\ mem.delivered \in [Event -> Nat]
      /\ disk.delivered \in [Event -> Nat]
  BY DEF IInv, TypeOK, Checkpoint
<1>2. ASSUME NEW c, c.delivered = mem.delivered
      PROVE  Cut(c).delivered = mem.delivered
  <2>1. \A k \in Event : mem.delivered[k] <= MaxDelivered
    <3>1. Cardinality(Event) \in Nat
      BY EventFinite, FS_CardinalityType
    <3>2. QED
      BY <3>1, <1>1, LedgerAssumption DEF RoomInv
  <2>2. QED
    BY <1>1, <1>2, <2>1, NewestKeepsAll, LedgerAssumption DEF Cut
<1>3. CASE mem' = mem /\ disk' = disk
  BY <1>3, RoomKept
<1>4. ASSUME NEW e \in Event, mem' = Mark(mem, e), disk' = disk
      PROVE  RoomInv'
  <2>1. /\ mem'.delivered = Touch(mem.delivered, e)
        /\ Held(mem'.delivered) = Held(mem.delivered) \cup {e}
    BY <1>1, <1>4, MarkOK DEF Mark, Checkpoint
  <2>2. QED
    BY <1>4, <2>1, RoomKept
<1>5. ASSUME NEW e \in Event, mem' = Record(mem, e), disk' = disk
      PROVE  RoomInv'
  <2>1. mem'.delivered = mem.delivered
    BY <1>1, <1>5 DEF Record, Checkpoint
  <2>2. QED
    BY <1>5, <2>1, RoomKept
<1>6. ASSUME NEW e \in Event, BeginSave(e)
      PROVE  RoomInv'
  BY <1>2, <1>6, RoomKept DEF BeginSave, Prune
<1>7. ASSUME NEW e \in Event, EndSave(e)
      PROVE  RoomInv'
  BY <1>7, RoomKept DEF EndSave
<1>8. CASE FinishBlock
  <2>1. [mem EXCEPT !.last = next].delivered = mem.delivered
    BY <1>1 DEF Checkpoint
  <2>2. mem'.delivered = mem.delivered /\ disk' = mem'
    BY <1>2, <1>8, <2>1 DEF FinishBlock, Prune
  <2>3. QED
    BY <2>2, RoomKept
<1>9. CASE mem' = disk /\ disk' = disk
  <2>1. Event' = Event
    BY DEF Event
  <2>2. QED
    BY <1>9, <2>1 DEF RoomInv
<1>10. ASSUME NEW e \in Event,
              \/ TakeAudit(e)     \/ SkipDelivered(e) \/ SkipMuted(e)
              \/ BeginPost(e)     \/ PostOk(e)        \/ PostNowhere(e)
              \/ PostDry(e)       \/ PostFail(e)      \/ BeginSave(e)
              \/ EndSave(e)       \/ MarkSaveFails(e) \/ SaveFails(e)
       PROVE  RoomInv'
  BY <1>3, <1>4, <1>5, <1>6, <1>7, <1>10
     DEF TakeAudit, SkipDelivered, SkipMuted, BeginPost, Emit, PostOk,
         PostNowhere, PostDry, PostFail, MarkSaveFails, SaveFails
<1>11. CASE FinishRetries \/ UNCHANGED vars
  BY <1>3, <1>11 DEF FinishRetries, vars
<1>12. ASSUME \/ RunFails \/ Die
              \/ \E m \in Modes :
                    \/ StartOnce(m)
                    \/ \E b, to \in 1 .. LastBlock : StartReplay(m, b, to)
       PROVE  RoomInv'
  BY <1>9, <1>12 DEF RunFails, Die, End, StartOnce, StartReplay, StartRun
<1>13. QED
  BY <1>8, <1>10, <1>11, <1>12 DEF Next, RunStep

(* With room for every event in the ledger, an id that checkpoint.json     *)
(* holds as delivered is never posted again, by whatever run.              *)
THEOREM NeverResent == Cardinality(Event) <= MaxDelivered /\ Spec => NoResend
<1> SUFFICES ASSUME Cardinality(Event) <= MaxDelivered
             PROVE  Spec => NoResend
  OBVIOUS
<1> DEFINE New(e) == stage[e] # "posting" /\ stage'[e] = "posting"
<1>1. Init => RoomInv
  <2>1. \A e \in Event : Empty.delivered[e] = 0
    BY DEF Empty, Nothing
  <2>2. Cardinality(Event) \in Nat
    BY EventFinite, FS_CardinalityType
  <2>3. QED
    BY <2>1, <2>2 DEF Init, RoomInv
<1>2. IInv /\ RoomInv /\ [Next]_vars => IInv' /\ RoomInv'
  BY IInvStep, RoomStep
<1>3. ASSUME IInv, RoomInv, [Next]_vars
      PROVE  [\A e \in Event : New(e) => disk.delivered[e] = 0]_vars
  <2> SUFFICES ASSUME NEW e \in Event, New(e), Next
               PROVE  disk.delivered[e] = 0
    BY <1>3
  <2>1. stage \in [Event -> Stages]
    BY <1>3 DEF IInv, TypeOK
  <2>2. BeginPost(e)
    <3>1. ASSUME NEW x \in Event,
                 \/ TakeAudit(x)     \/ SkipDelivered(x) \/ SkipMuted(x)
                 \/ PostOk(x)        \/ PostNowhere(x)
                 \/ PostDry(x)       \/ PostFail(x)      \/ BeginSave(x)
                 \/ EndSave(x)       \/ MarkSaveFails(x) \/ SaveFails(x)
          PROVE  FALSE
      BY <2>1, <3>1
         DEF TakeAudit, SkipDelivered, SkipMuted, Emit, Take, At, PostOk,
             PostNowhere, PostDry, PostFail, BeginSave, EndSave,
             MarkSaveFails, SaveFails
    <3>2. ASSUME NEW x \in Event, BeginPost(x)
          PROVE  x = e
      BY <2>1, <3>2 DEF BeginPost, At
    <3>3. ASSUME \/ FinishRetries \/ FinishBlock \/ RunFails \/ Die
                 \/ \E m \in Modes :
                       \/ StartOnce(m)
                       \/ \E b, to \in 1 .. LastBlock : StartReplay(m, b, to)
          PROVE  FALSE
      BY <3>3 DEF FinishRetries, FinishBlock, RunFails, Die, End, StartOnce,
                  StartReplay, StartRun
    <3>4. QED
      BY <3>1, <3>2, <3>3 DEF Next, RunStep
  <2>3. mem.delivered[e] = 0
    BY <2>2 DEF BeginPost
  <2>4. /\ mem.delivered \in [Event -> Nat] /\ disk.delivered \in [Event -> Nat]
    BY <1>3 DEF IInv, TypeOK, Checkpoint
  <2>5. QED
    BY <1>3, <2>3, <2>4 DEF RoomInv, Held
<1>4. QED
  BY <1>1, <1>2, <1>3, IInvInit, PTL DEF Spec, NoResend

-----------------------------------------------------------------------------
(* The operations keep the ages of the held keys a ranking. *)

(* In a ranking, v keys have an age up to v. *)
LEMMA RankedUpTo ==
    ASSUME NEW S, IsFiniteSet(S), NEW a \in [S -> Nat], IsRanking(a),
           NEW v \in 0 .. Cardinality(Held(a))
    PROVE  Cardinality({k \in Held(a) : a[k] <= v}) = v
<1> DEFINE f == [k \in Held(a) |-> a[k]]
           upTo == {k \in Held(a) : a[k] <= v}
           g == [k \in upTo |-> a[k]]
           n == Cardinality(Held(a))
<1>1. Held(a) \in SUBSET S /\ \A k \in Held(a) : a[k] \in Nat /\ a[k] # 0
  BY DEF Held
<1>2. IsFiniteSet(Held(a)) /\ n \in Nat
  BY <1>1, FS_Subset, FS_CardinalityType
<1>3. {a[k] : k \in Held(a)} = 1 .. n
  BY DEF IsRanking
<1> HIDE DEF n
<1>4. IsFiniteSet(1 .. n) /\ Cardinality(1 .. n) = n
  BY <1>2, FS_Interval
<1>5. f \in Surjection(Held(a), 1 .. n)
  BY <1>3 DEF Surjection
<1>6. f \in Injection(Held(a), 1 .. n)
  BY <1>2, <1>4, <1>5, FS_SurjSameCardinalityImpliesInj DEF n
<1>7. \A j, k \in Held(a) : a[j] = a[k] => j = k
  <2>1. \A j, k \in Held(a) : f[j] = f[k] => j = k
    BY <1>6 DEF Injection, IsInjective
  <2>2. QED
    BY <2>1
<1>8. v \in Nat /\ v <= n
  BY <1>2 DEF n
<1>9. \A i \in 1 .. v : \E k \in upTo : a[k] = i
  BY <1>2, <1>3, <1>8
<1>10. \A k \in upTo : a[k] \in 1 .. v
  BY <1>1, <1>8
<1>11. g \in Bijection(upTo, 1 .. v)
  BY <1>7, <1>9, <1>10 DEF Bijection, Injection, IsInjective, Surjection
<1>12. IsFiniteSet(upTo) /\ ExistsBijection(upTo, 1 .. v)
  BY <1>2, <1>11, FS_Subset DEF ExistsBijection
<1>13. Cardinality(1 .. v) = v
  BY <1>8, FS_Interval
<1>14. QED
  BY <1>12, <1>13, FS_Bijection

(* Without key e, the keys that are left are numbered 1, 2, 3, ... by how  *)
(* many of them are no older.                                              *)
LEMMA RankedWithout ==
    ASSUME NEW S, IsFiniteSet(S), NEW a \in [S -> Nat], IsRanking(a), NEW e \in S
    PROVE  {Cardinality({j \in Held(a) \ {e} : a[j] <= a[k]}) : k \in Held(a) \ {e}}
               = 1 .. Cardinality(Held(a) \ {e})
<1> DEFINE T == Held(a) \ {e}
           r(k) == Cardinality({j \in T : a[j] <= a[k]})
           n == Cardinality(Held(a))
<1>1. Held(a) \in SUBSET S /\ \A k \in Held(a) : a[k] \in Nat /\ a[k] # 0
  BY DEF Held
<1>2. IsFiniteSet(Held(a)) /\ n \in Nat
  BY <1>1, FS_Subset, FS_CardinalityType
<1>3. /\ \A k \in Held(a) : a[k] \in 1 .. n
      /\ \A i \in 1 .. n : \E k \in Held(a) : a[k] = i
  BY DEF IsRanking
<1>4. \A k \in Held(a) : /\ IsFiniteSet({j \in Held(a) : a[j] <= a[k]})
                         /\ Cardinality({j \in Held(a) : a[j] <= a[k]}) = a[k]
  <2> TAKE k \in Held(a)
  <2>1. a[k] \in 0 .. Cardinality(Held(a))
    BY <1>2, <1>3
  <2>2. QED
    BY <1>2, <2>1, RankedUpTo, FS_Subset
<1>5. CASE e \notin Held(a)
  <2>1. T = Held(a)
    BY <1>5
  <2>2. \A k \in Held(a) : Cardinality({j \in Held(a) : a[j] <= a[k]}) = a[k]
    BY <1>4
  <2>3. {Cardinality({j \in Held(a) : a[j] <= a[k]}) : k \in Held(a)}
            = {a[k] : k \in Held(a)}
    BY <2>2
  <2>4. QED
    BY <2>1, <2>3 DEF IsRanking
<1>6. CASE e \in Held(a)
  <2>1. ASSUME NEW k \in T
        PROVE  r(k) = IF a[e] <= a[k] THEN a[k] - 1 ELSE a[k]
    <3> DEFINE U == {j \in Held(a) : a[j] <= a[k]}
    <3>1. IsFiniteSet(U) /\ Cardinality(U) = a[k]
      BY <1>4
    <3>2. {j \in T : a[j] <= a[k]} = U \ {e}
      OBVIOUS
    <3>3. Cardinality(U \ {e}) = IF e \in U THEN Cardinality(U) - 1 ELSE Cardinality(U)
      BY <3>1, FS_RemoveElement
    <3>4. e \in U <=> a[e] <= a[k]
      BY <1>6
    <3> HIDE DEF U
    <3>5. QED
      BY <3>1, <3>2, <3>3, <3>4
  <2>2. \A k \in T : a[k] # a[e]
    <3>1. ASSUME NEW k \in T, a[k] = a[e]
          PROVE  FALSE
      <4>1. a[k] - 1 \in 0 .. Cardinality(Held(a))
        BY <1>1, <1>2, <1>3
      <4> DEFINE below == {j \in Held(a) : a[j] <= a[k] - 1}
                 U == {j \in Held(a) : a[j] <= a[k]}
      <4>2. Cardinality(below) = a[k] - 1 /\ IsFiniteSet(below)
        BY <4>1, <1>2, RankedUpTo, FS_Subset
      <4>3. /\ k \notin below /\ e \notin below /\ k # e
            /\ (below \cup {k}) \cup {e} \subseteq U
        BY <1>1, <1>6, <3>1
      <4>0. a[k] \in Nat /\ IsFiniteSet(U) /\ Cardinality(U) = a[k]
        BY <1>1, <1>4
      <4> HIDE DEF below, U
      <4>4. /\ IsFiniteSet(below \cup {k})
            /\ Cardinality(below \cup {k}) = a[k]
        <5>1. /\ IsFiniteSet(below \cup {k})
              /\ Cardinality(below \cup {k}) = Cardinality(below) + 1
          BY <4>2, <4>3, FS_AddElement
        <5>2. QED
          BY <4>0, <4>2, <5>1
      <4>5. /\ IsFiniteSet((below \cup {k}) \cup {e})
            /\ Cardinality((below \cup {k}) \cup {e}) = a[k] + 1
        BY <4>3, <4>4, FS_AddElement
      <4>6. a[k] + 1 <= a[k]
        BY <4>0, <4>3, <4>5, FS_Subset
      <4>7. QED
        BY <4>0, <4>6
    <3>2. QED
      BY <3>1
  <2>3. Cardinality(T) = n - 1 /\ a[e] \in 1 .. n
    BY <1>2, <1>3, <1>6, FS_RemoveElement
  <2>4. \A k \in T : r(k) \in 1 .. n - 1
    BY <1>2, <1>3, <2>1, <2>2, <2>3
  <2>5. ASSUME NEW i \in 1 .. n - 1
        PROVE  \E k \in T : r(k) = i
    <3>1. CASE i < a[e]
      <4>1. PICK k \in Held(a) : a[k] = i
        BY <1>2, <1>3
      <4>2. k \in T /\ r(k) = i
        BY <1>2, <2>1, <2>3, <3>1, <4>1
      <4>3. QED
        BY <4>2
    <3>2. CASE i >= a[e]
      <4>1. PICK k \in Held(a) : a[k] = i + 1
        BY <1>2, <1>3
      <4>2. a[k] # a[e] /\ a[e] <= a[k] /\ a[k] - 1 = i
        BY <1>2, <2>3, <3>2, <4>1
      <4>3. k \in T
        BY <4>2
      <4>4. r(k) = a[k] - 1
        BY <2>1, <4>2, <4>3
      <4>5. QED
        BY <4>2, <4>3, <4>4
    <3>3. QED
      BY <1>2, <2>3, <3>1, <3>2
  <2> HIDE DEF T, r, n
  <2>6. {r(k) : k \in T} = 1 .. Cardinality(T)
    BY <2>3, <2>4, <2>5
  <2>7. QED
    BY <2>6 DEF T, r
<1>7. QED
  BY <1>5, <1>6

LEMMA TouchRanks ==
    ASSUME NEW S, IsFiniteSet(S), NEW a \in [S -> Nat], IsRanking(a), NEW e \in S
    PROVE  /\ IsRanking(Touch(a, e))
           /\ Cardinality(Held(Touch(a, e))) <= Cardinality(Held(a)) + 1
<1> DEFINE T == Held(a) \ {e}
           r(k) == Cardinality({j \in T : a[j] <= a[k]})
           b == Touch(a, e)
           m == Cardinality(T)
<1>1. {r(k) : k \in T} = 1 .. m
  BY RankedWithout
<1>2. b = [k \in S |-> IF k = e THEN 1 ELSE IF a[k] = 0 THEN 0 ELSE 1 + r(k)]
  BY DEF Touch
<1>3. Held(b) = T \cup {e}
  BY TouchHolds
<1>4. /\ IsFiniteSet(Held(a)) /\ IsFiniteSet(T) /\ m \in Nat
      /\ m <= Cardinality(Held(a)) /\ Cardinality(Held(a)) \in Nat
  <2>1. Held(a) \in SUBSET S /\ T \subseteq Held(a)
    BY DEF Held
  <2>2. QED
    BY <2>1, FS_Subset, FS_CardinalityType
<1>5. Cardinality(Held(b)) = m + 1
  BY <1>3, <1>4, FS_AddElement
<1>6. T \subseteq S /\ \A k \in T : a[k] # 0 /\ k # e
  BY DEF Held
<1> HIDE DEF T, r, b, m
<1>7. b[e] = 1 /\ \A k \in T : b[k] = 1 + r(k)
  BY <1>2, <1>6
<1>8. \A k \in T : r(k) \in 1 .. m
  BY <1>1
<1>9. \A i \in 1 .. m : \E k \in T : r(k) = i
  BY <1>1
<1>10. \A k \in T \cup {e} : b[k] \in 1 .. m + 1
  BY <1>4, <1>7, <1>8
<1>11. \A i \in 1 .. m + 1 : \E k \in T \cup {e} : b[k] = i
  <2> TAKE i \in 1 .. m + 1
  <2>1. CASE i = 1
    BY <1>7, <2>1
  <2>2. CASE i # 1
    <3>1. i - 1 \in 1 .. m
      BY <1>4, <2>2
    <3>2. PICK k \in T : r(k) = i - 1
      BY <1>9, <3>1
    <3>3. b[k] = i
      BY <1>7, <3>2
    <3>4. QED
      BY <3>3
  <2>3. QED
    BY <2>1, <2>2
<1>12. {b[k] : k \in T \cup {e}} = 1 .. m + 1
  BY <1>10, <1>11
<1>13. QED
  BY <1>3, <1>4, <1>5, <1>12 DEF IsRanking, b

LEMMA DropRanks ==
    ASSUME NEW S, IsFiniteSet(S), NEW a \in [S -> Nat], IsRanking(a), NEW e \in S
    PROVE  /\ IsRanking(Drop(a, e))
           /\ Cardinality(Held(Drop(a, e))) <= Cardinality(Held(a))
<1> DEFINE T == Held(a) \ {e}
           r(k) == Cardinality({j \in T : a[j] <= a[k]})
           b == Drop(a, e)
<1>1. {r(k) : k \in T} = 1 .. Cardinality(T)
  BY RankedWithout
<1>2. Held(b) = T
  BY DropHolds
<1>3. \A k \in T : b[k] = r(k)
  <2>1. Held(a) \cap (S \ {e}) = T
    BY DEF Held
  <2>2. b = [k \in S |-> IF k \in S \ {e} /\ a[k] # 0 THEN r(k) ELSE 0]
    BY <2>1 DEF Drop, Among
  <2>3. \A k \in T : k \in S \ {e} /\ a[k] # 0
    BY DEF Held
  <2> HIDE DEF T, r, b
  <2>4. QED
    BY <2>2, <2>3
<1>4. Cardinality(T) <= Cardinality(Held(a))
  <2>1. Held(a) \in SUBSET S /\ T \subseteq Held(a)
    BY DEF Held
  <2>2. QED
    BY <2>1, FS_Subset
<1> HIDE DEF T, r, b
<1>5. {b[k] : k \in T} = 1 .. Cardinality(T)
  BY <1>1, <1>3
<1>6. QED
  BY <1>2, <1>4, <1>5 DEF IsRanking, b

(* A cut leaves at most as many entries as its cap. *)
LEMMA NewestRanks ==
    ASSUME NEW S, IsFiniteSet(S), NEW a \in [S -> Nat], IsRanking(a), NEW cap \in Nat
    PROVE  /\ IsRanking(Newest(a, cap))
           /\ Cardinality(Held(Newest(a, cap))) <= cap
<1> DEFINE n == Cardinality(Held(a))
           v == IF cap <= n THEN cap ELSE n
           b == Newest(a, cap)
           U == {k \in Held(a) : a[k] <= v}
<1>1. n \in Nat
  <2>1. Held(a) \in SUBSET S
    BY DEF Held
  <2>2. QED
    BY <2>1, FS_Subset, FS_CardinalityType
<1>2. v \in 0 .. Cardinality(Held(a)) /\ v <= cap
  BY <1>1
<1>3. /\ \A k \in Held(a) : a[k] \in 1 .. n
      /\ \A i \in 1 .. n : \E k \in Held(a) : a[k] = i
  BY DEF IsRanking
<1>4. Held(b) = U
  <2>1. b = [k \in S |-> IF a[k] <= cap THEN a[k] ELSE 0]
    BY DEF Newest
  <2>2. \A k \in S : b[k] # 0 <=> a[k] # 0 /\ a[k] <= cap
    BY <2>1
  <2>3. Held(b) = {k \in S : a[k] # 0 /\ a[k] <= cap}
    BY <2>1, <2>2 DEF Held
  <2>4. Held(a) = {k \in S : a[k] # 0}
    BY DEF Held
  <2>5. \A k \in Held(a) : a[k] <= cap <=> a[k] <= v
    BY <1>1, <1>3
  <2> HIDE DEF b, v
  <2>6. QED
    BY <2>3, <2>4, <2>5
<1>5. Cardinality(U) = v
  <2> HIDE DEF v
  <2>1. QED
    BY <1>2, RankedUpTo
<1>6. \A k \in U : b[k] = a[k]
  <2>1. U \subseteq S
    BY DEF Held
  <2>2. \A k \in U : a[k] \in Nat /\ a[k] <= cap
    BY <1>1, <1>2, <1>3
  <2> HIDE DEF U, v
  <2>3. QED
    BY <2>1, <2>2 DEF Newest
<1>7. {a[k] : k \in U} = 1 .. v
  <2>1. \A k \in U : a[k] \in 1 .. v
    BY <1>1, <1>2, <1>3
  <2>2. \A i \in 1 .. v : \E k \in U : a[k] = i
    BY <1>1, <1>2, <1>3
  <2> HIDE DEF U, v
  <2>3. QED
    BY <2>1, <2>2
<1> HIDE DEF U, v, b
<1>8. {b[k] : k \in U} = 1 .. v
  BY <1>6, <1>7
<1>9. QED
  BY <1>2, <1>4, <1>5, <1>8 DEF IsRanking, b

-----------------------------------------------------------------------------
(* The caps and what slips past them.                                      *)

RanksOf(c) == IsRanking(c.delivered) /\ IsRanking(c.pending)

(* The workers that stand at a save and whose save is not the running one. *)
Waiting(place) == {x \in Event : stage[x] = place} \ writing

(* While a save runs, memory exceeds the caps by no more than what other   *)
(* workers have settled since it was pruned; they all still await a save.  *)
SlackInv ==
    writing # {} =>
        /\ Cardinality(Held(mem.delivered)) <= MaxDelivered + Cardinality(Waiting("marking"))
        /\ Cardinality(Held(mem.pending)) <= MaxPending + Cardinality(Waiting("recording"))

BoundInv ==
    /\ RanksOf(mem)
    /\ CheckpointBounded
    /\ Cardinality(InFlight) <= Workers
    /\ \A x, y \in writing : x = y
    /\ SlackInv

LEMMA MarkRanks ==
    ASSUME NEW c \in Checkpoint, NEW e \in Event, RanksOf(c)
    PROVE  /\ RanksOf(Mark(c, e))
           /\ Cardinality(Held(Mark(c, e).delivered)) <= Cardinality(Held(c.delivered)) + 1
           /\ Cardinality(Held(Mark(c, e).pending)) <= Cardinality(Held(c.pending))
<1>1. c.delivered \in [Event -> Nat] /\ c.pending \in [Event -> Nat]
  BY DEF Checkpoint
<1>2. /\ Mark(c, e).delivered = Touch(c.delivered, e)
      /\ Mark(c, e).pending = Drop(c.pending, e)
  BY DEF Mark, Checkpoint
<1>3. QED
  BY <1>1, <1>2, EventFinite, TouchRanks, DropRanks DEF RanksOf

LEMMA RecordRanks ==
    ASSUME NEW c \in Checkpoint, NEW e \in Event, RanksOf(c)
    PROVE  /\ RanksOf(Record(c, e))
           /\ Record(c, e).delivered = c.delivered
           /\ Cardinality(Held(Record(c, e).pending)) <= Cardinality(Held(c.pending)) + 1
<1>1. c.pending \in [Event -> Nat]
  BY DEF Checkpoint
<1>2. Record(c, e).delivered = c.delivered /\ Record(c, e).pending = Touch(c.pending, e)
  BY DEF Record, Checkpoint
<1>3. QED
  BY <1>1, <1>2, EventFinite, TouchRanks DEF RanksOf

LEMMA CutRanks ==
    ASSUME NEW c \in Checkpoint, RanksOf(c)
    PROVE  /\ RanksOf(Cut(c))
           /\ Cardinality(Held(Cut(c).delivered)) <= MaxDelivered
           /\ Cardinality(Held(Cut(c).pending)) <= MaxPending
<1>1. c.delivered \in [Event -> Nat] /\ c.pending \in [Event -> Nat]
  BY DEF Checkpoint
<1>2. /\ Cut(c).delivered = Newest(c.delivered, MaxDelivered)
      /\ Cut(c).pending = Newest(c.pending, MaxPending)
  BY DEF Cut, Checkpoint
<1>3. MaxDelivered \in Nat /\ MaxPending \in Nat
  BY LedgerAssumption
<1>4. QED
  BY <1>1, <1>2, <1>3, EventFinite, NewestRanks DEF RanksOf

(* Sets of events can be counted. *)
LEMMA EventsCount ==
    ASSUME NEW B \in SUBSET Event
    PROVE  /\ IsFiniteSet(B) /\ Cardinality(B) \in Nat
           /\ \A A \in SUBSET B : Cardinality(A) <= Cardinality(B)
           /\ \A e \in B : Cardinality(B \ {e}) = Cardinality(B) - 1
           /\ \A e : Cardinality(B \cup {e}) =
                         IF e \in B THEN Cardinality(B) ELSE Cardinality(B) + 1
<1>1. IsFiniteSet(B)
  BY EventFinite, FS_Subset
<1>2. QED
  BY <1>1, FS_Subset, FS_CardinalityType, FS_RemoveElement, FS_AddElement

(* At most Workers events are in flight: one is added when a worker is     *)
(* free.                                                                   *)
LEMMA FlightKept ==
    ASSUME Cardinality(InFlight) <= Workers, NEW e \in Event,
           \A x \in Event \ {e} : stage'[x] = stage[x],
           \/ stage'[e] = "none" \/ stage[e] # "none"
           \/ Cardinality(InFlight) < Workers
    PROVE  Cardinality(InFlight') <= Workers
<1>1. Event' = Event /\ InFlight \subseteq Event /\ InFlight \cup {e} \subseteq Event
  BY DEF InFlight, Event
<1>2. Cardinality(InFlight) \in Nat /\ Workers \in Nat
  BY <1>1, EventsCount, LedgerAssumption
<1>3. CASE stage'[e] = "none" \/ stage[e] # "none"
  <2>1. InFlight' \subseteq InFlight
    BY <1>1, <1>3 DEF InFlight
  <2>2. Cardinality(InFlight') \in Nat /\ Cardinality(InFlight') <= Cardinality(InFlight)
    BY <1>1, <2>1, EventsCount
  <2>3. QED
    BY <1>2, <2>2
<1>4. CASE Cardinality(InFlight) < Workers
  <2>1. InFlight' \subseteq InFlight \cup {e}
    BY <1>1 DEF InFlight
  <2>2. /\ Cardinality(InFlight \cup {e}) <= Cardinality(InFlight) + 1
        /\ Cardinality(InFlight \cup {e}) \in Nat
    BY <1>1, <1>2, EventsCount
  <2>3. Cardinality(InFlight') \in Nat /\ Cardinality(InFlight') <= Cardinality(InFlight \cup {e})
    BY <1>1, <2>1, EventsCount
  <2>4. QED
    BY <1>2, <1>4, <2>2, <2>3
<1>5. QED
  BY <1>3, <1>4

(* While another worker's save runs, memory grows by an entry only when    *)
(* one more worker comes to await a save.                                  *)
LEMMA SlackKept ==
    ASSUME TypeOK, SlackInv, mem' \in Checkpoint, writing' = writing,
           NEW e \in Event, e \notin writing,
           stage[e] \notin {"marking", "recording"},
           \A x \in Event \ {e} : stage'[x] = stage[x],
           \/ mem'.delivered = mem.delivered
           \/ /\ stage'[e] = "marking"
              /\ Cardinality(Held(mem'.delivered)) <= Cardinality(Held(mem.delivered)) + 1,
           \/ Cardinality(Held(mem'.pending)) <= Cardinality(Held(mem.pending))
           \/ /\ stage'[e] = "recording"
              /\ Cardinality(Held(mem'.pending)) <= Cardinality(Held(mem.pending)) + 1
    PROVE  SlackInv'
<1> SUFFICES ASSUME writing # {}
             PROVE  /\ Cardinality(Held(mem'.delivered)) <= MaxDelivered + Cardinality(Waiting("marking")')
                    /\ Cardinality(Held(mem'.pending)) <= MaxPending + Cardinality(Waiting("recording")')
  BY DEF SlackInv
<1>1. Event' = Event
  BY DEF Event
<1>2. ASSUME NEW place \in {"marking", "recording"}
      PROVE  /\ Cardinality(Waiting(place)) \in Nat /\ Cardinality(Waiting(place)') \in Nat
             /\ Cardinality(Waiting(place)) <= Cardinality(Waiting(place)')
             /\ stage'[e] = place => Cardinality(Waiting(place)') = Cardinality(Waiting(place)) + 1
  <2>1. /\ Waiting(place) \subseteq Event /\ Waiting(place)' \subseteq Event
        /\ Waiting(place) \subseteq Waiting(place)' /\ e \notin Waiting(place)
        /\ stage'[e] = place => Waiting(place)' = Waiting(place) \cup {e}
    BY <1>1 DEF Waiting
  <2>2. QED
    BY <2>1, EventsCount
<1>3. /\ Cardinality(Held(mem.delivered)) \in Nat /\ Cardinality(Held(mem.pending)) \in Nat
      /\ Cardinality(Held(mem'.delivered)) \in Nat /\ Cardinality(Held(mem'.pending)) \in Nat
  <2>1. \A c \in Checkpoint : Held(c.delivered) \subseteq Event /\ Held(c.pending) \subseteq Event
    BY DEF Checkpoint, Held
  <2>2. QED
    BY <2>1, EventsCount DEF TypeOK
<1>4. /\ Cardinality(Held(mem.delivered)) <= MaxDelivered + Cardinality(Waiting("marking"))
      /\ Cardinality(Held(mem.pending)) <= MaxPending + Cardinality(Waiting("recording"))
  BY DEF SlackInv
<1>5. MaxDelivered \in Nat /\ MaxPending \in Nat
  BY LedgerAssumption
<1>6. Cardinality(Held(mem'.delivered)) <= MaxDelivered + Cardinality(Waiting("marking")')
  BY <1>2, <1>3, <1>4, <1>5
<1>7. Cardinality(Held(mem'.pending)) <= MaxPending + Cardinality(Waiting("recording")')
  BY <1>2, <1>3, <1>4, <1>5
<1>8. QED
  BY <1>6, <1>7

(* The file is bounded when what is written to it was. *)
LEMMA FileUnchanged ==
    ASSUME CheckpointBounded, disk' = disk
    PROVE  CheckpointBounded'
BY DEF CheckpointBounded

(* The steps of a worker while its event is not at a save. *)
LEMMA BoundedBeside ==
    ASSUME IInv, BoundInv, NEW e \in Event,
           disk' = disk, writing' = writing,
           stage[e] \notin {"caching", "marking", "recording"},
           \A x \in Event \ {e} : stage'[x] = stage[x],
           \/ stage'[e] = "none" \/ stage[e] # "none"
           \/ Cardinality(InFlight) < Workers,
           \/ mem' = mem
           \/ mem' = Mark(mem, e) /\ stage'[e] = "marking"
           \/ mem' = Record(mem, e) /\ stage'[e] = "recording"
    PROVE  BoundInv'
<1>1. /\ TypeOK /\ mem \in Checkpoint /\ RanksOf(mem) /\ e \notin writing
      /\ SlackInv /\ CheckpointBounded /\ Cardinality(InFlight) <= Workers
      /\ \A x, y \in writing : x = y
  BY DEF IInv, TypeOK, WorkInv, BoundInv
<1>2. CheckpointBounded' /\ Cardinality(InFlight') <= Workers
  BY <1>1, FileUnchanged, FlightKept
<1>3. RanksOf(mem')
  BY <1>1, MarkRanks, RecordRanks
<1>4. mem' \in Checkpoint
  BY <1>1, MarkOK, RecordOK
<1>5. SlackInv'
  <2>1. Held(mem.pending) \subseteq Event
    BY <1>1 DEF Checkpoint, Held
  <2>2. Cardinality(Held(mem.pending)) <= Cardinality(Held(mem.pending))
    BY <2>1, EventsCount
  <2>3. CASE mem' = mem
    BY <1>1, <1>4, <2>2, <2>3, SlackKept
  <2>4. CASE mem' = Mark(mem, e) /\ stage'[e] = "marking"
    BY <1>1, <1>4, <2>4, MarkRanks, SlackKept
  <2>5. CASE mem' = Record(mem, e) /\ stage'[e] = "recording"
    BY <1>1, <1>4, <2>5, RecordRanks, SlackKept
  <2>6. QED
    BY <2>3, <2>4, <2>5
<1>6. QED
  BY <1>1, <1>2, <1>3, <1>5 DEF BoundInv, RanksOf

LEMMA BoundedBeginSave ==
    ASSUME IInv, BoundInv, NEW e \in Event, BeginSave(e)
    PROVE  BoundInv'
<1>1. mem \in Checkpoint /\ RanksOf(mem) /\ mem' = Cut(mem) /\ writing' = {e}
      /\ disk' = disk /\ stage' = stage
  BY DEF IInv, TypeOK, BoundInv, BeginSave, Prune
<1>2. /\ RanksOf(mem') /\ mem' \in Checkpoint
      /\ Cardinality(Held(mem'.delivered)) <= MaxDelivered
      /\ Cardinality(Held(mem'.pending)) <= MaxPending
  BY <1>1, CutRanks, CutOK
<1>3. SlackInv'
  <2>1. \A place : Waiting(place)' \subseteq Event
    BY DEF Waiting, Event
  <2>2. /\ Cardinality(Waiting("marking")') \in Nat
        /\ Cardinality(Waiting("recording")') \in Nat
    BY <2>1, EventsCount
  <2>3. /\ Cardinality(Held(mem'.delivered)) \in Nat
        /\ Cardinality(Held(mem'.pending)) \in Nat
    <3>1. Held(mem'.delivered) \subseteq Event /\ Held(mem'.pending) \subseteq Event
      BY <1>2 DEF Checkpoint, Held
    <3>2. QED
      BY <3>1, EventsCount
  <2>4. QED
    BY <1>2, <2>2, <2>3, LedgerAssumption DEF SlackInv
<1>4. CheckpointBounded'
  BY <1>1, FileUnchanged DEF BoundInv
<1>5. Cardinality(InFlight') <= Workers
  BY <1>1 DEF BoundInv, InFlight, Event
<1>6. QED
  BY <1>1, <1>2, <1>3, <1>4, <1>5 DEF BoundInv, RanksOf

(* What a save writes: the other workers that have settled since it was    *)
(* pruned are in flight, and so is the worker that saves.                  *)
LEMMA BoundedEndSave ==
    ASSUME IInv, BoundInv, NEW e \in Event, EndSave(e)
    PROVE  BoundInv'
<1>1. /\ mem \in Checkpoint /\ RanksOf(mem) /\ stage \in [Event -> Stages]
      /\ e \in writing /\ stage[e] \in {"caching", "marking", "recording"}
      /\ writing' = {} /\ mem' = mem /\ disk' = mem
      /\ stage' = [stage EXCEPT ![e] = IF stage[e] = "caching" THEN "ready" ELSE "none"]
  BY DEF IInv, TypeOK, WorkInv, BoundInv, EndSave, At
<1>2. ASSUME NEW place \in {"marking", "recording"}
      PROVE  /\ Cardinality(Waiting(place)) \in Nat
             /\ Cardinality(Waiting(place)) <= Workers - 1
  <2>1. /\ InFlight \subseteq Event /\ e \in InFlight
        /\ InFlight \ {e} \subseteq Event
        /\ Waiting(place) \subseteq InFlight \ {e}
    BY <1>1 DEF InFlight, Waiting
  <2>2. /\ Cardinality(InFlight) \in Nat /\ Cardinality(Waiting(place)) \in Nat
        /\ Cardinality(InFlight \ {e}) = Cardinality(InFlight) - 1
        /\ Cardinality(Waiting(place)) <= Cardinality(InFlight \ {e})
    BY <2>1, EventsCount
  <2>3. QED
    BY <2>2, LedgerAssumption DEF BoundInv
<1>3. /\ Cardinality(Held(mem.delivered)) <= MaxDelivered + Workers - 1
      /\ Cardinality(Held(mem.pending)) <= MaxPending + Workers - 1
  <2>1. /\ Cardinality(Held(mem.delivered)) \in Nat
        /\ Cardinality(Held(mem.pending)) \in Nat
    <3>1. Held(mem.delivered) \subseteq Event /\ Held(mem.pending) \subseteq Event
      BY <1>1 DEF Checkpoint, Held
    <3>2. QED
      BY <3>1, EventsCount
  <2>2. /\ Cardinality(Held(mem.delivered)) <= MaxDelivered + Cardinality(Waiting("marking"))
        /\ Cardinality(Held(mem.pending)) <= MaxPending + Cardinality(Waiting("recording"))
    BY <1>1 DEF BoundInv, SlackInv
  <2>3. QED
    BY <1>2, <2>1, <2>2, LedgerAssumption
<1>4. CheckpointBounded'
  BY <1>1, <1>3 DEF CheckpointBounded, RanksOf
<1>5. Cardinality(InFlight') <= Workers
  BY <1>1, FlightKept DEF BoundInv
<1>6. QED
  BY <1>1, <1>4, <1>5 DEF BoundInv, RanksOf, SlackInv

LEMMA BoundedSaveFails ==
    ASSUME IInv, BoundInv, NEW e \in Event, MarkSaveFails(e) \/ SaveFails(e)
    PROVE  BoundInv'
<1>1. /\ mem \in Checkpoint /\ RanksOf(mem) /\ stage \in [Event -> Stages]
      /\ stage[e] # "none" /\ writing' = {} /\ disk' = disk
      /\ mem' = mem \/ mem' = Record(mem, e)
      /\ \A x \in Event \ {e} : stage'[x] = stage[x]
  BY DEF IInv, TypeOK, BoundInv, MarkSaveFails, SaveFails, At
<1>2. RanksOf(mem')
  BY <1>1, RecordRanks
<1>3. CheckpointBounded' /\ Cardinality(InFlight') <= Workers
  BY <1>1, FileUnchanged, FlightKept DEF BoundInv
<1>4. QED
  BY <1>1, <1>2, <1>3 DEF BoundInv, RanksOf, SlackInv

LEMMA BoundedFinishBlock ==
    ASSUME IInv, BoundInv, FinishBlock
    PROVE  BoundInv'
<1> DEFINE c == [mem EXCEPT !.last = next]
<1>1. /\ mem' = Cut(c) /\ disk' = mem' /\ stage' = stage /\ writing' = writing
  BY DEF FinishBlock, Prune
<1>2. writing = {}
  BY DEF FinishBlock, Idle, InFlight, IInv, TypeOK, WorkInv
<1>3. c \in Checkpoint /\ RanksOf(c)
  <2>1. c \in Checkpoint
    BY DEF IInv, TypeOK, Checkpoint, FinishBlock
  <2>2. c.delivered = mem.delivered /\ c.pending = mem.pending
    BY DEF IInv, TypeOK, Checkpoint
  <2>3. QED
    BY <2>1, <2>2 DEF BoundInv, RanksOf
<1>4. /\ RanksOf(mem') /\ mem' \in Checkpoint
      /\ Cardinality(Held(mem'.delivered)) <= MaxDelivered
      /\ Cardinality(Held(mem'.pending)) <= MaxPending
  BY <1>1, <1>3, CutRanks, CutOK
<1>5. /\ Cardinality(Held(mem'.delivered)) <= MaxDelivered + Workers - 1
      /\ Cardinality(Held(mem'.pending)) <= MaxPending + Workers - 1
  <2>1. /\ Cardinality(Held(mem'.delivered)) \in Nat
        /\ Cardinality(Held(mem'.pending)) \in Nat
    <3>1. Held(mem'.delivered) \subseteq Event /\ Held(mem'.pending) \subseteq Event
      BY <1>4 DEF Checkpoint, Held
    <3>2. QED
      BY <3>1, EventsCount
  <2>2. QED
    BY <1>4, <2>1, LedgerAssumption
<1>6. CheckpointBounded'
  BY <1>1, <1>4, <1>5 DEF CheckpointBounded, RanksOf
<1>7. Cardinality(InFlight') <= Workers
  BY <1>1 DEF BoundInv, InFlight, Event
<1>8. QED
  BY <1>1, <1>2, <1>4, <1>6, <1>7 DEF BoundInv, RanksOf, SlackInv

(* A run starts or ends: memory is what the file holds. *)
LEMMA BoundedTurn ==
    ASSUME IInv, BoundInv, mem' = disk, disk' = disk, writing' = {},
           stage' = stage \/ \A e \in Event : stage'[e] = "none"
    PROVE  BoundInv'
<1>1. CheckpointBounded'
  BY FileUnchanged DEF BoundInv
<1>2. Cardinality(InFlight') <= Workers
  <2>1. InFlight' \subseteq InFlight /\ InFlight \subseteq Event
    BY DEF InFlight, Event
  <2>2. /\ Cardinality(InFlight') \in Nat /\ Cardinality(InFlight) \in Nat
        /\ Cardinality(InFlight') <= Cardinality(InFlight)
    BY <2>1, EventsCount
  <2>3. QED
    BY <2>2, LedgerAssumption DEF BoundInv
<1>3. QED
  BY <1>1, <1>2 DEF BoundInv, RanksOf, SlackInv, CheckpointBounded

LEMMA BoundStep ==
    ASSUME IInv, BoundInv, [Next]_vars
    PROVE  BoundInv'
<1>1. stage \in [Event -> Stages] /\ \A e \in todo : e \in Event => stage[e] = "none"
  BY DEF IInv, TypeOK, WorkInv
<1>2. ASSUME NEW e \in Event,
             \/ TakeAudit(e)     \/ SkipDelivered(e) \/ SkipMuted(e)
             \/ BeginPost(e)     \/ PostOk(e)        \/ PostNowhere(e)
             \/ PostDry(e)       \/ PostFail(e)
      PROVE  BoundInv'
  <2>1. /\ stage[e] \notin {"caching", "marking", "recording"}
        /\ \/ stage'[e] = "none" \/ stage[e] # "none"
           \/ Cardinality(InFlight) < Workers
        /\ \A x \in Event \ {e} : stage'[x] = stage[x]
        /\ disk' = disk /\ writing' = writing
        /\ \/ mem' = mem
           \/ mem' = Mark(mem, e) /\ stage'[e] = "marking"
           \/ mem' = Record(mem, e) /\ stage'[e] = "recording"
    BY <1>1, <1>2
       DEF TakeAudit, SkipDelivered, SkipMuted, BeginPost, Emit, Take, At,
           PostOk, PostNowhere, PostDry, PostFail
  <2>2. QED
    BY <2>1, BoundedBeside
<1>3. ASSUME NEW e \in Event,
             BeginSave(e) \/ EndSave(e) \/ MarkSaveFails(e) \/ SaveFails(e)
      PROVE  BoundInv'
  BY <1>3, BoundedBeginSave, BoundedEndSave, BoundedSaveFails
<1>4. CASE FinishRetries \/ UNCHANGED vars
  <2>1. mem' = mem /\ disk' = disk /\ stage' = stage /\ writing' = writing
    BY <1>4 DEF FinishRetries, vars
  <2>2. CheckpointBounded'
    BY <2>1, FileUnchanged DEF BoundInv
  <2>3. SlackInv' /\ InFlight' = InFlight
    BY <2>1 DEF BoundInv, SlackInv, Waiting, InFlight, Event
  <2>4. QED
    BY <2>1, <2>2, <2>3 DEF BoundInv, RanksOf
<1>5. CASE RunFails \/ Die
  <2>1. mem' = disk /\ disk' = disk /\ writing' = {} /\ \A e \in Event : stage'[e] = "none"
    BY <1>5 DEF RunFails, Die, End
  <2>2. QED
    BY <2>1, BoundedTurn
<1>6. ASSUME NEW m \in Modes,
             \/ StartOnce(m)
             \/ \E b, to \in 1 .. LastBlock : StartReplay(m, b, to)
      PROVE  BoundInv'
  <2>1. /\ mem' = disk /\ disk' = disk /\ stage' = stage /\ writing' = writing
        /\ phase = "down"
    BY <1>6 DEF StartOnce, StartReplay, StartRun
  <2>2. writing = {}
    BY <2>1 DEF IInv, TypeOK, WorkInv
  <2>3. QED
    BY <2>1, <2>2, BoundedTurn
<1>7. QED
  BY <1>2, <1>3, <1>4, <1>5, <1>6, BoundedFinishBlock DEF Next, RunStep

LEMMA BoundInit == Init => BoundInv
<1> SUFFICES ASSUME Init PROVE BoundInv
  OBVIOUS
<1>1. /\ Held(Empty.delivered) = {} /\ Held(Empty.pending) = {}
      /\ Cardinality({}) = 0 /\ InFlight = {}
  BY EmptyOK, FS_EmptySet DEF Init, InFlight
<1>2. IsRanking(Empty.delivered) /\ IsRanking(Empty.pending)
  <2>1. ASSUME NEW a, Held(a) = {}
        PROVE  IsRanking(a)
    <3>1. 1 .. Cardinality(Held(a)) = {}
      BY <1>1, <2>1
    <3>2. QED
      BY <2>1, <3>1 DEF IsRanking
  <2>2. QED
    BY <1>1, <2>1
<1>3. QED
  BY <1>1, <1>2, LedgerAssumption
     DEF Init, BoundInv, RanksOf, CheckpointBounded, SlackInv

(* checkpoint.json never exceeds its caps by more than the events the      *)
(* other workers settle during a save, and its entries stay ordered by age *)
(* without a gap.                                                          *)
THEOREM FileBounded == Spec => []CheckpointBounded
<1>1. IInv /\ BoundInv /\ [Next]_vars => IInv' /\ BoundInv'
  BY IInvStep, BoundStep
<1>2. BoundInv => CheckpointBounded
  BY DEF BoundInv
<1>3. QED
  BY <1>1, <1>2, IInvInit, BoundInit, PTL DEF Spec
-----------------------------------------------------------------------------
(* With a webhook and room for what is pending nothing is given up.        *)

AgesFit(c) == \A e \in Event : c.pending[e] <= Cardinality(Event)

NoneGivenUp == AgesFit(mem) /\ AgesFit(disk) /\ pruned = {} /\ waived = {}

LEMMA DropAges ==
    ASSUME NEW S, IsFiniteSet(S), NEW a \in [S -> Nat], NEW e \in S
    PROVE  \A k \in S : Drop(a, e)[k] <= Cardinality(S)
<1> DEFINE Younger(k) == {j \in Held(a) \cap (S \ {e}) : a[j] <= a[k]}
<1>1. \A k \in S : Cardinality(Younger(k)) <= Cardinality(S)
  <2> TAKE k \in S
  <2>1. Younger(k) \in SUBSET S
    BY DEF Held
  <2>2. QED
    BY <2>1, FS_Subset
<1>2. Drop(a, e) = [k \in S |-> IF k \in S \ {e} /\ a[k] # 0
                                THEN Cardinality(Younger(k)) ELSE 0]
  BY DEF Drop, Among
<1>3. Cardinality(S) \in Nat
  BY FS_CardinalityType
<1> HIDE DEF Younger
<1>4. QED
  BY <1>1, <1>2, <1>3

(* The operations on a checkpoint keep the ages within the number of       *)
(* events, and with room for them a cut leaves what is pending.            *)
LEMMA FitKept ==
    ASSUME Cardinality(Event) <= MaxPending,
           NEW c \in Checkpoint, AgesFit(c), NEW e \in Event
    PROVE  /\ AgesFit(Mark(c, e))
           /\ AgesFit(Record(c, e))
           /\ Cut(c).pending = c.pending
<1>1. c.pending \in [Event -> Nat] /\ Cardinality(Event) \in Nat
  BY EventFinite, FS_CardinalityType DEF Checkpoint
<1>2. Mark(c, e).pending = Drop(c.pending, e) /\ Record(c, e).pending = Touch(c.pending, e)
  BY DEF Mark, Record, Checkpoint
<1>3. AgesFit(Mark(c, e))
  BY <1>1, <1>2, EventFinite, DropAges DEF AgesFit
<1>4. AgesFit(Record(c, e))
  BY <1>1, <1>2, EventFinite, TouchAges DEF AgesFit
<1>5. \A k \in Event : c.pending[k] <= MaxPending
  BY <1>1, LedgerAssumption DEF AgesFit
<1>6. Cut(c).pending = c.pending
  BY <1>1, <1>5, NewestKeepsAll, LedgerAssumption DEF Cut, Checkpoint
<1>7. QED
  BY <1>3, <1>4, <1>6

LEMMA PruneFit ==
    ASSUME Cardinality(Event) <= MaxPending, NEW c \in Checkpoint, AgesFit(c),
           NEW e \in Event, Prune(c)
    PROVE  AgesFit(mem') /\ pruned' = pruned
<1>1. mem'.pending = c.pending
  BY FitKept DEF Prune
<1>2. pruned' = pruned
  BY FitKept DEF Prune
<1>3. QED
  BY <1>1, <1>2 DEF AgesFit

LEMMA NoneGivenUpStep ==
    ASSUME Cardinality(Event) <= MaxPending, Modes \subseteq {"normal"},
           IInv, NoneGivenUp, [Next]_vars
    PROVE  NoneGivenUp'
<1> USE DEF NoneGivenUp
<1>1. mem \in Checkpoint /\ disk \in Checkpoint
  BY DEF IInv, TypeOK
<1>2. phase # "down" => mode = "normal"
  BY DEF IInv, RunInv
<1>3. ASSUME UNCHANGED <<mem, disk, pruned, waived>> PROVE NoneGivenUp'
  BY <1>3 DEF AgesFit, Event
<1>4. ASSUME NEW e \in Event,
             \/ TakeAudit(e) \/ SkipDelivered(e) \/ BeginPost(e) \/ SaveFails(e)
      PROVE  NoneGivenUp'
  BY <1>3, <1>4 DEF TakeAudit, SkipDelivered, BeginPost, Emit, SaveFails
<1>5. ASSUME NEW e \in Event, SkipMuted(e) \/ PostNowhere(e) \/ PostDry(e)
      PROVE  FALSE
  <2>1. phase # "down"
    BY <1>5 DEF SkipMuted, PostNowhere, PostDry, Emit, Take, IInv, WorkInv
  <2>2. QED
    BY <1>2, <1>5, <2>1 DEF SkipMuted, PostNowhere, PostDry
<1>6. ASSUME NEW e \in Event, PostOk(e) \/ PostFail(e) \/ MarkSaveFails(e)
      PROVE  NoneGivenUp'
  <2>1. mem' \in {Mark(mem, e), Record(mem, e)} /\ UNCHANGED <<disk, pruned, waived>>
    BY <1>6 DEF PostOk, PostFail, MarkSaveFails
  <2>2. AgesFit(mem')
    BY <1>1, <2>1, FitKept
  <2>3. QED
    BY <2>1, <2>2 DEF AgesFit, Event
<1>7. ASSUME NEW e \in Event, BeginSave(e) PROVE NoneGivenUp'
  <2>1. AgesFit(mem') /\ pruned' = pruned
    BY <1>1, <1>7, PruneFit DEF BeginSave
  <2>2. QED
    BY <1>7, <2>1 DEF BeginSave, AgesFit, Event
<1>8. ASSUME NEW e \in Event, EndSave(e) PROVE NoneGivenUp'
  BY <1>8 DEF EndSave, AgesFit, Event
<1>9. CASE FinishBlock
  <2>1. PICK c \in Checkpoint : c = [mem EXCEPT !.last = next] /\ c.pending = mem.pending
    BY <1>1, <1>9 DEF FinishBlock, IInv, TypeOK, Checkpoint
  <2>2. AgesFit(c) /\ Prune(c) /\ disk' = mem' /\ waived' = waived
    BY <1>9, <2>1 DEF FinishBlock, AgesFit
  <2>3. CASE Event = {}
    BY <2>1, <2>2, <2>3 DEF AgesFit, Prune, Cut, Newest, Held, Event, Checkpoint
  <2>4. CASE Event # {}
    <3>1. AgesFit(mem') /\ pruned' = pruned
      BY <2>2, <2>4, PruneFit
    <3>2. QED
      BY <2>2, <3>1 DEF AgesFit, Event
  <2>5. QED
    BY <2>3, <2>4
<1>10. CASE FinishRetries \/ UNCHANGED vars
  BY <1>3, <1>10 DEF FinishRetries, vars
<1>11. ASSUME \/ RunFails \/ Die
              \/ \E m \in Modes :
                    \/ StartOnce(m)
                    \/ \E b, to \in 1 .. LastBlock : StartReplay(m, b, to)
       PROVE  NoneGivenUp'
  <2>1. mem' = disk /\ UNCHANGED <<disk, pruned, waived>>
    BY <1>11 DEF RunFails, Die, End, StartOnce, StartReplay, StartRun
  <2>2. QED
    BY <2>1 DEF AgesFit, Event
<1>12. QED
  BY <1>4, <1>5, <1>6, <1>7, <1>8, <1>9, <1>10, <1>11 DEF Next, RunStep

(* An event of a block that the checkpoint has passed was received or      *)
(* waits for the next retry in that same checkpoint.                       *)
ReceivedOrPending ==
    \A c \in {mem, disk} : \A e \in Event :
        BlockOf(e) <= c.last => e \in received \cup Held(c.pending)

(* As long as the caps are not reached and every run sends its events,     *)
(* nothing excuses an event: whatever fails or dies, a block is passed     *)
(* only with each of its events received or recorded for the next run.     *)
(* This is the safety half of EveryEventArrives.                           *)
THEOREM NoneExcused ==
    Cardinality(Event) <= MaxPending /\ Modes \subseteq {"normal"} /\ Spec
        => []ReceivedOrPending
<1> SUFFICES ASSUME Cardinality(Event) <= MaxPending, Modes \subseteq {"normal"}
             PROVE  Spec => []ReceivedOrPending
  OBVIOUS
<1>1. Init => NoneGivenUp
  <2>1. \A e \in Event : Empty.pending[e] = 0
    BY DEF Empty, Nothing
  <2>2. Cardinality(Event) \in Nat
    BY EventFinite, FS_CardinalityType
  <2>3. QED
    BY <2>1, <2>2 DEF Init, NoneGivenUp, AgesFit
<1>2. IInv /\ NoneGivenUp /\ [Next]_vars => IInv' /\ NoneGivenUp'
  BY IInvStep, NoneGivenUpStep
<1>3. IInv /\ NoneGivenUp => ReceivedOrPending
  BY DEF IInv, NothingLost, Accounted, NoneGivenUp, ReceivedOrPending
<1>4. QED
  BY <1>1, <1>2, <1>3, IInvInit, PTL DEF Spec
=============================================================================
