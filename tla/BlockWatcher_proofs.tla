------------------------- MODULE BlockWatcher_proofs -------------------------
(***************************************************************************)
(* With CONFIRMATIONS at least as deep as the chain's reorgs, the runner   *)
(* processes every final block and remembers only canonical ones: for any  *)
(* height, any reorgs, any number of deaths and of replays of processed    *)
(* blocks.                                                                 *)
(*                                                                         *)
(* With reorgs of any depth and replays of any block, the history remains  *)
(* usable: the last processed block is in it and its entries lie on one    *)
(* branch.                                                                 *)
(***************************************************************************)
EXTENDS BlockWatcher, Sequences, FiniteSetTheorems, WellFoundedInduction, TLAPS

(* Nothing about a checkpoint can be undone by a reorg. *)
Sound(c) ==
    /\ c.last >= StartBlock => c.last + Confirmations <= head
    /\ \A n \in Entries(c) : n + Confirmations <= head /\ c.hash[n] = Hash(n)
    /\ \A n \in StartBlock .. c.last : n \in Heights /\ Hash(n) \in scanned

(* The run works on final blocks, next to those already processed. *)
RunInv ==
    /\ phase # "search"
    /\ latest <= head
    /\ phase \in {"fetch", "check", "scan"} =>
          /\ next \in Heights
          /\ next <= stopAt
          /\ stopAt + Confirmations <= head
          /\ next <= mem.last + 1
    /\ phase \in {"check", "scan"} => block = Hash(next)

IInv == TypeOK /\ RunInv /\ Sound(mem) /\ Sound(disk)

Shallow == ReorgDepth <= Confirmations /\ ~AnyReplay

-----------------------------------------------------------------------------
LEMMA HashInSet ==
    ASSUME chain \in [Heights -> Label], NEW n \in Heights
    PROVE  Hash(n) \in HashAt(n)
BY WatcherAssumption DEF Hash, HashAt, Heights

LEMMA ParentOfHash ==
    ASSUME NEW n \in Heights
    PROVE  Parent(Hash(n), n) = Hash(n - 1)
BY WatcherAssumption DEF Hash, Parent, Heights

LEMMA HeightsFinite == IsFiniteSet(Heights)
BY WatcherAssumption, FS_Interval DEF Heights

LEMMA EmptyOK == Empty \in Checkpoint /\ Entries(Empty) = {} /\ Empty.last = StartBlock - 1
<1>1. Nothing(Heights) \in [Heights -> Nat] /\ Held(Nothing(Heights)) = {}
  BY DEF Nothing, Held
<1>2. QED
  BY <1>1, WatcherAssumption DEF Empty, Checkpoint, Entries

(* Processing a block adds it to the history and may cut others off. *)
LEMMA ProcessedOK ==
    ASSUME NEW c \in Checkpoint, NEW n \in Heights, NEW h \in HashAt(n)
    PROVE  /\ Processed(c, n, h) \in Checkpoint
           /\ Processed(c, n, h).last = n
           /\ \A k \in Entries(Processed(c, n, h)) :
                 \/ k = n /\ Processed(c, n, h).hash[k] = h
                 \/ k \in Entries(c) /\ Processed(c, n, h).hash[k] = c.hash[k]
<1> DEFINE age == Newest(Touch(c.age, n), MaxHistory)
<1>1. c.age \in [Heights -> Nat]
  BY DEF Checkpoint
<1>2. /\ Touch(c.age, n) \in [Heights -> Nat]
      /\ Held(Touch(c.age, n)) = Held(c.age) \cup {n}
  <2> DEFINE younger(k) == {j \in Held(c.age) \ {n} : c.age[j] <= c.age[k]}
  <2>1. ASSUME NEW k \in Heights PROVE Cardinality(younger(k)) \in Nat
    <3>1. younger(k) \in SUBSET Heights
      BY <1>1 DEF Held
    <3>2. QED
      BY <3>1, HeightsFinite, FS_Subset, FS_CardinalityType
  <2>2. Touch(c.age, n) = [k \in Heights |-> IF k = n THEN 1
                                            ELSE IF c.age[k] = 0 THEN 0
                                            ELSE 1 + Cardinality(younger(k))]
    BY <1>1 DEF Touch
  <2> HIDE DEF younger
  <2>3. Touch(c.age, n) \in [Heights -> Nat]
    BY <2>1, <2>2
  <2>4. \A k \in Heights : Touch(c.age, n)[k] # 0 <=> k = n \/ c.age[k] # 0
    BY <2>1, <2>2
  <2>5. QED
    BY <1>1, <2>3, <2>4 DEF Held
<1>3. /\ age \in [Heights -> Nat]
      /\ Held(age) \subseteq Held(c.age) \cup {n}
  BY <1>2, WatcherAssumption DEF Newest, Held
<1>4. Held(age) = {k \in Heights : age[k] # 0}
  BY <1>3 DEF Held
<1> HIDE DEF age
<1>5. Processed(c, n, h) =
        [last |-> n, age |-> age,
         hash |-> [k \in Heights |-> IF k = n THEN h
                                     ELSE IF age[k] # 0 THEN c.hash[k] ELSE None]]
  BY DEF Processed, age
<1>6. n \in Nat
  BY WatcherAssumption DEF Heights
<1>7. QED
  BY <1>3, <1>4, <1>5, <1>6 DEF Checkpoint, Entries

-----------------------------------------------------------------------------
LEMMA IInvInit == Init => IInv
<1> SUFFICES ASSUME Init PROVE IInv
  OBVIOUS
<1>1. TypeOK
  <2>1. chain \in [Heights -> Label] /\ 0 \in 0 .. Top
    BY WatcherAssumption DEF Init, Label
  <2>2. QED
    BY <2>1, EmptyOK DEF Init, TypeOK
<1>2. RunInv
  BY DEF Init, RunInv
<1>3. Sound(Empty)
  BY EmptyOK, WatcherAssumption DEF Sound
<1>4. QED
  BY <1>1, <1>2, <1>3 DEF Init, IInv

(* A step that leaves the final blocks as they are ... *)
Stable ==
    /\ head <= head'
    /\ scanned \subseteq scanned'
    /\ \A n \in Heights : n + Confirmations <= head => Hash(n)' = Hash(n)

(* ... leaves a sound checkpoint sound. *)
SoundNext(c) ==
    /\ c.last >= StartBlock => c.last + Confirmations <= head'
    /\ \A n \in Entries(c) : n + Confirmations <= head' /\ c.hash[n] = Hash(n)'
    /\ \A n \in StartBlock .. c.last : n \in Heights /\ Hash(n)' \in scanned'

LEMMA StableSound ==
    ASSUME Stable, TypeOK, head' \in Nat, NEW c \in Checkpoint, Sound(c)
    PROVE  SoundNext(c)
<1>1. head \in Nat /\ c.last \in Nat /\ Confirmations \in Nat /\ StartBlock \in Nat
  BY WatcherAssumption DEF TypeOK, Checkpoint
<1>2. Entries(c) \subseteq Heights /\ Heights \subseteq Nat
  <2>1. c.age \in [Heights -> Nat]
    BY DEF Checkpoint
  <2>2. QED
    BY <2>1, WatcherAssumption DEF Entries, Held, Heights
<1>3. c.last >= StartBlock => c.last + Confirmations <= head'
  BY <1>1 DEF Stable, Sound
<1>4. ASSUME NEW n \in Entries(c)
      PROVE  n + Confirmations <= head' /\ c.hash[n] = Hash(n)'
  <2>1. n \in Heights /\ n \in Nat /\ n + Confirmations <= head /\ c.hash[n] = Hash(n)
    BY <1>2, <1>4 DEF Sound
  <2>2. Hash(n)' = Hash(n)
    BY <2>1 DEF Stable
  <2>3. QED
    BY <1>1, <2>1, <2>2 DEF Stable
<1>5. ASSUME NEW n \in StartBlock .. c.last
      PROVE  n \in Heights /\ Hash(n)' \in scanned'
  <2>1. n \in Heights /\ n + Confirmations <= head
    BY <1>1 DEF Sound
  <2>2. QED
    BY <2>1 DEF Stable, Sound
<1>6. QED
  BY <1>3, <1>4, <1>5 DEF SoundNext

LEMMA BothSound ==
    ASSUME IInv, TypeOK', Stable, mem' \in {mem, disk}, disk' = disk
    PROVE  Sound(mem)' /\ Sound(disk)'
<1>1. head' \in Nat /\ mem \in Checkpoint /\ disk \in Checkpoint
  BY WatcherAssumption DEF IInv, TypeOK
<1>2. SoundNext(mem) /\ SoundNext(disk)
  BY <1>1, StableSound DEF IInv
<1>3. QED
  BY <1>2 DEF SoundNext, Sound, Entries, Hash

(* Only a reorg changes the chain, and it is too shallow to matter. *)
LEMMA UnchangedStable ==
    ASSUME UNCHANGED env, scanned \subseteq scanned', TypeOK
    PROVE  Stable
BY WatcherAssumption DEF env, Stable, Hash, TypeOK

LEMMA ReorgStep ==
    ASSUME IInv, Shallow, NEW n \in Heights, NEW label \in Label, Reorg(n, label)
    PROVE  IInv'
<1> USE DEF Reorg
<1>1. TypeOK'
  BY WatcherAssumption DEF IInv, TypeOK, Label, Heights
<1>2. \A k \in 0 .. Top : k + Confirmations <= head => Hash(k)' = Hash(k)
  <2> TAKE k \in 0 .. Top
  <2> HAVE k + Confirmations <= head
  <2>1. k < n
    BY WatcherAssumption DEF Shallow, IInv, TypeOK, Heights
  <2>2. \A i \in 1 .. k : chain'[i] = chain[i]
    BY <2>1, WatcherAssumption DEF Heights
  <2>3. QED
    BY <2>2 DEF Hash
<1>3. Stable
  BY <1>2, WatcherAssumption DEF Stable, IInv, TypeOK, Heights
<1>4. Sound(mem)' /\ Sound(disk)'
  BY <1>1, <1>3, BothSound
<1>5. RunInv'
  <2>1. phase \in {"check", "scan"} => Hash(next)' = Hash(next)
    <3> SUFFICES ASSUME phase \in {"check", "scan"} PROVE Hash(next)' = Hash(next)
      OBVIOUS
    <3>1. next \in 0 .. Top /\ next + Confirmations <= head
      BY WatcherAssumption DEF IInv, RunInv, TypeOK, Heights
    <3>2. [i \in 1 .. next |-> chain'[i]] = Hash(next)
      BY <3>1, <1>2 DEF Hash
    <3>3. QED
      BY <3>2 DEF Hash
  <2>2. QED
    BY <2>1 DEF IInv, RunInv
<1>6. QED
  BY <1>1, <1>4, <1>5 DEF IInv

(* The steps of the runner that save nothing. *)
LEMMA QuietStep ==
    ASSUME IInv, TypeOK', RunInv', UNCHANGED <<env, disk, scanned>>,
           mem' \in {mem, disk}
    PROVE  IInv'
<1>1. Stable
  BY UnchangedStable DEF IInv
<1>2. Sound(mem)' /\ Sound(disk)'
  BY <1>1, BothSound
<1>3. QED
  BY <1>2 DEF IInv

LEMMA MineStep == ASSUME IInv, Mine PROVE IInv'
<1> USE DEF Mine
<1>1. TypeOK'
  BY WatcherAssumption DEF IInv, TypeOK
<1>2. Stable
  BY WatcherAssumption DEF Stable, Hash, IInv, TypeOK
<1>3. Sound(mem)' /\ Sound(disk)'
  BY <1>1, <1>2, BothSound
<1>4. RunInv'
  <2>1. Hash(next)' = Hash(next)
    BY DEF Hash
  <2>2. QED
    BY <2>1, WatcherAssumption DEF IInv, RunInv, TypeOK, Heights
<1>5. QED
  BY <1>1, <1>3, <1>4 DEF IInv

(* A step of the runner keeps what it does not touch of its run. *)
LEMMA RunnerStep ==
    ASSUME IInv, Shallow,
           \/ StartWatch \/ (\E n, to \in Heights : StartReplay(n, to))
           \/ BeginRange \/ HearOfHead \/ Fetch \/ NotFound \/ CheckParent \/ Die
    PROVE  IInv'
<1> USE DEF env, Upset
<1>a. /\ head \in Nat /\ latest \in Nat /\ mem.last \in Nat /\ disk.last \in Nat
      /\ Confirmations \in Nat /\ Top \in Nat /\ StartBlock \in Nat /\ head <= Top
  BY WatcherAssumption DEF IInv, TypeOK, Checkpoint
<1>1. CASE StartWatch
  <2>1. TypeOK'
    BY <1>1 DEF StartWatch, IInv, TypeOK
  <2>2. RunInv'
    BY <1>1, <1>a DEF StartWatch, RunInv
  <2>3. QED
    BY <1>1, <2>1, <2>2, QuietStep DEF StartWatch
<1>2. ASSUME NEW n \in Heights, NEW to \in Heights, StartReplay(n, to)
      PROVE  IInv'
  <2>1. TypeOK'
    BY <1>2, WatcherAssumption DEF StartReplay, IInv, TypeOK, Heights
  <2>2. n \in Nat /\ to \in Nat /\ StartBlock <= n /\ n <= to /\ to <= disk.last
    BY <1>2, WatcherAssumption DEF StartReplay, Shallow, Heights
  <2>3. to + Confirmations <= head /\ n <= disk.last + 1
    BY <2>2, <1>a DEF IInv, Sound
  <2>4. RunInv'
    BY <1>2, <1>a, <2>2, <2>3 DEF StartReplay, IInv, RunInv
  <2>5. QED
    BY <1>2, <2>1, <2>4, QuietStep DEF StartReplay
<1>3. CASE BeginRange
  <2>1. /\ mem.last + 1 \in Nat /\ latest - Confirmations \in 0 .. Top
        /\ mem.last + 1 \in Heights
    BY <1>3, <1>a DEF BeginRange, IInv, RunInv, Heights
  <2>2. TypeOK'
    BY <1>3, <2>1 DEF BeginRange, IInv, TypeOK
  <2>3. RunInv'
    BY <1>3, <1>a, <2>1 DEF BeginRange, IInv, RunInv
  <2>4. QED
    BY <1>3, <2>2, <2>3, QuietStep DEF BeginRange
<1>4. CASE HearOfHead
  <2>1. TypeOK'
    BY <1>4 DEF HearOfHead, IInv, TypeOK
  <2>2. RunInv'
    BY <1>4, <1>a DEF HearOfHead, IInv, RunInv
  <2>3. QED
    BY <1>4, <2>1, <2>2, QuietStep DEF HearOfHead
<1>5. CASE Fetch
  <2>1. next \in Heights /\ Hash(next) \in HashAt(next)
    BY <1>5, HashInSet DEF Fetch, IInv, RunInv, TypeOK
  <2>2. TypeOK'
    BY <1>5, <2>1 DEF Fetch, IInv, TypeOK
  <2>3. Hash(next)' = Hash(next)
    BY <1>5 DEF Fetch, Hash
  <2>4. RunInv'
    BY <1>5, <2>3 DEF Fetch, IInv, RunInv
  <2>5. QED
    BY <1>5, <2>2, <2>4, QuietStep DEF Fetch
<1>6. CASE NotFound
  <2>1. TypeOK'
    BY <1>6 DEF NotFound, IInv, TypeOK
  <2>2. RunInv'
    BY <1>6 DEF NotFound, IInv, RunInv
  <2>3. QED
    BY <1>6, <2>1, <2>2, QuietStep DEF NotFound
<1>7. CASE CheckParent
  <2>1. ~WrongParent
    <3> SUFFICES ASSUME next - 1 \in Entries(mem) PROVE mem.hash[next - 1] = Parent(block, next)
      BY DEF WrongParent
    <3>1. next \in Heights /\ block = Hash(next)
      BY <1>7 DEF CheckParent, IInv, RunInv
    <3>2. QED
      BY <3>1, ParentOfHash DEF IInv, Sound
  <2>2. TypeOK'
    BY <1>7, <2>1 DEF CheckParent, IInv, TypeOK
  <2>3. Hash(next)' = Hash(next)
    BY <1>7 DEF CheckParent, Hash
  <2>4. RunInv'
    BY <1>7, <2>1, <2>3 DEF CheckParent, IInv, RunInv
  <2>5. QED
    BY <1>7, <2>2, <2>4, QuietStep DEF CheckParent
<1>8. CASE Die
  <2>1. TypeOK'
    BY <1>8, WatcherAssumption DEF Die, IInv, TypeOK
  <2>2. RunInv'
    BY <1>8 DEF Die, IInv, RunInv
  <2>3. QED
    BY <1>8, <2>1, <2>2, QuietStep DEF Die
<1>9. QED
  BY <1>1, <1>2, <1>3, <1>4, <1>5, <1>6, <1>7, <1>8

LEMMA CommitStep == ASSUME IInv, Commit PROVE IInv'
<1> USE DEF Commit
<1>1. /\ next \in Heights /\ next \in Nat /\ block = Hash(next) /\ block \in HashAt(next)
      /\ mem \in Checkpoint /\ mem.last \in Nat /\ head \in Nat
      /\ next <= stopAt /\ stopAt \in Nat /\ stopAt + Confirmations <= head
      /\ next <= mem.last + 1 /\ Confirmations \in Nat /\ StartBlock \in Nat
      /\ next + Confirmations <= head
  BY WatcherAssumption DEF IInv, TypeOK, RunInv, Checkpoint, Heights
<1>2. /\ mem' \in Checkpoint /\ disk' = mem' /\ mem'.last = next
      /\ \A k \in Entries(mem') :
            \/ k = next /\ mem'.hash[k] = block
            \/ k \in Entries(mem) /\ mem'.hash[k] = mem.hash[k]
  BY <1>1, ProcessedOK
<1>3. TypeOK'
  <2>1. block \in UNION {HashAt(n) : n \in Heights}
    BY <1>1
  <2>2. next' \in Nat /\ phase' \in {"off", "loop", "fetch"}
    BY <1>1
  <2>3. scanned' \subseteq UNION {HashAt(n) : n \in Heights}
    BY <2>1 DEF IInv, TypeOK
  <2>4. QED
    BY <1>2, <2>2, <2>3 DEF IInv, TypeOK, env
<1>4. chain' = chain /\ head' = head /\ \A n : Hash(n)' = Hash(n)
  BY DEF env, Hash
<1>5. ASSUME NEW k \in Entries(mem')
      PROVE  k + Confirmations <= head' /\ mem'.hash[k] = Hash(k)'
  BY <1>1, <1>2, <1>4, <1>5 DEF IInv, Sound
<1>6. ASSUME NEW n \in StartBlock .. next
      PROVE  n \in Heights /\ Hash(n)' \in scanned'
  <2>1. CASE n = next
    BY <1>1, <1>4, <2>1
  <2>2. CASE n # next
    <3>1. n \in StartBlock .. mem.last
      BY <1>1, <1>6, <2>2
    <3>2. QED
      BY <3>1, <1>4 DEF IInv, Sound
  <2>3. QED
    BY <2>1, <2>2
<1>7. Sound(mem)' /\ Sound(disk)'
  BY <1>1, <1>2, <1>4, <1>5, <1>6 DEF Sound, Entries, Hash
<1>8. RunInv'
  <2>1. phase' \in {"off", "loop", "fetch"}
    OBVIOUS
  <2>2. phase' = "fetch" => next' \in Heights /\ next' <= stopAt' /\ next' <= mem'.last + 1
    <3>1. phase' = "fetch" => next < stopAt
      OBVIOUS
    <3>2. next >= 1 /\ stopAt <= Top /\ Top \in Nat
      BY <1>1, WatcherAssumption DEF IInv, TypeOK, Heights
    <3>3. next' = next + 1 /\ stopAt' = stopAt
      OBVIOUS
    <3> HIDE DEF Commit
    <3>4. QED
      BY <1>1, <1>2, <3>1, <3>2, <3>3 DEF Heights
  <2>3. QED
    BY <2>1, <2>2, <1>1, <1>4 DEF IInv, RunInv
<1>9. QED
  BY <1>3, <1>7, <1>8 DEF IInv

LEMMA IInvStep == ASSUME IInv, Shallow, [Next]_vars PROVE IInv'
<1>1. CASE RunStep
  <2>1. ~SearchFinds /\ ~SearchGoesOn /\ ~SearchFails
    BY DEF IInv, RunInv, SearchFinds, SearchGoesOn, SearchFails
  <2>2. QED
    BY <1>1, <2>1, RunnerStep, CommitStep DEF RunStep
<1>2. CASE UNCHANGED vars \/ AtTop
  <2>1. UNCHANGED vars
    BY <1>2 DEF AtTop
  <2>2. TypeOK' /\ RunInv'
    BY <2>1 DEF vars, IInv, TypeOK, RunInv, Hash
  <2>3. QED
    BY <2>1, <2>2, QuietStep DEF vars, env
<1>3. QED
  BY <1>1, <1>2, MineStep, ReorgStep, RunnerStep DEF Next

-----------------------------------------------------------------------------
(* Reorgs no deeper than CONFIRMATIONS and replays of processed blocks     *)
(* only: no block up to the checkpoint is skipped, in memory or on disk.   *)
THEOREM NoBlockSkipped == Shallow /\ Spec => []NothingSkipped
<1> SUFFICES ASSUME Shallow PROVE Spec => []NothingSkipped
  OBVIOUS
<1>1. IInv /\ [Next]_vars => IInv'
  BY IInvStep
<1>2. IInv => NothingSkipped
  BY DEF IInv, Sound, NothingSkipped
<1>3. QED
  BY <1>1, <1>2, IInvInit, PTL DEF Spec

(* ... every block the checkpoint remembers is canonical, ... *)
THEOREM OnlyCanonicalRemembered == Shallow /\ Spec => []HistoryCanonical
<1> SUFFICES ASSUME Shallow PROVE Spec => []HistoryCanonical
  OBVIOUS
<1>1. IInv /\ [Next]_vars => IInv'
  BY IInvStep
<1>2. IInv => HistoryCanonical
  BY DEF IInv, Sound, HistoryCanonical
<1>3. QED
  BY <1>1, <1>2, IInvInit, PTL DEF Spec

(* ... and checkpoint.json names a block that is CONFIRMATIONS deep. *)
THEOREM CheckpointIsFinal == Shallow /\ Spec => []CheckpointFinal
<1> SUFFICES ASSUME Shallow PROVE Spec => []CheckpointFinal
  OBVIOUS
<1>1. IInv /\ [Next]_vars => IInv'
  BY IInvStep
<1>2. IInv => CheckpointFinal
  BY DEF IInv, Sound, CheckpointFinal
<1>3. QED
  BY <1>1, <1>2, IInvInit, PTL DEF Spec
-----------------------------------------------------------------------------
(* Reorgs of any depth and replays of any block. *)

(* The newest of a set of heights is in the set. *)
LEMMA NewestIn ==
    ASSUME NEW S \in SUBSET Heights, S # {}
    PROVE  NewestOf(S) \in S /\ \A k \in S : k <= NewestOf(S)
<1> DEFINE below == {Top - n : n \in S}
           less == OpToRel(<, Nat)
<1>1. Top \in Nat /\ \A n \in S : n \in Nat /\ n <= Top
  BY WatcherAssumption DEF Heights
<1>2. IsWellFoundedOn(less, Nat)
  BY NatLessThanWellFounded
<1>3. \A x, y \in Nat : <<x, y>> \in less <=> x < y
  BY DEF OpToRel
<1>4. below \subseteq Nat /\ below # {}
  BY <1>1
<1> HIDE DEF less
<1>5. PICK x \in below : \A y \in below : ~(<<y, x>> \in less)
  BY <1>2, <1>4, WFMin
<1>6. PICK n \in S : x = Top - n
  OBVIOUS
<1>7. \A k \in S : k <= n
  <2> TAKE k \in S
  <2>1. Top - k \in below /\ ~(Top - k < x)
    BY <1>3, <1>4, <1>5
  <2>2. QED
    BY <2>1, <1>1, <1>6
<1>8. QED
  BY <1>7 DEF NewestOf

(* A processed block is the newest entry, which no cut removes. *)
LEMMA ProcessedRemembers ==
    ASSUME NEW c \in Checkpoint, NEW n \in Heights, NEW h \in HashAt(n)
    PROVE  n \in Entries(Processed(c, n, h))
<1>1. DOMAIN c.age = Heights
  BY DEF Checkpoint
<1>2. Touch(c.age, n)[n] = 1 /\ DOMAIN Touch(c.age, n) = Heights
  BY <1>1 DEF Touch
<1>3. Newest(Touch(c.age, n), MaxHistory)[n] = 1
  BY <1>2, WatcherAssumption DEF Newest
<1>4. DOMAIN Newest(Touch(c.age, n), MaxHistory) = Heights
  BY <1>2 DEF Newest
<1>5. Processed(c, n, h).age = Newest(Touch(c.age, n), MaxHistory)
  BY DEF Processed
<1>6. QED
  BY <1>3, <1>4, <1>5 DEF Entries, Held

(* A rewind keeps the entries up to its height. *)
LEMMA RewoundOK ==
    ASSUME mem \in Checkpoint, NEW to \in Nat
    PROVE  /\ Rewound(to) \in Checkpoint
           /\ Rewound(to).last = to
           /\ Entries(Rewound(to)) = {k \in Entries(mem) : k <= to}
           /\ \A k \in Entries(Rewound(to)) : Rewound(to).hash[k] = mem.hash[k]
<1> DEFINE older(k) == {j \in Held(mem.age) \cap (1 .. to) : mem.age[j] <= mem.age[k]}
           age == Among(mem.age, 1 .. to)
<1>1. mem.age \in [Heights -> Nat] /\ Heights \subseteq Nat \ {0}
  BY WatcherAssumption DEF Checkpoint, Heights
<1>2. ASSUME NEW k \in Heights
      PROVE  /\ Cardinality(older(k)) \in Nat
             /\ k \in 1 .. to /\ mem.age[k] # 0 => Cardinality(older(k)) # 0
  <2>1. older(k) \in SUBSET Heights
    BY <1>1 DEF Held
  <2>2. IsFiniteSet(older(k))
    BY <2>1, HeightsFinite, FS_Subset
  <2>3. k \in 1 .. to /\ mem.age[k] # 0 => k \in older(k)
    BY <1>1 DEF Held
  <2>4. QED
    BY <2>2, <2>3, FS_CardinalityType, FS_EmptySet
<1>3. age = [k \in Heights |-> IF k \in 1 .. to /\ mem.age[k] # 0
                               THEN Cardinality(older(k)) ELSE 0]
  BY <1>1 DEF Among
<1> HIDE DEF older, age
<1>4. age \in [Heights -> Nat] /\ \A k \in Heights : age[k] # 0 <=> k \in 1 .. to /\ mem.age[k] # 0
  BY <1>2, <1>3
<1>5. Rewound(to) = [last |-> to, age |-> age,
                     hash |-> [n \in Heights |-> IF n <= to THEN mem.hash[n] ELSE None]]
  BY DEF Rewound, age
<1>6. Rewound(to) \in Checkpoint
  BY <1>4, <1>5 DEF Checkpoint
<1>7. Entries(Rewound(to)) = {k \in Heights : k \in 1 .. to /\ mem.age[k] # 0}
  BY <1>4, <1>5 DEF Entries, Held
<1>8. QED
  BY <1>1, <1>5, <1>6, <1>7 DEF Entries, Held
-----------------------------------------------------------------------------
(* What is true of every run, and lets the search find its entries. *)
SearchInv ==
    /\ phase = "fetch" => next # 0
    /\ phase = "search" => cursor \in Entries(mem)

WatchInv == TypeOK /\ SearchInv /\ LastIsRemembered

LEMMA WatchInit == Init => WatchInv
<1> SUFFICES ASSUME Init PROVE WatchInv
  OBVIOUS
<1>1. TypeOK
  BY IInvInit DEF IInv
<1>2. LastIsRemembered
  BY EmptyOK DEF Init, LastIsRemembered
<1>3. QED
  BY <1>1, <1>2 DEF Init, WatchInv, SearchInv

LEMMA RewindStep ==
    ASSUME WatchInv, phase = "search",
           NEW to \in Entries(mem) \cup {StartBlock - 1}, RewindTo(to),
           UNCHANGED <<env, replay, latest, next, stopAt, block, scanned, replayed, upsets>>
    PROVE  WatchInv'
<1>1. to \in Nat /\ mem \in Checkpoint
  BY WatcherAssumption DEF WatchInv, TypeOK, Checkpoint, Entries, Held, Heights
<1>2. /\ mem' \in Checkpoint /\ disk' = mem' /\ mem'.last = to
      /\ Entries(mem') = {k \in Entries(mem) : k <= to}
  BY <1>1, RewoundOK DEF RewindTo
<1>3. TypeOK'
  BY <1>2 DEF WatchInv, TypeOK, RewindTo, env
<1>4. LastIsRemembered'
  BY <1>1, <1>2 DEF LastIsRemembered, Entries
<1>5. QED
  BY <1>3, <1>4 DEF WatchInv, SearchInv, RewindTo

LEMMA WatchStep == ASSUME WatchInv, [Next]_vars PROVE WatchInv'
<1> USE DEF env, Upset
<1>a. /\ head \in 0 .. Top /\ latest \in 0 .. Top /\ mem \in Checkpoint /\ disk \in Checkpoint
      /\ mem.last \in Nat /\ next \in Nat /\ stopAt \in 0 .. Top
      /\ Entries(mem) \in SUBSET Heights /\ Heights \subseteq Nat /\ Heights \subseteq 0 .. Top
      /\ Confirmations \in Nat /\ Top \in Nat /\ StartBlock - 1 \in Nat
  BY WatcherAssumption DEF WatchInv, TypeOK, Checkpoint, Entries, Held, Heights
<1>1. CASE Mine
  BY <1>1, <1>a DEF Mine, WatchInv, TypeOK, SearchInv, LastIsRemembered, Entries
<1>2. ASSUME NEW n \in Heights, NEW label \in Label, Reorg(n, label) PROVE WatchInv'
  <2>1. chain' \in [Heights -> Label]
    BY <1>2, WatcherAssumption DEF Reorg, Label, WatchInv, TypeOK
  <2>2. QED
    BY <1>2, <2>1 DEF Reorg, WatchInv, TypeOK, SearchInv, LastIsRemembered, Entries
<1>3. CASE StartWatch
  BY <1>3, <1>a DEF StartWatch, WatchInv, TypeOK, SearchInv, LastIsRemembered, Entries
<1>4. ASSUME NEW n \in Heights, NEW to \in Heights, StartReplay(n, to) PROVE WatchInv'
  <2>1. n \in Nat \ {0} /\ to \in 0 .. Top
    BY <1>a, WatcherAssumption DEF Heights
  <2>2. QED
    BY <1>4, <2>1 DEF StartReplay, WatchInv, TypeOK, SearchInv, LastIsRemembered, Entries
<1>5. CASE BeginRange
  <2>1. mem.last + 1 \in Nat \ {0} /\ latest - Confirmations \in 0 .. Top
    BY <1>5, <1>a DEF BeginRange
  <2>2. QED
    BY <1>5, <2>1 DEF BeginRange, WatchInv, TypeOK, SearchInv, LastIsRemembered, Entries
<1>6. CASE HearOfHead
  BY <1>6, <1>a DEF HearOfHead, WatchInv, TypeOK, SearchInv, LastIsRemembered, Entries
<1>7. CASE Fetch
  <2>1. next \in Heights
    BY <1>7, <1>a DEF Fetch, WatchInv, SearchInv, Heights
  <2>2. Hash(next) \in HashAt(next)
    BY <2>1, HashInSet DEF WatchInv, TypeOK
  <2>3. QED
    BY <1>7, <2>1, <2>2 DEF Fetch, WatchInv, TypeOK, SearchInv, LastIsRemembered, Entries
<1>8. CASE NotFound \/ Die
  BY <1>8, <1>a, WatcherAssumption
     DEF NotFound, Die, WatchInv, TypeOK, SearchInv, LastIsRemembered, Entries
<1>9. CASE CheckParent
  <2>1. WrongParent => NewestOf(Entries(mem)) \in Entries(mem)
    BY <1>a, NewestIn DEF WrongParent
  <2>2. cursor' \in 0 .. Top
    BY <1>9, <1>a, <2>1 DEF CheckParent, WatchInv, TypeOK
  <2>3. QED
    BY <1>9, <2>1, <2>2
       DEF CheckParent, WatchInv, TypeOK, SearchInv, LastIsRemembered, Entries
<1>10. CASE SearchFinds
  BY <1>10, RewindStep DEF SearchFinds, WatchInv, SearchInv
<1>11. CASE SearchGoesOn
  <2>1. NewestOf(Older) \in Older
    BY <1>11, <1>a, NewestIn DEF SearchGoesOn, Older
  <2>2. cursor' \in Entries(mem) /\ cursor' \in 0 .. Top
    BY <1>11, <1>a, <2>1 DEF SearchGoesOn, Older
  <2>3. QED
    BY <1>11, <2>2 DEF SearchGoesOn, WatchInv, TypeOK, SearchInv, LastIsRemembered, Entries
<1>12. CASE SearchFails
  BY <1>12, RewindStep DEF SearchFails
<1>13. CASE Commit
  <2>1. next \in Heights /\ block \in HashAt(next) /\ phase = "scan"
    BY <1>13 DEF Commit, WatchInv, TypeOK
  <2>2. /\ mem' \in Checkpoint /\ disk' = mem' /\ mem'.last = next /\ next \in Entries(mem')
    BY <1>13, <1>a, <2>1, ProcessedOK, ProcessedRemembers DEF Commit
  <2>3. scanned' \subseteq UNION {HashAt(n) : n \in Heights} /\ next' = next + 1 /\ next' \in Nat \ {0}
    BY <1>13, <1>a, <2>1 DEF Commit, WatchInv, TypeOK
  <2>4. phase' \in {"off", "loop", "fetch"}
    BY <1>13 DEF Commit
  <2>5. TypeOK'
    BY <1>13, <2>2, <2>3, <2>4 DEF Commit, WatchInv, TypeOK
  <2>6. QED
    BY <2>2, <2>3, <2>4, <2>5 DEF WatchInv, SearchInv, LastIsRemembered, Entries
<1>14. CASE UNCHANGED vars \/ AtTop
  BY <1>14 DEF AtTop, vars, WatchInv, TypeOK, SearchInv, LastIsRemembered, Entries
<1>15. QED
  BY <1>1, <1>2, <1>3, <1>4, <1>5, <1>6, <1>7, <1>8, <1>9, <1>10, <1>11, <1>12, <1>13,
     <1>14 DEF Next, RunStep

(* The checkpoints and the run keep their types; in particular a block     *)
(* that is checked lies on the chain and a search looks at an entry.       *)
THEOREM WatcherTypes == Spec => []TypeOK
<1>1. WatchInv => TypeOK
  BY DEF WatchInv
<1>2. QED
  BY <1>1, WatchInit, WatchStep, PTL DEF Spec

(* Whatever reorgs, replays, rewinds and deaths follow each other, the     *)
(* parent check of the next block has an entry to look at.                 *)
THEOREM LastRemembered == Spec => []LastIsRemembered
<1>1. WatchInv => LastIsRemembered
  BY DEF WatchInv
<1>2. QED
  BY <1>1, WatchInit, WatchStep, PTL DEF Spec
-----------------------------------------------------------------------------
(* The refinement: from outside, the chain only grows.  Memory and file    *)
(* are the same between two steps, and a run never works below START_BLOCK.*)
ScanInv ==
    /\ mem = disk
    /\ disk.last + 1 >= StartBlock
    /\ phase \in {"fetch", "check", "scan"} => next >= StartBlock

Depth == IF head > Confirmations THEN head - Confirmations ELSE 0

Remembered == {disk.hash[n] : n \in Entries(disk)}

LEMMA DepthOK ==
    ASSUME TypeOK
    PROVE  /\ Depth \in 0 .. Top /\ Final = Hash(Depth)
           /\ \A n \in Heights : n + Confirmations <= head => n <= Depth
BY WatcherAssumption DEF TypeOK, Depth, Final, Heights

(* Finals are sequences of labels; the prefixes of one are the hashes.     *)
LEMMA FinalOK ==
    ASSUME TypeOK
    PROVE  /\ Final \in Seq(Label) /\ Len(Final) = Depth
           /\ \A n \in 0 .. Depth : Scanner!Block(n) = Hash(n)
<1>1. Depth \in 0 .. Top /\ Final = Hash(Depth) /\ Depth \in Nat
  BY DepthOK, WatcherAssumption
<1>2. Final = [i \in 1 .. Depth |-> chain[i]] /\ \A i \in 1 .. Depth : chain[i] \in Label
  BY <1>1, WatcherAssumption DEF Hash, TypeOK, Heights
<1>3. Final \in Seq(Label) /\ Len(Final) = Depth
  BY <1>1, <1>2
<1>4. ASSUME NEW n \in 0 .. Depth PROVE Scanner!Block(n) = Hash(n)
  BY <1>1, <1>2 DEF Scanner!Block, Hash
<1> QED
  BY <1>3, <1>4

LEMMA ScanInit == Init => ScanInv /\ Scanner!Init
<1> SUFFICES ASSUME Init PROVE ScanInv /\ Scanner!Init
  OBVIOUS
<1>1. ScanInv
  BY EmptyOK, WatcherAssumption DEF Init, ScanInv
<1>2. Final = <<>>
  <2>1. (IF head > Confirmations THEN head - Confirmations ELSE 0) = 0
    BY WatcherAssumption DEF Init
  <2> QED
    BY <2>1 DEF Final, Hash
<1>3. Scanner!Init
  BY <1>2, EmptyOK DEF Init, Scanner!Init
<1> QED
  BY <1>1, <1>3

(* A block on top makes another one final, or none if there are too few.   *)
LEMMA MineFinalises ==
    ASSUME IInv, IInv', Mine
    PROVE  Scanner!Finalise \/ UNCHANGED Scanner!vars
<1>1. UNCHANGED <<disk.last, scanned, Remembered>>
  BY DEF Mine, Remembered, Entries
<1>2. CASE head < Confirmations
  <2>1. Depth = 0 /\ Depth' = 0
    BY <1>2, WatcherAssumption DEF Depth, Mine, IInv, TypeOK
  <2>2. Final' = Final
    BY <2>1 DEF Final, Depth, Hash
  <2> QED
    BY <1>1, <2>2 DEF Scanner!vars, Remembered
<1>3. CASE ~ (head < Confirmations)
  <2>1. Depth' = Depth + 1 /\ Depth + 1 \in Heights
    BY <1>3, WatcherAssumption DEF Depth, Mine, IInv, TypeOK, Heights
  <2>2. Final \in Seq(Label) /\ Len(Final) = Depth /\ Depth \in Nat
    BY FinalOK, DepthOK, WatcherAssumption DEF IInv
  <2>3. chain[Depth + 1] \in Label
    BY <2>1 DEF IInv, TypeOK
  <2>4. Final' = [i \in 1 .. Depth + 1 |-> chain[i]] /\ Final = [i \in 1 .. Depth |-> chain[i]]
    BY <2>1 DEF Final, Depth, Hash, Mine
  <2>5. Final' = Append(Final, chain[Depth + 1])
    <3> DEFINE longer == Append(Final, chain[Depth + 1])
    <3>1. longer \in Seq(Label) /\ Len(longer) = Depth + 1
      BY <2>2, <2>3
    <3>2. ASSUME NEW i \in 1 .. Depth + 1 PROVE longer[i] = chain[i]
      BY <2>2, <2>3, <2>4
    <3>3. longer = [i \in 1 .. Depth + 1 |-> longer[i]]
      BY <3>1
    <3> QED
      BY <2>4, <3>2, <3>3
  <2> QED
    BY <1>1, <2>3, <2>5 DEF Scanner!Finalise, Remembered
<1> QED
  BY <1>2, <1>3

(* A reorg that is shallow enough is not seen. *)
LEMMA ReorgUnseen ==
    ASSUME IInv, Shallow, NEW n \in Heights, NEW label \in Label, Reorg(n, label)
    PROVE  UNCHANGED Scanner!vars
<1>1. \A i \in 1 .. Depth : chain'[i] = chain[i]
  BY WatcherAssumption DEF Reorg, Shallow, Depth, IInv, TypeOK, Heights
<1>2. Depth' = Depth
  BY DEF Reorg, Depth
<1>3. Final' = Final
  BY <1>1, <1>2 DEF Final, Depth, Hash
<1> QED
  BY <1>3 DEF Reorg, Scanner!vars, Entries

LEMMA CommitProcesses ==
    ASSUME IInv, IInv', ScanInv, Commit
    PROVE  ScanInv' /\ \E n \in StartBlock .. disk.last + 1 : Scanner!Process(n)
<1>1. /\ next \in Heights /\ next \in Nat /\ block = Hash(next) /\ block \in HashAt(next)
      /\ next <= disk.last + 1 /\ StartBlock <= next /\ disk.last \in Nat
      /\ next + Confirmations <= head /\ mem = disk /\ disk \in Checkpoint
      /\ StartBlock \in Nat
  BY WatcherAssumption DEF Commit, IInv, TypeOK, RunInv, ScanInv, Checkpoint, Heights
<1>2. /\ disk'.last = next /\ mem' = disk' /\ next \in Entries(disk')
      /\ \A k \in Entries(disk') :
            \/ k = next /\ disk'.hash[k] = block
            \/ k \in Entries(disk) /\ disk'.hash[k] = disk.hash[k]
  BY <1>1, ProcessedOK, ProcessedRemembers DEF Commit
<1>3. disk'.hash[next] = block
  BY <1>1 DEF Commit, Processed
<1>4. next' >= StartBlock
  BY <1>1 DEF Commit
<1>5. ScanInv'
  BY <1>1, <1>2, <1>4 DEF ScanInv
<1>6. next <= Depth /\ next \in 0 .. Depth /\ Len(Final) = Depth
  BY <1>1, DepthOK, FinalOK, WatcherAssumption DEF IInv
<1>7. Scanner!Block(next) = block
  BY <1>1, <1>6, FinalOK DEF IInv
<1>8. /\ block \in Remembered'
      /\ Remembered' \subseteq Remembered \cup {block}
  BY <1>2, <1>3 DEF Remembered, Entries
<1>9. Final' = Final
  BY DEF Commit, env, Final, Hash
<1>10. scanned' = scanned \cup {block} /\ next <= Len(Final)
  BY <1>1, <1>6, WatcherAssumption DEF Commit, Depth
<1>11. PICK n \in StartBlock .. disk.last + 1 : n = next
  BY <1>1
<1>12. Scanner!Process(n)
  BY <1>2, <1>7, <1>8, <1>9, <1>10, <1>11 DEF Scanner!Process, Remembered
<1> QED
  BY <1>5, <1>12

(* Every other step of the runner leaves what is saved as it was.          *)
LEMMA RunnerUnseen ==
    ASSUME IInv, ScanInv, Shallow,
           \/ StartWatch \/ (\E n, to \in Heights : StartReplay(n, to))
           \/ BeginRange \/ HearOfHead \/ Fetch \/ NotFound \/ CheckParent \/ Die \/ AtTop
           \/ UNCHANGED vars
    PROVE  ScanInv' /\ UNCHANGED Scanner!vars
<1> USE DEF env
<1>1. UNCHANGED <<env, disk, scanned>> /\ mem' = mem
  BY DEF ScanInv, StartWatch, StartReplay, BeginRange, HearOfHead, Fetch, NotFound, CheckParent,
         Die, AtTop, vars
<1>2. UNCHANGED Scanner!vars
  BY <1>1 DEF Scanner!vars, Final, Hash, Entries
<1>3. phase' \in {"fetch", "check", "scan"} => next' >= StartBlock
  <2>1. ASSUME NEW n \in Heights, NEW to \in Heights, StartReplay(n, to) PROVE next' >= StartBlock
    BY <2>1 DEF StartReplay, Shallow
  <2>2. CASE BeginRange
    BY <2>2 DEF BeginRange, ScanInv
  <2>3. CASE StartWatch \/ HearOfHead \/ NotFound \/ Die
    BY <2>3 DEF StartWatch, HearOfHead, NotFound, Die
  <2>4. CASE Fetch \/ CheckParent \/ AtTop \/ UNCHANGED vars
    BY <2>4 DEF Fetch, CheckParent, AtTop, vars, ScanInv
  <2> QED
    BY <2>1, <2>2, <2>3, <2>4
<1>4. ScanInv'
  BY <1>1, <1>3 DEF ScanInv
<1> QED
  BY <1>2, <1>4

LEMMA ScanStep ==
    ASSUME IInv, IInv', ScanInv, Shallow, [Next]_vars
    PROVE  ScanInv' /\ [Scanner!Next]_(Scanner!vars)
<1>1. CASE Mine
  <2>1. ScanInv'
    BY <1>1 DEF Mine, ScanInv
  <2> QED
    BY <1>1, <2>1, MineFinalises DEF Scanner!Next
<1>2. ASSUME NEW n \in Heights, NEW label \in Label, Reorg(n, label)
      PROVE  ScanInv' /\ UNCHANGED Scanner!vars
  <2>1. ScanInv'
    BY <1>2 DEF Reorg, ScanInv
  <2> QED
    BY <1>2, <2>1, ReorgUnseen
<1>3. CASE RunStep
  <2>1. ~SearchFinds /\ ~SearchGoesOn /\ ~SearchFails
    BY DEF IInv, RunInv, SearchFinds, SearchGoesOn, SearchFails
  <2> QED
    BY <1>3, <2>1, RunnerUnseen, CommitProcesses DEF RunStep, Scanner!Next
<1> QED
  BY <1>1, <1>2, <1>3, RunnerUnseen DEF Next

(* Shallow reorgs, and replays of processed blocks only: the runner        *)
(* implements a scanner of a chain that only grows, for any CONFIRMATIONS, *)
(* any height, history and search depth.                                   *)
THEOREM ScansFinalChain == Shallow /\ Spec => ImplementsScanner
<1> SUFFICES ASSUME Shallow PROVE Spec => ImplementsScanner
  OBVIOUS
<1>1. Init => IInv /\ ScanInv /\ Scanner!Init
  BY IInvInit, ScanInit
<1>2. IInv /\ ScanInv /\ [Next]_vars => IInv' /\ ScanInv' /\ [Scanner!Next]_(Scanner!vars)
  BY IInvStep, ScanStep
<1> QED
  BY <1>1, <1>2, PTL DEF Spec, ImplementsScanner, Scanner!Spec
-----------------------------------------------------------------------------
(* When no abandoned branch returns, the labels at a height only grow, so  *)
(* that what was canonical earlier is not after what is canonical later in *)
(* the lexicographic order of labels up to height n.                       *)
Agree(x, y, n) == \A i \in 1 .. n : x[i] = y[i]

NotAfter(x, y, n) ==
    \/ Agree(x, y, n)
    \/ \E i \in 1 .. n : Agree(x, y, i - 1) /\ x[i] < y[i]

Labelling(x, n) == \A i \in 1 .. n : x[i] \in Nat

LEMMA NotAfterTransitive ==
    ASSUME NEW n \in Nat, NEW x, NEW y, NEW z,
           Labelling(x, n), Labelling(y, n), Labelling(z, n),
           NotAfter(x, y, n), NotAfter(y, z, n)
    PROVE  NotAfter(x, z, n)
<1> USE DEF NotAfter, Agree, Labelling
<1>1. CASE Agree(x, y, n)
  <2>1. CASE Agree(y, z, n)
    BY <1>1, <2>1
  <2>2. ASSUME NEW i \in 1 .. n, Agree(y, z, i - 1), y[i] < z[i] PROVE NotAfter(x, z, n)
    <3>1. Agree(x, z, i - 1) /\ x[i] < z[i]
      BY <1>1, <2>2
    <3>2. QED
      BY <3>1
  <2>3. QED
    BY <2>1, <2>2
<1>2. ASSUME NEW i \in 1 .. n, Agree(x, y, i - 1), x[i] < y[i] PROVE NotAfter(x, z, n)
  <2>1. CASE Agree(y, z, n)
    <3>1. Agree(x, z, i - 1) /\ x[i] < z[i]
      BY <1>2, <2>1
    <3>2. QED
      BY <3>1
  <2>2. ASSUME NEW j \in 1 .. n, Agree(y, z, j - 1), y[j] < z[j] PROVE NotAfter(x, z, n)
    <3>1. CASE i <= j
      <4>1. Agree(x, z, i - 1) /\ x[i] < z[i]
        BY <1>2, <2>2, <3>1
      <4>2. QED
        BY <4>1
    <3>2. CASE j < i
      <4>1. Agree(x, z, j - 1) /\ x[j] < z[j]
        BY <1>2, <2>2, <3>2
      <4>2. QED
        BY <4>1
    <3>3. QED
      BY <3>1, <3>2
  <2>3. QED
    BY <2>1, <2>2
<1>3. QED
  BY <1>1, <1>2

LEMMA NotAfterPrefix ==
    ASSUME NEW n \in Nat, NEW k \in Nat, k <= n, NEW x, NEW y, NotAfter(x, y, n)
    PROVE  NotAfter(x, y, k)
<1> USE DEF NotAfter, Agree
<1>1. CASE Agree(x, y, n)
  BY <1>1
<1>2. ASSUME NEW i \in 1 .. n, Agree(x, y, i - 1), x[i] < y[i] PROVE NotAfter(x, y, k)
  <2>1. CASE i <= k
    BY <1>2, <2>1
  <2>2. CASE k < i
    BY <1>2, <2>2
  <2>3. QED
    BY <2>1, <2>2
<1>3. QED
  BY <1>1, <1>2

(* What was canonical before and after something was, was all the time. *)
LEMMA Between ==
    ASSUME NEW n \in Nat, NEW x, NEW y, NEW z,
           Labelling(x, n), Labelling(y, n), Labelling(z, n),
           NotAfter(x, y, n), NotAfter(y, z, n), Agree(x, z, n)
    PROVE  Agree(x, y, n)
<1> USE DEF NotAfter, Agree, Labelling
<1> SUFFICES ASSUME NEW i \in 1 .. n, Agree(x, y, i - 1), x[i] < y[i] PROVE FALSE
  OBVIOUS
<1>1. CASE Agree(y, z, n)
  BY <1>1
<1>2. ASSUME NEW j \in 1 .. n, Agree(y, z, j - 1), y[j] < z[j] PROVE FALSE
  <2>1. CASE i <= j
    BY <1>2, <2>1
  <2>2. CASE j < i
    BY <1>2, <2>2
  <2>3. QED
    BY <2>1, <2>2
<1>3. QED
  BY <1>1, <1>2
-----------------------------------------------------------------------------
(* The entries of a checkpoint lie on one branch, and each was canonical. *)
OnBranch(c) ==
    /\ \A n \in Entries(c) :
          /\ c.hash[n] \in HashAt(n)
          /\ n >= StartBlock /\ n <= c.last
          /\ NotAfter(c.hash[n], chain, n)
    /\ \A n, k \in Entries(c) : n < k => Agree(c.hash[n], c.hash[k], n)

(* The block of the run was canonical after the entries below were; once   *)
(* it is checked, they are its ancestors.                                  *)
BlockInv ==
    /\ phase \in {"fetch", "check", "search"} => next = mem.last + 1
    /\ phase \in {"fetch", "check", "search", "scan"} => next >= StartBlock
    /\ phase \in {"check", "search", "scan"} => NotAfter(block, chain, next)
    /\ phase \in {"check", "search"} =>
          \A n \in Entries(mem) : NotAfter(mem.hash[n], block, n)
    /\ phase = "scan" =>
          \A n \in Entries(mem) : n < next /\ Agree(mem.hash[n], block, n)

BranchInv == WatchInv /\ (~replayed => OnBranch(mem) /\ OnBranch(disk) /\ BlockInv)

LEMMA BranchInit == Init => BranchInv
<1> SUFFICES ASSUME Init PROVE BranchInv
  OBVIOUS
<1>1. Entries(mem) = {} /\ Entries(disk) = {}
  BY EmptyOK DEF Init
<1>2. QED
  BY <1>1, WatchInit DEF Init, BranchInv, OnBranch, BlockInv

LEMMA BranchLabels ==
    ASSUME NEW x \in [Heights -> Label], NEW n \in 0 .. Top
    PROVE  Labelling(x, n)
BY WatcherAssumption DEF Labelling, Heights, Label

LEMMA LabelsAreNumbers ==
    ASSUME TypeOK
    PROVE  /\ \A n \in 0 .. Top : Labelling(chain, n)
           /\ \A n \in Heights : \A h \in HashAt(n) : Labelling(h, n)
BY WatcherAssumption DEF TypeOK, Labelling, HashAt, Heights, Label

LEMMA MemoryTypes ==
    ASSUME TypeOK
    PROVE  /\ mem \in Checkpoint /\ mem.last \in Nat /\ Entries(mem) \subseteq Heights
           /\ Heights \subseteq Nat \ {0} /\ Heights \subseteq 0 .. Top
           /\ Top \in Nat /\ StartBlock \in Nat \ {0}
<1>1. mem \in Checkpoint
  BY DEF TypeOK
<1>2. mem.age \in [Heights -> Nat] /\ mem.last \in Nat
  BY <1>1 DEF Checkpoint
<1>3. Entries(mem) \subseteq Heights
  BY <1>2 DEF Entries, Held
<1>4. QED
  BY <1>1, <1>2, <1>3, WatcherAssumption DEF Heights

(* A checkpoint keeps its branch when the chain only moves on. *)
LEMMA MovesOn ==
    ASSUME TypeOK, TypeOK', \A n \in Heights : NotAfter(chain, chain', n),
           NEW c \in Checkpoint, OnBranch(c)
    PROVE  \A n \in Entries(c) : NotAfter(c.hash[n], chain', n)
<1> TAKE n \in Entries(c)
<1>1. n \in Heights /\ n \in Nat /\ n \in 0 .. Top
  BY WatcherAssumption DEF Entries, Held, Checkpoint, Heights
<1>2. Labelling(chain, n) /\ Labelling(c.hash[n], n)
  BY <1>1, LabelsAreNumbers DEF OnBranch
<1>3. Labelling(chain', n)
  BY <1>1, BranchLabels DEF TypeOK
<1>4. QED
  BY <1>1, <1>2, <1>3, NotAfterTransitive DEF OnBranch

LEMMA BranchReorg ==
    ASSUME BranchInv, ~ForksReturn, NEW n \in Heights, NEW label \in Label, Reorg(n, label)
    PROVE  BranchInv'
<1>0. WatchInv'
  BY WatchStep DEF Next, BranchInv
<1>1. TypeOK /\ TypeOK' /\ mem \in Checkpoint /\ disk \in Checkpoint
  BY <1>0 DEF BranchInv, WatchInv, TypeOK
<1>2. ASSUME NEW k \in Heights PROVE NotAfter(chain, chain', k)
  <2>1. /\ \A i \in 1 .. k : i < n => chain'[i] = chain[i]
        /\ n <= k => chain[n] < chain'[n]
        /\ n \in Nat \ {0} /\ k \in Nat
    BY <1>1, WatcherAssumption DEF Reorg, Heights, Label, TypeOK
  <2>2. CASE n <= k
    BY <2>1, <2>2 DEF NotAfter, Agree
  <2>3. CASE k < n
    BY <2>1, <2>3 DEF NotAfter, Agree
  <2>4. QED
    BY <2>1, <2>2, <2>3
<1>3. ASSUME ~replayed PROVE OnBranch(mem)' /\ OnBranch(disk)'
  <2>1. /\ \A k \in Entries(mem) : NotAfter(mem.hash[k], chain', k)
        /\ \A k \in Entries(disk) : NotAfter(disk.hash[k], chain', k)
    BY <1>1, <1>2, <1>3, MovesOn DEF BranchInv
  <2>2. mem' = mem /\ disk' = disk
    BY DEF Reorg
  <2>3. QED
    BY <1>3, <2>1, <2>2 DEF BranchInv, OnBranch, Entries
<1>4. ASSUME ~replayed, phase \in {"check", "search", "scan"} PROVE NotAfter(block, chain', next)
  <2>1. next \in Heights /\ next \in Nat /\ next \in 0 .. Top /\ block \in HashAt(next)
    BY <1>1, <1>4, WatcherAssumption DEF TypeOK, Heights
  <2>2. Labelling(chain, next) /\ Labelling(block, next)
    BY <1>1, <2>1, LabelsAreNumbers
  <2>3. Labelling(chain', next)
    <3>1. chain' \in [Heights -> Label]
      BY <1>1 DEF TypeOK
    <3>2. QED
      BY <2>1, <3>1, BranchLabels
  <2>4. QED
    BY <2>1, <2>2, <2>3, <1>2, <1>4, NotAfterTransitive DEF BranchInv, BlockInv
<1>5. ASSUME ~replayed PROVE BlockInv'
  BY <1>4, <1>5 DEF Reorg, BranchInv, BlockInv, Entries
<1>6. QED
  BY <1>0, <1>3, <1>5 DEF BranchInv, Reorg

(* A rewind keeps entries of a branch; after it they have to be ancestors  *)
(* of the block.                                                           *)
LEMMA BranchRewind ==
    ASSUME BranchInv, WatchInv', ~replayed,
           NEW to \in Nat, RewindTo(to), env' = env,
           UNCHANGED <<next, block, replayed>>, phase = "search",
           \A n \in Entries(mem) : n <= to => Agree(mem.hash[n], block, n)
    PROVE  BranchInv'
<1>1. mem \in Checkpoint /\ next \in Heights /\ mem.last \in Nat /\ Heights \subseteq Nat
  BY WatcherAssumption DEF BranchInv, WatchInv, TypeOK, Checkpoint, Heights
<1>2. /\ disk' = mem' /\ mem'.last = to
      /\ Entries(mem') = {k \in Entries(mem) : k <= to}
      /\ \A k \in Entries(mem') : mem'.hash[k] = mem.hash[k]
  BY <1>1, RewoundOK DEF RewindTo
<1>3. Entries(mem) \subseteq Heights
  BY <1>1 DEF Entries, Held, Checkpoint
<1>4. OnBranch(mem)' /\ OnBranch(disk)'
  BY <1>1, <1>2, <1>3 DEF BranchInv, OnBranch, Entries, env
<1>5. BlockInv'
  <2>1. next = mem.last + 1 /\ phase' = "scan" /\ NotAfter(block, chain, next) /\ next >= StartBlock
    BY DEF BranchInv, BlockInv, RewindTo
  <2>2. ASSUME NEW n \in Entries(mem') PROVE n < next /\ Agree(mem'.hash[n], block, n)
    <3>1. n \in Entries(mem) /\ n <= to /\ mem'.hash[n] = mem.hash[n] /\ n \in Nat
      BY <1>1, <1>2, <1>3, <2>2
    <3>2. n <= mem.last
      BY <3>1 DEF BranchInv, OnBranch
    <3>3. QED
      BY <1>1, <2>1, <3>1, <3>2
  <2>3. QED
    BY <2>1, <2>2 DEF BlockInv, Entries, env
<1>6. QED
  BY <1>4, <1>5 DEF BranchInv

LEMMA BranchSearch ==
    ASSUME BranchInv, WatchInv', ~replayed, SearchFinds \/ SearchFails
    PROVE  BranchInv'
<1>1. /\ mem \in Checkpoint /\ mem.last \in Nat /\ Entries(mem) \subseteq Heights
      /\ Heights \subseteq Nat \ {0} /\ Heights \subseteq 0 .. Top
      /\ Top \in Nat /\ StartBlock \in Nat \ {0}
      /\ next \in Heights /\ block \in HashAt(next) /\ cursor \in Entries(mem)
  <2>1. phase = "search"
    BY DEF SearchFinds, SearchFails
  <2>2. next \in Heights /\ block \in HashAt(next) /\ cursor \in Entries(mem)
    BY <2>1 DEF BranchInv, WatchInv, SearchInv, TypeOK
  <2>3. QED
    BY <2>2, MemoryTypes DEF BranchInv, WatchInv
<1>a. \A n \in Entries(mem) : n \in Nat /\ n \in Heights /\ n \in 0 .. Top
  BY <1>1
<1>b. /\ \A n \in Entries(mem) : /\ mem.hash[n] \in HashAt(n)
                                 /\ n >= StartBlock /\ n <= mem.last
      /\ \A n, k \in Entries(mem) : n < k => Agree(mem.hash[n], mem.hash[k], n)
  BY DEF BranchInv, OnBranch
<1>c. /\ next = mem.last + 1 /\ NotAfter(block, chain, next)
      /\ \A n \in Entries(mem) : NotAfter(mem.hash[n], block, n)
  BY DEF SearchFinds, SearchFails, BranchInv, BlockInv
<1>2. CASE SearchFinds
  <2>1. Agree(mem.hash[cursor], chain, cursor)
    BY <1>2, <1>1 DEF SearchFinds, Hash, Agree
  <2>2. NotAfter(mem.hash[cursor], block, cursor) /\ NotAfter(block, chain, next) /\ cursor <= next
    <3>1. /\ cursor \in Nat /\ cursor <= mem.last /\ mem.last \in Nat
          /\ NotAfter(mem.hash[cursor], block, cursor)
      BY <1>1, <1>a, <1>b, <1>c
    <3>2. QED
      BY <3>1, <1>c
  <2>3. NotAfter(block, chain, cursor)
    BY <2>2, <1>1, NotAfterPrefix
  <2>4. /\ Labelling(mem.hash[cursor], cursor)
        /\ Labelling(block, cursor)
        /\ Labelling(chain, cursor)
    <3>1. Labelling(block, next) /\ Labelling(mem.hash[cursor], cursor) /\ Labelling(chain, cursor)
      BY <1>1, <1>a, <1>b, LabelsAreNumbers DEF BranchInv, WatchInv
    <3>2. QED
      <4>1. cursor \in Nat /\ next \in Nat
        BY <1>1, <1>a
      <4>2. \A i \in 1 .. cursor : i \in 1 .. next
        BY <4>1, <2>2
      <4>3. QED
        BY <3>1, <4>2 DEF Labelling
  <2>5. Agree(mem.hash[cursor], block, cursor)
    BY <1>1, <2>1, <2>2, <2>3, <2>4, Between
  <2>6. ASSUME NEW n \in Entries(mem), n <= cursor PROVE Agree(mem.hash[n], block, n)
    <3>1. n \in Nat /\ cursor \in Nat /\ (n = cursor \/ Agree(mem.hash[n], mem.hash[cursor], n))
      <4>1. n \in Nat /\ cursor \in Nat /\ (n < cursor \/ n = cursor)
        BY <1>1, <1>a, <2>6
      <4>2. n < cursor => Agree(mem.hash[n], mem.hash[cursor], n)
        BY <1>1, <1>b
      <4>3. QED
        BY <4>1, <4>2
    <3>2. QED
      BY <2>5, <2>6, <3>1 DEF Agree
  <2>7. QED
    BY <1>1, <1>2, <2>6, BranchRewind DEF SearchFinds
<1>3. CASE SearchFails
  <2>1. ASSUME NEW n \in Entries(mem), n <= StartBlock - 1 PROVE FALSE
    <3>1. n \in Nat /\ n >= StartBlock /\ StartBlock \in Nat
      BY <1>1, <1>a, <1>b
    <3>2. QED
      BY <2>1, <3>1
  <2>2. StartBlock - 1 \in Nat
    BY <1>1
  <2>3. QED
    BY <1>3, <2>1, <2>2, BranchRewind DEF SearchFails
<1>4. QED
  BY <1>2, <1>3

LEMMA BranchCommit == ASSUME BranchInv, WatchInv', ~replayed, Commit PROVE BranchInv'
<1>1. /\ mem \in Checkpoint /\ next \in Heights /\ block \in HashAt(next)
      /\ Entries(mem) \subseteq Heights /\ Heights \subseteq Nat /\ StartBlock \in Nat
  BY MemoryTypes DEF Commit, BranchInv, WatchInv, TypeOK
<1>b. /\ \A n \in Entries(mem) : /\ mem.hash[n] \in HashAt(n)
                                 /\ n >= StartBlock /\ n <= mem.last
                                 /\ NotAfter(mem.hash[n], chain, n)
      /\ \A n, k \in Entries(mem) : n < k => Agree(mem.hash[n], mem.hash[k], n)
  BY DEF BranchInv, OnBranch
<1>2. /\ disk' = mem' /\ mem'.last = next
      /\ \A k \in Entries(mem') :
            \/ k = next /\ mem'.hash[k] = block
            \/ k \in Entries(mem) /\ mem'.hash[k] = mem.hash[k]
  BY <1>1, ProcessedOK DEF Commit
<1>3. /\ next >= StartBlock /\ NotAfter(block, chain, next)
      /\ \A n \in Entries(mem) : n < next /\ Agree(mem.hash[n], block, n)
  BY DEF Commit, BranchInv, BlockInv
<1>4. chain' = chain
  BY DEF Commit, env
<1>5. ASSUME NEW n \in Entries(mem')
      PROVE  /\ mem'.hash[n] \in HashAt(n)
             /\ n >= StartBlock /\ n <= mem'.last
             /\ NotAfter(mem'.hash[n], chain', n)
  <2>1. CASE n = next /\ mem'.hash[n] = block
    BY <1>1, <1>2, <1>3, <1>4, <2>1
  <2>2. CASE n \in Entries(mem) /\ mem'.hash[n] = mem.hash[n]
    <3>1. n \in Nat /\ next \in Nat /\ n < next
      BY <1>1, <1>3, <2>2
    <3>2. QED
      BY <1>2, <1>4, <1>b, <2>2, <3>1
  <2>3. QED
    BY <1>2, <2>1, <2>2
<1>6. ASSUME NEW n \in Entries(mem'), NEW k \in Entries(mem'), n < k
      PROVE  Agree(mem'.hash[n], mem'.hash[k], n)
  <2>1. n # next
    <3> SUFFICES ASSUME n = next, k \in Entries(mem) PROVE FALSE
      BY <1>1, <1>2, <1>6
    <3>1. k \in Nat /\ next \in Nat /\ k < next
      BY <1>1, <1>3
    <3>2. QED
      BY <1>6, <3>1
  <2>2. n \in Entries(mem) /\ mem'.hash[n] = mem.hash[n]
    BY <1>2, <2>1
  <2>3. CASE k = next /\ mem'.hash[k] = block
    BY <1>3, <2>2, <2>3
  <2>4. CASE k \in Entries(mem) /\ mem'.hash[k] = mem.hash[k]
    BY <1>6, <1>b, <2>2, <2>4
  <2>5. QED
    BY <1>2, <2>3, <2>4
<1>7. OnBranch(mem)' /\ OnBranch(disk)'
  BY <1>2, <1>5, <1>6 DEF OnBranch, Entries
<1>8. BlockInv'
  <2>1. phase' \in {"off", "loop", "fetch"} /\ next' = mem'.last + 1 /\ next' >= StartBlock
    BY <1>1, <1>2, <1>3 DEF Commit
  <2>2. QED
    BY <2>1 DEF BlockInv
<1>9. QED
  BY <1>7, <1>8 DEF BranchInv

(* The other steps change neither the checkpoints nor the chain, except    *)
(* that a run that starts or ends falls back on the file.                  *)
LEMMA BranchRun ==
    ASSUME BranchInv, WatchInv', ~replayed,
           \/ Mine \/ StartWatch \/ BeginRange \/ HearOfHead \/ Fetch \/ NotFound
           \/ CheckParent \/ SearchGoesOn \/ Die \/ AtTop \/ UNCHANGED vars
    PROVE  BranchInv'
<1>1. /\ mem \in Checkpoint /\ mem.last \in Nat /\ Entries(mem) \subseteq Heights
      /\ Heights \subseteq Nat /\ Heights \subseteq 0 .. Top /\ StartBlock \in Nat \ {0}
  BY MemoryTypes DEF BranchInv, WatchInv
<1>2. chain' = chain /\ disk' = disk /\ mem' \in {mem, disk} /\ replayed' = replayed
  BY DEF Mine, StartWatch, BeginRange, HearOfHead, Fetch, NotFound, CheckParent,
         SearchGoesOn, Die, AtTop, vars, env
<1>3. OnBranch(mem)' /\ OnBranch(disk)'
  BY <1>2 DEF BranchInv, OnBranch, Entries
<1>4. CASE Mine \/ HearOfHead \/ SearchGoesOn \/ AtTop \/ UNCHANGED vars
  <2>1. UNCHANGED <<chain, mem, phase, next, block>>
    BY <1>4 DEF Mine, HearOfHead, SearchGoesOn, AtTop, vars, env
  <2>2. BlockInv'
    BY <2>1 DEF BranchInv, BlockInv, Entries
  <2>3. QED
    BY <1>2, <1>3, <2>2 DEF BranchInv
<1>5. CASE StartWatch \/ NotFound \/ Die
  <2>1. phase' \in {"off", "loop"}
    BY <1>5 DEF StartWatch, NotFound, Die
  <2>2. QED
    BY <1>2, <1>3, <2>1 DEF BranchInv, BlockInv
<1>6. CASE BeginRange
  <2>1. mem.last + 1 >= StartBlock
    BY <1>1 DEF BranchInv, OnBranch, WatchInv, LastIsRemembered
  <2>2. QED
    BY <1>2, <1>3, <1>6, <2>1 DEF BeginRange, BranchInv, BlockInv
<1>7. CASE Fetch
  <2>1. /\ next = mem.last + 1 /\ next >= StartBlock /\ block' = Hash(next)
        /\ UNCHANGED <<chain, mem, next>> /\ phase' = "check"
    BY <1>7 DEF Fetch, BranchInv, BlockInv, env
  <2>2. NotAfter(block', chain, next)
    BY <2>1 DEF NotAfter, Agree, Hash
  <2>3. ASSUME NEW n \in Entries(mem) PROVE NotAfter(mem.hash[n], block', n)
    <3>1. n \in Nat /\ n < next /\ NotAfter(mem.hash[n], chain, n)
      <4>1. n \in Nat /\ n <= mem.last /\ NotAfter(mem.hash[n], chain, n)
        BY <1>1, <2>3 DEF BranchInv, OnBranch
      <4>2. QED
        BY <1>1, <2>1, <4>1
    <3>2. \A i \in 1 .. n : block'[i] = chain[i]
      BY <1>1, <2>1, <3>1 DEF Hash
    <3>3. QED
      BY <3>1, <3>2 DEF NotAfter, Agree
  <2>4. BlockInv'
    BY <2>1, <2>2, <2>3 DEF BlockInv, Entries
  <2>5. QED
    BY <1>3, <2>4 DEF BranchInv
<1>8. CASE CheckParent
  <2>1. /\ UNCHANGED <<chain, mem, next, block>> /\ phase = "check"
        /\ phase' = IF WrongParent THEN "search" ELSE "scan"
    BY <1>8 DEF CheckParent, env
  <2>2. next = mem.last + 1 /\ next >= StartBlock
    BY <2>1 DEF BranchInv, BlockInv
  <2>3. ASSUME ~WrongParent, NEW n \in Entries(mem)
        PROVE  n < next /\ Agree(mem.hash[n], block, n)
    <3>1. n \in Nat /\ n >= StartBlock /\ n <= mem.last
      BY <1>1, <2>3 DEF BranchInv, OnBranch
    <3>2. mem.last \in Entries(mem)
      BY <1>1, <3>1 DEF BranchInv, WatchInv, LastIsRemembered
    <3>3. mem.hash[mem.last] = Parent(block, next)
      BY <1>1, <2>2, <2>3, <3>2 DEF WrongParent
    <3>4. Agree(mem.hash[mem.last], block, mem.last)
      BY <1>1, <2>2, <3>3 DEF Agree, Parent
    <3>5. n = mem.last \/ Agree(mem.hash[n], mem.hash[mem.last], n)
      BY <1>1, <3>1, <3>2 DEF BranchInv, OnBranch
    <3>6. QED
      BY <1>1, <2>2, <3>1, <3>4, <3>5 DEF Agree
  <2>4. BlockInv'
    BY <2>1, <2>2, <2>3 DEF BranchInv, BlockInv, Entries
  <2>5. QED
    BY <1>2, <1>3, <2>4 DEF BranchInv
<1>9. QED
  BY <1>4, <1>5, <1>6, <1>7, <1>8

LEMMA BranchStep == ASSUME BranchInv, ~ForksReturn, [Next]_vars PROVE BranchInv'
<1>1. WatchInv'
  BY WatchStep DEF BranchInv
<1>2. ASSUME NEW n \in Heights, NEW label \in Label, Reorg(n, label) PROVE BranchInv'
  BY <1>2, BranchReorg
<1>3. ASSUME NEW n \in Heights, NEW to \in Heights, StartReplay(n, to) PROVE BranchInv'
  BY <1>1, <1>3 DEF StartReplay, BranchInv
<1>4. CASE replayed
  <2>1. ASSUME Next PROVE replayed'
    BY <1>4, <2>1
       DEF Next, RunStep, Mine, Reorg, StartWatch, StartReplay, BeginRange, HearOfHead, Fetch,
           NotFound, CheckParent, SearchFinds, SearchGoesOn, SearchFails, Commit, Die, AtTop, vars
  <2>2. QED
    BY <1>1, <1>4, <2>1 DEF BranchInv, vars
<1>5. QED
  BY <1>1, <1>2, <1>3, <1>4, BranchRun, BranchSearch, BranchCommit DEF Next, RunStep

(* The entries of the history are ancestors of one another after reorgs of *)
(* any depth between any two calls, unless an abandoned branch returns.    *)
THEOREM OneBranch == ~ForksReturn /\ Spec => []HistoryOneBranch
<1> SUFFICES ASSUME ~ForksReturn PROVE Spec => []HistoryOneBranch
  OBVIOUS
<1>1. BranchInv /\ [Next]_vars => BranchInv'
  BY BranchStep
<1>2. BranchInv => HistoryOneBranch
  <2> SUFFICES ASSUME BranchInv, ~replayed, NEW c \in {mem, disk},
                      NEW n \in Entries(c), NEW k \in Entries(c), n < k
               PROVE  c.hash[n] = [i \in 1 .. n |-> c.hash[k][i]]
    BY DEF HistoryOneBranch
  <2>1. c.hash[n] \in HashAt(n) /\ Agree(c.hash[n], c.hash[k], n)
    BY DEF BranchInv, OnBranch
  <2>2. QED
    BY <2>1 DEF HashAt, Agree
<1>3. QED
  BY <1>1, <1>2, BranchInit, PTL DEF Spec
==============================================================================
