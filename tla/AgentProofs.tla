----------------------------- MODULE AgentProofs -----------------------------
(* Theorems of AgentMemory, for every size of the window, every interval of   *)
(* persisting, and any texts, ticks and lives; and of AgentClient, for every  *)
(* limit of attempts, retries, restarts and buffers.  The two modules share   *)
(* no variable: the loop of the client is the only one that uses the memory.  *)
EXTENDS AgentMemory, AgentClient, TLAPS

(* ----------------------------- windows ----------------------------------- *)

\* Sequences of entries that respect memory_size.
Windows == {w \in Seq(Entry) : Len(w) <= MAX_SIZE}

LEMMA EmptyWindow == << >> \in Windows /\ Rng(<< >>) = {}
BY MemoryConstants DEF Windows, Rng

\* After a push the entry is last; those before it have moved up by d.
Shifted(p, w, e, d) ==
  /\ Len(p) \in Nat \ {0} /\ p[Len(p)] = e
  /\ \A i \in 1..(Len(p) - 1) : i + d \in 1..Len(w) /\ p[i] = w[i + d]

LEMMA PushedWindow ==
  ASSUME NEW w \in Windows, NEW e \in Entry
  PROVE  Push(w, e) \in Windows /\ \E d \in {0, 1} : Shifted(Push(w, e), w, e, d)
<1> USE MemoryConstants DEF Windows
<1>1. CASE Len(w) < MAX_SIZE
  <2>1. Push(w, e) = Append(w, e)
    BY <1>1 DEF Push
  <2>2. Append(w, e) \in Windows
    BY <1>1
  <2>3. Shifted(Append(w, e), w, e, 0)
    BY DEF Shifted
  <2> QED  BY <2>1, <2>2, <2>3
<1>2. CASE Len(w) >= MAX_SIZE
  <2>1. Push(w, e) = Append(Tail(w), e)
    BY <1>2 DEF Push
  <2>2. w # << >> /\ Len(w) = MAX_SIZE
    BY <1>2
  <2>3. Tail(w) \in Seq(Entry) /\ Len(Tail(w)) = Len(w) - 1
    BY <2>2
  <2>4. \A i \in 1..(Len(w) - 1) : Tail(w)[i] = w[i + 1]
    BY <2>2
  <2>5. Append(Tail(w), e) \in Windows /\ Len(Append(Tail(w), e)) = Len(w)
    BY <2>3, <2>2
  <2>6. Append(Tail(w), e)[Len(w)] = e
    BY <2>3, <2>2
  <2>7. \A i \in 1..(Len(w) - 1) : Append(Tail(w), e)[i] = Tail(w)[i]
    BY <2>3
  <2>8. Shifted(Append(Tail(w), e), w, e, 1)
    BY <2>2, <2>4, <2>5, <2>6, <2>7 DEF Shifted
  <2> QED  BY <2>1, <2>5, <2>8
<1> QED  BY <1>1, <1>2

LEMMA TidiedWindow ==
  ASSUME NEW w \in Windows, NEW v \in Tidied(w)
  PROVE  /\ v \in Windows
         /\ Rng(v) \subseteq Rng(w)
         /\ \A i, j \in DOMAIN v : i # j =>
              \E k, l \in DOMAIN w : k # l /\ v[i] = w[k] /\ v[j] = w[l]
<1> USE MemoryConstants DEF Windows
<1>1. CASE v = w
  BY <1>1 DEF Rng
<1>2. CASE v \in Pruned(w)
  <2>1. PICK n \in 0..Len(w) : v \in [1..n -> Survivors(w)]
    BY <1>2 DEF Pruned
  <2>2. Survivors(w) \subseteq Rng(w) /\ Rng(w) \subseteq Entry
    <3>1. Rng(w) \subseteq Entry
      BY DEF Rng
    <3>2. ASSUME NEW e \in Survivors(w) PROVE e \in Rng(w)
      BY Zenon DEF Survivors, Rng
    <3> QED  BY <3>1, <3>2
  <2>3. v \in Windows /\ DOMAIN v \subseteq Nat
    <3>1. n \in Nat /\ n <= MAX_SIZE
      BY <2>1
    <3>2. v \in [1..n -> Entry]
      BY <2>1, <2>2
    <3>3. v \in Seq(Entry) /\ Len(v) = n
      BY <3>1, <3>2
    <3> QED  BY <3>1, <3>2, <3>3 DEF Windows
  <2>4. Rng(v) \subseteq Rng(w)
    BY <1>2, <2>2 DEF Pruned
  <2>5. InOrder(v, w)
    BY <1>2 DEF Pruned
  <2>6. ASSUME NEW i \in DOMAIN v, NEW j \in DOMAIN v, i # j
        PROVE  \E k, l \in DOMAIN w : k # l /\ v[i] = w[k] /\ v[j] = w[l]
    <3>1. DOMAIN w \subseteq Nat
      OBVIOUS
    <3>2. CASE i < j
      BY <2>5, <3>1, <3>2 DEF InOrder
    <3>3. CASE j < i
      BY <2>5, <3>1, <3>3 DEF InOrder
    <3> QED  BY <2>3, <2>6, <3>2, <3>3
  <2> QED  BY <2>3, <2>4, <2>6
<1> QED  BY <1>1, <1>2 DEF Tidied


(* ---------------------- types of the memory ------------------------------- *)

\* The history of a window: everything in it has been stored.
MemoryTyped ==
  /\ window \in Windows
  /\ db \subseteq Entry /\ stored \subseteq Entry
  /\ loaded \subseteq Entry /\ excused \subseteq Entry

MemoryCounted ==
  /\ tick \in 0..MaxTick /\ life \in 1..MaxLives
  /\ updates \in 0..(PERSIST_INTERVAL - 1)

MemoryFlags == open \in BOOLEAN /\ running \in BOOLEAN

\* What store() does with a value of a tick.
LEMMA Remembered ==
  ASSUME MemoryTyped, MemoryCounted, NEW v \in Values, NEW t \in 0..MaxTick
  PROVE  /\ Remember(v, t) \in Windows
         /\ New(v, t) \subseteq Entry
         /\ Rng(window) \subseteq Entry
         /\ Unsaved(Remember(v, t)) \subseteq Entry
<1>1. [value |-> v, tick |-> t, life |-> life] \in Entry
  BY DEF MemoryCounted, Entry
<1>2. window \in Windows
  BY DEF MemoryTyped
<1>3. Rng(window) \subseteq Entry
  BY <1>2 DEF Rng, Windows
<1>4. Remember(v, t) \in Windows
  BY <1>1, <1>2, PushedWindow DEF Remember
<1>5. New(v, t) \subseteq Entry
  BY <1>1 DEF New
<1> QED  BY <1>3, <1>4, <1>5 DEF Unsaved

LEMMA ChoiceIsValue ==
  ASSUME MemoryCounted, tick < MaxTick, NEW c \in {"chose", "forced"}
  PROVE  /\ [choice |-> c, at |-> tick + 1] \in Values
         /\ tick + 1 \in 0..MaxTick
BY MemoryConstants DEF MemoryCounted, Values, Choices

LEMMA PersistTyped ==
  ASSUME MemoryTyped, NEW w \in Windows, NEW saved, NEW excuse \in SUBSET Entry,
         Persist(w, saved, excuse)
  PROVE  db' \subseteq Entry /\ excused' \subseteq Entry
<1>1. Rng(w) \subseteq Entry
  BY DEF Rng, Windows
<1> QED  BY <1>1 DEF Persist, MemoryTyped

LEMMA StoreTyped ==
  ASSUME MemoryTyped, MemoryCounted, NEW v \in Values, NEW t \in 0..MaxTick, Store(v, t),
         UNCHANGED <<db, loaded>>
  PROVE  MemoryTyped'
<1>1. window' \in Windows /\ stored' \subseteq Entry /\ excused' \subseteq Entry
  BY Remembered DEF Store, MemoryTyped
<1> QED  BY <1>1 DEF MemoryTyped


\* The tick of an update, and the count of updates modulo the interval.
LEMMA UpdatesWrap ==
  ASSUME MemoryCounted PROVE (updates + 1) % PERSIST_INTERVAL \in 0..(PERSIST_INTERVAL - 1)
<1>1. updates + 1 \in Nat /\ PERSIST_INTERVAL \in Nat \ {0}
  BY MemoryConstants DEF MemoryCounted
<1> QED  BY <1>1

LEMMA MemoryTypedStep ==
  ASSUME MemoryTyped, MemoryCounted, [MemoryNext]_memoryVars
  PROVE  MemoryTyped'
<1>1. ASSUME Observe PROVE MemoryTyped'
  <2>1. PICK v \in Texts, t \in {0, tick} : Store(v, t)
    BY <1>1 DEF Observe
  <2>2. v \in Values /\ t \in 0..MaxTick
    BY <2>1, MemoryConstants DEF Values, MemoryCounted
  <2> QED  BY <1>1, <2>1, <2>2, StoreTyped DEF Observe
<1>2. ASSUME TickUpdate PROVE MemoryTyped'
  <2>1. PICK c \in {"chose", "forced"}, sent \in BOOLEAN :
          LET v == [choice |-> c, at |-> tick + 1] IN
          IF sent /\ updates' = 0
            THEN /\ stored' = stored \union New(v, tick + 1)
                 /\ \E saved \in {FALSE, open} :
                      Tidy(Remember(v, tick + 1), saved, Unsaved(Remember(v, tick + 1)))
            ELSE Store(v, tick + 1) /\ UNCHANGED db
    BY <1>2 DEF TickUpdate
  <2> DEFINE v == [choice |-> c, at |-> tick + 1]
             w == Remember(v, tick + 1)
  <2>2. v \in Values /\ tick + 1 \in 0..MaxTick
    BY <1>2, ChoiceIsValue DEF TickUpdate
  <2>3. UNCHANGED loaded
    BY <1>2 DEF TickUpdate
  <2> HIDE DEF v
  <2>4. CASE Store(v, tick + 1) /\ UNCHANGED db
    BY <2>2, <2>3, <2>4, StoreTyped
  <2>5. ASSUME NEW saved, stored' = stored \union New(v, tick + 1), Tidy(w, saved, Unsaved(w))
        PROVE  MemoryTyped'
    <3>1. w \in Windows /\ New(v, tick + 1) \subseteq Entry /\ Unsaved(w) \in SUBSET Entry
      BY <2>2, Remembered
    <3>2. Persist(w, saved, Unsaved(w)) /\ window' \in Tidied(w)
      BY <2>5 DEF Tidy
    <3> HIDE DEF w
    <3>3. db' \subseteq Entry /\ excused' \subseteq Entry
      BY <3>1, <3>2, PersistTyped
    <3>4. window' \in Windows
      BY <3>1, <3>2, TidiedWindow
    <3> QED  BY <2>3, <2>5, <3>1, <3>3, <3>4 DEF MemoryTyped
  <2> QED  BY <2>1, <2>4, <2>5 DEF v
<1>3. ASSUME End PROVE MemoryTyped'
  <2>1. PICK saved : Persist(window, saved, {})
    BY <1>3 DEF End
  <2>2. db' \subseteq Entry /\ excused' \subseteq Entry
    <3>1. window \in Windows /\ {} \in SUBSET Entry
      BY DEF MemoryTyped
    <3> QED  BY <2>1, <3>1, PersistTyped
  <2> QED  BY <1>3, <2>2, EmptyWindow DEF End, MemoryTyped
<1>4. ASSUME Kill PROVE MemoryTyped'
  <2>1. Rng(window) \subseteq Entry
    BY DEF MemoryTyped, Windows, Rng
  <2> QED  BY <1>4, <2>1, EmptyWindow DEF Kill, MemoryTyped, Unsaved
<1>5. ASSUME Start PROVE MemoryTyped'
  <2>1. window' \in Windows
    <3>1. CASE window' \in Restorable
      <4>1. PICK n \in 0..MAX_SIZE : window' \in [1..n -> db]
        BY <3>1 DEF Restorable
      <4>2. window' \in [1..n -> Entry] /\ n \in Nat /\ n <= MAX_SIZE
        BY <4>1, MemoryConstants DEF MemoryTyped
      <4>3. window' \in Seq(Entry) /\ Len(window') = n
        BY <4>2
      <4> QED  BY <4>2, <4>3 DEF Windows
    <3>2. CASE window' = << >>
      BY <3>2, EmptyWindow
    <3> QED  BY <1>5, <3>1, <3>2 DEF Start
  <2>2. Rng(window') \subseteq Entry
    BY <2>1 DEF Windows, Rng
  <2> QED  BY <1>5, <2>1, <2>2 DEF Start, MemoryTyped
<1>6. ASSUME UNCHANGED memoryVars PROVE MemoryTyped'
  BY <1>6 DEF memoryVars, MemoryTyped
<1> QED  BY <1>1, <1>2, <1>3, <1>4, <1>5, <1>6 DEF MemoryNext

LEMMA MemoryCountedStep ==
  ASSUME MemoryCounted, [MemoryNext]_memoryVars
  PROVE  MemoryCounted'
<1>1. ASSUME TickUpdate PROVE MemoryCounted'
  <2>1. updates' \in 0..(PERSIST_INTERVAL - 1)
    BY <1>1, UpdatesWrap DEF TickUpdate
  <2> QED  BY <1>1, <2>1, MemoryConstants DEF TickUpdate, MemoryCounted
<1>2. ASSUME Start PROVE MemoryCounted'
  BY <1>2, MemoryConstants DEF Start, MemoryCounted
<1>3. ASSUME Observe \/ End \/ Kill \/ UNCHANGED memoryVars PROVE MemoryCounted'
  BY <1>3 DEF Observe, End, Kill, memoryVars, MemoryCounted
<1> QED  BY <1>1, <1>2, <1>3 DEF MemoryNext

LEMMA MemoryFlagsStep ==
  ASSUME MemoryFlags, [MemoryNext]_memoryVars
  PROVE  MemoryFlags'
<1>1. ASSUME Start PROVE MemoryFlags'
  BY <1>1 DEF Start, MemoryFlags
<1>2. ASSUME End \/ Kill PROVE MemoryFlags'
  BY <1>2 DEF End, Kill, MemoryFlags
<1>3. ASSUME Observe \/ TickUpdate \/ UNCHANGED memoryVars PROVE MemoryFlags'
  BY <1>3 DEF Observe, TickUpdate, memoryVars, MemoryFlags
<1> QED  BY <1>1, <1>2, <1>3 DEF MemoryNext

LEMMA MemoryStarts == MemoryInit => MemoryTyped /\ MemoryCounted /\ MemoryFlags
<1> SUFFICES ASSUME MemoryInit PROVE MemoryTyped /\ MemoryCounted /\ MemoryFlags
  OBVIOUS
<1>1. MemoryTyped
  BY EmptyWindow DEF MemoryInit, MemoryTyped
<1>2. MemoryCounted
  BY MemoryConstants DEF MemoryInit, MemoryCounted
<1>3. MemoryFlags
  BY DEF MemoryInit, MemoryFlags
<1> QED  BY <1>1, <1>2, <1>3

\* Type correctness: the window never outgrows memory_size, in this life and after any load.
THEOREM MemoryIsTyped == MemorySpec => []MemoryTypeOK
<1>1. MemoryTyped /\ MemoryCounted /\ MemoryFlags => MemoryTypeOK
  BY DEF MemoryTyped, MemoryCounted, MemoryFlags, Windows, MemoryTypeOK
<1>2. MemoryTyped /\ MemoryCounted /\ MemoryFlags /\ [MemoryNext]_memoryVars => (MemoryTyped /\ MemoryCounted /\ MemoryFlags)'
  BY MemoryTypedStep, MemoryCountedStep, MemoryFlagsStep
<1> QED  BY <1>1, <1>2, MemoryStarts, PTL DEF MemorySpec

(* --------------------------- forgetting ---------------------------------- *)

\* A dead process has no window: nothing is remembered there.
Kept == NothingForgotten /\ (~running => window = << >>)

\* What store() takes in is in the window it leaves.
LEMMA NewRemembered ==
  ASSUME MemoryTyped, MemoryCounted, NEW v \in Values, NEW t \in 0..MaxTick
  PROVE  New(v, t) \subseteq Rng(Remember(v, t))
<1> DEFINE e == [value |-> v, tick |-> t, life |-> life]
<1>1. e \in Entry
  BY DEF MemoryCounted, Entry
<1>2. window \in Windows
  BY DEF MemoryTyped
<1>3. CASE New(v, t) = {e}
  <2>1. Remember(v, t) = Push(window, e)
    BY <1>3 DEF Remember
  <2> HIDE DEF e
  <2>2. PICK d \in {0, 1} : Shifted(Push(window, e), window, e, d)
    BY <1>1, <1>2, PushedWindow
  <2>3. Push(window, e) \in Seq(Entry)
    BY <1>1, <1>2, PushedWindow DEF Windows
  <2>4. Len(Push(window, e)) \in DOMAIN Push(window, e)
    BY <2>2, <2>3 DEF Shifted
  <2>5. e \in Rng(Push(window, e))
    BY <2>2, <2>4 DEF Shifted, Rng
  <2> QED  BY <1>3, <2>1, <2>5
<1>4. CASE New(v, t) = {}
  BY <1>4
<1> QED  BY <1>3, <1>4 DEF New

LEMMA StoreKept ==
  ASSUME MemoryTyped, MemoryCounted, NothingForgotten, NEW v \in Values, NEW t \in 0..MaxTick,
         Store(v, t), UNCHANGED db
  PROVE  NothingForgotten'
<1>1. New(v, t) \subseteq Rng(window')
  BY NewRemembered DEF Store
<1>2. Rng(window) \subseteq Rng(window') \union db' \union excused'
  BY DEF Store, Unsaved
<1>3. stored' = stored \union New(v, t) /\ excused \subseteq excused'
  BY DEF Store
<1> QED  BY <1>1, <1>2, <1>3 DEF NothingForgotten

\* persist() makes rows of a window, or excuses it.
LEMMA PersistKept ==
  ASSUME NEW w, NEW saved, NEW excuse, Persist(w, saved, excuse)
  PROVE  /\ Rng(w) \subseteq db' \union excused'
         /\ db \subseteq db' /\ excused \subseteq excused' /\ excuse \subseteq excused'
BY DEF Persist

LEMMA TidyKept ==
  ASSUME MemoryTyped, MemoryCounted, NothingForgotten, NEW v \in Values, NEW t \in 0..MaxTick, NEW saved,
         stored' = stored \union New(v, t),
         Tidy(Remember(v, t), saved, Unsaved(Remember(v, t)))
  PROVE  NothingForgotten'
<1> DEFINE w == Remember(v, t)
<1>1. New(v, t) \subseteq Rng(w)
  BY NewRemembered
<1>2. Rng(window) \subseteq Rng(w) \union db \union Unsaved(w)
  BY DEF Unsaved
<1>3. Persist(w, saved, Unsaved(w))
  BY DEF Tidy
<1> HIDE DEF w
<1>4. /\ Rng(w) \subseteq db' \union excused'
      /\ db \subseteq db' /\ excused \subseteq excused' /\ Unsaved(w) \subseteq excused'
  BY <1>3, PersistKept
<1> QED  BY <1>1, <1>2, <1>4 DEF NothingForgotten

LEMMA KeptStep ==
  ASSUME MemoryTyped, MemoryCounted, Kept, [MemoryNext]_memoryVars
  PROVE  Kept'
<1> USE DEF Kept
<1>1. ASSUME Observe PROVE Kept'
  <2>1. PICK v \in Texts, t \in {0, tick} : Store(v, t)
    BY <1>1 DEF Observe
  <2>2. v \in Values /\ t \in 0..MaxTick
    BY <2>1, MemoryConstants DEF Values, MemoryCounted
  <2>3. NothingForgotten'
    BY <1>1, <2>1, <2>2, StoreKept DEF Observe
  <2> QED  BY <1>1, <2>3 DEF Observe
<1>2. ASSUME TickUpdate PROVE Kept'
  <2>1. PICK c \in {"chose", "forced"}, sent \in BOOLEAN :
          LET v == [choice |-> c, at |-> tick + 1] IN
          IF sent /\ updates' = 0
            THEN /\ stored' = stored \union New(v, tick + 1)
                 /\ \E saved \in {FALSE, open} :
                      Tidy(Remember(v, tick + 1), saved, Unsaved(Remember(v, tick + 1)))
            ELSE Store(v, tick + 1) /\ UNCHANGED db
    BY <1>2 DEF TickUpdate
  <2> DEFINE v == [choice |-> c, at |-> tick + 1]
  <2>2. v \in Values /\ tick + 1 \in 0..MaxTick
    BY <1>2, ChoiceIsValue DEF TickUpdate
  <2> HIDE DEF v
  <2>3. ASSUME Store(v, tick + 1), UNCHANGED db PROVE NothingForgotten'
    BY <2>2, <2>3, StoreKept
  <2>4. ASSUME NEW saved, stored' = stored \union New(v, tick + 1),
               Tidy(Remember(v, tick + 1), saved, Unsaved(Remember(v, tick + 1)))
        PROVE  NothingForgotten'
    BY <2>2, <2>4, TidyKept
  <2>5. NothingForgotten'
    BY <2>1, <2>3, <2>4 DEF v
  <2> QED  BY <1>2, <2>5 DEF TickUpdate
<1>3. ASSUME End PROVE Kept'
  <2>1. PICK saved : Persist(window, saved, {})
    BY <1>3 DEF End
  <2>2. Rng(window) \subseteq db' \union excused' /\ db \subseteq db' /\ excused \subseteq excused'
    BY <2>1, PersistKept
  <2> QED  BY <1>3, <2>2 DEF End, NothingForgotten
<1>4. ASSUME Kill PROVE Kept'
  <2>1. Rng(window) \subseteq db' \union excused' /\ excused \subseteq excused' /\ db' = db
    BY <1>4, EmptyWindow DEF Kill, Unsaved
  <2> QED  BY <1>4, <2>1 DEF Kill, NothingForgotten
<1>5. ASSUME Start PROVE Kept'
  <2>1. Rng(window) = {}
    BY <1>5, EmptyWindow DEF Start
  <2> QED  BY <1>5, <2>1 DEF Start, NothingForgotten
<1>6. ASSUME UNCHANGED memoryVars PROVE Kept'
  BY <1>6 DEF memoryVars, NothingForgotten
<1> QED  BY <1>1, <1>2, <1>3, <1>4, <1>5, <1>6 DEF MemoryNext

\* What was remembered once is in the window or in the database unless no persist saved it in
\* time (memory.py, store, persist, prune, load and close as __main__.py calls them): in
\* particular, pruning after a persist and loading a part of the rows forget nothing.
THEOREM NothingIsForgotten == MemorySpec => []NothingForgotten
<1>1. MemoryInit => Kept
  BY DEF MemoryInit, Kept, NothingForgotten
<1>2. Kept => NothingForgotten
  BY DEF Kept
<1>3. MemoryTyped /\ MemoryCounted /\ Kept /\ [MemoryNext]_memoryVars => (MemoryTyped /\ MemoryCounted /\ Kept)'
  BY MemoryTypedStep, MemoryCountedStep, KeptStep
<1> QED  BY <1>1, <1>2, <1>3, MemoryStarts, PTL DEF MemorySpec

(* --------------------------- duplicates ---------------------------------- *)

\* DuplicatesAreLoaded, of a window w and the entries l loaded.
AreLoaded(w, l) ==
  \A i, j \in DOMAIN w : i # j /\ w[i].value = w[j].value => {w[i], w[j]} \subseteq l

LEMMA NoneLoaded == \A l : AreLoaded(<< >>, l)
BY DEF AreLoaded

LEMMA RememberLoaded ==
  ASSUME MemoryTyped, MemoryCounted, AreLoaded(window, loaded), NEW v \in Values, NEW t \in 0..MaxTick
  PROVE  AreLoaded(Remember(v, t), loaded)
<1> DEFINE e == [value |-> v, tick |-> t, life |-> life]
<1>1. e \in Entry /\ e.value = v
  BY DEF MemoryCounted, Entry
<1>2. window \in Windows
  BY DEF MemoryTyped
<1>3. CASE Known(window, v)
  BY <1>3 DEF Remember, New
<1>4. CASE ~Known(window, v)
  <2>1. Remember(v, t) = Push(window, e)
    BY <1>4 DEF Remember, New
  <2> HIDE DEF e
  <2>2. PICK d \in {0, 1} : Shifted(Push(window, e), window, e, d)
    BY <1>1, <1>2, PushedWindow
  <2> DEFINE p == Push(window, e)
  <2>3. p \in Seq(Entry) /\ Len(p) \in Nat \ {0} /\ DOMAIN p = 1..Len(p)
    BY <1>1, <1>2, <2>2, PushedWindow DEF Windows, Shifted
  <2>4. DOMAIN window = 1..Len(window) /\ Len(window) \in Nat
    BY <1>2 DEF Windows
  <2>5. \A k \in DOMAIN window : window[k].value # v
    BY <1>4 DEF Known, Rng
  <2>6. p[Len(p)].value = v
    BY <1>1, <2>2 DEF Shifted
  <2>7. \A i \in 1..(Len(p) - 1) : i + d \in DOMAIN window /\ p[i] = window[i + d]
    BY <2>2, <2>4 DEF Shifted
  <2>8. \A i \in 1..(Len(p) - 1) : p[i].value # v
    BY <2>5, <2>7
  <2> HIDE DEF p
  <2>9. ASSUME NEW i \in DOMAIN p, NEW j \in DOMAIN p, i # j, p[i].value = p[j].value
        PROVE  {p[i], p[j]} \subseteq loaded
    <3>1. i \in 1..(Len(p) - 1) /\ j \in 1..(Len(p) - 1)
      BY <2>3, <2>6, <2>8, <2>9
    <3>2. i + d # j + d
      BY <2>9, <3>1
    <3> QED  BY <2>7, <2>9, <3>1, <3>2 DEF AreLoaded
  <2>10. AreLoaded(p, loaded)
    BY <2>9 DEF AreLoaded
  <2> QED  BY <2>1, <2>10 DEF p
<1> QED  BY <1>3, <1>4

LEMMA TidiedLoaded ==
  ASSUME NEW w \in Windows, NEW u \in Tidied(w), NEW l, AreLoaded(w, l)
  PROVE  AreLoaded(u, l)
<1>1. ASSUME NEW i \in DOMAIN u, NEW j \in DOMAIN u, i # j, u[i].value = u[j].value
      PROVE  {u[i], u[j]} \subseteq l
  <2>1. PICK k \in DOMAIN w, m \in DOMAIN w : k # m /\ u[i] = w[k] /\ u[j] = w[m]
    BY <1>1, TidiedWindow
  <2> QED  BY <1>1, <2>1 DEF AreLoaded
<1> QED  BY <1>1 DEF AreLoaded

LEMMA LoadedStep ==
  ASSUME MemoryTyped, MemoryCounted, AreLoaded(window, loaded), [MemoryNext]_memoryVars
  PROVE  AreLoaded(window', loaded')
<1>1. ASSUME Observe PROVE AreLoaded(window', loaded')
  <2>1. PICK v \in Texts, t \in {0, tick} : Store(v, t)
    BY <1>1 DEF Observe
  <2>2. v \in Values /\ t \in 0..MaxTick
    BY <2>1, MemoryConstants DEF Values, MemoryCounted
  <2>3. window' = Remember(v, t) /\ loaded' = loaded
    BY <1>1, <2>1 DEF Observe, Store
  <2> QED  BY <2>2, <2>3, RememberLoaded
<1>2. ASSUME TickUpdate PROVE AreLoaded(window', loaded')
  <2>1. PICK c \in {"chose", "forced"}, sent \in BOOLEAN :
          LET v == [choice |-> c, at |-> tick + 1] IN
          IF sent /\ updates' = 0
            THEN /\ stored' = stored \union New(v, tick + 1)
                 /\ \E saved \in {FALSE, open} :
                      Tidy(Remember(v, tick + 1), saved, Unsaved(Remember(v, tick + 1)))
            ELSE Store(v, tick + 1) /\ UNCHANGED db
    BY <1>2 DEF TickUpdate
  <2> DEFINE v == [choice |-> c, at |-> tick + 1]
             w == Remember(v, tick + 1)
  <2>2. v \in Values /\ tick + 1 \in 0..MaxTick
    BY <1>2, ChoiceIsValue DEF TickUpdate
  <2>3. window' = w \/ window' \in Tidied(w)
    BY <2>1 DEF Store, Tidy
  <2>4. w \in Windows /\ AreLoaded(w, loaded)
    <3> HIDE DEF v
    <3> QED  BY <2>2, Remembered, RememberLoaded
  <2>5. loaded' = loaded
    BY <1>2 DEF TickUpdate
  <2> HIDE DEF w
  <2> QED  BY <2>3, <2>4, <2>5, TidiedLoaded
<1>3. ASSUME End \/ Kill PROVE AreLoaded(window', loaded')
  BY <1>3, NoneLoaded DEF End, Kill
<1>4. ASSUME Start PROVE AreLoaded(window', loaded')
  BY <1>4 DEF Start, AreLoaded, Rng
<1>5. ASSUME UNCHANGED memoryVars PROVE AreLoaded(window', loaded')
  BY <1>5 DEF memoryVars
<1> QED  BY <1>1, <1>2, <1>3, <1>4, <1>5 DEF MemoryNext

\* A life does not remember one thing twice (memory.py, store looks for the value in the window):
\* duplicates in the window have all come from the rows of load().
THEOREM DuplicatesComeFromRows == MemorySpec => []DuplicatesAreLoaded
<1>1. AreLoaded(window, loaded) <=> DuplicatesAreLoaded
  BY DEF AreLoaded, DuplicatesAreLoaded
<1>2. MemoryInit => AreLoaded(window, loaded)
  BY NoneLoaded DEF MemoryInit
<1>3. MemoryTyped /\ MemoryCounted /\ AreLoaded(window, loaded) /\ [MemoryNext]_memoryVars
        => (MemoryTyped /\ MemoryCounted)' /\ AreLoaded(window', loaded')
  BY MemoryTypedStep, MemoryCountedStep, LoadedStep
<1>4. (MemoryTyped /\ MemoryCounted /\ AreLoaded(window, loaded)) /\ [MemoryNext]_memoryVars
        => (MemoryTyped /\ MemoryCounted /\ AreLoaded(window, loaded))'
  BY <1>3
<1> QED  BY <1>1, <1>2, <1>4, MemoryStarts, PTL DEF MemorySpec

(* ---------------------- types of the client ------------------------------- *)

(* The values of the variables; a step changes few of them.                   *)
Typed ==
  /\ main \in Places /\ state \in ConnectionState
  /\ link \in Links /\ unread \in 0..BUFFER
  /\ listener \in {"none", "listening", "ended"}
  /\ heartbeat \in {"none", "sleeping", "pinging", "ended"}

Flags == shutdown \in BOOLEAN /\ up \in BOOLEAN

(* The counters.  A frame the listener takes has left the websocket, so the   *)
(* queue and the frames unread are bounded together; a process that backs off *)
(* may take one attempt more, one that rests between two lives one crash.     *)
Counted ==
  /\ queue \in Nat /\ queue + unread <= QueueBound + BUFFER
  /\ attempt \in Nat /\ (MAX_ATTEMPTS > 0 => attempt <= MAX_ATTEMPTS)
  /\ retry \in 1..MAX_RETRIES
  /\ crashes \in 0..MAX_CRASH_RESTARTS
  /\ main \notin Over => crashes < MAX_CRASH_RESTARTS

(* The sets of places, for the leaves that compare them.                      *)
USE DEF Connecting, InLoop, Over

LEMMA TypedInit == Init => Typed
BY ClientConstants DEF Init, Typed, Places, ConnectionState, Links

LEMMA FlagsInit == Init => Flags
BY DEF Init, Flags

LEMMA CountedInit == Init => Counted
BY ClientConstants DEF Init, Counted

(* connect() and the agent loop keep the types: the steps that end an attempt *)
(* or a life reset what belongs to it.                                        *)
LEMMA TypedStep == Typed /\ [Next]_vars => Typed'
<1> SUFFICES ASSUME Typed, [Next]_vars PROVE Typed'
  OBVIOUS
<1> USE ClientConstants DEF Typed, Places, ConnectionState, Links
<1>1. ASSUME Connect PROVE Typed'
  <2>1. CASE DialSucceeds \/ AttemptFails
    BY <2>1 DEF DialSucceeds, AttemptFails
  <2>2. CASE Authenticated \/ AuthenticationFails
    BY <2>2 DEF Authenticated, AuthenticationFails
  <2>3. CASE BackoffEnds
    BY <2>3 DEF BackoffEnds, Attempt
  <2> QED  BY <1>1, <2>1, <2>2, <2>3 DEF Connect
<1>2. ASSUME Loop PROVE Typed'
  <2>1. CASE LeaveLoop \/ AwaitMessage \/ NothingToDo \/ ReadTick
    BY <2>1 DEF LeaveLoop, AwaitMessage, NothingToDo, ReadTick
  <2>2. CASE Reconnect
    BY <2>2 DEF Reconnect, Attempt
  <2>3. CASE TryAgain \/ Decided \/ Send
    BY <2>3 DEF TryAgain, Decided, Send
  <2>4. CASE Finish
    BY <2>4 DEF Finish
  <2> QED  BY <1>2, <2>1, <2>2, <2>3, <2>4 DEF Loop
<1>3. ASSUME Restart \/ request_shutdown \/ Terminated PROVE Typed'
  BY <1>3 DEF Restart, request_shutdown, Terminated, vars
<1>4. ASSUME Listen \/ Beat PROVE Typed'
  <2>1. CASE ListenerReads \/ ListenerEnds
    BY <2>1 DEF ListenerReads, ListenerEnds
  <2>2. CASE Ping \/ Pong \/ HeartbeatEnds \/ HeartbeatFails
    BY <2>2 DEF Ping, Pong, HeartbeatEnds, HeartbeatFails
  <2> QED  BY <1>4, <2>1, <2>2 DEF Listen, Beat
<1>5. ASSUME World PROVE Typed'
  BY <1>5 DEF World, ServerSends, LinkFails, ServerStops, ServerStarts
<1>6. ASSUME UNCHANGED vars PROVE Typed'
  BY <1>6 DEF vars
<1> QED  BY <1>1, <1>2, <1>3, <1>4, <1>5, <1>6 DEF Next

(* The event and the server: all but five steps leave both alone.             *)
LEMMA FlagsStep == Flags /\ [Next]_vars => Flags'
<1> SUFFICES ASSUME Flags, [Next]_vars PROVE Flags'
  OBVIOUS
<1>1. CASE UNCHANGED <<shutdown, up>>
  BY <1>1 DEF Flags
<1>2. ASSUME Finish \/ Restart \/ request_shutdown PROVE Flags'
  BY <1>2 DEF Finish, Restart, request_shutdown, Flags
<1>3. ASSUME ServerStops \/ ServerStarts PROVE Flags'
  BY <1>3 DEF ServerStops, ServerStarts, Flags
<1>4. ASSUME Connect \/ Listen \/ Beat PROVE UNCHANGED <<shutdown, up>>
  BY <1>4 DEF Connect, DialSucceeds, AttemptFails, Authenticated,
              AuthenticationFails, BackoffEnds, Listen, ListenerReads,
              ListenerEnds, Beat, Ping, Pong, HeartbeatEnds, HeartbeatFails
<1>5. ASSUME Loop, ~Finish PROVE UNCHANGED <<shutdown, up>>
  BY <1>5 DEF Loop, LeaveLoop, Reconnect, AwaitMessage, NothingToDo, ReadTick,
              TryAgain, Decided, Send
<1>6. ASSUME World, ~ServerStops, ~ServerStarts PROVE UNCHANGED <<shutdown, up>>
  BY <1>6 DEF World, ServerSends, LinkFails
<1>7. ASSUME Terminated \/ UNCHANGED vars PROVE UNCHANGED <<shutdown, up>>
  BY <1>7 DEF Terminated, vars
<1> QED  BY <1>1, <1>2, <1>3, <1>4, <1>5, <1>6, <1>7 DEF Next

LEMMA CountedStep == Typed /\ Counted /\ [Next]_vars => Counted'
<1> SUFFICES ASSUME Typed, Counted, [Next]_vars PROVE Counted'
  OBVIOUS
<1> USE ClientConstants DEF Typed, Counted
<1>1. ASSUME Connect PROVE Counted'
  <2>1. CASE DialSucceeds \/ AttemptFails
    BY <2>1 DEF DialSucceeds, AttemptFails
  <2>2. CASE Authenticated \/ AuthenticationFails
    BY <2>2 DEF Authenticated, AuthenticationFails
  <2>3. CASE BackoffEnds
    BY <2>3 DEF BackoffEnds, Attempt
  <2> QED  BY <1>1, <2>1, <2>2, <2>3 DEF Connect
<1>2. ASSUME Loop PROVE Counted'
  <2>1. CASE LeaveLoop \/ AwaitMessage \/ NothingToDo \/ ReadTick
    BY <2>1 DEF LeaveLoop, AwaitMessage, NothingToDo, ReadTick
  <2>2. CASE Reconnect
    BY <2>2 DEF Reconnect, Attempt
  <2>3. CASE TryAgain \/ Decided \/ Send
    BY <2>3 DEF TryAgain, Decided, Send
  <2>4. CASE Finish
    BY <2>4 DEF Finish
  <2> QED  BY <1>2, <2>1, <2>2, <2>3, <2>4 DEF Loop
<1>3. ASSUME Restart \/ request_shutdown \/ Terminated PROVE Counted'
  BY <1>3 DEF Restart, request_shutdown, Terminated, vars
<1>4. ASSUME Listen \/ Beat PROVE Counted'
  <2>1. CASE ListenerReads \/ ListenerEnds
    BY <2>1 DEF ListenerReads, ListenerEnds
  <2>2. CASE Ping \/ Pong \/ HeartbeatEnds \/ HeartbeatFails
    BY <2>2 DEF Ping, Pong, HeartbeatEnds, HeartbeatFails
  <2> QED  BY <1>4, <2>1, <2>2 DEF Listen, Beat
<1>5. ASSUME World PROVE Counted'
  BY <1>5 DEF World, ServerSends, LinkFails, ServerStops, ServerStarts
<1>6. ASSUME UNCHANGED vars PROVE Counted'
  BY <1>6 DEF vars
<1> QED  BY <1>1, <1>2, <1>3, <1>4, <1>5, <1>6 DEF Next

(* Type correctness: the limits of attempts, tries and crashes hold, and the  *)
(* queue holds no more than was sent.                                         *)
THEOREM ClientTypeOK == Spec => []TypeOK
<1>1. Typed /\ Flags /\ Counted => TypeOK
  BY ClientConstants DEF Typed, Flags, Counted, TypeOK
<1>2. Init => Typed /\ Flags /\ Counted
  BY TypedInit, FlagsInit, CountedInit
<1>3. Typed /\ Flags /\ Counted /\ [Next]_vars => (Typed /\ Flags /\ Counted)'
  BY TypedStep, FlagsStep, CountedStep
<1> QED  BY <1>1, <1>2, <1>3, PTL DEF Spec

(* ------------------------------ tasks ------------------------------------ *)

(* While the process connects it is alone: the tasks end with the connection  *)
(* they belong to, by reconnect() or with the life of the process.            *)
Rested == main = "resting" => heartbeat = "none" /\ listener = "none"

Alone == ConnectsAlone /\ Rested

LEMMA AloneStep == Alone /\ [Next]_vars => Alone'
<1> SUFFICES ASSUME Alone, [Next]_vars PROVE Alone'
  OBVIOUS
<1> USE DEF Alone, ConnectsAlone, Rested
<1>1. ASSUME Connect PROVE Alone'
  BY <1>1 DEF Connect, DialSucceeds, AttemptFails, Authenticated,
              AuthenticationFails, BackoffEnds, Attempt
<1>2. ASSUME Loop PROVE Alone'
  <2>1. CASE LeaveLoop \/ AwaitMessage \/ NothingToDo \/ ReadTick
    BY <2>1 DEF LeaveLoop, AwaitMessage, NothingToDo, ReadTick
  <2>2. CASE Reconnect
    BY <2>2 DEF Reconnect, Attempt
  <2>3. CASE TryAgain \/ Decided \/ Send \/ Finish
    BY <2>3 DEF TryAgain, Decided, Send, Finish
  <2> QED  BY <1>2, <2>1, <2>2, <2>3 DEF Loop
<1>3. ASSUME Restart \/ request_shutdown \/ Terminated PROVE Alone'
  BY <1>3 DEF Restart, request_shutdown, Terminated, vars
<1>4. ASSUME Listen \/ Beat PROVE Alone'
  BY <1>4 DEF Listen, Beat, ListenerReads, ListenerEnds, Ping, Pong,
              HeartbeatEnds, HeartbeatFails
<1>5. ASSUME World PROVE Alone'
  BY <1>5 DEF World, ServerSends, LinkFails, ServerStops, ServerStarts
<1>6. ASSUME UNCHANGED vars PROVE Alone'
  BY <1>6 DEF vars
<1> QED  BY <1>1, <1>2, <1>3, <1>4, <1>5, <1>6 DEF Next

(* No task of an old connection outlives it.                                  *)
THEOREM ConnectingIsAlone == Spec => []ConnectsAlone
<1>1. Init => Alone
  BY DEF Init, Alone, ConnectsAlone, Rested
<1>2. Alone => ConnectsAlone
  BY DEF Alone
<1> QED  BY <1>1, <1>2, AloneStep, PTL DEF Spec

(* A step of a task that leaves the state CONNECTED leaves the tasks alive;   *)
(* the shutdown event stays set and a clean close stays clean while the loop  *)
(* runs.                                                                      *)
LEMMA WatchedStep == ConnectionIsWatched /\ [Next]_vars => ConnectionIsWatched'
<1> SUFFICES ASSUME ConnectionIsWatched, [Next]_vars PROVE ConnectionIsWatched'
  OBVIOUS
<1> USE DEF ConnectionIsWatched
<1>1. ASSUME Connect PROVE ConnectionIsWatched'
  BY <1>1 DEF Connect, DialSucceeds, AttemptFails, Authenticated,
              AuthenticationFails, BackoffEnds, Attempt
<1>2. ASSUME Loop PROVE ConnectionIsWatched'
  <2>1. CASE LeaveLoop \/ AwaitMessage \/ NothingToDo \/ ReadTick
    BY <2>1 DEF LeaveLoop, AwaitMessage, NothingToDo, ReadTick
  <2>2. CASE Reconnect
    BY <2>2 DEF Reconnect, Attempt
  <2>3. CASE TryAgain \/ Decided \/ Send \/ Finish
    BY <2>3 DEF TryAgain, Decided, Send, Finish
  <2> QED  BY <1>2, <2>1, <2>2, <2>3 DEF Loop
<1>3. ASSUME Restart \/ request_shutdown \/ Terminated
      PROVE ConnectionIsWatched'
  BY <1>3 DEF Restart, request_shutdown, Terminated, vars
<1>4. ASSUME Listen PROVE ConnectionIsWatched'
  BY <1>4 DEF Listen, ListenerReads, ListenerEnds, Closed
<1>5. ASSUME Beat PROVE ConnectionIsWatched'
  BY <1>5 DEF Beat, Ping, Pong, HeartbeatEnds, HeartbeatFails
<1>6. ASSUME World PROVE ConnectionIsWatched'
  BY <1>6 DEF World, ServerSends, LinkFails, ServerStops, ServerStarts
<1>7. ASSUME UNCHANGED vars PROVE ConnectionIsWatched'
  BY <1>7 DEF vars
<1> QED  BY <1>1, <1>2, <1>3, <1>4, <1>5, <1>6, <1>7 DEF Next

(* A connection taken for connected is watched, whatever the three tasks, the *)
(* signals and the network do to one another.                                 *)
THEOREM ConnectionsAreWatched == Spec => []ConnectionIsWatched
<1>1. Init => ConnectionIsWatched
  BY DEF Init, ConnectionIsWatched
<1> QED  BY <1>1, WatchedStep, PTL DEF Spec
=============================================================================
