---------------------------- MODULE AgentMemory ----------------------------
(* The memory of an agent (memory.py) through the lives of its process: a     *)
(* window of bounded length in the process, a SQLite table that outlives it,  *)
(* and the points at which the agent loop (__main__.py) and the brain         *)
(* (brain.py) store, persist, prune and load.  Only the agent loop touches    *)
(* the memory, so what it does between two messages is one step.              *)
EXTENDS Naturals, Sequences, FiniteSets

CONSTANTS
  MAX_SIZE,         \* memory_size of the config
  PERSIST_INTERVAL, \* tick updates between two persists
  Texts,            \* texts of results, observations and events
  Importance,       \* Importance[v]: compute_importance of value v, in tenths
  MaxTick,          \* bound of the model: ticks of the world
  MaxLives          \* bound of the model: lives of the process

\* What is remembered: a text, or the choice made at a tick ("forced" when the
\* language model has failed MAX_RETRIES times).
Choices == [choice : {"chose", "forced"}, at : 1..MaxTick]
Values  == Texts \union Choices

ASSUME MemoryConstants ==
  /\ MAX_SIZE \in Nat \ {0} /\ PERSIST_INTERVAL \in Nat \ {0}
  /\ MaxTick \in Nat /\ MaxLives \in Nat \ {0}
  /\ Importance \in [Values -> 0..10]

VARIABLES
  window,   \* Memory._memories, oldest first
  db,       \* rows of the table memories
  open,     \* _db is not None: the entries of this life can be persisted
  tick,     \* tick of the world
  updates,  \* tick_counter of the agent loop
  life,     \* the life of the process
  running,  \* the process is alive
  stored,   \* history: entries ever appended
  loaded,   \* history: entries this life has loaded
  excused   \* history: entries that left the window before they were saved

memoryVars == <<window, db, open, tick, updates, life, running, stored, loaded, excused>>

\* A row has no key of its own here: the key is the tick and the hash of the value.
\* Each process salts its hashes anew.  A restart after a crash inside one process
\* keeps the salt, and a row of the same value and tick is then replaced by its equal;
\* here the two lives keep one row each.
Entry == [value : Values, tick : 0..MaxTick, life : 1..MaxLives]

Rng(w) == {w[i] : i \in DOMAIN w}
Imp(e) == Importance[e.value]

\* Mutant of Push: without maxlen.
PushUnbounded(w, e) == Append(w, e)

\* deque(maxlen): an entry more pushes the oldest out.
Push(w, e) == IF Len(w) < MAX_SIZE THEN Append(w, e) ELSE Append(Tail(w), e)

\* Mutant of Known: only the value stored last is compared.
KnownLast(w, v) == w # << >> /\ w[Len(w)].value = v

\* The duplicates store() looks for.
Known(w, v) == \E e \in Rng(w) : e.value = v

-----------------------------------------------------------------------------
(* prune(): the best Keep by importance and recency survive, in their order. *)
Keep == (MAX_SIZE * 8) \div 10

\* importance * 0.7 + recency * 0.3, times 100 * Len(w).
Score(w, i) == 7 * Imp(w[i]) * Len(w) + 30 * (i - 1)

Better(w, i, j) == Score(w, i) > Score(w, j) \/ (Score(w, i) = Score(w, j) /\ i < j)

Survivors(w) ==
  {w[j] : j \in {k \in DOMAIN w : Cardinality({i \in DOMAIN w : Better(w, i, k)}) < Keep}}

\* v has elements of w, each once, in the order they have in w.
InOrder(v, w) ==
  \A i, j \in DOMAIN v : i < j =>
    \E k, l \in DOMAIN w : k < l /\ v[i] = w[k] /\ v[j] = w[l]

Pruned(w) ==
  {v \in UNION {[1..n -> Survivors(w)] : n \in 0..Len(w)} :
     Rng(v) = Survivors(w) /\ InOrder(v, w)}

\* The loop prunes a window that is filled to more than nine tenths.
Tidied(w) == IF Len(w) * 10 > MAX_SIZE * 9 THEN Pruned(w) ELSE {w}

-----------------------------------------------------------------------------
(* store(): a value the window holds is not stored again.                    *)
New(v, t) ==
  IF Known(window, v) THEN {} ELSE {[value |-> v, tick |-> t, life |-> life]}

Remember(v, t) ==
  IF New(v, t) = {} THEN window
                    ELSE Push(window, [value |-> v, tick |-> t, life |-> life])

\* Entries a step takes out of the window before they are rows.
Unsaved(w) == Rng(window) \ (Rng(w) \union db)

Store(v, t) ==
  /\ window'  = Remember(v, t)
  /\ stored'  = stored \union New(v, t)
  /\ excused' = excused \union Unsaved(Remember(v, t))

\* A text: of an action or query result, which carries no tick, or of an observation, a world
\* event or a sleep summary.
Observe ==
  /\ running
  /\ \E v \in Texts, t \in {0, tick} : Store(v, t)
  /\ UNCHANGED <<db, open, tick, updates, life, running, loaded>>

\* persist() writes the whole window w, or fails and says nothing; what `excuse` holds is lost in
\* any case.
Persist(w, saved, excuse) ==
  IF saved
    THEN db' = db \union Rng(w) /\ excused' = excused \union excuse
    ELSE UNCHANGED db /\ excused' = excused \union excuse \union (Rng(w) \ db)

\* Mutant of Tidy: prune, then persist.
TidyPruneFirst(w, saved, excuse) ==
  \E v \in Tidied(w) : Persist(v, saved, excuse) /\ window' = v

\* The periodic part of the loop: persist, then prune.
Tidy(w, saved, excuse) == Persist(w, saved, excuse) /\ window' \in Tidied(w)

\* A tick update: decide() stores its choice and the action is sent; every PERSIST_INTERVAL
\* updates the window is tidied, except after an action that could not be sent.
TickUpdate ==
  /\ running /\ tick < MaxTick
  /\ tick' = tick + 1
  /\ updates' = (updates + 1) % PERSIST_INTERVAL
  /\ \E choice \in {"chose", "forced"}, sent \in BOOLEAN :
       LET v == [choice |-> choice, at |-> tick + 1] IN
       IF sent /\ updates' = 0
         THEN /\ stored' = stored \union New(v, tick + 1)
              /\ \E saved \in {FALSE, open} :
                   Tidy(Remember(v, tick + 1), saved, Unsaved(Remember(v, tick + 1)))
         ELSE Store(v, tick + 1) /\ UNCHANGED db
  /\ UNCHANGED <<open, life, running, loaded>>

\* The finally of run_agent, after a return or an exception: persist() and close().
End ==
  /\ running
  /\ \E saved \in {FALSE, open} : Persist(window, saved, {})
  /\ window' = << >> /\ running' = FALSE /\ open' = FALSE
  /\ UNCHANGED <<tick, updates, life, stored, loaded>>

\* The process is killed, or its machine stops.
Kill ==
  /\ running
  /\ window' = << >> /\ running' = FALSE /\ open' = FALSE
  /\ excused' = excused \union Unsaved(<< >>)
  /\ UNCHANGED <<db, tick, updates, life, stored, loaded>>

\* The rows of load(): ORDER BY tick DESC, importance DESC LIMIT MAX_SIZE, then reversed; the
\* order of equal rows is SQLite's.
NotAfter(e, f) == e.tick < f.tick \/ (e.tick = f.tick /\ Imp(e) <= Imp(f))

Restores(w) ==
  /\ \A i, j \in DOMAIN w : i < j => w[i] # w[j] /\ NotAfter(w[i], w[j])
  /\ \A e \in db \ Rng(w), f \in Rng(w) : NotAfter(e, f)

Restorable ==
  {w \in UNION {[1..n -> db] : n \in 0..MAX_SIZE} :
     Restores(w) /\ (Len(w) = MAX_SIZE \/ Rng(w) = db)}

\* The next life: initialize() and load(), each of which may fail and is then done without.
Start ==
  /\ ~running /\ life < MaxLives
  /\ life' = life + 1 /\ running' = TRUE /\ updates' = 0
  /\ \/ open' = TRUE /\ window' \in Restorable
     \/ open' \in BOOLEAN /\ window' = << >>
  /\ loaded' = Rng(window')
  /\ UNCHANGED <<db, tick, stored, excused>>

MemoryInit ==
  /\ window = << >> /\ db = {} /\ open \in BOOLEAN
  /\ tick = 0 /\ updates = 0 /\ life = 1 /\ running = TRUE
  /\ stored = {} /\ loaded = {} /\ excused = {}

MemoryNext == Observe \/ TickUpdate \/ End \/ Kill \/ Start

MemorySpec == MemoryInit /\ [][MemoryNext]_memoryVars

-----------------------------------------------------------------------------
\* Types; the window respects memory_size.
MemoryTypeOK ==
  /\ window \in Seq(Entry) /\ Len(window) <= MAX_SIZE
  /\ db \subseteq Entry
  /\ open \in BOOLEAN /\ running \in BOOLEAN
  /\ tick \in 0..MaxTick /\ life \in 1..MaxLives
  /\ updates \in 0..(PERSIST_INTERVAL - 1)
  /\ stored \subseteq Entry /\ loaded \subseteq Entry /\ excused \subseteq Entry

\* What was remembered once is in the window or in the database, whatever is pruned, loaded,
\* ended and started in between, unless no persist saved it in time: it was pushed out of a full
\* window before one, or killed, or the persist failed.
NothingForgotten == stored \subseteq Rng(window) \union db \union excused

\* A life does not remember the same thing twice: two entries of one value have both been loaded,
\* from rows of earlier lives or ticks.
DuplicatesAreLoaded ==
  \A i, j \in DOMAIN window :
    i # j /\ window[i].value = window[j].value => {window[i], window[j]} \subseteq loaded
=============================================================================
