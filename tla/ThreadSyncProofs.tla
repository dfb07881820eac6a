-------------------------- MODULE ThreadSyncProofs --------------------------
(***************************************************************************)
(* The handshake of Thread and the ownership of threads, for any number of *)
(* callers of start() and stop(), of threads and any size of the pool,     *)
(* with every failure of pthread_create.                                   *)
(***************************************************************************)
EXTENDS ThreadSync, FiniteSetTheorems, TLAPS

Waits(c, t) == pc[c] = "wait" /\ made[c] = t

(* start() has the mutex, and so has a thread inside run().                  *)
MutexHeld ==
  /\ \A c \in Caller : pc[c] \in {"create", "wait"} <=> m_mutex = c
  /\ \A t \in Thread : at[t] = "inside" <=> m_mutex = t

(* A constructor waits for a thread of its own.                              *)
Makers ==
  \A c \in Caller :
    IF pc[c] = "wait"
    THEN made[c] \in Thread /\ at[made[c]] \in {"created", "named", "running"}
    ELSE made[c] = None

(* Before notify() a thread has its constructor waiting ...                  *)
Young == \A t \in Thread : at[t] \in {"created", "named"} => \E c \in Caller : Waits(c, t)

(* ... and what notify() posts is there until the constructor takes it.      *)
Posted ==
  \A t \in Thread :
    m_semaphore[t] = IF at[t] = "running" /\ \E c \in Caller : Waits(c, t) THEN 1 ELSE 0

Named == \A t \in Thread : m_id[t] <=> at[t] \notin {"unborn", "created"}

(* Threads in a vector are past notify().                                    *)
Past(ts) == \A s \in DOMAIN ts : ts[s] # None => at[ts[s]] \in {"running", "inside", "ended"}

Vectors == Past(m_threads) /\ \A c \in Caller : Past(thrs[c])

(* What a start() under way has made so far.                                 *)
Filled ==
  \A c \in Caller : pc[c] \in {"create", "wait"} =>
    /\ m_threads \in [Slot -> Thread \cup {None}] /\ i[c] \in Slot
    /\ \A s \in 1 .. i[c] - 1 : m_threads[s] \in Thread /\ at[m_threads[s]] = "running"

SyncInv ==
  TypeOK /\ MutexHeld /\ Makers /\ Young /\ Posted /\ Named /\ Vectors /\ Filled /\ IdsKnown

-----------------------------------------------------------------------------
LEMMA Names ==
  /\ None \notin Thread /\ None \notin Caller /\ Thread \cap Caller = {}
  /\ m_threadCount \in Nat /\ m_threadCount > 0 /\ 1 \in Slot
BY ThreadSyncAssumption DEF Slot

LEMMA OneMaker ==
  ASSUME SyncInv, NEW c \in Caller, NEW d \in Caller,
         pc[c] \in {"create", "wait"}, pc[d] \in {"create", "wait"}
  PROVE  c = d
BY DEF SyncInv, MutexHeld

(* A vector is empty or has an entry for every slot.                         *)
LEMMA VectorDomain ==
  ASSUME NEW ts \in {<<>>} \cup [Slot -> Thread \cup {None}]
  PROVE  /\ \A s \in DOMAIN ts : s \in Slot /\ ts[s] \in Thread \cup {None}
         /\ Len(ts) \in 0 .. m_threadCount /\ DOMAIN ts = 1 .. Len(ts)
<1>1. CASE ts = <<>>
  BY <1>1, Names
<1>2. CASE ts \in [Slot -> Thread \cup {None}]
  <2>1. ts \in Seq(Thread \cup {None}) /\ Len(ts) = m_threadCount
    BY <1>2, Names DEF Slot
  <2> QED
    BY <1>2, <2>1, Names DEF Slot
<1> QED
  BY <1>1, <1>2

(* Vectors stay what they are while threads go on.                            *)
LEMMA VectorsKept ==
  ASSUME SyncInv, UNCHANGED <<m_threads, thrs>>,
         \A u \in Thread : at[u] \in {"running", "inside", "ended"} => at'[u] \in {"running", "inside", "ended"}
  PROVE  Vectors'
<1>1. ASSUME NEW ts \in {<<>>} \cup [Slot -> Thread \cup {None}], Past(ts) PROVE Past(ts)'
  <2>1. \A s \in DOMAIN ts : ts[s] \in Thread \cup {None}
    BY VectorDomain
  <2> QED
    BY <1>1, <2>1 DEF Past
<1>2. m_threads \in {<<>>} \cup [Slot -> Thread \cup {None}] /\ Past(m_threads)
  BY DEF SyncInv, TypeOK, Vectors
<1>3. PICK ts \in {<<>>} \cup [Slot -> Thread \cup {None}] : ts = m_threads
  BY <1>2
<1>4. Past(m_threads)'
  BY <1>1, <1>2, <1>3 DEF Past
<1>5. ASSUME NEW c \in Caller PROVE Past(thrs[c])'
  <2>1. PICK w \in {<<>>} \cup [Slot -> Thread \cup {None}] : w = thrs[c]
    BY DEF SyncInv, TypeOK
  <2>2. Past(w)'
    BY <1>1, <2>1 DEF SyncInv, Vectors
  <2> QED
    BY <2>1, <2>2 DEF Past
<1> QED
  BY <1>4, <1>5 DEF Vectors

LEMMA InitSync == Init => SyncInv
<1> SUFFICES ASSUME Init PROVE SyncInv
  OBVIOUS
<1>1. TypeOK
  <2>1. i \in [Caller -> 1 .. m_threadCount + 1] /\ m_semaphore \in [Thread -> 0 .. 1]
    BY Names DEF Init
  <2>2. thrs \in [Caller -> {<<>>} \cup [Slot -> Thread \cup {None}]]
    BY DEF Init
  <2>3. m_threads \in {<<>>} \cup [Slot -> Thread \cup {None}] /\ m_threadIds \subseteq Thread \cup {None}
    BY DEF Init
  <2> QED
    BY <2>1, <2>2, <2>3 DEF Init, TypeOK
<1>2. MutexHeld /\ Makers /\ Young /\ Posted
  BY Names DEF Init, MutexHeld, Makers, Young, Posted, Waits
<1>3. Named
  BY DEF Init, Named
<1>5. IdsKnown /\ Filled
  BY DEF Init, IdsKnown, Filled
<1>4. Vectors
  <2>1. DOMAIN <<>> = {}
    OBVIOUS
  <2> QED
    BY <2>1 DEF Init, Vectors, Past
<1> QED
  BY <1>1, <1>2, <1>3, <1>4, <1>5 DEF SyncInv

-----------------------------------------------------------------------------
LEMMA startSync ==
  ASSUME SyncInv, NEW c \in Caller, start(c)
  PROVE  SyncInv'
<1> USE DEF SyncInv
<1>1. pc[c] = "out" /\ m_mutex = None /\ m_mutex' = c /\ pc' = [pc EXCEPT ![c] = "create"]
  BY DEF start, Go
<1>2. m_threads' \in [Slot -> Thread \cup {None}]
  BY DEF start, TypeOK
<1>3. UNCHANGED <<m_stopping, m_threadIds, threadVars, made, thrs, failed>>
  BY DEF start
<1>4. i' = [i EXCEPT ![c] = 1]
  BY DEF start
<1>5. TypeOK'
  BY <1>1, <1>2, <1>3, <1>4, Names DEF TypeOK, threadVars, Slot
<1>6. MutexHeld'
  BY <1>1, <1>3, Names DEF MutexHeld, TypeOK, threadVars
<1>7. \A d \in Caller, t \in Thread : Waits(d, t)' <=> Waits(d, t)
  BY <1>1, <1>3 DEF Waits, TypeOK
<1>8. Makers' /\ Young' /\ Posted' /\ Named' /\ IdsKnown'
  BY <1>1, <1>3, <1>7 DEF Makers, Young, Posted, Named, IdsKnown, TypeOK, threadVars
<1>9. Vectors'
  <2>1. \A s \in Slot : m_threads'[s] = None \/ m_threads' = m_threads
    BY DEF start
  <2> QED
    BY <1>2, <1>3, <2>1 DEF Vectors, Past, threadVars
<1>10. Filled'
  <2>1. \A d \in Caller : pc'[d] \in {"create", "wait"} => d = c
    BY <1>1, <1>6, Names DEF MutexHeld
  <2>2. i'[c] = 1 /\ 1 \in Slot
    BY <1>4, Names DEF TypeOK
  <2> QED
    BY <1>2, <2>1, <2>2 DEF Filled
<1> QED
  BY <1>5, <1>6, <1>8, <1>9, <1>10

LEMMA pthread_createSync ==
  ASSUME SyncInv, NEW c \in Caller, pthread_create(c)
  PROVE  SyncInv'
<1> USE DEF SyncInv
<1>1. /\ pc[c] = "create" /\ m_mutex = c
      /\ UNCHANGED <<m_stopping, m_threads, m_threadIds, m_id, m_semaphore, i, thrs>>
  BY DEF pthread_create, MutexHeld
<1>2. ASSUME NEW t \in Thread, at[t] = "unborn", at' = [at EXCEPT ![t] = "created"],
             object' = [object EXCEPT ![t] = "alive"], pthread' = [pthread EXCEPT ![t] = "joinable"],
             made' = [made EXCEPT ![c] = t], Go(c, "wait"), UNCHANGED <<m_mutex, failed>>
      PROVE  SyncInv'
  <2>1. pc' = [pc EXCEPT ![c] = "wait"]
    BY <1>2 DEF Go
  <2>2. TypeOK'
    BY <1>1, <1>2, <2>1 DEF TypeOK
  <2>3. MutexHeld'
    BY <1>1, <1>2, <2>1 DEF MutexHeld, TypeOK
  <2>4. \A d \in Caller : d # c => pc[d] \notin {"create", "wait"} /\ pc'[d] = pc[d] /\ made'[d] = made[d]
    BY <1>1, <1>2, <2>1, OneMaker DEF TypeOK
  <2>5. pc'[c] = "wait" /\ made'[c] = t /\ at'[t] = "created" /\ object'[t] = "alive"
    BY <1>2, <2>1 DEF TypeOK
  <2>6. \A u \in Thread : u # t => at'[u] = at[u] /\ object'[u] = object[u]
    BY <1>2 DEF TypeOK
  <2>7. Makers'
    BY <2>4, <2>5 DEF Makers
  <2>8. \A d \in Caller, u \in Thread : Waits(d, u)' <=> d = c /\ u = t
    BY <2>4, <2>5 DEF Waits
  <2>9. \A d \in Caller, u \in Thread : ~Waits(d, u)
    BY <1>1, <2>4 DEF Waits
  <2>10. Young'
    BY <2>6, <2>8, <2>9 DEF Young
  <2>11. Posted'
    BY <1>1, <1>2, <2>5, <2>6, <2>8, <2>9 DEF Posted
  <2>12. Named' /\ IdsKnown'
    BY <1>1, <1>2, <2>5, <2>6 DEF Named, IdsKnown
  <2>13. \A u \in Thread : at[u] \in {"running", "inside", "ended"} => at'[u] = at[u]
    BY <1>2, <2>6
  <2>14. Vectors'
    BY <1>1, <2>13, VectorsKept
  <2>15. Filled'
    <3>1. /\ m_threads \in [Slot -> Thread \cup {None}] /\ i[c] \in Slot
          /\ \A s \in 1 .. i[c] - 1 : m_threads[s] \in Thread /\ at[m_threads[s]] = "running"
      BY <1>1 DEF Filled
    <3>2. \A s \in 1 .. i[c] - 1 : at'[m_threads[s]] = "running"
      BY <2>13, <3>1
    <3>3. \A d \in Caller : pc'[d] \in {"create", "wait"} => d = c
      BY <2>4
    <3>4. m_threads' = m_threads /\ i'[c] = i[c]
      BY <1>1
    <3> HIDE DEF SyncInv
    <3> QED
      BY <3>1, <3>2, <3>3, <3>4 DEF Filled
  <2> QED
    BY <2>2, <2>3, <2>7, <2>10, <2>11, <2>12, <2>14, <2>15
<1>3. ASSUME m_mutex' = None, failed' = TRUE, Go(c, "out"), UNCHANGED <<at, object, pthread, made>>
      PROVE  SyncInv'
  <2>1. pc' = [pc EXCEPT ![c] = "out"]
    BY <1>3 DEF Go
  <2>2. TypeOK'
    BY <1>1, <1>3, <2>1 DEF TypeOK
  <2>3. MutexHeld'
    BY <1>1, <1>3, <2>1, OneMaker, Names DEF MutexHeld, TypeOK
  <2>4. \A d \in Caller, u \in Thread : Waits(d, u)' <=> Waits(d, u)
    BY <1>1, <1>3, <2>1 DEF Waits, TypeOK
  <2>5. Makers' /\ Young' /\ Posted' /\ Named' /\ IdsKnown' /\ Vectors' /\ Filled'
    BY <1>1, <1>3, <2>1, <2>4
    DEF Makers, Young, Posted, Named, IdsKnown, Vectors, Past, Filled, TypeOK
  <2> QED
    BY <2>2, <2>3, <2>5
<1> QED
  BY <1>2, <1>3 DEF pthread_create

(* The constructor ends with its thread running and without the mutex.       *)
LEMMA waitSync ==
  ASSUME SyncInv, NEW c \in Caller, wait(c)
  PROVE  SyncInv'
<1> USE DEF SyncInv
<1>1. PICK t \in Thread : t = made[c] /\ Waits(c, t)
  BY DEF wait, Makers, Waits
<1>2. /\ pc[c] = "wait" /\ m_mutex = c /\ m_semaphore[t] > 0
      /\ m_semaphore' = [m_semaphore EXCEPT ![t] = @ - 1]
      /\ m_threads' = [m_threads EXCEPT ![i[c]] = t]
      /\ made' = [made EXCEPT ![c] = None]
      /\ i' = [i EXCEPT ![c] = @ + 1]
      /\ m_threadIds' = m_threadIds \cup {IF m_id[t] THEN t ELSE None}
      /\ IF i[c] = m_threadCount
         THEN pc' = [pc EXCEPT ![c] = "out"] /\ m_mutex' = None
         ELSE pc' = [pc EXCEPT ![c] = "create"] /\ m_mutex' = m_mutex
      /\ UNCHANGED <<m_stopping, m_id, at, thrs, failed>>
  BY <1>1 DEF wait, Store, Go, MutexHeld
<1>3. /\ object' = [u \in Thread |-> IF u = m_threads[i[c]] THEN "gone" ELSE object[u]]
      /\ pthread' = [u \in Thread |->
           IF u = m_threads[i[c]] /\ pthread[u] = "joinable" THEN "detached" ELSE pthread[u]]
  BY DEF wait, Store, Destroy
<1>4. at[t] = "running" /\ m_semaphore[t] = 1 /\ m_id[t]
  BY <1>1, <1>2 DEF Posted, Named
<1>5. m_threads \in [Slot -> Thread \cup {None}] /\ i[c] \in Slot
  BY <1>2 DEF Filled
<1>6. m_threads' \in [Slot -> Thread \cup {None}] /\ m_threads'[i[c]] = t
      /\ \A s \in Slot : s # i[c] => m_threads'[s] = m_threads[s]
  BY <1>2, <1>5
<1>7. i[c] \in Nat /\ 1 <= i[c] /\ i[c] <= m_threadCount /\ i'[c] = i[c] + 1 /\ i' \in [Caller -> 1 .. m_threadCount + 1]
  <2>1. i[c] \in Nat /\ 1 <= i[c] /\ i[c] <= m_threadCount
    BY <1>5, Names DEF Slot
  <2>2. i[c] + 1 \in 1 .. m_threadCount + 1
    BY <2>1, Names
  <2> QED
    BY <1>2, <2>1, <2>2 DEF TypeOK
<1>8. TypeOK'
  <2>1. object' \in [Thread -> {"none", "alive", "gone"}]
        /\ pthread' \in [Thread -> {"none", "joinable", "joined", "detached"}]
    BY <1>3 DEF TypeOK
  <2>2. m_semaphore' \in [Thread -> 0 .. 1]
    BY <1>2, <1>4 DEF TypeOK
  <2>3. pc' \in [Caller -> {"out", "create", "wait", "set", "swap", "join", "crashed"}]
        /\ m_mutex' \in Caller \cup Thread \cup {None}
    <3>1. \E p \in {"out", "create"} : pc' = [pc EXCEPT ![c] = p]
      BY <1>2
    <3>2. m_mutex' \in {None, m_mutex}
      BY <1>2
    <3> QED
      BY <3>1, <3>2 DEF TypeOK
  <2>4. made' \in [Caller -> Thread \cup {None}] /\ m_threadIds' \subseteq Thread \cup {None}
    BY <1>2 DEF TypeOK
  <2> QED
    BY <1>2, <1>6, <1>7, <2>1, <2>2, <2>3, <2>4 DEF TypeOK
<1>9. \A d \in Caller : d # c => pc[d] \notin {"create", "wait"} /\ pc'[d] = pc[d] /\ made'[d] = made[d]
  BY <1>2, OneMaker DEF TypeOK
<1>10. pc'[c] \in {"out", "create"} /\ made'[c] = None /\ (pc'[c] = "create" <=> m_mutex' = c)
  BY <1>2, Names DEF TypeOK
<1>11. MutexHeld'
  <2>1. \A d \in Caller : pc'[d] \in {"create", "wait"} <=> m_mutex' = d
    BY <1>2, <1>9, <1>10, Names DEF MutexHeld
  <2>2. \A u \in Thread : at'[u] = "inside" <=> m_mutex' = u
    BY <1>2, Names DEF MutexHeld
  <2> QED
    BY <2>1, <2>2 DEF MutexHeld
<1>12. \A d \in Caller, u \in Thread : ~Waits(d, u)'
  BY <1>9, <1>10 DEF Waits
<1>13. Makers'
  BY <1>9, <1>10 DEF Makers
<1>14. \A u \in Thread : u # t => \A d \in Caller : ~Waits(d, u)
  BY <1>1, <1>9 DEF Waits
<1>15. Young' /\ Posted'
  <2>1. ASSUME NEW u \in Thread PROVE at'[u] \notin {"created", "named"} /\ m_semaphore'[u] = 0
    <3>1. CASE u = t
      BY <1>2, <1>4, <3>1 DEF TypeOK
    <3>2. CASE u # t
      BY <1>2, <1>14, <3>2 DEF Young, Posted, TypeOK
    <3> QED
      BY <3>1, <3>2
  <2> QED
    BY <1>12, <2>1 DEF Young, Posted
<1>16. Named' /\ IdsKnown'
  BY <1>2, <1>4, Names DEF Named, IdsKnown
<1>17. Vectors'
  <2>1. \A s \in Slot : m_threads'[s] # None => at'[m_threads'[s]] \in {"running", "inside", "ended"}
    BY <1>2, <1>4, <1>5, <1>6 DEF Vectors, Past
  <2>2. DOMAIN m_threads' = Slot
    BY <1>6
  <2>3. Past(m_threads)'
    BY <2>1, <2>2 DEF Past
  <2> QED
    BY <1>2, <2>3 DEF Vectors, Past
<1>18. Filled'
  <2> SUFFICES ASSUME NEW d \in Caller, pc'[d] \in {"create", "wait"}
               PROVE  /\ m_threads' \in [Slot -> Thread \cup {None}] /\ i'[d] \in Slot
                      /\ \A s \in 1 .. i'[d] - 1 : m_threads'[s] \in Thread /\ at'[m_threads'[s]] = "running"
    BY DEF Filled
  <2>1. d = c /\ i[c] # m_threadCount
    BY <1>2, <1>9, <1>10, Names
  <2>2. i'[c] \in Slot
    BY <1>7, <2>1, Names DEF Slot
  <2>3. ASSUME NEW s \in 1 .. i'[c] - 1 PROVE m_threads'[s] \in Thread /\ at'[m_threads'[s]] = "running"
    <3>1. s \in Slot /\ (s = i[c] \/ s \in 1 .. i[c] - 1)
      BY <1>7, Names DEF Slot
    <3>2. CASE s = i[c]
      BY <1>2, <1>4, <1>6, <3>2
    <3>3. CASE s # i[c] /\ s \in 1 .. i[c] - 1
      BY <1>2, <1>6, <3>1, <3>3 DEF Filled
    <3> QED
      BY <3>1, <3>2, <3>3
  <2> QED
    BY <1>6, <2>1, <2>2, <2>3
<1> QED
  BY <1>8, <1>11, <1>13, <1>15, <1>16, <1>17, <1>18

-----------------------------------------------------------------------------
(* The threads.                                                              *)
LEMMA runSync ==
  ASSUME SyncInv, NEW t \in Thread, run(t)
  PROVE  SyncInv'
<1> USE DEF SyncInv
<1>1. /\ at[t] = "created" /\ at' = [at EXCEPT ![t] = "named"] /\ m_id' = [m_id EXCEPT ![t] = TRUE]
      /\ UNCHANGED <<m_mutex, m_stopping, m_threads, m_threadIds, object, m_semaphore, pthread,
                     pc, i, made, thrs, failed>>
  BY DEF run, poolVars, callerVars
<1>2. at'[t] = "named" /\ m_id'[t] /\ \A u \in Thread : u # t => at'[u] = at[u] /\ m_id'[u] = m_id[u]
  BY <1>1 DEF TypeOK
<1>3. TypeOK'
  BY <1>1 DEF TypeOK
<1>4. MutexHeld'
  BY <1>1, <1>2 DEF MutexHeld
<1>5. \A d \in Caller, u \in Thread : Waits(d, u)' <=> Waits(d, u)
  BY <1>1 DEF Waits
<1>6. Makers'
  BY <1>1, <1>2 DEF Makers
<1>7. Young' /\ Posted'
  BY <1>1, <1>2, <1>5 DEF Young, Posted
<1>8. Named' /\ IdsKnown'
  BY <1>1, <1>2 DEF Named, IdsKnown
<1>9. Vectors'
  BY <1>1, <1>2, VectorsKept
<1>10. Filled'
  BY <1>1, <1>2 DEF Filled
<1> QED
  BY <1>3, <1>4, <1>6, <1>7, <1>8, <1>9, <1>10

LEMMA notifySync ==
  ASSUME SyncInv, NEW t \in Thread, notify(t)
  PROVE  SyncInv'
<1> USE DEF SyncInv
<1>1. /\ at[t] = "named" /\ at' = [at EXCEPT ![t] = "running"]
      /\ m_semaphore' = [m_semaphore EXCEPT ![t] = @ + 1]
      /\ UNCHANGED <<m_mutex, m_stopping, m_threads, m_threadIds, object, m_id, pthread,
                     pc, i, made, thrs, failed>>
  BY DEF notify, poolVars, callerVars
<1>2. at'[t] = "running" /\ \A u \in Thread : u # t => at'[u] = at[u] /\ m_semaphore'[u] = m_semaphore[u]
  BY <1>1 DEF TypeOK
<1>3. m_semaphore[t] = 0 /\ \E c \in Caller : Waits(c, t)
  BY <1>1 DEF Posted, Young
<1>4. m_semaphore'[t] = 1 /\ m_semaphore' \in [Thread -> 0 .. 1]
  BY <1>1, <1>3 DEF TypeOK
<1>5. TypeOK'
  BY <1>1, <1>4 DEF TypeOK
<1>6. MutexHeld'
  BY <1>1, <1>2 DEF MutexHeld
<1>7. \A d \in Caller, u \in Thread : Waits(d, u)' <=> Waits(d, u)
  BY <1>1 DEF Waits
<1>8. Makers'
  BY <1>1, <1>2 DEF Makers
<1>9. Young' /\ Posted'
  BY <1>1, <1>2, <1>3, <1>4, <1>7 DEF Young, Posted
<1>10. Named' /\ IdsKnown'
  BY <1>1, <1>2 DEF Named, IdsKnown
<1>11. Vectors'
  BY <1>1, <1>2, VectorsKept
<1>12. Filled'
  BY <1>1, <1>2 DEF Filled
<1> QED
  BY <1>5, <1>6, <1>8, <1>9, <1>10, <1>11, <1>12

LEMMA LockSync ==
  ASSUME SyncInv, NEW t \in Thread, Lock(t) \/ Unlock(t, "running") \/ End(t)
  PROVE  SyncInv'
<1> USE DEF SyncInv
<1>1. UNCHANGED <<m_stopping, m_threads, m_threadIds, object, m_id, m_semaphore, pthread,
                  pc, i, made, thrs, failed>>
  BY DEF Lock, Unlock, End, callerVars
<1>2. PICK next \in {"running", "inside", "ended"} :
        /\ at' = [at EXCEPT ![t] = next]
        /\ (at[t] = "running" /\ m_mutex = None) \/ (at[t] = "inside" /\ m_mutex = t)
        /\ m_mutex' = IF next = "inside" THEN t ELSE None
  <2>1. CASE Lock(t)
    <3>1. at' = [at EXCEPT ![t] = "inside"] /\ at[t] = "running" /\ m_mutex = None /\ m_mutex' = t
      BY <2>1 DEF Lock
    <3> WITNESS "inside" \in {"running", "inside", "ended"}
    <3> QED
      BY <3>1
  <2>2. ASSUME NEW p \in {"running", "ended"}, Unlock(t, p)
        PROVE  /\ at[t] = "inside" /\ m_mutex = t
               /\ at' = [at EXCEPT ![t] = p] /\ m_mutex' = None
    BY <2>2 DEF Unlock, MutexHeld
  <2>3. ASSUME NEW p \in {"running", "ended"}, Unlock(t, p)
        PROVE  \E next \in {"running", "inside", "ended"} :
                 /\ at' = [at EXCEPT ![t] = next]
                 /\ (at[t] = "running" /\ m_mutex = None) \/ (at[t] = "inside" /\ m_mutex = t)
                 /\ m_mutex' = IF next = "inside" THEN t ELSE None
    <3>1. p \in {"running", "inside", "ended"} /\ p # "inside"
      OBVIOUS
    <3> QED
      BY <2>2, <2>3, <3>1
  <2> QED
    BY <2>1, <2>3 DEF End
<1>3. at'[t] = next /\ \A u \in Thread : u # t => at'[u] = at[u]
  BY <1>2 DEF TypeOK
<1>4. \A c \in Caller : pc[c] \notin {"create", "wait"}
  BY <1>2, Names DEF MutexHeld
<1>5. \A d \in Caller, u \in Thread : ~Waits(d, u) /\ ~Waits(d, u)'
  BY <1>1, <1>4 DEF Waits
<1>6. TypeOK'
  BY <1>1, <1>2 DEF TypeOK
<1>7. MutexHeld'
  BY <1>1, <1>2, <1>3, <1>4, Names DEF MutexHeld
<1>8. Makers' /\ Filled'
  BY <1>1, <1>4 DEF Makers, Filled
<1>9. Young' /\ Posted'
  BY <1>1, <1>2, <1>3, <1>5 DEF Young, Posted
<1>10. Named' /\ IdsKnown'
  BY <1>1, <1>2, <1>3 DEF Named, IdsKnown
<1>11. Vectors'
  BY <1>1, <1>2, <1>3, VectorsKept
<1> QED
  BY <1>6, <1>7, <1>8, <1>9, <1>10, <1>11

-----------------------------------------------------------------------------
(* stop().                                                                   *)
LEMMA stopSync ==
  ASSUME SyncInv, NEW c \in Caller, stop(c) \/ StopSets(c) \/ Swap(c) \/ join(c) \/ StopEnds(c)
  PROVE  SyncInv'
<1> USE DEF SyncInv
<1>1. UNCHANGED <<m_mutex, m_threadIds, m_id, m_semaphore, at, made, failed>>
  BY DEF stop, StopSets, Swap, join, StopEnds, poolVars, threadVars
<1>2. PICK p \in {"out", "set", "swap", "join", "crashed"} :
        pc[c] \notin {"create", "wait"} /\ pc' = [pc EXCEPT ![c] = p]
  <2>1. pc = [pc EXCEPT ![c] = pc[c]]
    BY DEF TypeOK
  <2> QED
    BY <2>1 DEF stop, StopSets, Swap, join, StopEnds, Go
<1>3. i' \in [Caller -> 1 .. m_threadCount + 1] /\ \A d \in Caller : d # c => i'[d] = i[d]
  <2>1. i[c] <= Len(thrs[c]) => i[c] + 1 \in 1 .. m_threadCount + 1
    <3>1. i[c] \in Nat /\ 1 <= i[c] /\ Len(thrs[c]) \in 0 .. m_threadCount
      BY VectorDomain, Names DEF TypeOK
    <3> QED
      BY <3>1, Names
  <2>2. 1 \in 1 .. m_threadCount + 1
    BY Names
  <2>3. i' = i \/ i' = [i EXCEPT ![c] = 1] \/ (i[c] <= Len(thrs[c]) /\ i' = [i EXCEPT ![c] = i[c] + 1])
    BY DEF stop, StopSets, Swap, join, StopEnds
  <2>4. \E n \in 1 .. m_threadCount + 1 : i' = [i EXCEPT ![c] = n] \/ i' = i
    BY <2>1, <2>2, <2>3
  <2> QED
    BY <2>4 DEF TypeOK
<1>4. m_threads' \in {<<>>, m_threads} /\ \A d \in Caller : thrs'[d] \in {<<>>, m_threads, thrs[d]}
  BY DEF stop, StopSets, Swap, join, StopEnds, TypeOK, poolVars
<1>5. TypeOK'
  <2>1. thrs' \in [Caller -> {<<>>} \cup [Slot -> Thread \cup {None}]]
    BY DEF stop, StopSets, Swap, join, StopEnds, TypeOK
  <2>2. object' \in [Thread -> {"none", "alive", "gone"}]
        /\ pthread' \in [Thread -> {"none", "joinable", "joined", "detached"}]
    <3>1. CASE StopEnds(c)
      BY <3>1 DEF StopEnds, Destroy, TypeOK
    <3>2. CASE join(c)
      <4>1. object' = object /\ \E u : pthread' = pthread \/ pthread' = [pthread EXCEPT ![u] = "joined"]
        BY <3>2 DEF join
      <4>2. PICK u : pthread' = pthread \/ pthread' = [pthread EXCEPT ![u] = "joined"]
        BY <4>1
      <4> QED
        BY <4>1, <4>2 DEF TypeOK
    <3>3. CASE stop(c) \/ StopSets(c) \/ Swap(c)
      BY <3>3 DEF stop, StopSets, Swap, TypeOK, threadVars
    <3> QED
      BY <3>1, <3>2, <3>3
  <2>3. m_stopping' \in BOOLEAN
    BY DEF stop, StopSets, Swap, join, StopEnds, TypeOK, poolVars
  <2> QED
    BY <1>1, <1>2, <1>3, <1>4, <2>1, <2>2, <2>3 DEF TypeOK
<1>6. \A d \in Caller : pc'[d] \in {"create", "wait"} => pc'[d] = pc[d] /\ d # c
  BY <1>2 DEF TypeOK
<1>7. \A d \in Caller : pc[d] \in {"create", "wait"} => pc'[d] = pc[d] /\ d # c
  BY <1>2 DEF TypeOK
<1>8. MutexHeld'
  BY <1>1, <1>6, <1>7 DEF MutexHeld
<1>9. \A d \in Caller, u \in Thread : Waits(d, u)' <=> Waits(d, u)
  BY <1>1, <1>6, <1>7 DEF Waits
<1>10. Young' /\ Posted' /\ Named' /\ IdsKnown'
  BY <1>1, <1>9 DEF Young, Posted, Named, IdsKnown
<1>11. Past(m_threads)' /\ \A d \in Caller : Past(thrs[d])'
  <2>1. \A s \in DOMAIN <<>> : FALSE
    OBVIOUS
  <2> QED
    BY <1>1, <1>4, <2>1 DEF Vectors, Past
<1>12. Makers'
  BY <1>1, <1>6, <1>7 DEF Makers
<1>13. Filled'
  <2>1. \A d \in Caller : pc'[d] \in {"create", "wait"} => m_threads' = m_threads
    BY <1>6, Names DEF stop, StopSets, Swap, join, StopEnds, MutexHeld, poolVars
  <2> QED
    BY <1>1, <1>3, <1>6, <2>1 DEF Filled
<1> QED
  BY <1>5, <1>8, <1>10, <1>11, <1>12, <1>13 DEF Vectors

LEMMA NextSync == SyncInv /\ [Next]_vars => SyncInv'
<1> SUFFICES ASSUME SyncInv, [Next]_vars PROVE SyncInv'
  OBVIOUS
<1>1. CASE UNCHANGED vars
  BY <1>1
  DEF vars, poolVars, threadVars, callerVars, SyncInv, TypeOK, MutexHeld, Makers, Young, Posted,
      Named, Vectors, Past, Filled, IdsKnown, Waits
<1>2. CASE Next
  BY <1>1, <1>2, startSync, pthread_createSync, waitSync, runSync, notifySync, LockSync, stopSync
  DEF Next, InStart, InStop, Step
<1> QED
  BY <1>1, <1>2

-----------------------------------------------------------------------------
(* Who owns a Thread.                                                        *)
InPool(t, s) == s \in DOMAIN m_threads /\ m_threads[s] = t
InHand(t, c, s) == s \in DOMAIN thrs[c] /\ thrs[c][s] = t
Making(t, c) == made[c] = t

Owned(t) ==
  \/ \E s \in Slot : InPool(t, s)
  \/ \E c \in Caller : Making(t, c)
  \/ \E c \in Caller, s \in Slot : InHand(t, c, s)

OneOwner ==
  \A t \in Thread :
    /\ object[t] = "alive" <=> Owned(t)
    /\ \A s, u \in Slot : InPool(t, s) /\ InPool(t, u) => s = u
    /\ \A c \in Caller : ~(Making(t, c) /\ \E s \in Slot : InPool(t, s))
    /\ \A c, d \in Caller, s \in Slot : ~(InHand(t, c, s) /\ (Making(t, d) \/ \E u \in Slot : InPool(t, u)))
    /\ \A c, d \in Caller, s, u \in Slot : InHand(t, c, s) /\ InHand(t, d, u) => c = d /\ s = u

(* Only stop() between swap and return has a vector of its own.              *)
HandsEmpty == \A c \in Caller : pc[c] \notin {"join", "crashed"} => thrs[c] = <<>>

Threads ==
  \A t \in Thread :
    /\ at[t] = "unborn" <=> object[t] = "none"
    /\ object[t] = "alive" => pthread[t] \in {"joinable", "joined"}
    /\ object[t] = "gone" => pthread[t] \in {"detached", "joined"}
    /\ pthread[t] = "joined" => at[t] = "ended"

(* Once the flag is set a full vector has a stop() that is about to take it. *)
ToBeTaken == m_stopping /\ m_threads # <<>> => \E c \in Caller : pc[c] = "swap"

OwnInv == OneOwner /\ HandsEmpty /\ Threads /\ ToBeTaken

-----------------------------------------------------------------------------
(* Steps that leave every Thread with its owner.                             *)
LEMMA OwnersKept ==
  ASSUME SyncInv, OneOwner, UNCHANGED object,
         \A t \in Thread, s \in Slot : InPool(t, s)' <=> InPool(t, s),
         \A t \in Thread, c \in Caller : Making(t, c)' <=> Making(t, c),
         \A t \in Thread, c \in Caller, s \in Slot : InHand(t, c, s)' <=> InHand(t, c, s)
  PROVE  OneOwner'
BY DEF OneOwner, Owned

LEMMA SameOwners ==
  ASSUME SyncInv, OneOwner, UNCHANGED <<object, m_threads, made, thrs>>
  PROVE  OneOwner'
<1>1. /\ \A t \in Thread, s \in Slot : InPool(t, s)' <=> InPool(t, s)
      /\ \A t \in Thread, c \in Caller : Making(t, c)' <=> Making(t, c)
      /\ \A t \in Thread, c \in Caller, s \in Slot : InHand(t, c, s)' <=> InHand(t, c, s)
  BY DEF InPool, Making, InHand
<1> QED
  BY <1>1, OwnersKept

LEMMA EmptyVector == \A s \in DOMAIN <<>> : FALSE
OBVIOUS

LEMMA InitOwn == Init => OwnInv
<1> SUFFICES ASSUME Init PROVE OwnInv
  OBVIOUS
<1>1. \A t \in Thread : ~Owned(t)
  BY EmptyVector, Names DEF Init, Owned, InPool, Making, InHand
<1>2. OneOwner
  <2>1. \A t \in Thread : object[t] # "alive"
    BY DEF Init
  <2> QED
    BY <1>1, <2>1 DEF OneOwner, Owned
<1>3. HandsEmpty /\ Threads /\ ToBeTaken
  BY DEF Init, HandsEmpty, Threads, ToBeTaken
<1> QED
  BY <1>2, <1>3 DEF OwnInv

LEMMA startOwn ==
  ASSUME SyncInv, OwnInv, NEW c \in Caller, start(c)
  PROVE  OwnInv'
<1> USE DEF OwnInv
<1>1. UNCHANGED <<m_stopping, object, pthread, at, made, thrs>> /\ ~m_stopping
      /\ pc[c] = "out" /\ pc' = [pc EXCEPT ![c] = "create"]
  BY DEF start, Go, threadVars
<1>2. \A t \in Thread, s \in Slot : InPool(t, s)' <=> InPool(t, s)
  <2>1. CASE m_threads = <<>>
    BY <2>1, EmptyVector, Names DEF start, InPool
  <2>2. CASE m_threads # <<>>
    BY <2>2 DEF start, InPool
  <2> QED
    BY <2>1, <2>2
<1>3. OneOwner'
  <2>1. /\ \A t \in Thread, d \in Caller : Making(t, d)' <=> Making(t, d)
        /\ \A t \in Thread, d \in Caller, s \in Slot : InHand(t, d, s)' <=> InHand(t, d, s)
    BY <1>1 DEF Making, InHand
  <2> QED
    BY <1>1, <1>2, <2>1, OwnersKept
<1>4. HandsEmpty' /\ Threads' /\ ToBeTaken'
  BY <1>1 DEF HandsEmpty, Threads, ToBeTaken, SyncInv, TypeOK
<1> QED
  BY <1>3, <1>4

(* A new Thread is its constructor's.                                        *)
LEMMA pthread_createOwn ==
  ASSUME SyncInv, OwnInv, NEW c \in Caller, pthread_create(c)
  PROVE  OwnInv'
<1> USE DEF OwnInv
<1>1. pc[c] = "create" /\ UNCHANGED <<m_stopping, m_threads, thrs>>
  BY DEF pthread_create
<1>2. ASSUME NEW t \in Thread, at[t] = "unborn", at' = [at EXCEPT ![t] = "created"],
             object' = [object EXCEPT ![t] = "alive"], pthread' = [pthread EXCEPT ![t] = "joinable"],
             made' = [made EXCEPT ![c] = t], pc' = [pc EXCEPT ![c] = "wait"]
      PROVE  OwnInv'
  <2>1. object[t] = "none" /\ ~Owned(t)
    BY <1>2 DEF Threads, OneOwner
  <2>2. \A u \in Thread, d \in Caller : ~Making(u, c) /\ (Making(u, d)' <=> Making(u, d) \/ (u = t /\ d = c))
    BY <1>1, <1>2, Names DEF Making, SyncInv, TypeOK, Makers
  <2>3. /\ \A u \in Thread, s \in Slot : InPool(u, s)' <=> InPool(u, s)
        /\ \A u \in Thread, d \in Caller, s \in Slot : InHand(u, d, s)' <=> InHand(u, d, s)
    BY <1>1 DEF InPool, InHand
  <2>4. object'[t] = "alive" /\ \A u \in Thread : u # t => object'[u] = object[u]
    BY <1>2 DEF SyncInv, TypeOK
  <2>5. Owned(t)' /\ \A u \in Thread : u # t => (Owned(u)' <=> Owned(u))
    BY <2>2, <2>3 DEF Owned
  <2>6. OneOwner'
    <3> SUFFICES ASSUME NEW u \in Thread
                 PROVE  /\ object'[u] = "alive" <=> Owned(u)'
                        /\ \A s, v \in Slot : InPool(u, s)' /\ InPool(u, v)' => s = v
                        /\ \A d \in Caller : ~(Making(u, d)' /\ \E s \in Slot : InPool(u, s)')
                        /\ \A d, e \in Caller, s \in Slot :
                             ~(InHand(u, d, s)' /\ (Making(u, e)' \/ \E v \in Slot : InPool(u, v)'))
                        /\ \A d, e \in Caller, s, v \in Slot :
                             InHand(u, d, s)' /\ InHand(u, e, v)' => d = e /\ s = v
      BY DEF OneOwner
    <3>1. CASE u = t
      BY <2>1, <2>3, <2>4, <2>5, <3>1 DEF Owned
    <3>2. CASE u # t
      BY <2>2, <2>3, <2>4, <2>5, <3>2 DEF OneOwner
    <3> QED
      BY <3>1, <3>2
  <2>7. Threads'
    BY <1>2 DEF Threads, SyncInv, TypeOK
  <2>8. HandsEmpty' /\ ToBeTaken'
    BY <1>1, <1>2 DEF HandsEmpty, ToBeTaken, SyncInv, TypeOK
  <2> QED
    BY <2>6, <2>7, <2>8
<1>3. ASSUME pc' = [pc EXCEPT ![c] = "out"], UNCHANGED <<at, object, pthread, made>>
      PROVE  OwnInv'
  <2>1. OneOwner'
    BY <1>1, <1>3, SameOwners
  <2>2. HandsEmpty' /\ Threads' /\ ToBeTaken'
    BY <1>1, <1>3 DEF HandsEmpty, Threads, ToBeTaken, SyncInv, TypeOK
  <2> QED
    BY <2>1, <2>2
<1> QED
  BY <1>2, <1>3 DEF pthread_create, Go

(* The vector takes the Thread over, and destroys the one that was there.    *)
LEMMA waitOwn ==
  ASSUME SyncInv, OwnInv, NEW c \in Caller, wait(c)
  PROVE  OwnInv'
<1> USE DEF OwnInv
<1>1. PICK t \in Thread : t = made[c] /\ pc[c] = "wait"
  BY DEF wait, SyncInv, Makers
<1>2. PICK k \in Slot : k = i[c] /\ m_threads \in [Slot -> Thread \cup {None}]
  BY <1>1 DEF SyncInv, Filled
<1>3. /\ m_threads' = [m_threads EXCEPT ![k] = t]
      /\ made' = [made EXCEPT ![c] = None]
      /\ object' = [u \in Thread |-> IF u = m_threads[k] THEN "gone" ELSE object[u]]
      /\ pthread' = [u \in Thread |->
           IF u = m_threads[k] /\ pthread[u] = "joinable" THEN "detached" ELSE pthread[u]]
      /\ UNCHANGED <<m_stopping, at, thrs>>
  BY <1>1, <1>2 DEF wait, Store, Destroy
<1>4. \E p \in {"out", "create"} : pc' = [pc EXCEPT ![c] = p]
  BY DEF wait, Store, Go
<1>5. \A u \in Thread, s \in Slot : InPool(u, s)' <=> IF s = k THEN u = t ELSE InPool(u, s)
  BY <1>2, <1>3 DEF InPool
<1>6. \A u \in Thread, d \in Caller :
        (Making(u, d) /\ u = t => d = c) /\ (Making(u, d)' <=> Making(u, d) /\ u # t)
  <2>1. ASSUME NEW d \in Caller, d # c PROVE made[d] = None /\ made'[d] = None
    BY <1>1, <1>3, <2>1, OneMaker DEF SyncInv, TypeOK, Makers
  <2>2. made'[c] = None
    BY <1>3 DEF SyncInv, TypeOK
  <2> QED
    BY <1>1, <2>1, <2>2, Names DEF Making
<1>7. \A u \in Thread, d \in Caller, s \in Slot : InHand(u, d, s)' <=> InHand(u, d, s)
  BY <1>3 DEF InHand
<1>8. Making(t, c) /\ object[t] = "alive" /\ \A s \in Slot : ~InPool(t, s)
  BY <1>1 DEF OneOwner, Owned, Making
<1>9. \A u \in Thread : u = m_threads[k] <=> InPool(u, k)
  BY <1>2 DEF InPool
<1>10. OneOwner'
  <2> SUFFICES ASSUME NEW u \in Thread
               PROVE  /\ object'[u] = "alive" <=> Owned(u)'
                      /\ \A s, v \in Slot : InPool(u, s)' /\ InPool(u, v)' => s = v
                      /\ \A d \in Caller : ~(Making(u, d)' /\ \E s \in Slot : InPool(u, s)')
                      /\ \A d, e \in Caller, s \in Slot :
                           ~(InHand(u, d, s)' /\ (Making(u, e)' \/ \E v \in Slot : InPool(u, v)'))
                      /\ \A d, e \in Caller, s, v \in Slot :
                           InHand(u, d, s)' /\ InHand(u, e, v)' => d = e /\ s = v
    BY DEF OneOwner
  <2>1. CASE u = t
    <3>1. object'[t] = "alive" /\ Owned(t)'
      BY <1>3, <1>5, <1>8, <1>9 DEF Owned
    <3> QED
      BY <1>5, <1>6, <1>7, <1>8, <2>1, <3>1 DEF OneOwner
  <2>2. CASE InPool(u, k)
    <3>1. u # t /\ object'[u] = "gone"
      BY <1>3, <1>8, <1>9, <2>2
    <3>2. ~Owned(u)'
      BY <1>5, <1>6, <1>7, <2>2, <3>1 DEF OneOwner, Owned
    <3> QED
      BY <3>1, <3>2 DEF Owned
  <2>3. CASE u # t /\ ~InPool(u, k)
    <3>1. object'[u] = object[u]
      BY <1>3, <1>9, <2>3
    <3>2. Owned(u)' <=> Owned(u)
      BY <1>5, <1>6, <1>7, <2>3 DEF Owned
    <3> QED
      BY <1>5, <1>6, <1>7, <2>3, <3>1, <3>2 DEF OneOwner
  <2> QED
    BY <2>1, <2>2, <2>3
<1>11. Threads'
  <2>1. \A u \in Thread : InPool(u, k) => object[u] = "alive"
    BY DEF OneOwner, Owned
  <2> QED
    BY <1>3, <1>9, <2>1 DEF Threads
<1>12. HandsEmpty'
  BY <1>1, <1>3, <1>4 DEF HandsEmpty, SyncInv, TypeOK
<1>13. ToBeTaken'
  <2>1. m_threads # <<>>
    BY <1>2, EmptyVector
  <2> QED
    BY <1>1, <1>3, <1>4, <2>1 DEF ToBeTaken, SyncInv, TypeOK
<1> QED
  BY <1>10, <1>11, <1>12, <1>13

(* The threads themselves own nothing.                                       *)
LEMMA threadOwn ==
  ASSUME SyncInv, OwnInv, NEW t \in Thread, Step(t) \/ Lock(t) \/ End(t)
  PROVE  OwnInv'
<1> USE DEF OwnInv
<1>1. UNCHANGED <<m_stopping, m_threads, object, pthread, pc, made, thrs>>
  BY DEF Step, run, notify, Lock, Unlock, End, poolVars, callerVars
<1>2. OneOwner'
  BY <1>1, SameOwners
<1>3. at[t] \notin {"unborn", "ended"} /\ \E p \in {"named", "running", "inside", "ended"} : at' = [at EXCEPT ![t] = p]
  BY DEF Step, run, notify, Lock, Unlock, End
<1>4. Threads'
  BY <1>1, <1>3 DEF Threads, SyncInv, TypeOK
<1>5. HandsEmpty' /\ ToBeTaken'
  BY <1>1 DEF HandsEmpty, ToBeTaken
<1> QED
  BY <1>2, <1>4, <1>5

LEMMA stopOwn ==
  ASSUME SyncInv, OwnInv, NEW c \in Caller, stop(c) \/ StopSets(c) \/ join(c)
  PROVE  OwnInv'
<1> USE DEF OwnInv
<1>1. UNCHANGED <<m_threads, object, at, made, thrs>>
  BY DEF stop, StopSets, join, poolVars, threadVars
<1>2. OneOwner'
  BY <1>1, SameOwners
<1>3. CASE stop(c) \/ StopSets(c)
  <2>1. UNCHANGED pthread /\ Threads'
    BY <1>1, <1>3 DEF stop, StopSets, Threads, threadVars
  <2>2. HandsEmpty' /\ ToBeTaken'
    <3>1. CASE stop(c)
      <4>1. pc[c] = "out" /\ pc' = [pc EXCEPT ![c] = "set"] /\ m_stopping' = m_stopping
        BY <3>1 DEF stop, Go, poolVars
      <4>2. pc'[c] = "set" /\ \A d \in Caller : d # c => pc'[d] = pc[d]
        BY <4>1 DEF SyncInv, TypeOK
      <4> QED
        BY <1>1, <4>1, <4>2 DEF HandsEmpty, ToBeTaken
    <3>2. CASE StopSets(c)
      <4>1. pc[c] = "set" /\ pc' = [pc EXCEPT ![c] = "swap"]
        BY <3>2 DEF StopSets, Go
      <4>2. pc'[c] = "swap" /\ \A d \in Caller : d # c => pc'[d] = pc[d]
        BY <4>1 DEF SyncInv, TypeOK
      <4> QED
        BY <1>1, <4>1, <4>2 DEF HandsEmpty, ToBeTaken
    <3> QED
      BY <1>3, <3>1, <3>2
  <2> QED
    BY <1>2, <2>1, <2>2
<1>4. CASE join(c)
  <2>1. HandsEmpty' /\ ToBeTaken'
    <3>1. pc[c] = "join" /\ m_stopping' = m_stopping
      BY <1>4 DEF join, poolVars
    <3>2. pc' = pc \/ pc' = [pc EXCEPT ![c] = "crashed"]
      BY <1>4 DEF join, Go
    <3>3. \A d \in Caller : d # c => pc'[d] = pc[d]
      BY <3>2 DEF SyncInv, TypeOK
    <3>4. pc'[c] \in {"join", "crashed"}
      BY <3>1, <3>2 DEF SyncInv, TypeOK
    <3> QED
      BY <1>1, <3>1, <3>3, <3>4 DEF HandsEmpty, ToBeTaken
  <2>2. Threads'
    <3>1. CASE UNCHANGED pthread
      BY <1>1, <3>1 DEF Threads
    <3>2. ASSUME NEW u, u = thrs[c][i[c]], u # None, at[u] = "ended", pthread' = [pthread EXCEPT ![u] = "joined"]
          PROVE  Threads'
      <4>1. i[c] \in DOMAIN thrs[c]
        <5>1. DOMAIN thrs[c] = 1 .. Len(thrs[c]) /\ Len(thrs[c]) \in Nat
          BY VectorDomain, Names DEF SyncInv, TypeOK
        <5>2. i[c] \in Nat /\ 1 <= i[c] /\ i[c] <= Len(thrs[c])
          BY <1>4, Names DEF join, SyncInv, TypeOK
        <5> QED
          BY <5>1, <5>2
      <4>2. i[c] \in Slot /\ u \in Thread
        BY <3>2, <4>1, VectorDomain DEF SyncInv, TypeOK
      <4>3. object[u] = "alive"
        BY <3>2, <4>1, <4>2 DEF OneOwner, Owned, InHand
      <4> QED
        BY <1>1, <3>2, <4>2, <4>3 DEF Threads, SyncInv, TypeOK
    <3> QED
      BY <1>4, <3>1, <3>2 DEF join
  <2> QED
    BY <1>2, <2>1, <2>2
<1> QED
  BY <1>3, <1>4

(* stop() takes the vector over ...                                           *)
LEMMA SwapOwn ==
  ASSUME SyncInv, OwnInv, NEW c \in Caller, Swap(c)
  PROVE  OwnInv'
<1> USE DEF OwnInv
<1>1. /\ pc[c] = "swap" /\ pc' = [pc EXCEPT ![c] = "join"]
      /\ thrs' = [thrs EXCEPT ![c] = m_threads] /\ m_threads' = <<>>
      /\ UNCHANGED <<object, pthread, at, made>>
  BY DEF Swap, Go, threadVars
<1>2. thrs[c] = <<>>
  BY <1>1 DEF HandsEmpty
<1>3. \A u \in Thread, s \in Slot : ~InPool(u, s)' /\ ~InHand(u, c, s)
  BY <1>1, <1>2, EmptyVector DEF InPool, InHand
<1>4. \A u \in Thread, d \in Caller, s \in Slot :
        InHand(u, d, s)' <=> IF d = c THEN InPool(u, s) ELSE InHand(u, d, s)
  BY <1>1 DEF InHand, InPool, SyncInv, TypeOK
<1>5. \A u \in Thread, d \in Caller : Making(u, d)' <=> Making(u, d)
  BY <1>1 DEF Making
<1>6. OneOwner'
  <2> SUFFICES ASSUME NEW u \in Thread
               PROVE  /\ object'[u] = "alive" <=> Owned(u)'
                      /\ \A s, v \in Slot : InPool(u, s)' /\ InPool(u, v)' => s = v
                      /\ \A d \in Caller : ~(Making(u, d)' /\ \E s \in Slot : InPool(u, s)')
                      /\ \A d, e \in Caller, s \in Slot :
                           ~(InHand(u, d, s)' /\ (Making(u, e)' \/ \E v \in Slot : InPool(u, v)'))
                      /\ \A d, e \in Caller, s, v \in Slot :
                           InHand(u, d, s)' /\ InHand(u, e, v)' => d = e /\ s = v
    BY DEF OneOwner
  <2>1. Owned(u)' <=> Owned(u)
    BY <1>3, <1>4, <1>5 DEF Owned
  <2>2. object'[u] = "alive" <=> Owned(u)'
    BY <1>1, <2>1 DEF OneOwner
  <2>3. \A d, e \in Caller, s \in Slot : ~(InHand(u, d, s)' /\ Making(u, e)')
    BY <1>4, <1>5 DEF OneOwner
  <2>4. \A d, e \in Caller, s, v \in Slot : InHand(u, d, s)' /\ InHand(u, e, v)' => d = e /\ s = v
    BY <1>4 DEF OneOwner
  <2> QED
    BY <1>3, <2>2, <2>3, <2>4
<1>7. HandsEmpty'
  BY <1>1 DEF HandsEmpty, SyncInv, TypeOK
<1>8. Threads' /\ ToBeTaken'
  BY <1>1 DEF Threads, ToBeTaken
<1> QED
  BY <1>6, <1>7, <1>8

(* ... and destroys what is in it when it returns.                            *)
LEMMA StopEndsOwn ==
  ASSUME SyncInv, OwnInv, NEW c \in Caller, StopEnds(c)
  PROVE  OwnInv'
<1> USE DEF OwnInv
<1> DEFINE mine == {thrs[c][s] : s \in DOMAIN thrs[c]}
<1>1. /\ pc[c] = "join" /\ pc' = [pc EXCEPT ![c] = "out"] /\ thrs' = [thrs EXCEPT ![c] = <<>>]
      /\ object' = [u \in Thread |-> IF u \in mine THEN "gone" ELSE object[u]]
      /\ pthread' = [u \in Thread |->
           IF u \in mine /\ pthread[u] = "joinable" THEN "detached" ELSE pthread[u]]
      /\ UNCHANGED <<m_stopping, m_threads, at, made>>
  BY DEF StopEnds, Go, Destroy, poolVars
<1>2. \A u \in Thread : u \in mine <=> \E s \in Slot : InHand(u, c, s)
  <2>1. thrs[c] \in {<<>>} \cup [Slot -> Thread \cup {None}]
    BY DEF SyncInv, TypeOK
  <2>2. \A s \in DOMAIN thrs[c] : s \in Slot
    BY <2>1, VectorDomain
  <2> QED
    BY <2>2 DEF InHand
<1> HIDE DEF mine
<1>3. thrs'[c] = <<>> /\ \A d \in Caller : d # c => thrs'[d] = thrs[d]
  BY <1>1 DEF SyncInv, TypeOK
<1>4. \A u \in Thread, d \in Caller, s \in Slot : InHand(u, d, s)' <=> d # c /\ InHand(u, d, s)
  BY <1>3, EmptyVector DEF InHand
<1>5. /\ \A u \in Thread, s \in Slot : InPool(u, s)' <=> InPool(u, s)
      /\ \A u \in Thread, d \in Caller : Making(u, d)' <=> Making(u, d)
  BY <1>1 DEF InPool, Making
<1>6. \A u \in Thread : u \in mine => object[u] = "alive" /\ object'[u] = "gone" /\ ~Owned(u)'
  <2> SUFFICES ASSUME NEW u \in Thread, u \in mine
               PROVE  object[u] = "alive" /\ object'[u] = "gone" /\ ~Owned(u)'
    OBVIOUS
  <2>1. PICK s \in Slot : InHand(u, c, s)
    BY <1>2
  <2>2. object[u] = "alive" /\ object'[u] = "gone"
    BY <1>1, <2>1 DEF OneOwner, Owned
  <2>3. \A v \in Slot : ~InPool(u, v)
    BY <2>1 DEF OneOwner
  <2>4. \A d \in Caller : ~Making(u, d)
    BY <2>1 DEF OneOwner
  <2>5. \A d \in Caller, v \in Slot : InHand(u, d, v) => d = c
    BY <2>1 DEF OneOwner
  <2> QED
    BY <1>4, <1>5, <2>2, <2>3, <2>4, <2>5 DEF Owned
<1>7. \A u \in Thread : u \notin mine => object'[u] = object[u] /\ (Owned(u)' <=> Owned(u))
  BY <1>1, <1>2, <1>4, <1>5 DEF Owned
<1>8. OneOwner'
  <2> SUFFICES ASSUME NEW u \in Thread
               PROVE  /\ object'[u] = "alive" <=> Owned(u)'
                      /\ \A s, v \in Slot : InPool(u, s)' /\ InPool(u, v)' => s = v
                      /\ \A d \in Caller : ~(Making(u, d)' /\ \E s \in Slot : InPool(u, s)')
                      /\ \A d, e \in Caller, s \in Slot :
                           ~(InHand(u, d, s)' /\ (Making(u, e)' \/ \E v \in Slot : InPool(u, v)'))
                      /\ \A d, e \in Caller, s, v \in Slot :
                           InHand(u, d, s)' /\ InHand(u, e, v)' => d = e /\ s = v
    BY DEF OneOwner
  <2>1. object'[u] = "alive" <=> Owned(u)'
    BY <1>6, <1>7 DEF OneOwner
  <2> QED
    BY <1>4, <1>5, <2>1 DEF OneOwner
<1>9. Threads'
  BY <1>1, <1>6 DEF Threads
<1>10. HandsEmpty'
  BY <1>1, <1>3 DEF HandsEmpty, SyncInv, TypeOK
<1>11. ToBeTaken'
  BY <1>1 DEF ToBeTaken, SyncInv, TypeOK
<1> QED
  BY <1>8, <1>9, <1>10, <1>11

LEMMA NextOwn == SyncInv /\ OwnInv /\ [Next]_vars => OwnInv'
<1> SUFFICES ASSUME SyncInv, OwnInv, [Next]_vars PROVE OwnInv'
  OBVIOUS
<1>1. CASE UNCHANGED vars
  <2>1. UNCHANGED <<m_stopping, m_threads, object, pthread, at, pc, made, thrs>>
    BY <1>1 DEF vars, poolVars, threadVars, callerVars
  <2>2. OneOwner'
    BY <2>1, SameOwners DEF OwnInv
  <2> QED
    BY <2>1, <2>2 DEF OwnInv, HandsEmpty, Threads, ToBeTaken
<1>2. CASE Next
  BY <1>1, <1>2, startOwn, pthread_createOwn, waitOwn, threadOwn, stopOwn, SwapOwn, StopEndsOwn
  DEF Next, InStart, InStop
<1> QED
  BY <1>1, <1>2

-----------------------------------------------------------------------------
(* Each Thread has one owner, from its constructor through m_threads to the
   stop() that joins it, whoever starts and stops, whatever fails.           *)
THEOREM ThreadInvariant == Spec => [](SyncInv /\ OwnInv)
<1>1. Init => SyncInv /\ OwnInv
  BY InitSync, InitOwn
<1>2. SyncInv /\ OwnInv /\ [Next]_vars => (SyncInv /\ OwnInv)'
  BY NextSync, NextOwn
<1> QED
  BY <1>1, <1>2, PTL DEF Spec

(* Every variable of the pool keeps its type; no semaphore exceeds one.      *)
THEOREM ThreadTypeOK == Spec => []TypeOK
<1>1. SyncInv /\ OwnInv => TypeOK
  BY DEF SyncInv
<1> QED
  BY <1>1, ThreadInvariant, PTL

(* Up to notify() the thread finds the Thread object it works on.             *)
THEOREM ThreadObjectOutlivesUse == Spec => []ObjectOutlivesUse
<1>1. SyncInv /\ OwnInv => ObjectOutlivesUse
  BY DEF SyncInv, OwnInv, Young, Waits, OneOwner, Owned, Making, ObjectOutlivesUse
<1> QED
  BY <1>1, ThreadInvariant, PTL

(* getId() is never asked for before the thread has set it.                   *)
THEOREM ThreadIdsKnown == Spec => []IdsKnown
<1>1. SyncInv /\ OwnInv => IdsKnown
  BY DEF SyncInv
<1> QED
  BY <1>1, ThreadInvariant, PTL

(* No thread touches the scheduler before the start() that made it is done.   *)
THEOREM ThreadStartAtomic == Spec => []StartAtomic
<1>1. SyncInv /\ OwnInv => StartAtomic
  BY DEF SyncInv, Filled, Makers, StartAtomic
<1> QED
  BY <1>1, ThreadInvariant, PTL

LEMMA OwnersOf ==
  ASSUME SyncInv, OwnInv, NEW t \in Thread, NEW o
  PROVE  o \in Owners(t) <=>
           \/ \E s \in Slot : InPool(t, s) /\ o = <<"m_threads", s>>
           \/ \E c \in Caller : Making(t, c) /\ o = <<c, 0>>
           \/ \E c \in Caller, s \in Slot : InHand(t, c, s) /\ o = <<c, s>>
<1>1. \A s \in DOMAIN m_threads : s \in Slot
  BY VectorDomain DEF SyncInv, TypeOK
<1>2. \A c \in Caller : \A s \in DOMAIN thrs[c] : s \in Slot
  BY VectorDomain DEF SyncInv, TypeOK
<1>3. o \in {<<"m_threads", s>> : s \in {s \in DOMAIN m_threads : m_threads[s] = t}}
        <=> \E s \in Slot : InPool(t, s) /\ o = <<"m_threads", s>>
  BY <1>1 DEF InPool
<1>4. o \in {<<c, s>> : c \in {c \in Caller : made[c] = t}, s \in {0}}
        <=> \E c \in Caller : Making(t, c) /\ o = <<c, 0>>
  BY DEF Making
<1>5. o \in UNION {{<<c, s>> : s \in {s \in DOMAIN thrs[c] : thrs[c][s] = t}} : c \in Caller}
        <=> \E c \in Caller, s \in Slot : InHand(t, c, s) /\ o = <<c, s>>
  BY <1>2 DEF InHand
<1> QED
  BY <1>3, <1>4, <1>5 DEF Owners

(* Nobody joins a thread twice, or one that has been detached.               *)
THEOREM ThreadOwnedOnce == Spec => []OwnedOnce
<1>1. ASSUME SyncInv, OwnInv PROVE OwnedOnce
  <2> SUFFICES ASSUME NEW t \in Thread
               PROVE  /\ Cardinality(Owners(t)) = IF object[t] = "alive" THEN 1 ELSE 0
                      /\ object[t] = "alive" /\ pthread[t] # "joinable" => at[t] = "ended"
    BY DEF OwnedOnce
  <2>1. CASE object[t] # "alive"
    <3>1. ~Owned(t)
      BY <1>1, <2>1 DEF OwnInv, OneOwner
    <3>2. Owners(t) = {}
      BY <1>1, <3>1, OwnersOf DEF Owned
    <3> QED
      BY <2>1, <3>2, FS_EmptySet
  <2>2. CASE object[t] = "alive"
    <3>1. \E o : Owners(t) = {o}
      <4>1. Owned(t)
        BY <1>1, <2>2 DEF OwnInv, OneOwner
      <4>2. ASSUME NEW s \in Slot, InPool(t, s) PROVE Owners(t) = {<<"m_threads", s>>}
        BY <1>1, <4>2, OwnersOf DEF OwnInv, OneOwner
      <4>3. ASSUME NEW c \in Caller, Making(t, c) PROVE Owners(t) = {<<c, 0>>}
        <5>1. \A d \in Caller : Making(t, d) => d = c
          <6>1. \A d \in Caller : Making(t, d) => pc[d] = "wait"
            BY <1>1, Names DEF SyncInv, Makers, Making
          <6> QED
            BY <1>1, <4>3, <6>1, OneMaker
        <5> QED
          BY <1>1, <4>3, <5>1, OwnersOf DEF OwnInv, OneOwner
      <4>4. ASSUME NEW c \in Caller, NEW s \in Slot, InHand(t, c, s) PROVE Owners(t) = {<<c, s>>}
        BY <1>1, <4>4, OwnersOf DEF OwnInv, OneOwner
      <4> QED
        BY <4>1, <4>2, <4>3, <4>4 DEF Owned
    <3>2. Cardinality(Owners(t)) = 1
      BY <3>1, FS_Singleton
    <3>3. pthread[t] # "joinable" => at[t] = "ended"
      BY <1>1, <2>2 DEF OwnInv, Threads
    <3> QED
      BY <2>2, <3>2, <3>3
  <2> QED
    BY <2>1, <2>2
<1> QED
  BY <1>1, ThreadInvariant, PTL

(* After stop() no thread runs that the scheduler still knows of.             *)
THEOREM ThreadStopLeavesNothing == Spec => []StopLeavesNothing
<1>1. ASSUME SyncInv, OwnInv, m_stopping, \A c \in Caller : pc[c] = "out", NEW t \in Thread
      PROVE  at[t] = "unborn" \/ pthread[t] = "detached" \/ (at[t] = "ended" /\ pthread[t] = "joined")
  <2>1. m_threads = <<>> /\ \A c \in Caller : thrs[c] = <<>> /\ made[c] = None
    BY <1>1 DEF OwnInv, ToBeTaken, HandsEmpty, SyncInv, Makers
  <2>2. ~Owned(t)
    BY <2>1, EmptyVector, Names DEF Owned, InPool, Making, InHand
  <2>3. object[t] # "alive" /\ object[t] \in {"none", "alive", "gone"}
    BY <1>1, <2>2 DEF OwnInv, OneOwner, SyncInv, TypeOK
  <2> QED
    BY <1>1, <2>3 DEF OwnInv, Threads
<1>2. SyncInv /\ OwnInv => StopLeavesNothing
  BY <1>1 DEF StopLeavesNothing
<1> QED
  BY <1>2, ThreadInvariant, PTL
=============================================================================
