------------------------- MODULE ThreadRegistryProofs -------------------------
(***************************************************************************)
(* What ThreadRegistry guarantees for every number of threads, every size  *)
(* of the pool of indexes and whatever calls of libpthread fail.           *)
(***************************************************************************)
EXTENDS ThreadRegistry, FiniteSetTheorems, TLAPS

(* Where a thread of each kind can be. *)
MainPlaces == {"run", "create", "wait", "allstopped", "stop"}
ChildPlaces == {"none", "init", "register", "name", "barrier", "run", "create",
                "stopped", "gone", "noindex", "noname"}

(* Where a thread has no index, and where its slot of __thd is in use. *)
NoIndex == {"none", "init", "gone", "noindex"}
InTable == {"name", "barrier", "run", "create", "stopped", "wait", "allstopped",
            "stop", "noname"}

Placed ==
  /\ pc[Main] \in MainPlaces /\ per_thread[Main] = initial_uid
  /\ \A t \in Children : pc[t] \in ChildPlaces
  /\ \A f \in Foreign : pc[f] \in {"none", "foreign"}

(* Threads own different indexes, from the moment they take one until they *)
(* give it back, and their slots are in use for part of that time.         *)
Owned ==
  /\ \A t \in Threads : per_thread[t] = -1 <=> pc[t] \in NoIndex
  /\ \A t \in Threads : per_thread[t] # -1 => per_thread[t] \in entries
  /\ \A t, u \in Threads : t # u /\ per_thread[t] # -1 => per_thread[t] # per_thread[u]
  /\ \A t \in Threads : per_thread[t] \in magic <=> pc[t] \in InTable

Counted ==
  /\ entries = Uids \ bitmap
  /\ active = Cardinality(entries)
  /\ magic \subseteq entries

(* While no name is refused, every index taken is some thread's. *)
Traced ==
  "pthread_setname_np" \notin faults =>
    /\ \A t \in Threads : pc[t] # "noname"
    /\ \A e \in entries : \E t \in Threads : per_thread[t] = e

RegInv == TypeOK /\ Placed /\ Owned /\ Counted /\ Traced

(* The scan of thread_wait_all has missed no thread that is still running. *)
Scanned ==
  /\ \A t \in Children : pc[t] \in {"name", "barrier", "run", "create"} =>
       per_thread[t] \in running \/ t \in asked
  /\ pc[Main] = "wait" =>
       /\ scan.tidx >= 1
       /\ \A t \in before : pc[t] \in {"run", "create", "stopped", "gone"}
       /\ ~scan.running => \A t \in before :
            pc[t] \in {"run", "create"} /\ per_thread[t] < scan.tidx => t \in asked
  /\ pc[Main] = "allstopped" => \A t \in before :
       /\ pc[t] \in {"run", "create", "stopped", "gone"}
       /\ pc[t] \in {"run", "create"} => t \in asked

-------------------------------------------------------------------------------
(***************************************************************************)
(* The indexes.                                                            *)
(***************************************************************************)
LEMMA UidsFinite == IsFiniteSet(Uids) /\ Cardinality(Uids) = MaxThreads /\ initial_uid \in Uids
<1>1. MaxThreads \in Nat /\ MaxThreads >= 1
  BY ThreadsAssumption
<1> QED
  BY <1>1, FS_Interval DEF Uids, initial_uid

(* Any set of indexes that has the main thread's is counted in 1..MaxThreads. *)
LEMMA CountType ==
  ASSUME NEW S \in SUBSET Uids, initial_uid \in S
  PROVE  IsFiniteSet(S) /\ Cardinality(S) \in 1 .. MaxThreads
<1>1. IsFiniteSet(S) /\ Cardinality(S) <= MaxThreads /\ Cardinality(S) \in Nat
  BY Zenon, UidsFinite, FS_Subset, FS_CardinalityType
<1>2. Cardinality(S) # 0
  BY Zenon, <1>1, FS_EmptySet
<1>3. MaxThreads \in Nat
  BY Zenon, ThreadsAssumption
<1> QED
  BY <1>1, <1>2, <1>3

(* What cne_register does to the entries, and that the index is new. *)
LEMMA Register ==
  ASSUME RegInv, NEW t \in Threads \ {Main}, per_thread[t] = -1, cne_register(t)
  PROVE  \E uid \in Uids \ entries :
           /\ bitmap' = bitmap \ {uid} /\ entries' = entries \cup {uid}
           /\ per_thread' = [per_thread EXCEPT ![t] = uid]
           /\ active' \in 1 .. MaxThreads /\ active' = Cardinality(entries')
           /\ entries' = Uids \ bitmap'
<1>1. PICK uid \in bitmap : 
         /\ uid \notin entries /\ bitmap' = bitmap \ {uid} /\ entries' = entries \cup {uid}
         /\ active' = active + 1 /\ per_thread' = [per_thread EXCEPT ![t] = uid]
  BY Zenon DEF cne_register
<1>2. bitmap \subseteq Uids /\ entries \subseteq Uids /\ entries = Uids \ bitmap
      /\ active = Cardinality(entries) /\ initial_uid \in entries
  <2>1. bitmap \subseteq Uids /\ entries \subseteq Uids /\ entries = Uids \ bitmap
        /\ active = Cardinality(entries)
    BY Zenon DEF RegInv, TypeOK, Counted
  <2>2. per_thread[Main] = 0 /\ Main \in Threads
    BY Zenon DEF RegInv, Placed, initial_uid, Threads
  <2> QED
    BY <2>1, <2>2 DEF RegInv, Owned, initial_uid
<1>3. entries' \subseteq Uids /\ initial_uid \in entries'
  BY Zenon, <1>1, <1>2
<1>4. Cardinality(entries') = active + 1
  BY Zenon, <1>1, <1>2, CountType, FS_AddElement
<1>5. active' \in 1 .. MaxThreads /\ active' = Cardinality(entries')
  BY Zenon, <1>1, <1>3, <1>4, CountType
<1> QED
  BY Zenon, <1>1, <1>2, <1>5

(* What cne_unregister does, called with the index of another thread than  *)
(* the main one.                                                           *)
LEMMA Unregister ==
  ASSUME RegInv, NEW t \in Threads \ {Main}, per_thread[t] # -1,
         cne_unregister(t, per_thread[t])
  PROVE  /\ entries' = entries \ {per_thread[t]} /\ bitmap' = bitmap \cup {per_thread[t]}
         /\ per_thread' = [per_thread EXCEPT ![t] = -1]
         /\ active' \in 1 .. MaxThreads /\ active' = Cardinality(entries')
         /\ entries' = Uids \ bitmap' /\ entries' \subseteq Uids /\ bitmap' \subseteq Uids
         /\ per_thread[t] \in Uids /\ per_thread[t] \in entries
<1>1. /\ bitmap \subseteq Uids /\ entries \subseteq Uids /\ entries = Uids \ bitmap
      /\ active = Cardinality(entries) /\ per_thread[t] \in entries
    BY Zenon DEF RegInv, TypeOK, Counted, Owned
<1>2. initial_uid \in entries /\ per_thread[t] # initial_uid
  <2>1. per_thread[Main] = 0 /\ Main \in Threads
    BY Zenon DEF RegInv, Placed, initial_uid, Threads
  <2> QED
    BY <2>1 DEF RegInv, Owned, initial_uid
<1>3. /\ bitmap' = bitmap \cup {per_thread[t]} /\ entries' = entries \ {per_thread[t]}
      /\ active' = active - 1 /\ per_thread' = [per_thread EXCEPT ![t] = -1]
  BY Zenon, <1>1, <1>2 DEF cne_unregister, Releases
<1>4. entries' \subseteq Uids /\ initial_uid \in entries'
  BY Zenon, <1>1, <1>2, <1>3
<1>5. Cardinality(entries') = active - 1
  BY Zenon, <1>1, <1>2, <1>3, CountType, FS_RemoveElement
<1>6. active' \in 1 .. MaxThreads /\ active' = Cardinality(entries')
  BY Zenon, <1>3, <1>4, <1>5, CountType
<1> QED
  BY Zenon, <1>1, <1>3, <1>4, <1>6

(***************************************************************************)
(* The steps.                                                              *)
(***************************************************************************)
(* A step that moves one thread between places of the same kind, and       *)
(* leaves the indexes and the table alone.                                 *)
LEMMA Move ==
  ASSUME RegInv, UNCHANGED <<faults, cnevars, magic>>,
         NEW t \in Threads, NEW l, pc' = [pc EXCEPT ![t] = l],
         pc[t] \in NoIndex <=> l \in NoIndex, pc[t] \in InTable <=> l \in InTable,
         t = Main => l \in MainPlaces, t \in Children => l \in ChildPlaces,
         t \in Foreign => l \in {"none", "foreign"},
         l = "noname" => "pthread_setname_np" \in faults
  PROVE  Placed' /\ Owned' /\ Counted' /\ Traced'
         /\ pc' \in [Threads -> MainPlaces \cup ChildPlaces \cup {"foreign"}]
<1>2. \A u \in Threads : pc'[u] = IF u = t THEN l ELSE pc[u]
  BY Zenon DEF RegInv, TypeOK
<1>3. Placed'
  BY Zenon, <1>2, ThreadsAssumption DEF RegInv, Placed, cnevars, Threads
<1>4. Owned'
  BY Zenon, <1>2 DEF RegInv, Owned, cnevars
<1>5. Counted' 
  BY Zenon DEF RegInv, Counted, cnevars
<1>6. Traced'
  BY Zenon, <1>2 DEF RegInv, Traced, cnevars
<1>7. pc' \in [Threads -> MainPlaces \cup ChildPlaces \cup {"foreign"}]
  BY Zenon, <1>2, <1>3 DEF RegInv, TypeOK, Placed, Threads, ChildPlaces
<1> QED
  BY Zenon, <1>3, <1>4, <1>5, <1>6, <1>7
LEMMA ThreadCreate ==
  ASSUME RegInv, NEW c \in Threads \ Foreign, thread_create(c)
  PROVE  RegInv'
<1>1. CASE UNCHANGED <<pc, child>>
  BY Zenon, <1>1 DEF thread_create, RegInv, TypeOK, Placed, Owned, Counted, Traced, cnevars, cne_id
<1>2. CASE ~ UNCHANGED <<pc, child>>
  <2>1. PICK t \in Children : /\ pc[t] = "none" /\ pc[c] = "run"
                              /\ pc' = [pc EXCEPT ![c] = "create", ![t] = "init"]
    BY Zenon, <1>2 DEF thread_create
  <2>2. UNCHANGED <<faults, cnevars, magic, running, scan, target, before, asked>>
    BY Zenon DEF thread_create
  <2>3. \A u \in Threads : pc'[u] = IF u = t THEN "init" ELSE IF u = c THEN "create" ELSE pc[u]
    BY Zenon, <2>1 DEF RegInv, TypeOK, Threads
  <2>0. pc[t] = "none" /\ pc[c] = "run" /\ t \in Threads
    BY Zenon, <2>1 DEF Threads
  <2>4. TypeOK'
    BY Zenon, <2>1, <2>2, <2>3 DEF RegInv, TypeOK, cnevars
  <2>5. Placed'
    BY <2>0, <2>2, <2>3, ThreadsAssumption
    DEF RegInv, Placed, cnevars, Threads, MainPlaces, ChildPlaces
  <2>6. Owned'
    BY Zenon, <2>0, <2>2, <2>3 DEF RegInv, Owned, cnevars, NoIndex, InTable
  <2>7. Counted' /\ Traced'
    BY Zenon, <2>0, <2>2, <2>3 DEF RegInv, Counted, Traced, cnevars
  <2> QED
    BY Zenon, <2>4, <2>5, <2>6, <2>7 DEF RegInv
<1> QED
  BY Zenon, <1>1, <1>2

(* A thread, made by thread_create or not, takes an index. *)
LEMMA Registers ==
  ASSUME RegInv, NEW t \in Threads \ {Main}, per_thread[t] = -1, cne_register(t),
         NEW l \in {"register", "foreign"}, pc' = [pc EXCEPT ![t] = l],
         IF l = "foreign" THEN t \in Foreign ELSE t \in Children,
         UNCHANGED <<magic, running, uservars>>
  PROVE  RegInv'
<1>1. PICK uid \in Uids \ entries :
           /\ bitmap' = bitmap \ {uid} /\ entries' = entries \cup {uid}
           /\ per_thread' = [per_thread EXCEPT ![t] = uid]
           /\ active' \in 1 .. MaxThreads /\ active' = Cardinality(entries')
           /\ entries' = Uids \ bitmap'
  BY Zenon, Register
<1>2. \A u \in Threads : /\ pc'[u] = IF u = t THEN l ELSE pc[u]
                         /\ per_thread'[u] = IF u = t THEN uid ELSE per_thread[u]
  BY Zenon, <1>1 DEF RegInv, TypeOK
<1>3. TypeOK'
  BY Zenon, <1>1 DEF RegInv, TypeOK, uservars
<1>4. Placed'
  BY <1>2, ThreadsAssumption DEF RegInv, Placed, Threads, ChildPlaces
<1>5. uid # -1 /\ uid \notin magic
  BY <1>1, ThreadsAssumption DEF RegInv, Counted, Uids
<1>6. Owned'
  BY <1>1, <1>2, <1>5 DEF RegInv, Owned, NoIndex, InTable
<1>7. Counted'
  BY Zenon, <1>1 DEF RegInv, Counted
<1>8. Traced'
  <2>1. \A u \in Threads : pc'[u] = "noname" => pc[u] = "noname"
    BY Zenon, <1>2
  <2>2. faults' = faults
    BY Zenon DEF uservars
  <2>3. ASSUME "pthread_setname_np" \notin faults, NEW e \in entries'
        PROVE  \E u \in Threads : per_thread'[u] = e
    <3>1. CASE e = uid
      BY Zenon, <3>1, <1>2
    <3>2. CASE e # uid
      <4>1. PICK u \in Threads : per_thread[u] = e
        BY Zenon, <1>1, <2>3, <3>2 DEF RegInv, Traced
      <4>2. e \in Uids /\ e # -1
        BY <1>1, <2>3, ThreadsAssumption DEF RegInv, TypeOK, Uids
      <4> QED
        BY Zenon, <4>1, <4>2, <1>2
    <3> QED
      BY Zenon, <3>1, <3>2
  <2> QED
    BY Zenon, <2>1, <2>2, <2>3 DEF RegInv, Traced
<1> QED
  BY Zenon, <1>3, <1>4, <1>6, <1>7, <1>8 DEF RegInv

(* A thread that was not, or is no longer, in the table gives its index back. *)
LEMMA Unregisters ==
  ASSUME RegInv, NEW t \in Threads \ {Main}, per_thread[t] # -1,
         cne_unregister(t, per_thread[t]),
         NEW l \in {"none", "gone"}, pc' = [pc EXCEPT ![t] = l],
         pc[t] # "noname", l = "gone" => t \in Children,
         magic' = magic \ {per_thread[t]}, running' = running \ {per_thread[t]},
         UNCHANGED uservars
  PROVE  RegInv'
<1> DEFINE tidx == per_thread[t]
<1>1. /\ entries' = entries \ {tidx} /\ bitmap' = bitmap \cup {tidx}
      /\ per_thread' = [per_thread EXCEPT ![t] = -1]
      /\ active' \in 1 .. MaxThreads /\ active' = Cardinality(entries')
      /\ entries' = Uids \ bitmap' /\ entries' \subseteq Uids /\ bitmap' \subseteq Uids
      /\ tidx \in Uids /\ tidx \in entries
  BY Zenon, Unregister
<1>2. \A u \in Threads : /\ pc'[u] = IF u = t THEN l ELSE pc[u]
                         /\ per_thread'[u] = IF u = t THEN -1 ELSE per_thread[u]
  BY Zenon, <1>1 DEF RegInv, TypeOK
<1>3. TypeOK'
  BY Zenon, <1>1 DEF RegInv, TypeOK, uservars
<1>4. Placed'
  BY <1>2, ThreadsAssumption DEF RegInv, Placed, Threads, ChildPlaces
<1>5. Owned'
  <2>1. -1 \notin magic
    BY DEF RegInv, TypeOK, Uids
  <2> QED
    BY <1>1, <1>2, <2>1 DEF RegInv, Owned, NoIndex, InTable
<1>6. Counted'
  BY Zenon, <1>1 DEF RegInv, Counted
<1>7. Traced'
  BY <1>1, <1>2 DEF RegInv, Traced, uservars
<1> QED
  BY Zenon, <1>3, <1>4, <1>5, <1>6, <1>7 DEF RegInv
LEMMA ThreadStepReg ==
  ASSUME RegInv, NEW t \in Children, ThreadStep(t) \/ RoutineEnds(t) \/ Forget(t)
  PROVE  RegInv'
<1>t. t \in Threads \ {Main} /\ t \notin Foreign
  BY Zenon, ThreadsAssumption DEF Threads
<1>1. CASE ThreadInit(t)
  <2>1. per_thread[t] = -1
    BY Zenon, <1>1, <1>t DEF ThreadInit, RegInv, Owned, NoIndex
  <2>2. CASE cne_register(t) /\ Goto(t, "register")
    BY Zenon, <1>1, <1>t, <2>1, <2>2, Registers DEF ThreadInit, Goto
  <2>3. CASE Goto(t, "noindex") /\ UNCHANGED cnevars
    <3>1. Placed' /\ Owned' /\ Counted' /\ Traced'
      BY Zenon, <1>1, <1>t, <2>3, Move
      DEF ThreadInit, Goto, uservars, NoIndex, InTable, ChildPlaces
    <3> QED
      BY Zenon, <1>1, <2>3, <3>1 DEF ThreadInit, Goto, RegInv, TypeOK, uservars, cnevars
  <2> QED
    BY Zenon, <1>1, <2>2, <2>3 DEF ThreadInit
<1>2. CASE thread_register(t)
  <2>1. /\ cne_id(t) = per_thread[t] /\ per_thread[t] \notin magic
        /\ per_thread[t] \in Uids /\ per_thread[t] \in entries
    BY Zenon, <1>2, <1>t DEF thread_register, cne_id, RegInv, TypeOK, Owned, NoIndex, InTable
  <2>2. /\ magic' = magic \cup {per_thread[t]} /\ running' = running \cup {per_thread[t]}
        /\ pc' = [pc EXCEPT ![t] = "name"] /\ UNCHANGED <<cnevars, uservars>>
    <3>1. per_thread[t] # -1
      BY <2>1, ThreadsAssumption DEF Uids
    <3> QED
      BY Zenon, <1>2, <2>1, <3>1 DEF thread_register, Goto
  <2>3. \A u \in Threads : pc'[u] = IF u = t THEN "name" ELSE pc[u]
    BY Zenon, <2>2 DEF RegInv, TypeOK
  <2>4. TypeOK'
    BY Zenon, <2>1, <2>2 DEF RegInv, TypeOK, cnevars, uservars
  <2>5. Placed'
    BY Zenon, <2>2, <2>3, <1>t DEF RegInv, Placed, ChildPlaces, cnevars, Threads
  <2>6. Owned'
    BY <1>2, <1>t, <2>1, <2>2, <2>3
    DEF thread_register, RegInv, Owned, NoIndex, InTable, cnevars
  <2>7. Counted' /\ Traced'
    BY <2>1, <2>2, <2>3 DEF RegInv, Counted, Traced, cnevars, uservars
  <2> QED
    BY Zenon, <2>4, <2>5, <2>6, <2>7 DEF RegInv
<1>3. CASE SetName(t)
  <2>1. PICK l \in {"barrier", "noname"} :
          Goto(t, l) /\ (l = "noname" => "pthread_setname_np" \in faults)
    BY Zenon, <1>3 DEF SetName
  <2>2. Placed' /\ Owned' /\ Counted' /\ Traced'
    BY Zenon, <1>3, <1>t, <2>1, Move DEF SetName, Goto, uservars, NoIndex, InTable, ChildPlaces
  <2> QED
    BY Zenon, <1>3, <2>1, <2>2 DEF SetName, Goto, RegInv, TypeOK, uservars, cnevars
<1>4. ASSUME NEW c \in Threads, Barrier(c, t)
      PROVE  RegInv'
  <2>1. /\ pc[c] = "create" /\ pc[t] = "barrier" /\ pc' = [pc EXCEPT ![c] = "run", ![t] = "run"]
        /\ UNCHANGED <<faults, cnevars, magic, running, child, scan, target, before, asked>>
    BY Zenon, <1>4 DEF Barrier
  <2>2. \A u \in Threads : pc'[u] = IF u \in {c, t} THEN "run" ELSE pc[u]
    BY Zenon, <1>t, <2>1 DEF RegInv, TypeOK
  <2>0. /\ pc[c] = "create" /\ pc[t] = "barrier"
        /\ UNCHANGED <<faults, cnevars, magic, running, child, scan, target, before, asked>>
    BY Zenon, <2>1
  <2>3. TypeOK'
    BY Zenon, <2>1, <2>2 DEF RegInv, TypeOK, cnevars
  <2>4. Placed'
    BY Zenon, <2>0, <2>2, <1>t, ThreadsAssumption
    DEF RegInv, Placed, MainPlaces, ChildPlaces, cnevars, Threads
  <2>5. Owned'
    BY Zenon, <1>t, <2>0, <2>2 DEF RegInv, Owned, NoIndex, InTable, cnevars
  <2>6. Counted' /\ Traced'
    BY Zenon, <2>0, <2>2 DEF RegInv, Counted, Traced, cnevars
  <2> QED
    BY Zenon, <2>3, <2>4, <2>5, <2>6 DEF RegInv
<1>5. CASE thread_unregister(t)
  <2>1. per_thread[t] \in magic /\ per_thread[t] # -1
    BY Zenon, <1>5, <1>t DEF thread_unregister, RegInv, Owned, NoIndex, InTable
  <2> QED
    BY Zenon, <1>5, <1>t, <2>1, Unregisters DEF thread_unregister, Goto
<1>6. CASE RoutineEnds(t)
  <2>1. Placed' /\ Owned' /\ Counted' /\ Traced'
    BY Zenon, <1>6, <1>t, Move DEF RoutineEnds, Goto, uservars, NoIndex, InTable, ChildPlaces
  <2> QED
    BY Zenon, <1>6, <2>1 DEF RoutineEnds, Goto, RegInv, TypeOK, uservars, cnevars
<1>7. CASE Forget(t)
  <2>1. /\ pc[t] \in {"gone", "noindex", "noname"} /\ pc' = [pc EXCEPT ![t] = "none"]
        /\ per_thread' = [per_thread EXCEPT ![t] = -1]
        /\ before' = before \ {t} /\ asked' = asked \ {t}
        /\ UNCHANGED <<faults, bitmap, entries, active, magic, running, child, scan, target>>
    BY Zenon, <1>7 DEF Forget, Goto
  <2>2. \A u \in Threads : /\ pc'[u] = IF u = t THEN "none" ELSE pc[u]
                           /\ per_thread'[u] = IF u = t THEN -1 ELSE per_thread[u]
    BY Zenon, <2>1 DEF RegInv, TypeOK
  <2>3. TypeOK'
    BY Zenon, <2>1 DEF RegInv, TypeOK
  <2>4. Placed'
    BY Zenon, <2>2, <1>t DEF RegInv, Placed, ChildPlaces, Threads
  <2>5. Owned'
    <3>1. -1 \notin magic
      BY DEF RegInv, TypeOK, Uids
    <3> QED
      BY <2>1, <2>2, <3>1 DEF RegInv, Owned, NoIndex, InTable
  <2>6. Counted'
    BY Zenon, <2>1 DEF RegInv, Counted
  <2>7. Traced'
    <3>1. ASSUME "pthread_setname_np" \notin faults, NEW e \in entries
          PROVE  \E u \in Threads : per_thread'[u] = e
      <4>1. PICK u \in Threads : per_thread[u] = e
        BY Zenon, <3>1 DEF RegInv, Traced
      <4>2. e # -1
        BY DEF RegInv, TypeOK, Uids
      <4>3. u # t
        BY Zenon, <1>t, <2>1, <3>1, <4>1, <4>2 DEF RegInv, Traced, Owned, NoIndex
      <4> QED
        BY Zenon, <4>1, <4>3, <2>2
    <3> QED
      BY <2>1, <2>2, <3>1 DEF RegInv, Traced
  <2> QED
    BY Zenon, <2>3, <2>4, <2>5, <2>6, <2>7 DEF RegInv
<1> QED
  BY Zenon, <1>1, <1>2, <1>3, <1>4, <1>5, <1>6, <1>7 DEF ThreadStep

LEMMA ForeignReg ==
  ASSUME RegInv, NEW f \in Foreign, ForeignRegister(f) \/ ForeignUnregister(f)
  PROVE  RegInv'
<1>f. f \in Threads \ {Main} /\ f \notin Children
  BY Zenon, ThreadsAssumption DEF Threads
<1>1. CASE ForeignRegister(f) /\ cne_register(f) /\ Goto(f, "foreign")
  <2>1. per_thread[f] = -1
    BY Zenon, <1>1, <1>f DEF ForeignRegister, RegInv, Owned, NoIndex
  <2> QED
    BY Zenon, <1>1, <1>f, <2>1, Registers DEF ForeignRegister, Goto
<1>2. CASE ForeignRegister(f) /\ UNCHANGED <<cnevars, pc>>
  BY Zenon, <1>2 DEF ForeignRegister, RegInv, TypeOK, Placed, Owned, Counted, Traced, cnevars, uservars
<1>3. CASE ForeignUnregister(f)
  <2>1. pc[f] = "foreign" /\ per_thread[f] # -1 /\ per_thread[f] \notin magic
    BY Zenon, <1>3, <1>f DEF ForeignUnregister, RegInv, Owned, NoIndex, InTable
  <2>2. magic' = magic \ {per_thread[f]} /\ running' = running \ {per_thread[f]}
    BY Zenon, <1>3, <2>1 DEF ForeignUnregister, RegInv, TypeOK
  <2> QED
    BY Zenon, <1>3, <1>f, <2>1, <2>2, Unregisters DEF ForeignUnregister, Goto
<1> QED
  BY Zenon, <1>1, <1>2, <1>3 DEF ForeignRegister
(* The main thread only moves itself, and clears a flag at most. *)
MainActs == thread_wait_all \/ MainStep \/ \E tidx \in Uids : thread_stop_running(tidx)

LEMMA MainReg ==
  ASSUME RegInv, MainActs
  PROVE  RegInv'
<1>1. /\ \/ pc' = pc
         \/ /\ pc[Main] \in MainPlaces
            /\ \E l \in MainPlaces : pc' = [pc EXCEPT ![Main] = l]
      /\ UNCHANGED <<faults, cnevars, magic, child>> /\ running' \subseteq running
  BY Zenon DEF MainActs, MainStep, thread_wait_all, ScanOne, ScanEnd, WaitReturns, StopRunning,
         thread_stop_running, Goto, MainPlaces
<1>2. TypeOK'
  <2>1. scan' \in [tidx : 0 .. MaxThreads, running : BOOLEAN]
    <3>1. MaxThreads \in Nat /\ MaxThreads >= 1 /\ scan \in [tidx : 0 .. MaxThreads, running : BOOLEAN]
      BY ThreadsAssumption DEF RegInv, TypeOK
    <3>2. CASE ScanOne
      <4>1. (scan.running \/ scan.tidx \in magic \cap running) \in BOOLEAN
        OBVIOUS
      <4> QED
        BY <3>1, <3>2, <4>1 DEF ScanOne
    <3>3. CASE ~ ScanOne
      <4>1. \/ scan' = scan
            \/ scan' = [tidx |-> 1, running |-> FALSE] \/ scan' = [tidx |-> 0, running |-> FALSE]
        BY Zenon, <3>3 DEF MainActs, MainStep, thread_wait_all, ScanEnd, WaitReturns, StopRunning,
                    thread_stop_running
      <4>2. CASE scan' = scan
        BY Zenon, <3>1, <4>2
      <4>3. CASE scan' = [tidx |-> 1, running |-> FALSE]
        <5>1. 1 \in 0 .. MaxThreads /\ FALSE \in BOOLEAN
          BY <3>1
        <5> QED
          BY Zenon, <4>3, <5>1
      <4>4. CASE scan' = [tidx |-> 0, running |-> FALSE]
        <5>1. 0 \in 0 .. MaxThreads /\ FALSE \in BOOLEAN
          BY <3>1
        <5> QED
          BY Zenon, <4>4, <5>1
      <4> QED
        BY Zenon, <4>1, <4>2, <4>3, <4>4
    <3> QED
      BY Zenon, <3>2, <3>3
  <2>2. target' \in Uids \cup {-1} /\ before' \subseteq Children /\ asked' \subseteq Children
    BY Zenon DEF RegInv, TypeOK, MainActs, MainStep, thread_wait_all, ScanOne, ScanEnd, WaitReturns,
           StopRunning, thread_stop_running
  <2> QED
    BY Zenon, <1>1, <2>1, <2>2 DEF RegInv, TypeOK, cnevars, MainPlaces
<1>3. Placed' /\ Owned' /\ Counted' /\ Traced'
  <2>1. CASE pc' = pc
    BY Zenon, <1>1, <2>1 DEF RegInv, Placed, Owned, Counted, Traced, cnevars
  <2>2. ASSUME NEW l \in MainPlaces, pc[Main] \in MainPlaces, pc' = [pc EXCEPT ![Main] = l]
        PROVE  Placed' /\ Owned' /\ Counted' /\ Traced'
    <3>1. Main \in Threads /\ Main \notin Children /\ Main \notin Foreign
      BY Zenon, ThreadsAssumption DEF Threads
    <3>2. /\ pc[Main] \in NoIndex <=> l \in NoIndex
          /\ pc[Main] \in InTable <=> l \in InTable
          /\ l # "noname"
      BY Zenon, <2>2 DEF NoIndex, InTable, MainPlaces
    <3> QED
      BY Zenon, <1>1, <2>2, <3>1, <3>2, Move
  <2> QED
    BY Zenon, <1>1, <2>1, <2>2
<1> QED
  BY Zenon, <1>2, <1>3 DEF RegInv

LEMMA RegInitially == Init => RegInv
<1> SUFFICES ASSUME Init PROVE RegInv
  OBVIOUS
<1>1. initial_uid \in Uids /\ MaxThreads \in Nat /\ MaxThreads >= 1 /\ Main \in Threads
  BY UidsFinite, ThreadsAssumption DEF Threads
<1>2. \A t \in Threads : /\ pc[t] = IF t = Main THEN "run" ELSE "none"
                         /\ per_thread[t] = IF t = Main THEN initial_uid ELSE -1
  BY Zenon DEF Init
<1>3. TypeOK
  BY <1>1 DEF Init, TypeOK, initial_uid
<1>4. Placed
  BY Zenon, <1>1, <1>2, ThreadsAssumption DEF Placed, MainPlaces, ChildPlaces, Threads
<1>5. Owned
  BY <1>2 DEF Init, Owned, NoIndex, InTable, initial_uid
<1>6. Counted
  BY Zenon, <1>1, FS_Singleton DEF Init, Counted
<1>7. Traced
  BY Zenon, <1>1, <1>2 DEF Init, Traced
<1> QED
  BY Zenon, <1>3, <1>4, <1>5, <1>6, <1>7 DEF RegInv

LEMMA RegPreserved == RegInv /\ [Next]_vars => RegInv'
<1> SUFFICES ASSUME RegInv, [Next]_vars PROVE RegInv'
  OBVIOUS
<1>1. CASE UNCHANGED vars
  BY Zenon, <1>1 DEF vars, cnevars, uservars, RegInv, TypeOK, Placed, Owned, Counted, Traced
<1>2. CASE Next
  BY Zenon, <1>2, ThreadCreate, ThreadStepReg, ForeignReg, MainReg DEF Next, MainActs
<1> QED
  BY Zenon, <1>1, <1>2

-------------------------------------------------------------------------------
(***************************************************************************)
(* The scan of thread_wait_all.                                            *)
(***************************************************************************)
LEMMA ScannedInitially == Init => Scanned
  BY Zenon, ThreadsAssumption DEF Init, Scanned, Threads

(* The threads that thread_wait_all waits for are where they were or      *)
(* further on, and every thread that runs has its flag or was asked.      *)
LEMMA ScanFrame ==
  ASSUME Scanned, scan' = scan, before' \subseteq before, before \subseteq Children,
         pc'[Main] = pc[Main] \/ pc'[Main] \in {"run", "create"},
         \A u \in Children : pc'[u] \in {"name", "barrier", "run", "create"} =>
           per_thread'[u] \in running' \/ u \in asked',
         \A u \in before' :
           /\ pc[u] \in {"run", "create", "stopped", "gone"} =>
                pc'[u] \in {"run", "create", "stopped", "gone"}
           /\ pc[u] \in {"run", "create", "stopped", "gone"} /\ pc'[u] \in {"run", "create"} =>
                pc[u] \in {"run", "create"} /\ per_thread'[u] = per_thread[u]
           /\ u \in asked => u \in asked'
  PROVE  Scanned'
  BY Zenon DEF Scanned

(* Steps of the other threads. *)
LEMMA ScannedOthers ==
  ASSUME RegInv, Scanned,
         \/ \E c \in Threads \ Foreign : thread_create(c)
         \/ \E t \in Children : ThreadStep(t) \/ RoutineEnds(t) \/ Forget(t)
         \/ \E f \in Foreign : ForeignRegister(f) \/ ForeignUnregister(f)
  PROVE  Scanned'
<1> DEFINE Active == {"name", "barrier", "run", "create"}
           Past == {"run", "create", "stopped", "gone"}
<1>1. \A t \in Children : t \in Threads /\ t # Main /\ t \notin Foreign
  BY Zenon, ThreadsAssumption DEF Threads
<1>2. Main \in Threads /\ Main \notin Foreign /\ before \subseteq Children
  BY Zenon, ThreadsAssumption DEF Threads, RegInv, TypeOK
<1>3. \A u \in Children : pc[u] \in Active => per_thread[u] \in running \/ u \in asked
  BY Zenon DEF Scanned
<1>4. \A t, u \in Children : t # u /\ per_thread[u] # -1 => per_thread[t] # per_thread[u]
  BY Zenon, <1>1 DEF RegInv, Owned
<1>5. \A u \in Children : pc[u] \in Active => per_thread[u] # -1
  BY Zenon, <1>1 DEF RegInv, Owned, NoIndex
<1>6. ASSUME NEW c \in Threads \ Foreign, thread_create(c) PROVE Scanned'
  <2>1. \/ pc' = pc
        \/ \E t \in Children : /\ pc[c] = "run" /\ pc[t] = "none"
                               /\ pc' = [pc EXCEPT ![c] = "create", ![t] = "init"]
    BY Zenon, <1>6 DEF thread_create
  <2>2. UNCHANGED <<faults, cnevars, magic, running, scan, target, before, asked>>
    BY Zenon, <1>6 DEF thread_create
  <2>3. \A u \in Threads : \/ pc'[u] = pc[u]
                           \/ pc[u] = "none" /\ pc'[u] = "init" /\ u \in Children
                           \/ pc[u] = "run" /\ pc'[u] = "create"
    BY <2>1, <1>1 DEF RegInv, TypeOK
  <2> QED
    BY Zenon, <1>1, <1>2, <1>3, <2>2, <2>3, ScanFrame DEF cnevars
<1>7. ASSUME NEW t \in Children, ThreadInit(t) PROVE Scanned'
  <2>1. /\ pc[t] = "init" /\ UNCHANGED <<running, scan, before, asked>>
        /\ \A u \in Threads : u # t => pc'[u] = pc[u]
        /\ pc'[t] \in {"register", "noindex"}
        /\ \A u \in Threads : u # t => per_thread'[u] = per_thread[u]
    BY Zenon, <1>7, <1>1 DEF ThreadInit, Goto, uservars, cnevars, cne_register, RegInv, TypeOK
  <2> QED
    BY Zenon, <1>1, <1>2, <1>3, <2>1, ScanFrame
<1>8. ASSUME NEW t \in Children, thread_register(t) PROVE Scanned'
  <2>1. /\ pc[t] = "register" /\ UNCHANGED <<scan, before, asked>>
        /\ cne_id(t) = per_thread[t] /\ per_thread[t] \notin magic /\ per_thread[t] \in Uids
    BY Zenon, <1>8, <1>1
    DEF thread_register, cne_id, RegInv, TypeOK, Owned, NoIndex, InTable, uservars
  <2>2. per_thread[t] # -1
    BY <2>1 DEF Uids
  <2>3. /\ running' = running \cup {per_thread[t]} /\ per_thread' = per_thread
        /\ pc' = [pc EXCEPT ![t] = "name"]
    BY Zenon, <1>8, <2>1, <2>2 DEF thread_register, Goto, cnevars
  <2>4. \A u \in Threads : pc'[u] = IF u = t THEN "name" ELSE pc[u]
    BY Zenon, <2>3 DEF RegInv, TypeOK
  <2> QED
    BY Zenon, <1>1, <1>2, <1>3, <2>1, <2>3, <2>4, ScanFrame
<1>9. ASSUME NEW t \in Children, SetName(t) PROVE Scanned'
  <2>1. /\ pc[t] = "name" /\ UNCHANGED <<per_thread, running, scan, before, asked>>
        /\ \A u \in Threads : u # t => pc'[u] = pc[u]
        /\ pc'[t] \in {"barrier", "noname"}
    BY Zenon, <1>9, <1>1 DEF SetName, Goto, uservars, cnevars, RegInv, TypeOK
  <2> QED
    BY Zenon, <1>1, <1>2, <1>3, <2>1, ScanFrame
<1>10. ASSUME NEW t \in Children, NEW c \in Threads, Barrier(c, t) PROVE Scanned'
  <2>1. /\ pc[c] = "create" /\ pc[t] = "barrier" /\ pc' = [pc EXCEPT ![c] = "run", ![t] = "run"]
        /\ UNCHANGED <<per_thread, running, scan, before, asked>>
    BY Zenon, <1>10 DEF Barrier, cnevars
  <2>2. \A u \in Threads : \/ pc'[u] = pc[u]
                           \/ pc[u] = "create" /\ pc'[u] = "run"
                           \/ pc[u] = "barrier" /\ pc'[u] = "run" /\ u \in Children
    BY Zenon, <1>1, <2>1 DEF RegInv, TypeOK
  <2> QED
    BY Zenon, <1>1, <1>2, <1>3, <2>1, <2>2, ScanFrame
<1>11. ASSUME NEW t \in Children, thread_unregister(t) PROVE Scanned'
  <2>1. per_thread[t] \in magic /\ per_thread[t] # -1 /\ pc[t] = "stopped"
    BY Zenon, <1>11, <1>1 DEF thread_unregister, RegInv, Owned, NoIndex, InTable
  <2>2. /\ cne_unregister(t, per_thread[t]) /\ running' = running \ {per_thread[t]}
        /\ UNCHANGED <<scan, before, asked>> /\ pc' = [pc EXCEPT ![t] = "gone"]
    BY Zenon, <1>11, <2>1 DEF thread_unregister, Goto, uservars
  <2>3. per_thread' = [per_thread EXCEPT ![t] = -1]
    BY Zenon, <1>1, <2>1, <2>2, Unregister
  <2>4. \A u \in Threads : /\ pc'[u] = IF u = t THEN "gone" ELSE pc[u]
                           /\ per_thread'[u] = IF u = t THEN -1 ELSE per_thread[u]
    BY Zenon, <2>2, <2>3 DEF RegInv, TypeOK
  <2> QED
    BY <1>1, <1>2, <1>3, <1>4, <1>5, <2>1, <2>2, <2>4, ScanFrame
<1>12. ASSUME NEW t \in Children, RoutineEnds(t) PROVE Scanned'
  <2>1. /\ pc[t] = "run" /\ pc' = [pc EXCEPT ![t] = "stopped"]
        /\ running \ {per_thread[t]} \subseteq running'
        /\ UNCHANGED <<per_thread, scan, before, asked>>
    BY Zenon, <1>12 DEF RoutineEnds, Goto, cnevars, uservars
  <2>2. \A u \in Threads : pc'[u] = IF u = t THEN "stopped" ELSE pc[u]
    BY Zenon, <2>1 DEF RegInv, TypeOK
  <2> QED
    BY <1>1, <1>2, <1>3, <1>4, <1>5, <2>1, <2>2, ScanFrame
<1>13. ASSUME NEW t \in Children, Forget(t) PROVE Scanned'
  <2>1. /\ before' = before \ {t} /\ asked' = asked \ {t} /\ UNCHANGED <<running, scan>>
        /\ \A u \in Threads : /\ pc'[u] = IF u = t THEN "none" ELSE pc[u]
                              /\ u # t => per_thread'[u] = per_thread[u]
    BY Zenon, <1>13, <1>1 DEF Forget, Goto, RegInv, TypeOK
  <2> QED
    BY Zenon, <1>1, <1>2, <1>3, <2>1, ScanFrame
<1>14. ASSUME NEW f \in Foreign, ForeignRegister(f) \/ ForeignUnregister(f) PROVE Scanned'
  <2>1. /\ UNCHANGED <<running, scan, before, asked>>
        /\ \A u \in Threads \ {f} : pc'[u] = pc[u] /\ per_thread'[u] = per_thread[u]
    BY <1>14
    DEF ForeignRegister, ForeignUnregister, Goto, cne_register, cne_unregister, cnevars, uservars,
        RegInv, TypeOK, Threads
  <2>2. f \notin Children /\ f # Main
    BY Zenon, ThreadsAssumption
  <2> QED
    BY Zenon, <1>1, <1>2, <1>3, <2>1, <2>2, ScanFrame
<1> QED
  BY Zenon, <1>6, <1>7, <1>8, <1>9, <1>10, <1>11, <1>12, <1>13, <1>14 DEF ThreadStep
(* Steps of the main thread: the slot scanned is the one of a thread that  *)
(* runs only if its flag is set, which ends the scan's hope.               *)
LEMMA ScannedMain ==
  ASSUME RegInv, Scanned, MainActs
  PROVE  Scanned'
<1>1. \A t \in Children : t \in Threads /\ t # Main
  BY Zenon, ThreadsAssumption DEF Threads
<1>2. Main \in Threads /\ before \subseteq Children /\ running \subseteq magic
  BY Zenon DEF Threads, RegInv, TypeOK
<1>3. \A u \in Children : per_thread[u] \in 0 .. MaxThreads - 1 \cup {-1}
  BY Zenon, <1>1 DEF RegInv, TypeOK, Uids
<1>4. /\ \A u \in Children : pc[u] \in {"run", "create"} => per_thread[u] # -1
      /\ \A u \in Children : per_thread[u] # 0
  BY <1>1, <1>2 DEF RegInv, Owned, Placed, NoIndex, initial_uid
<1>5. MaxThreads \in Nat /\ scan.tidx \in 0 .. MaxThreads
  BY Zenon, ThreadsAssumption DEF RegInv, TypeOK
<1>6. CASE thread_wait_all
  <2>1. /\ pc' = [pc EXCEPT ![Main] = "wait"] /\ scan' = [tidx |-> 1, running |-> FALSE]
        /\ before' = {t \in Children : pc[t] \in {"run", "stopped"}}
        /\ UNCHANGED <<per_thread, running, asked>>
    BY Zenon, <1>6 DEF thread_wait_all, Goto, cnevars
  <2>2. \A u \in Threads : pc'[u] = IF u = Main THEN "wait" ELSE pc[u]
    BY Zenon, <2>1 DEF RegInv, TypeOK
  <2>3. \A u \in Children : pc[u] \in {"run", "create"} => ~ (per_thread[u] < 1)
    BY <1>3, <1>4, <1>5
  <2> QED
    BY <1>1, <1>2, <2>1, <2>2, <2>3 DEF Scanned
<1>7. CASE ScanOne
  <2>1. /\ pc[Main] = "wait" /\ UNCHANGED <<pc, per_thread, running, before, asked>>
        /\ scan'.tidx = scan.tidx + 1
        /\ ~ scan'.running => ~ scan.running /\ scan.tidx \notin magic \cap running
    BY Zenon, <1>7 DEF ScanOne, cnevars
  <2>2. scan.tidx + 1 >= 1
    BY <1>5
  <2>3. ASSUME ~ scan'.running, NEW t \in before, pc[t] \in {"run", "create"},
               per_thread[t] < scan.tidx + 1
        PROVE  t \in asked
    <3>1. CASE per_thread[t] < scan.tidx
      BY Zenon, <2>1, <2>3, <3>1 DEF Scanned
    <3>2. CASE per_thread[t] = scan.tidx
      BY Zenon, <1>2, <2>1, <2>3, <3>2 DEF Scanned
    <3> QED
      BY <1>2, <1>3, <1>5, <2>3, <3>1, <3>2
  <2> QED
    BY Zenon, <2>1, <2>2, <2>3 DEF Scanned
<1>8. CASE ScanEnd
  <2>1. pc[Main] = "wait" /\ scan.tidx = MaxThreads /\ UNCHANGED <<per_thread, running, asked>>
    BY Zenon, <1>8 DEF ScanEnd, cnevars
  <2>2. CASE ~ scan.running /\ Goto(Main, "allstopped") /\ UNCHANGED <<scan, before>>
    <3>1. \A u \in Threads : pc'[u] = IF u = Main THEN "allstopped" ELSE pc[u]
      BY Zenon, <2>2 DEF RegInv, TypeOK, Goto
    <3>2. \A t \in before : pc[t] \in {"run", "create"} => per_thread[t] < MaxThreads
      BY <1>2, <1>3, <1>5
    <3> QED
      BY Zenon, <1>1, <1>2, <2>1, <2>2, <3>1, <3>2 DEF Scanned
  <2>3. CASE scan' = [tidx |-> 1, running |-> FALSE] /\ UNCHANGED <<pc, before>>
    <3>1. \A u \in Children : pc[u] \in {"run", "create"} => ~ (per_thread[u] < 1)
      BY <1>3, <1>4, <1>5
    <3> QED
      BY <1>2, <2>1, <2>3, <3>1 DEF Scanned
  <2>4. CASE Goto(Main, "run")
    <3>1. \A u \in Threads : pc'[u] = IF u = Main THEN "run" ELSE pc[u]
      BY Zenon, <2>4 DEF RegInv, TypeOK, Goto
    <3> QED
      BY Zenon, <1>1, <1>2, <2>1, <3>1 DEF Scanned
  <2> QED
    BY Zenon, <1>8, <2>2, <2>3, <2>4 DEF ScanEnd
<1>9. CASE WaitReturns \/ \E tidx \in Uids : thread_stop_running(tidx)
  <2>1. /\ \E l \in {"run", "stop"} : pc' = [pc EXCEPT ![Main] = l]
        /\ UNCHANGED <<per_thread, running, asked>>
    BY Zenon, <1>9 DEF WaitReturns, thread_stop_running, Goto, cnevars
  <2>2. pc'[Main] \in {"run", "stop"} /\ \A u \in Children : pc'[u] = pc[u]
    BY Zenon, <1>1, <1>2, <2>1 DEF RegInv, TypeOK
  <2> QED
    BY Zenon, <2>1, <2>2 DEF Scanned
<1>10. CASE StopRunning
  <2>1. /\ pc' = [pc EXCEPT ![Main] = "run"] /\ running' = running \ {target}
        /\ asked' = asked \cup {t \in Children : per_thread[t] = target}
        /\ UNCHANGED per_thread
    BY Zenon, <1>10 DEF StopRunning, Goto, cnevars
  <2>2. pc'[Main] = "run" /\ \A u \in Children : pc'[u] = pc[u]
    BY Zenon, <1>1, <1>2, <2>1 DEF RegInv, TypeOK
  <2> QED
    BY Zenon, <2>1, <2>2 DEF Scanned
<1> QED
  BY Zenon, <1>6, <1>7, <1>8, <1>9, <1>10 DEF MainActs, MainStep

LEMMA ScannedPreserved == RegInv /\ Scanned /\ [Next]_vars => Scanned'
<1> SUFFICES ASSUME RegInv, Scanned, [Next]_vars PROVE Scanned'
  OBVIOUS
<1>1. CASE UNCHANGED vars
  BY Zenon, <1>1 DEF vars, cnevars, uservars, Scanned
<1>2. CASE Next
  BY Zenon, <1>2, ScannedOthers, ScannedMain DEF Next, MainActs
<1> QED
  BY Zenon, <1>1, <1>2

-------------------------------------------------------------------------------
(***************************************************************************)
(* The theorems.                                                           *)
(***************************************************************************)
(* The inductive invariant of the registration of threads: who owns which  *)
(* index and slot at each place of the code, and what the unlocked scan of *)
(* thread_wait_all has established so far.                                 *)
THEOREM RegistryInvariant == Spec => [](RegInv /\ Scanned)
<1>1. Init => RegInv /\ Scanned
  BY Zenon, RegInitially, ScannedInitially
<1>2. RegInv /\ Scanned /\ [Next]_vars => RegInv' /\ Scanned'
  BY Zenon, RegPreserved, ScannedPreserved
<1> QED
  BY <1>1, <1>2, PTL DEF Spec

(* A thread that is registered has its index, as cne_id tells it. *)
LEMMA IdIsIndex ==
  ASSUME RegInv, NEW t \in Registered
  PROVE  t \in Threads /\ cne_id(t) = per_thread[t] /\ per_thread[t] # -1
         /\ per_thread[t] \in entries
<1>1. t \in Threads /\ pc[t] \notin NoIndex
  BY Zenon DEF Registered, NoIndex
<1> QED
  BY Zenon, <1>1 DEF cne_id, RegInv, Owned

(* cne_register never gives two threads that are registered at the same    *)
(* time the same index, whatever threads come and go and whichever calls   *)
(* of libpthread fail.                                                     *)
THEOREM ThreadIdsUnique == Spec => []IdsUnique
<1>1. RegInv => IdsUnique
  BY Zenon, IdIsIndex DEF IdsUnique, RegInv, Owned
<1> QED
  BY <1>1, RegistryInvariant, PTL

(* As long as no name is refused, the bitmap of the pool, the entries of   *)
(* cne_register, the count of active threads and the table of thread.c     *)
(* agree with the threads there are: no index is lost.                     *)
THEOREM ThreadsBalanced == Spec => []Balanced
<1>1. ASSUME RegInv, "pthread_setname_np" \notin faults
      PROVE  /\ entries \subseteq {cne_id(t) : t \in Registered}
             /\ magic = {cne_id(t) : t \in {u \in Registered \ Foreign : pc[u] # "register"}}
  <2>1. ASSUME NEW e \in entries
        PROVE  \E t \in Registered : cne_id(t) = e /\ per_thread[t] = e
    <3>1. PICK t \in Threads : per_thread[t] = e
      BY Zenon, <1>1 DEF RegInv, Traced
    <3>2. e # -1
      BY <1>1 DEF RegInv, TypeOK, Uids
    <3>3. pc[t] \notin NoIndex /\ pc[t] # "noname"
      BY Zenon, <1>1, <3>1, <3>2 DEF RegInv, Owned, Traced
    <3>4. t \in Registered
      BY Zenon, <1>1, <3>3 DEF Registered, NoIndex, RegInv, TypeOK
    <3> QED
      BY Zenon, <1>1, <3>1, <3>4, IdIsIndex
  <2>2. ASSUME NEW e \in magic
        PROVE  \E t \in {u \in Registered \ Foreign : pc[u] # "register"} : cne_id(t) = e
    <3>1. PICK t \in Registered : cne_id(t) = e /\ per_thread[t] = e
      BY Zenon, <1>1, <2>1 DEF RegInv, Counted
    <3>2. t \in Threads /\ pc[t] \in InTable
      BY Zenon, <1>1, <3>1 DEF RegInv, Owned, Registered
    <3>3. t \notin Foreign
      BY Zenon, <1>1, <3>2 DEF RegInv, Placed, InTable
    <3> QED
      BY Zenon, <3>1, <3>2, <3>3 DEF InTable
  <2>3. ASSUME NEW t \in Registered \ Foreign, pc[t] # "register"
        PROVE  cne_id(t) \in magic
    <3>1. t \in Threads /\ pc[t] \in InTable
      <4>1. t \in {Main} \cup Children
        BY Zenon DEF Registered, Threads
      <4>2. pc[t] # "foreign"
        BY Zenon, <1>1, <4>1 DEF RegInv, Placed, MainPlaces, ChildPlaces
      <4> QED
        BY Zenon, <2>3, <4>2 DEF Registered, InTable
    <3> QED
      BY Zenon, <1>1, <3>1, IdIsIndex DEF RegInv, Owned
  <2> QED
    BY <2>1, <2>2, <2>3
<1>2. ASSUME RegInv
      PROVE  /\ {cne_id(t) : t \in Registered} \subseteq entries
             /\ entries = Uids \ bitmap /\ active = Cardinality(entries)
  BY Zenon, <1>2, IdIsIndex DEF RegInv, Counted
<1>3. RegInv => Balanced
  BY Zenon, <1>1, <1>2 DEF Balanced
<1> QED
  BY <1>3, RegistryInvariant, PTL

(* thread_wait_all returns 0 only when every thread created before the     *)
(* call has left its function or was asked to stop, although it scans the  *)
(* table without the lock while slots are given up and taken again.        *)
THEOREM ThreadsStopped == Spec => []WaitMeansStopped
<1>1. Scanned => WaitMeansStopped
  BY Zenon DEF Scanned, WaitMeansStopped
<1> QED
  BY <1>1, RegistryInvariant, PTL
===============================================================================
