----------------------------- MODULE CacheProofs -----------------------------
(***************************************************************************)
(* What the two users of the shared Redis cache guarantee: the throttle's  *)
(* windows, for any number of workers, keys and caps, and the dashboard    *)
(* cache, for any projects, writes and readers.                            *)
(***************************************************************************)
EXTENDS WindowThrottle, DashboardCache, FiniteSetTheorems, TLAPS

-----------------------------------------------------------------------------
(***************************************************************************)
(* The windows: no cap is exceeded but by the workers, and no request is   *)
(* denied before its cap.                                                  *)
(***************************************************************************)

\* The workers are finitely many, and so are those about to add a key.
LEMMA AddingFinite ==
    ASSUME NEW k \in Key
    PROVE  /\ Cardinality(Client) \in Nat \ {0}
           /\ IsFiniteSet(Adding(k))
           /\ Cardinality(Adding(k)) \in Nat
           /\ Cardinality(Adding(k)) <= Cardinality(Client)
<1>1. Adding(k) \subseteq Client
  BY DEF Adding
<1>2. IsFiniteSet(Client) /\ Client # {}
  BY ThrottleAssumption
<1>3. Cardinality(Client) \in Nat /\ Cardinality(Client) # 0
  BY <1>2, FS_CardinalityType, FS_EmptySet
<1>4. QED
  BY <1>1, <1>2, <1>3, FS_Subset, FS_CardinalityType

\* Types, one step per action.
LEMMA TypeStep == ThrottleTypeOK /\ [ThrottleNext]_throttleVars => ThrottleTypeOK'
<1> SUFFICES ASSUME ThrottleTypeOK, [ThrottleNext]_throttleVars PROVE ThrottleTypeOK'
  OBVIOUS
<1> USE ThrottleAssumption DEF ThrottleTypeOK, Locals, Key
<1>1. ASSUME NEW c \in Client, Arrive(c) PROVE ThrottleTypeOK'
  BY <1>1 DEF Arrive
<1>2. ASSUME NEW c \in Client, Incr(c) PROVE ThrottleTypeOK'
  BY <1>2 DEF Incr, Decide, NextThrottle, Idle
<1>3. ASSUME NEW c \in Client, Add(c) PROVE ThrottleTypeOK'
  BY <1>3 DEF Add, Decide, NextThrottle, Idle
<1>4. ASSUME NEW k \in Key, EndWindow(k) PROVE ThrottleTypeOK'
  BY <1>4 DEF EndWindow
<1>5. CASE UNCHANGED throttleVars
  BY <1>5 DEF throttleVars
<1>6. QED
  BY <1>1, <1>2, <1>3, <1>4, <1>5 DEF ThrottleNext

\* The conjunct of ThrottleInv about one key.
KeyInv(k) ==
    /\ counter[k] = 0 => granted[k] = 0
    /\ granted[k] >= Smaller(counter[k], Cap[k])
    /\ counter[k] > 0 =>
          granted[k] + Cardinality(Adding(k)) + 1
              <= Smaller(counter[k], Cap[k]) + Cardinality(Client)

\* A step that adds no request to those about to add k, and neither counts nor
\* grants under k, keeps what is said about k.
LEMMA Untouched ==
    ASSUME ThrottleTypeOK, NEW k \in Key, KeyInv(k),
           counter'[k] = counter[k], granted'[k] = granted[k],
           counter[k] > 0 => Adding(k)' \subseteq Adding(k)
    PROVE  KeyInv(k)'
<1>1. /\ counter[k] \in Nat /\ granted[k] \in Nat /\ Cap[k] \in Nat \ {0}
  BY ThrottleAssumption DEF ThrottleTypeOK
<1>2. Cardinality(Client) \in Nat /\ IsFiniteSet(Adding(k)) /\ Cardinality(Adding(k)) \in Nat
  BY AddingFinite
<1>3. CASE counter[k] = 0
  BY <1>1, <1>3 DEF KeyInv, Smaller
<1>4. CASE counter[k] > 0
  <2>1. Cardinality(Adding(k)') <= Cardinality(Adding(k)) /\ Cardinality(Adding(k)') \in Nat
    BY <1>2, <1>4, FS_Subset, FS_CardinalityType
  <2>2. QED
    BY <1>1, <1>2, <1>4, <2>1 DEF KeyInv, Smaller
<1>5. QED
  BY <1>1, <1>3, <1>4

\* The invariant is inductive: one step per action, each for every key.
LEMMA ThrottleStep == ThrottleInv /\ [ThrottleNext]_throttleVars => ThrottleInv'
<1> SUFFICES ASSUME ThrottleInv, [ThrottleNext]_throttleVars PROVE ThrottleInv'
  OBVIOUS
<1>1. ThrottleTypeOK /\ ThrottleTypeOK'
  BY TypeStep DEF ThrottleInv
<1>2. \A k \in Key : KeyInv(k)
  BY DEF ThrottleInv, KeyInv
<1>3. ASSUME NEW k \in Key PROVE KeyInv(k)'
  <2> KeyInv(k)
    BY <1>2
  <2>1. ASSUME NEW c \in Client, Arrive(c) PROVE KeyInv(k)'
    <3>1. Adding(k)' \subseteq Adding(k)
      BY <1>1, <2>1 DEF Adding, Arrive, ThrottleTypeOK, Locals
    <3>2. QED
      BY <1>1, <2>1, <3>1, Untouched DEF Arrive
  <2>2. ASSUME NEW c \in Client, Incr(c) PROVE KeyInv(k)'
    <3>1. counter[k] > 0 => Adding(k)' \subseteq Adding(k)
      BY <1>1, <2>2 DEF Adding, Incr, NextThrottle, Idle, ThrottleTypeOK, Locals
    <3>2. CASE counter'[k] = counter[k] /\ granted'[k] = granted[k]
      BY <1>1, <3>1, <3>2, Untouched
    <3>3. CASE ~(counter'[k] = counter[k] /\ granted'[k] = granted[k])
      <4>1. /\ counter[k] > 0
            /\ counter'[k] = counter[k] + 1
            /\ granted'[k] = IF counter[k] + 1 <= Cap[k] THEN granted[k] + 1 ELSE granted[k]
        BY <1>1, <2>2, <3>3 DEF Incr, Decide, WithinCap, ThrottleTypeOK
      <4>2. /\ counter[k] \in Nat /\ granted[k] \in Nat /\ Cap[k] \in Nat \ {0}
            /\ Cardinality(Client) \in Nat /\ IsFiniteSet(Adding(k))
            /\ Cardinality(Adding(k)) \in Nat
        BY <1>1, AddingFinite, ThrottleAssumption DEF ThrottleTypeOK
      <4>3. Cardinality(Adding(k)') <= Cardinality(Adding(k)) /\ Cardinality(Adding(k)') \in Nat
        BY <3>1, <4>1, <4>2, FS_Subset, FS_CardinalityType
      <4>4. QED
        BY <4>1, <4>2, <4>3 DEF KeyInv, Smaller
    <3>4. QED
      BY <3>2, <3>3
  <2>3. ASSUME NEW c \in Client, Add(c) PROVE KeyInv(k)'
    <3>1. CASE req[c].key # k
      <4>1. Adding(k)' \subseteq Adding(k)
        BY <1>1, <2>3 DEF Adding, Add, NextThrottle, Idle, ThrottleTypeOK, Locals
      <4>2. counter'[k] = counter[k] /\ granted'[k] = granted[k]
        BY <1>1, <2>3, <3>1 DEF Add, Decide, ThrottleTypeOK
      <4>3. QED
        BY <1>1, <4>1, <4>2, Untouched
    <3>2. CASE req[c].key = k
      <4>1. c \in Adding(k) /\ Adding(k)' = Adding(k) \ {c}
        BY <1>1, <2>3, <3>2 DEF Adding, Add, NextThrottle, Idle, ThrottleTypeOK, Locals
      <4>2. /\ counter'[k] = IF counter[k] = 0 THEN 1 ELSE counter[k]
            /\ granted'[k] = granted[k] + 1
        <5>1. 1 <= Cap[k] /\ counter \in [Key -> Nat] /\ granted \in [Key -> Nat]
          BY <1>1, ThrottleAssumption DEF ThrottleTypeOK
        <5>2. QED
          BY <2>3, <3>2, <5>1 DEF Add, Decide, WithinCap
      <4>3. /\ counter[k] \in Nat /\ granted[k] \in Nat /\ Cap[k] \in Nat \ {0}
            /\ Cardinality(Client) \in Nat /\ IsFiniteSet(Adding(k))
            /\ Cardinality(Adding(k)) \in Nat
            /\ Cardinality(Adding(k)) <= Cardinality(Client)
        BY <1>1, AddingFinite, ThrottleAssumption DEF ThrottleTypeOK
      <4>4. Cardinality(Adding(k)') = Cardinality(Adding(k)) - 1
        BY <4>1, <4>3, FS_RemoveElement
      <4>5. QED
        BY <4>2, <4>3, <4>4 DEF KeyInv, Smaller
    <3>3. QED
      BY <3>1, <3>2
  <2>4. ASSUME NEW j \in Key, EndWindow(j) PROVE KeyInv(k)'
    <3>1. CASE j = k
      <4>1. counter'[k] = 0 /\ granted'[k] = 0 /\ Cap[k] \in Nat \ {0}
        BY <1>1, <2>4, <3>1, ThrottleAssumption DEF EndWindow, ThrottleTypeOK
      <4>2. QED
        BY <4>1 DEF KeyInv, Smaller
    <3>2. CASE j # k
      BY <1>1, <2>4, <3>2, Untouched DEF EndWindow, ThrottleTypeOK, Adding
    <3>3. QED
      BY <3>1, <3>2
  <2>5. CASE UNCHANGED throttleVars
    BY <1>1, <2>5, Untouched DEF throttleVars, Adding
  <2>6. QED
    BY <2>1, <2>2, <2>3, <2>4, <2>5 DEF ThrottleNext
<1>4. QED
  BY <1>1, <1>3 DEF ThrottleInv, KeyInv

\* The invariant holds in every reachable state.
THEOREM ThrottleSafe == ThrottleSpec => []ThrottleInv
<1>1. ThrottleInit => ThrottleInv
  BY ThrottleAssumption DEF ThrottleInit, ThrottleInv, ThrottleTypeOK, Locals, Idle, Smaller
<1>2. QED
  BY <1>1, ThrottleStep, PTL DEF ThrottleSpec

\* However many workers there are, a window lets through at most
\* Cap + Cardinality(Client) - 1 requests (throttles.py:51-72).
THEOREM CapExceededByWorkersOnly == ThrottleSpec => []CapNearlyHolds
<1>1. ThrottleInv => CapNearlyHolds
  <2> SUFFICES ASSUME ThrottleInv, NEW k \in Key
               PROVE granted[k] + 1 <= Cap[k] + Cardinality(Client)
    BY DEF CapNearlyHolds
  <2>1. /\ counter[k] \in Nat /\ granted[k] \in Nat /\ Cap[k] \in Nat \ {0}
        /\ Cardinality(Client) \in Nat \ {0} /\ Cardinality(Adding(k)) \in Nat
    BY AddingFinite, ThrottleAssumption DEF ThrottleInv, ThrottleTypeOK
  <2>2. QED
    BY <2>1 DEF ThrottleInv, Smaller
<1>2. QED
  BY <1>1, ThrottleSafe, PTL

\* A request is denied only in a window that let its cap through.
THEOREM DenialsJustified == ThrottleSpec => DeniedOnlyAtCap
<1> DEFINE A == \A k \in Key : counter'[k] > counter[k] /\ granted'[k] = granted[k]
                                => granted[k] >= Cap[k]
<1>1. ThrottleInv /\ [ThrottleNext]_throttleVars => [A]_throttleVars
  <2> SUFFICES ASSUME ThrottleInv, ThrottleNext, NEW k \in Key,
                      counter'[k] > counter[k], granted'[k] = granted[k]
               PROVE  granted[k] >= Cap[k]
    OBVIOUS
  <2>1. /\ counter[k] \in Nat /\ granted[k] \in Nat /\ Cap[k] \in Nat \ {0}
        /\ counter \in [Key -> Nat] /\ granted \in [Key -> Nat]
        /\ granted[k] >= Smaller(counter[k], Cap[k])
    BY ThrottleAssumption DEF ThrottleInv, ThrottleTypeOK
  <2>2. ASSUME NEW c \in Client, Arrive(c) PROVE granted[k] >= Cap[k]
    BY <2>1, <2>2 DEF Arrive
  <2>3. ASSUME NEW c \in Client, Incr(c) PROVE granted[k] >= Cap[k]
    <3>1. counter'[k] = counter[k] + 1 /\ ~(counter[k] + 1 <= Cap[k])
      BY <2>1, <2>3 DEF Incr, Decide, WithinCap
    <3>2. QED
      BY <2>1, <3>1 DEF Smaller
  <2>4. ASSUME NEW c \in Client, Add(c) PROVE granted[k] >= Cap[k]
    BY <2>1, <2>4 DEF Add, Decide, WithinCap
  <2>5. ASSUME NEW j \in Key, EndWindow(j) PROVE granted[k] >= Cap[k]
    BY <2>1, <2>5 DEF EndWindow
  <2>6. QED
    BY <2>2, <2>3, <2>4, <2>5 DEF ThrottleNext
<1>2. QED
  BY <1>1, ThrottleSafe, PTL DEF ThrottleSpec, DeniedOnlyAtCap, A

-----------------------------------------------------------------------------
(***************************************************************************)
(* The dashboards: none is older than the writes that were signalled when  *)
(* it was asked for, unless racing first writes set the version counter    *)
(* back.                                                                   *)
(***************************************************************************)

\* Types, one step per action.
LEMMA DashboardTypes == TypeOK /\ [Next]_dashboardVars => TypeOK'
<1> SUFFICES ASSUME TypeOK, [Next]_dashboardVars PROVE TypeOK'
  OBVIOUS
<1> USE DashboardAssumption DEF TypeOK
<1>1. ASSUME NEW w \in Writer, WriterStep(w) PROVE TypeOK'
  BY <1>1 DEF WriterStep, SaveRow, SaveInTransaction, SilentWrite, Bump, CreateVersion,
              Bumped, Commit, WriterKilled
<1>2. ASSUME NEW r \in Reader, ReaderStep(r) PROVE TypeOK'
  <2>1. ASSUME NEW P \in SUBSET Project \ {{}}, StartRead(r, P) PROVE TypeOK'
    BY <2>1 DEF StartRead, ReadLocals, NoKey, CacheKey, Done, WritesOf
  <2>2. ASSUME NEW p \in Project, GetVersion(r, p) PROVE TypeOK'
    <3>1. reader[r] \in ReadLocals /\ version[p] \in Nat
      OBVIOUS
    <3>2. [reader[r].key EXCEPT ![p] = version[p]] \in CacheKey
      BY <3>1 DEF ReadLocals, CacheKey
    <3>3. [reader[r] EXCEPT !.key[p] = version[p]] \in ReadLocals
      BY <3>1, <3>2 DEF ReadLocals
    <3>4. QED
      BY <2>2, <3>3 DEF GetVersion
  <2>3. ASSUME Lookup(r) PROVE TypeOK'
    <3>1. reader[r] \in ReadLocals
      OBVIOUS
    <3>2. [reader[r] EXCEPT !.at = "compute"] \in ReadLocals
      BY <3>1 DEF ReadLocals
    <3>3. ASSUME NEW e \in entries
          PROVE  [reader[r] EXCEPT !.at = "served", !.data = e.data, !.scope = e.scope] \in ReadLocals
      BY <3>1, <3>3 DEF ReadLocals, Entry
    <3>4. CASE reader' = [reader EXCEPT ![r].at = "compute"]
      BY <2>3, <3>2, <3>4 DEF Lookup
    <3>5. ASSUME NEW e \in entries,
                 reader' = [reader EXCEPT ![r].at = "served", ![r].data = e.data, ![r].scope = e.scope]
          PROVE  TypeOK'
      BY <2>3, <3>3, <3>5 DEF Lookup
    <3>6. QED
      BY <2>3, <3>4, <3>5 DEF Lookup
  <2>4. ASSUME Compute(r) PROVE TypeOK'
    <3>1. PICK seen \in SUBSET reader[r].projects :
            reader' = [reader EXCEPT ![r].at = "store", ![r].data = rows \cap WritesOf(seen),
                                     ![r].scope = seen]
      BY <2>4 DEF Compute
    <3>2. reader[r] \in ReadLocals /\ rows \cap WritesOf(seen) \subseteq Writer
      OBVIOUS
    <3>3. [reader[r] EXCEPT !.at = "store", !.data = rows \cap WritesOf(seen), !.scope = seen] \in ReadLocals
      BY <3>2 DEF ReadLocals
    <3>4. QED
      BY <2>4, <3>1, <3>3 DEF Compute
  <2>5. ASSUME Store(r) PROVE TypeOK'
    BY <2>5 DEF Store, CacheSet, Entry, ReadLocals
  <2>6. QED
    BY <1>2, <2>1, <2>2, <2>3, <2>4, <2>5 DEF ReaderStep
<1>3. ASSUME NEW e \in entries, Expire(e) PROVE TypeOK'
  BY <1>3 DEF Expire
<1>4. CASE UNCHANGED dashboardVars
  BY <1>4 DEF dashboardVars
<1>5. QED
  BY <1>1, <1>2, <1>3, <1>4 DEF Next

\* The conjunct of FreshInv about one reader.
ReaderInv(r) ==
    /\ reader[r].owed \subseteq Done \cap WritesOf(reader[r].projects)
    /\ \A p \in Project :
          reader[r].key[p] # NoVersion =>
              /\ p \in reader[r].projects
              /\ p \notin reset => reader[r].key[p] <= version[p]
    /\ reader[r].at \in {"compute", "store", "served"} =>
          \A p \in reader[r].projects : reader[r].key[p] # NoVersion
    /\ reader[r].at = "store" => Recent(reader[r].key, reader[r].data, reader[r].scope)
    /\ reader[r].at = "served" =>
          \A w \in reader[r].owed : ProjectOf[w] \in reader[r].scope \ reset => w \in reader[r].data

Parts ==
    /\ TypeOK
    /\ Done \subseteq rows
    /\ \A e \in entries : Recent(e.key, e.data, e.scope)
    /\ \A r \in Reader : ReaderInv(r)

\* FreshInv is the conjunction of these parts.
LEMMA PartsOfFreshInv == FreshInv <=> Parts
BY DEF FreshInv, Parts, ReaderInv, FreshAfterBump

\* A step that moves no version back, completes a write only with a new
\* version of its project, and leaves the readers alone keeps data recent.
LEMMA RecentKept ==
    ASSUME TypeOK, NEW k \in CacheKey, NEW d, NEW c \in SUBSET Project, Recent(k, d, c),
           reader' = reader, reset \subseteq reset',
           \A p \in Project \ reset' : version'[p] \in Nat /\ version'[p] >= version[p],
           \A w \in Writer : w \in Done' => \/ w \in Done \/ ProjectOf[w] \in reset'
                                            \/ version'[ProjectOf[w]] > version[ProjectOf[w]]
    PROVE  Recent(k, d, c)'
<1> SUFFICES ASSUME NEW p \in c \ reset', k[p] # NoVersion
             PROVE  /\ k[p] <= version'[p]
                    /\ k[p] = version'[p] => Done' \cap WritesOf({p}) \subseteq d
                    /\ \A r \in Reader :
                          reader'[r].key[p] = k[p] => reader'[r].owed \cap WritesOf({p}) \subseteq d
  BY DEF Recent, WritesOf
<1>1. k[p] \in Nat /\ version[p] \in Nat /\ k[p] <= version[p]
  BY DEF CacheKey, Recent, TypeOK
<1>2. ASSUME k[p] = version'[p] PROVE Done' \cap WritesOf({p}) \subseteq d
  <2>1. version'[p] = version[p]
    BY <1>1, <1>2
  <2>2. Done \cap WritesOf({p}) \subseteq d
    BY <1>2, <2>1 DEF Recent
  <2>3. Done' \cap WritesOf({p}) \subseteq Done
    BY <1>1, <2>1 DEF Done, WritesOf
  <2>4. QED
    BY <2>2, <2>3
<1>3. /\ k[p] <= version'[p]
      /\ \A r \in Reader :
            reader'[r].key[p] = k[p] => reader'[r].owed \cap WritesOf({p}) \subseteq d
  <2>1. version'[p] \in Nat /\ version'[p] >= version[p]
    OBVIOUS
  <2>2. QED
    BY <1>1, <2>1 DEF Recent
<1>4. QED
  BY <1>2, <1>3

\* A write step keeps the invariant when versions and complete writes change
\* as above.
LEMMA WriterStepKeeps ==
    ASSUME Parts, TypeOK', entries' = entries, reader' = reader,
           reset \subseteq reset',
           \A p \in Project \ reset' : version'[p] >= version[p],
           \A w \in Writer : w \in Done' => \/ w \in Done \/ ProjectOf[w] \in reset'
                                            \/ version'[ProjectOf[w]] > version[ProjectOf[w]],
           Done \subseteq Done'
    PROVE  /\ \A e \in entries' : Recent(e.key, e.data, e.scope)'
           /\ \A r \in Reader : ReaderInv(r)'
<1>1. \A p \in Project : version[p] \in Nat /\ version'[p] \in Nat
  BY DEF Parts, TypeOK
<1>3. ASSUME NEW e \in entries' PROVE Recent(e.key, e.data, e.scope)'
  <2>1. e \in entries /\ e.key \in CacheKey /\ e.scope \in SUBSET Project /\ Recent(e.key, e.data, e.scope)
    BY DEF Parts, TypeOK, Entry
  <2>2. QED
    BY <1>1, <2>1, RecentKept DEF Parts
<1>4. ASSUME NEW r \in Reader PROVE ReaderInv(r)'
  <2>1. ReaderInv(r) /\ reader[r] \in ReadLocals
    BY DEF Parts, TypeOK
  <2>2. ASSUME reader[r].at = "store" PROVE Recent(reader[r].key, reader[r].data, reader[r].scope)'
    <3>1. PICK k \in CacheKey, d \in SUBSET Writer, c \in SUBSET Project :
            k = reader[r].key /\ d = reader[r].data /\ c = reader[r].scope
      BY <2>1 DEF ReadLocals
    <3>2. Recent(k, d, c)
      BY <2>1, <2>2, <3>1 DEF ReaderInv
    <3>3. Recent(k, d, c)'
      BY <1>1, <3>1, <3>2, RecentKept DEF Parts
    <3>4. QED
      BY <3>1, <3>3 DEF Recent
  <2>3. \A p \in Project \ reset' : reader[r].key[p] # NoVersion => reader[r].key[p] <= version'[p]
    BY <1>1, <2>1 DEF ReaderInv, ReadLocals, CacheKey
  <2>4. QED
    BY <2>1, <2>2, <2>3 DEF ReaderInv, WritesOf
<1>5. QED
  BY <1>3, <1>4

\* Steps of the writes.
LEMMA WritesKeepFresh ==
    ASSUME Parts, TypeOK', NEW w \in Writer, WriterStep(w)
    PROVE  Parts'
<1> USE DashboardAssumption
<1>1. TypeOK /\ Done \subseteq rows /\ ProjectOf[w] \in Project
  BY DEF Parts
<1>2. ASSUME SaveRow(w) \/ SaveInTransaction(w) \/ SilentWrite(w) \/ Commit(w) \/ WriterKilled(w)
      PROVE  Parts'
  <2>1. UNCHANGED <<version, reset, entries, reader>> /\ rows \subseteq rows'
    BY <1>2 DEF SaveRow, SaveInTransaction, SilentWrite, Commit, WriterKilled
  <2>2. Done' = Done
    BY <1>1, <1>2 DEF TypeOK, Done, SaveRow, SaveInTransaction, SilentWrite, Commit, WriterKilled
  <2>3. \A p \in Project : version'[p] >= version[p]
    BY <1>1, <2>1 DEF TypeOK
  <2>4. QED
    BY <1>1, <2>1, <2>2, <2>3, WriterStepKeeps DEF Parts
<1>3. ASSUME writer' = Bumped(w), UNCHANGED <<rows, entries, reader>>, reset \subseteq reset',
             writer[w] # "done",
             \A p \in Project \ reset' : version'[p] >= version[p],
             ProjectOf[w] \notin reset' => version'[ProjectOf[w]] > version[ProjectOf[w]]
      PROVE  Parts'
  <2>1. Done' = IF w \in rows THEN Done \cup {w} ELSE Done
    BY <1>1, <1>3 DEF TypeOK, Done, Bumped
  <2>2. QED
    BY <1>1, <1>3, <2>1, WriterStepKeeps DEF Parts
<1>4. ASSUME Bump(w) PROVE Parts'
  <2>1. CASE version[ProjectOf[w]] > 0
    <3>1. version' = [version EXCEPT ![ProjectOf[w]] = @ + 1] /\ writer' = Bumped(w)
      BY <1>4, <2>1 DEF Bump
    <3>2. UNCHANGED <<rows, reset, entries, reader>> /\ writer[w] # "done"
      BY <1>4 DEF Bump
    <3>3. /\ \A p \in Project : version'[p] >= version[p]
          /\ version'[ProjectOf[w]] > version[ProjectOf[w]]
      BY <1>1, <3>1 DEF TypeOK
    <3>4. QED
      BY <1>3, <3>1, <3>2, <3>3
  <2>2. CASE ~ (version[ProjectOf[w]] > 0)
    <3>1. UNCHANGED <<rows, version, reset, entries, reader>> /\ Done' = Done
      BY <1>1, <1>4, <2>2 DEF Bump, Done, TypeOK
    <3>2. \A p \in Project : version'[p] >= version[p]
      BY <1>1, <3>1 DEF TypeOK
    <3>3. QED
      BY <1>1, <3>1, <3>2, WriterStepKeeps DEF Parts
  <2>3. QED
    BY <2>1, <2>2
<1>5. ASSUME CreateVersion(w) PROVE Parts'
  <2>1. /\ version' = [version EXCEPT ![ProjectOf[w]] = 1] /\ writer' = Bumped(w)
        /\ UNCHANGED <<rows, entries, reader>> /\ writer[w] # "done"
        /\ reset' = IF version[ProjectOf[w]] > 0 THEN reset \cup {ProjectOf[w]} ELSE reset
    BY <1>5 DEF CreateVersion
  <2>2. version \in [Project -> Nat]
    BY <1>1 DEF TypeOK
  <2>3. ProjectOf[w] \notin reset' => version[ProjectOf[w]] = 0
    BY <1>1, <2>1, <2>2
  <2>4. /\ \A p \in Project \ reset' : version'[p] >= version[p]
        /\ ProjectOf[w] \notin reset' => version'[ProjectOf[w]] > version[ProjectOf[w]]
    BY <1>1, <2>1, <2>2, <2>3
  <2>5. QED
    BY <1>3, <2>1, <2>4
<1>6. QED
  BY <1>2, <1>4, <1>5 DEF WriterStep

\* A reader that begins, or reads one more current version, or keeps its key,
\* leaves data recent.
LEMMA RecentForReaders ==
    ASSUME NEW k \in CacheKey, NEW d, NEW c \in SUBSET Project, Recent(k, d, c), version' = version, reset' = reset, writer' = writer,
           \A r \in Reader, p \in Project :
              reader'[r].key[p] # NoVersion =>
                 \/ reader'[r].owed = reader[r].owed /\ reader'[r].key[p] = reader[r].key[p]
                 \/ reader'[r].owed \subseteq Done /\ reader'[r].key[p] = version[p]
    PROVE  Recent(k, d, c)'
<1> SUFFICES ASSUME NEW p \in c \ reset, p \in Project, k[p] # NoVersion,
                    NEW r \in Reader, reader'[r].key[p] = k[p]
             PROVE  reader'[r].owed \cap WritesOf({p}) \subseteq d
  BY DEF Recent, Done, WritesOf
<1>1. CASE reader'[r].owed = reader[r].owed /\ reader'[r].key[p] = reader[r].key[p]
  BY <1>1 DEF Recent
<1>2. CASE reader'[r].owed \subseteq Done /\ reader'[r].key[p] = version[p]
  BY <1>2 DEF Recent
<1>3. QED
  BY <1>1, <1>2

\* What one reader does not change of the others, and of the entries.
LEMMA OthersKeepFresh ==
    ASSUME Parts, NEW r \in Reader, version' = version, reset' = reset, writer' = writer, rows' = rows,
           \A s \in Reader \ {r} : reader'[s] = reader[s],
           \A s \in Reader, p \in Project :
              reader'[s].key[p] # NoVersion =>
                 \/ reader'[s].owed = reader[s].owed /\ reader'[s].key[p] = reader[s].key[p]
                 \/ reader'[s].owed \subseteq Done /\ reader'[s].key[p] = version[p]
    PROVE  /\ Done' \subseteq rows'
           /\ \A e \in entries : Recent(e.key, e.data, e.scope)'
           /\ \A s \in Reader \ {r} : ReaderInv(s)'
           /\ \A k \in CacheKey, d \in SUBSET Writer, c \in SUBSET Project : Recent(k, d, c) => Recent(k, d, c)'
<1>1. Done' \subseteq rows'
  BY DEF Parts, Done
<1>2. ASSUME NEW k \in CacheKey, NEW d \in SUBSET Writer, NEW c \in SUBSET Project, Recent(k, d, c)
      PROVE  Recent(k, d, c)'
  BY <1>2, RecentForReaders
<1>3. \A e \in entries : Recent(e.key, e.data, e.scope)'
  BY <1>2 DEF Parts, TypeOK, Entry
<1>4. ASSUME NEW s \in Reader \ {r} PROVE ReaderInv(s)'
  <2>1. ReaderInv(s) /\ reader[s] \in ReadLocals /\ reader'[s] = reader[s]
    BY DEF Parts, TypeOK
  <2>2. ASSUME reader[s].at = "store" PROVE Recent(reader[s].key, reader[s].data, reader[s].scope)'
    <3>1. PICK k \in CacheKey, d \in SUBSET Writer, c \in SUBSET Project :
            k = reader[s].key /\ d = reader[s].data /\ c = reader[s].scope
      BY <2>1 DEF ReadLocals
    <3>2. Recent(k, d, c)'
      BY <1>2, <2>1, <2>2, <3>1 DEF ReaderInv
    <3>3. QED
      BY <2>1, <3>1, <3>2 DEF Recent
  <2>3. QED
    BY <2>1, <2>2 DEF ReaderInv, Done, WritesOf
<1>5. QED
  BY <1>1, <1>2, <1>3, <1>4

\* What is in a recent aggregate is all a request with its key is owed.
LEMMA RecentServes ==
    ASSUME Parts, NEW r \in Reader, NEW d, NEW c, Recent(reader[r].key, d, c),
           \A p \in reader[r].projects : reader[r].key[p] # NoVersion
    PROVE  \A w \in reader[r].owed : ProjectOf[w] \in c \ reset => w \in d
<1> SUFFICES ASSUME NEW w \in reader[r].owed, ProjectOf[w] \in c \ reset PROVE w \in d
  OBVIOUS
<1>1. w \in Writer /\ ProjectOf[w] \in reader[r].projects
  BY DEF Parts, ReaderInv, WritesOf
<1>2. ProjectOf[w] \in Project /\ w \in WritesOf({ProjectOf[w]})
  BY <1>1, DashboardAssumption DEF WritesOf
<1>3. QED
  BY <1>1, <1>2 DEF Recent

\* Steps of the readers.
LEMMA ReadsKeepFresh ==
    ASSUME Parts, TypeOK', NEW r \in Reader, ReaderStep(r)
    PROVE  Parts'
<1> USE DashboardAssumption
<1>1. /\ TypeOK /\ ReaderInv(r) /\ reader[r] \in ReadLocals
      /\ \A e \in entries : Recent(e.key, e.data, e.scope)
      /\ \A p \in Project : version[p] \in Nat
  BY DEF Parts, TypeOK
<1>2. ASSUME NEW P \in SUBSET Project \ {{}}, StartRead(r, P) PROVE Parts'
  <2>1. /\ UNCHANGED <<rows, version, reset, entries, writer>>
        /\ reader' = [reader EXCEPT ![r] =
              [at |-> "key", projects |-> P, key |-> NoKey,
               owed |-> Done \cap WritesOf(P), data |-> {}, scope |-> {}]]
    BY <1>2 DEF StartRead
  <2>2. /\ reader'[r] = [at |-> "key", projects |-> P, key |-> NoKey,
                         owed |-> Done \cap WritesOf(P), data |-> {}, scope |-> {}]
        /\ \A s \in Reader \ {r} : reader'[s] = reader[s]
    BY <1>1, <2>1 DEF TypeOK
  <2>3. ReaderInv(r)'
    BY <2>1, <2>2 DEF ReaderInv, NoKey, Done, WritesOf
  <2>4. QED
    BY <2>1, <2>2, <2>3, OthersKeepFresh DEF Parts, NoKey
<1>3. ASSUME NEW p \in Project, GetVersion(r, p) PROVE Parts'
  <2>1. /\ UNCHANGED <<rows, version, reset, entries, writer>>
        /\ \A s \in Reader \ {r} : reader'[s] = reader[s]
        /\ reader[r].at = "key" /\ p \in reader[r].projects
        /\ reader'[r] = [reader[r] EXCEPT !.key = [reader[r].key EXCEPT ![p] = version[p]]]
    BY <1>1, <1>3 DEF GetVersion, TypeOK
  <2>2. /\ reader'[r].at = "key" /\ reader'[r].projects = reader[r].projects
        /\ reader'[r].owed = reader[r].owed
        /\ reader'[r].key[p] = version[p]
        /\ \A q \in Project \ {p} : reader'[r].key[q] = reader[r].key[q]
    BY <1>1, <2>1 DEF ReadLocals, CacheKey
  <2>3. reader[r].owed \subseteq Done
    BY <1>1 DEF ReaderInv
  <2>4. ReaderInv(r)'
    BY <1>1, <2>1, <2>2 DEF ReaderInv, Done, WritesOf
  <2>5. \A s \in Reader, q \in Project :
           reader'[s].key[q] # NoVersion =>
              \/ reader'[s].owed = reader[s].owed /\ reader'[s].key[q] = reader[s].key[q]
              \/ reader'[s].owed \subseteq Done /\ reader'[s].key[q] = version[q]
    <3>1. ASSUME NEW q \in Project, q # p PROVE reader'[r].key[q] = reader[r].key[q]
      BY <2>2, <3>1
    <3>2. QED
      BY <2>1, <2>2, <2>3, <3>1
  <2>6. \A s \in Reader \ {r} : ReaderInv(s)'
    BY <2>1, <2>5, OthersKeepFresh
  <2>7. Done' \subseteq rows' /\ \A e \in entries : Recent(e.key, e.data, e.scope)'
    BY <2>1, <2>5, OthersKeepFresh
  <2>8. entries' = entries
    BY <2>1
  <2>9. QED
    BY <2>4, <2>6, <2>7, <2>8 DEF Parts
<1>4. ASSUME Lookup(r) PROVE Parts'
  <2>0. /\ UNCHANGED <<rows, version, reset, entries, writer>>
        /\ \A p \in reader[r].projects : reader[r].key[p] # NoVersion
        /\ \/ reader' = [reader EXCEPT ![r].at = "compute"]
           \/ \E e \in entries : /\ e.key = reader[r].key
                                /\ reader' = [reader EXCEPT ![r].at = "served", ![r].data = e.data,
                                                           ![r].scope = e.scope]
    BY <1>4, Zenon DEF Lookup
  <2>1. /\ \A s \in Reader \ {r} : reader'[s] = reader[s]
        /\ reader'[r].projects = reader[r].projects
        /\ reader'[r].owed = reader[r].owed /\ reader'[r].key = reader[r].key
        /\ \/ reader'[r].at = "compute"
           \/ \E e \in entries : /\ e.key = reader[r].key /\ reader'[r].at = "served"
                                /\ reader'[r].data = e.data /\ reader'[r].scope = e.scope
    <3>1. CASE reader' = [reader EXCEPT ![r].at = "compute"]
      BY <1>1, <3>1 DEF TypeOK, ReadLocals
    <3>2. ASSUME NEW e \in entries, e.key = reader[r].key,
                 reader' = [reader EXCEPT ![r].at = "served", ![r].data = e.data, ![r].scope = e.scope]
          PROVE  /\ \A s \in Reader \ {r} : reader'[s] = reader[s]
                 /\ reader'[r].projects = reader[r].projects
                 /\ reader'[r].owed = reader[r].owed /\ reader'[r].key = reader[r].key
                 /\ reader'[r].at = "served" /\ reader'[r].data = e.data /\ reader'[r].scope = e.scope
      BY <1>1, <3>2 DEF TypeOK, ReadLocals
    <3>3. QED
      BY <2>0, <3>1, <3>2
  <2>2. ReaderInv(r)'
    <3>1. CASE reader'[r].at = "compute"
      BY <1>1, <2>0, <2>1, <3>1 DEF ReaderInv, Done, WritesOf
    <3>2. ASSUME NEW e \in entries, e.key = reader[r].key, reader'[r].at = "served",
                 reader'[r].data = e.data, reader'[r].scope = e.scope
          PROVE  ReaderInv(r)'
      <4>1. Recent(reader[r].key, e.data, e.scope)
        BY <1>1, <3>2
      <4>2. \A w \in reader[r].owed : ProjectOf[w] \in e.scope \ reset => w \in e.data
        BY <2>0, <4>1, RecentServes
      <4>3. QED
        BY <1>1, <2>0, <2>1, <3>2, <4>2 DEF ReaderInv, Done, WritesOf
    <3>3. QED
      BY <2>1, <3>1, <3>2
  <2>3. QED
    BY <2>0, <2>1, <2>2, OthersKeepFresh DEF Parts
<1>5. ASSUME Compute(r) PROVE Parts'
  <2>0. PICK seen \in SUBSET reader[r].projects :
          reader' = [reader EXCEPT ![r].at = "store", ![r].data = rows \cap WritesOf(seen),
                                   ![r].scope = seen]
    BY <1>5 DEF Compute
  <2> DEFINE d == rows \cap WritesOf(seen)
  <2>1. /\ UNCHANGED <<rows, version, reset, entries, writer>>
        /\ \A s \in Reader \ {r} : reader'[s] = reader[s]
        /\ reader[r].at = "compute" /\ reader'[r].at = "store" /\ reader'[r].data = d
        /\ reader'[r].scope = seen
        /\ reader'[r].projects = reader[r].projects
        /\ reader'[r].owed = reader[r].owed /\ reader'[r].key = reader[r].key
    BY <1>1, <1>5, <2>0 DEF Compute, TypeOK, ReadLocals
  <2>2. Done \subseteq rows /\ \A s \in Reader : reader[s].owed \subseteq Done
    BY DEF Parts, ReaderInv, Done
  <2>3. \A p \in seen \ reset : reader[r].key[p] # NoVersion =>
            WritesOf({p}) \subseteq WritesOf(seen) /\ reader[r].key[p] <= version[p]
    BY <1>1 DEF ReaderInv, WritesOf, ReadLocals
  <2>4. \A s \in Reader : reader'[s].owed = reader[s].owed
    BY <2>1
  <2>5. Recent(reader[r].key, reader[r].data, reader[r].scope)'
    BY <2>1, <2>2, <2>3, <2>4 DEF Recent, Done, WritesOf
  <2>6. ReaderInv(r)'
    BY <1>1, <2>1, <2>5 DEF ReaderInv, Done, WritesOf
  <2>7. QED
    BY <2>1, <2>6, OthersKeepFresh DEF Parts
<1>6. ASSUME Store(r) PROVE Parts'
  <2>1. /\ UNCHANGED <<rows, version, reset, writer>>
        /\ entries' = CacheSet(reader[r].key, reader[r].data, reader[r].scope)
        /\ \A s \in Reader \ {r} : reader'[s] = reader[s]
        /\ reader[r].at = "store" /\ reader'[r].at = "served"
        /\ reader'[r].projects = reader[r].projects /\ reader'[r].data = reader[r].data
        /\ reader'[r].scope = reader[r].scope
        /\ reader'[r].owed = reader[r].owed /\ reader'[r].key = reader[r].key
    BY <1>1, <1>6 DEF Store, TypeOK, ReadLocals
  <2>2. PICK k \in CacheKey, d \in SUBSET Writer, c \in SUBSET Project :
          k = reader[r].key /\ d = reader[r].data /\ c = reader[r].scope
    BY <1>1 DEF ReadLocals
  <2>3. Recent(k, d, c) /\ \A w \in reader[r].owed : ProjectOf[w] \in c \ reset => w \in d
    BY <1>1, <2>1, <2>2, RecentServes DEF ReaderInv
  <2>4. ReaderInv(r)'
    BY <1>1, <2>1, <2>2, <2>3 DEF ReaderInv, Done, WritesOf
  <2>5. /\ Done' \subseteq rows'
        /\ \A e \in entries : Recent(e.key, e.data, e.scope)'
        /\ \A s \in Reader \ {r} : ReaderInv(s)'
        /\ Recent(k, d, c)'
    BY <2>1, <2>3, OthersKeepFresh
  <2>6. \A e \in entries' : Recent(e.key, e.data, e.scope)'
    BY <2>1, <2>2, <2>5 DEF CacheSet
  <2>7. QED
    BY <2>4, <2>5, <2>6 DEF Parts
<1>7. QED
  BY <1>2, <1>3, <1>4, <1>5, <1>6 DEF ReaderStep

\* The invariant is inductive.
LEMMA FreshStep ==
    ASSUME FreshInv, [Next]_dashboardVars
    PROVE  FreshInv'
<1>1. Parts /\ TypeOK'
  BY PartsOfFreshInv, DashboardTypes DEF Parts
<1>2. ASSUME NEW e \in entries, Expire(e) PROVE Parts'
  <2>1. UNCHANGED <<rows, version, reset, writer, reader>> /\ entries' \subseteq entries
    BY <1>2 DEF Expire
  <2>2. QED
    BY <1>1, <2>1 DEF Parts, ReaderInv, Recent, Done
<1>3. ASSUME UNCHANGED dashboardVars PROVE Parts'
  BY <1>1, <1>3 DEF dashboardVars, Parts, ReaderInv, Recent, Done
<1>4. Parts'
  BY <1>1, <1>2, <1>3, WritesKeepFresh, ReadsKeepFresh DEF Next
<1>5. FreshInv'
  <2>1. \A r \in Reader : ReaderInv(r)'
    BY <1>4 DEF Parts
  <2>2. FreshAfterBump'
    BY <2>1 DEF ReaderInv, FreshAfterBump
  <2>3. QED
    BY <1>4, <2>1, <2>2 DEF FreshInv, Parts, ReaderInv
<1>6. QED
  BY <1>5

\* A dashboard read shows every write that was committed and signalled when the
\* read began, unless racing first writes of its project set the version back,
\* or whoever computed the aggregate was not a member of the project
\* (cache.py:31-84, signals.py:17-28).
THEOREM DashboardsFresh == Spec => []FreshAfterBump
<1>1. Init => FreshInv
  BY DashboardAssumption DEF Init, FreshInv, TypeOK, ReadLocals, CacheKey, NoKey, FreshAfterBump, Done
<1>2. FreshInv /\ [Next]_dashboardVars => FreshInv'
  BY FreshStep
<1>3. FreshInv => FreshAfterBump
  BY DEF FreshInv
<1>4. QED
  BY <1>1, <1>2, <1>3, PTL DEF Spec
=============================================================================
