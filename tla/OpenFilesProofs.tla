--------------------------- MODULE OpenFilesProofs ---------------------------
(***************************************************************************)
(* The reference counts of the open file table, the objects behind pipes   *)
(* and the file descriptions they implement, for every number of           *)
(* processes, descriptors, table entries and pipes.                        *)
(*                                                                         *)
(* A system call changes the descriptor table of one process, so that the  *)
(* number of references to an entry changes as the number of names in that *)
(* one table does (TableChange); the calls are then compared entry by      *)
(* entry (EntryOK).  For the pipes the invariant adds that no two entries  *)
(* name the same end, so that closing an entry closes the end.             *)
(***************************************************************************)
EXTENDS OpenFiles, FiniteSetTheorems, TLAPS

-----------------------------------------------------------------------------
(* Counting names *)

Tables == [Fds -> Index \union {-1}]

\* The descriptors of F that name entry i.
Naming(table, F, i) == {fd \in F : table[fd] = i}

\* 1 if a is b, and 0 if not.
Same(a, b) == IF a = b THEN 1 ELSE 0

\* The descriptors of a process are finitely many.
LEMMA FdsFinite ==
  /\ IsFiniteSet(Fds) /\ IsFiniteSet(Procs) /\ IsFiniteSet(Index)
  /\ \A F \in SUBSET Fds : IsFiniteSet(F)
<1>1. IsFiniteSet(Fds) /\ IsFiniteSet(Procs) /\ IsFiniteSet(Index)
  BY FS_Interval, FilesAssumption DEF Fds, Procs, Index
<1> QED BY <1>1, FS_Subset

\* Names is a number, and counts the descriptors that name the entry.
LEMMA NamesType ==
  ASSUME NEW table, NEW F \in SUBSET Fds, NEW i
  PROVE  /\ Names(table, F, i) = Cardinality(Naming(table, F, i))
         /\ Names(table, F, i) \in Nat /\ IsFiniteSet(Naming(table, F, i))
         /\ Names(table, F, i) = 0 <=> \A fd \in F : table[fd] # i
<1>1. Naming(table, F, i) \in SUBSET F /\ IsFiniteSet(F)
  BY FdsFinite DEF Naming
<1>2. IsFiniteSet(Naming(table, F, i))
  BY <1>1, FS_Subset
<1>3. Names(table, F, i) = Cardinality(Naming(table, F, i))
  BY DEF Names, Naming
<1>4. Names(table, F, i) \in Nat
  BY <1>2, <1>3, FS_CardinalityType
<1>5. Names(table, F, i) = 0 <=> Naming(table, F, i) = {}
  BY <1>2, <1>3, FS_EmptySet
<1> QED BY <1>2, <1>3, <1>4, <1>5 DEF Naming

\* The cardinality of two disjoint sets together.
LEMMA DisjointUnion ==
  ASSUME NEW A, NEW B, IsFiniteSet(A), IsFiniteSet(B), A \intersect B = {}
  PROVE  /\ IsFiniteSet(A \union B) /\ Cardinality(A) \in Nat /\ Cardinality(B) \in Nat
         /\ Cardinality(A \union B) = Cardinality(A) + Cardinality(B)
<1>1. Cardinality(A \intersect B) = 0
  BY FS_EmptySet
<1>2. Cardinality(A) \in Nat /\ Cardinality(B) \in Nat
  BY FS_CardinalityType
<1>3. /\ IsFiniteSet(A \union B)
      /\ Cardinality(A \union B) = Cardinality(A) + Cardinality(B) - Cardinality(A \intersect B)
  BY FS_Union
<1> QED BY <1>1, <1>2, <1>3

\* Names in all descriptors are names in F and names elsewhere.
LEMMA NamesSplit ==
  ASSUME NEW table, NEW F \in SUBSET Fds, NEW i
  PROVE  Names(table, Fds, i) = Names(table, F, i) + Names(table, Fds \ F, i)
<1>1. /\ IsFiniteSet(Naming(table, F, i)) /\ IsFiniteSet(Naming(table, Fds \ F, i))
      /\ Naming(table, F, i) \intersect Naming(table, Fds \ F, i) = {}
      /\ Naming(table, Fds, i) = Naming(table, F, i) \union Naming(table, Fds \ F, i)
  BY NamesType DEF Naming
<1> DEFINE A == Naming(table, F, i)
           B == Naming(table, Fds \ F, i)
<1>2. Cardinality(A \union B) = Cardinality(A) + Cardinality(B)
  <2> HIDE DEF A, B
  <2> QED BY <1>1, DisjointUnion DEF A, B
<1>3. /\ Names(table, F, i) = Cardinality(A) /\ Names(table, Fds \ F, i) = Cardinality(B)
      /\ Names(table, Fds, i) = Cardinality(Naming(table, Fds, i))
  BY NamesType
<1> QED BY Zenon, <1>1, <1>2, <1>3

\* One descriptor.
LEMMA NamesOne ==
  ASSUME NEW table, NEW fd \in Fds, NEW i
  PROVE  Names(table, {fd}, i) = Same(table[fd], i)
<1>1. Naming(table, {fd}, i) = IF table[fd] = i THEN {fd} ELSE {}
  BY DEF Naming
<1>2. Cardinality({fd}) = 1 /\ Cardinality({}) = 0
  BY FS_Singleton, FS_EmptySet
<1>3. Names(table, {fd}, i) = Cardinality(Naming(table, {fd}, i))
  BY NamesType
<1> QED BY <1>1, <1>2, <1>3 DEF Same

\* Two tables that agree on F have the same names there.
LEMMA NamesSame ==
  ASSUME NEW t, NEW u, NEW F \in SUBSET Fds, NEW i, \A fd \in F : t[fd] = u[fd]
  PROVE  Names(t, F, i) = Names(u, F, i)
<1>1. Naming(t, F, i) = Naming(u, F, i)
  BY DEF Naming
<1> QED BY <1>1, NamesType

\* The descriptors F are closed.
LEMMA NamesClosed ==
  ASSUME NEW t \in Tables, NEW F \in SUBSET Fds, NEW i \in Index,
         NEW u, u = [fd \in Fds |-> IF fd \in F THEN -1 ELSE t[fd]]
  PROVE  /\ Names(t, F, i) \in 0..Names(t, Fds, i)
         /\ Names(u, Fds, i) = Names(t, Fds, i) - Names(t, F, i)
<1>1. i # -1
  BY FilesAssumption DEF Index
<1>2. Names(u, F, i) = 0
  BY <1>1, NamesType
<1>3. Names(u, Fds \ F, i) = Names(t, Fds \ F, i)
  BY NamesSame
<1>4. /\ Names(t, Fds, i) = Names(t, F, i) + Names(t, Fds \ F, i)
      /\ Names(u, Fds, i) = Names(u, F, i) + Names(u, Fds \ F, i)
  BY NamesSplit
<1>5. /\ Names(t, F, i) \in Nat /\ Names(t, Fds \ F, i) \in Nat
  BY NamesType
<1> QED BY <1>2, <1>3, <1>4, <1>5

\* The descriptor fd is set to k.
LEMMA NamesSet ==
  ASSUME NEW t \in Tables, NEW fd \in Fds, NEW k, NEW i, NEW u, u = [t EXCEPT ![fd] = k]
  PROVE  /\ Names(t, Fds, i) - Same(t[fd], i) \in Nat
         /\ Names(u, Fds, i) = Names(t, Fds, i) - Same(t[fd], i) + Same(k, i)
<1>1. u[fd] = k /\ \A f \in Fds \ {fd} : u[f] = t[f]
  BY DEF Tables
<1>2. Names(u, Fds \ {fd}, i) = Names(t, Fds \ {fd}, i)
  <2> DEFINE F == Fds \ {fd}
  <2>1. F \in SUBSET Fds /\ \A f \in F : u[f] = t[f]
    BY <1>1
  <2> HIDE DEF F
  <2>2. Names(u, F, i) = Names(t, F, i)
    BY ONLY <2>1, NamesSame
  <2> QED BY <2>2 DEF F
<1>3. /\ Names(t, Fds, i) = Names(t, {fd}, i) + Names(t, Fds \ {fd}, i)
      /\ Names(u, Fds, i) = Names(u, {fd}, i) + Names(u, Fds \ {fd}, i)
  BY NamesSplit, {fd} \in SUBSET Fds
<1>4. Names(t, {fd}, i) = Same(t[fd], i) /\ Names(u, {fd}, i) = Same(k, i)
  <2>1. Names(u, {fd}, i) = Same(u[fd], i)
    BY Zenon, NamesOne
  <2>2. Names(t, {fd}, i) = Same(t[fd], i)
    BY Zenon, NamesOne
  <2>3. Same(u[fd], i) = Same(k, i)
    BY <1>1 DEF Same
  <2> QED BY Zenon, <2>1, <2>2, <2>3
<1>5. Names(t, Fds \ {fd}, i) \in Nat
  BY NamesType
<1>6. Same(t[fd], i) \in Nat /\ Same(k, i) \in Nat
  BY DEF Same
<1> QED BY <1>2, <1>3, <1>4, <1>5, <1>6

-----------------------------------------------------------------------------
(* Counting references *)

\* The references to entry i when the descriptor tables are f.
Refs(f, i) == {r \in Procs \X Fds : f[r[1]][r[2]] = i}
Count(f, i) == Cardinality(Refs(f, i))

\* Those of the processes other than q.
Others(f, q, i) == {r \in Refs(f, i) : r[1] # q}

\* There are finitely many.
LEMMA RefsFinite ==
  ASSUME NEW f, NEW i
  PROVE  /\ IsFiniteSet(Refs(f, i)) /\ Count(f, i) \in Nat
         /\ Count(f, i) = 0 <=> Refs(f, i) = {}
         /\ \A q : IsFiniteSet(Others(f, q, i))
<1>1. IsFiniteSet(Procs \X Fds)
  BY FdsFinite, FS_Product
<1>2. Refs(f, i) \in SUBSET (Procs \X Fds)
  BY DEF Refs
<1>3. IsFiniteSet(Refs(f, i))
  BY <1>1, <1>2, FS_Subset
<1>4. ASSUME NEW q PROVE IsFiniteSet(Others(f, q, i))
  <2>1. Others(f, q, i) \in SUBSET Refs(f, i)
    BY DEF Others
  <2> QED BY <1>3, <2>1, FS_Subset
<1>5. Count(f, i) \in Nat /\ (Count(f, i) = 0 <=> Refs(f, i) = {})
  BY <1>3, FS_CardinalityType, FS_EmptySet DEF Count
<1> QED BY <1>3, <1>4, <1>5

\* The references of one process are as many as the names in its table.
LEMMA OwnRefs ==
  ASSUME NEW f, NEW q \in Procs, NEW i
  PROVE  /\ IsFiniteSet({q} \X Naming(f[q], Fds, i))
         /\ Cardinality({q} \X Naming(f[q], Fds, i)) = Names(f[q], Fds, i)
<1> DEFINE N == Naming(f[q], Fds, i)
<1>1. IsFiniteSet(N) /\ Names(f[q], Fds, i) = Cardinality(N)
  BY NamesType
<1>2. IsFiniteSet({q}) /\ Cardinality({q}) = 1
  BY FS_Singleton
<1> HIDE DEF N
<1>3. IsFiniteSet({q} \X N) /\ Cardinality({q} \X N) = Cardinality({q}) * Cardinality(N)
  BY <1>1, <1>2, FS_Product
<1>4. Cardinality(N) \in Nat
  BY <1>1, FS_CardinalityType
<1>5. Cardinality({q}) * Cardinality(N) = Cardinality(N)
  BY <1>2, <1>4
<1> QED BY Zenon, <1>1, <1>3, <1>5 DEF N

\* References are those of one process and those of the others.
LEMMA RefsSplit ==
  ASSUME NEW f, NEW q \in Procs, NEW i
  PROVE  /\ Cardinality(Others(f, q, i)) \in Nat
         /\ Count(f, i) = Cardinality(Others(f, q, i)) + Names(f[q], Fds, i)
<1> DEFINE O == Others(f, q, i)
           Q == {q} \X Naming(f[q], Fds, i)
<1>1. IsFiniteSet(O) /\ IsFiniteSet(Q) /\ Cardinality(Q) = Names(f[q], Fds, i)
  BY RefsFinite, OwnRefs
<1>2. O \intersect Q = {}
  BY DEF Others
<1>3. Refs(f, i) = O \union Q
  BY DEF Others, Refs, Naming
<1> HIDE DEF O, Q
<1>4. Cardinality(O) \in Nat /\ Cardinality(O \union Q) = Cardinality(O) + Cardinality(Q)
  BY <1>1, <1>2, DisjointUnion
<1> QED BY Zenon, <1>1, <1>3, <1>4 DEF O, Count

\* The tables f and g differ in that of process q only.
Differ(f, g, q) == \A p \in Procs \ {q} : g[p] = f[p]

\* A call that changes the table of process q alone changes the number of
\* references as the number of names in it.
LEMMA TableChange ==
  ASSUME NEW f, NEW g, NEW q \in Procs, Differ(f, g, q), NEW i
  PROVE  /\ Count(f, i) - Names(f[q], Fds, i) \in Nat
         /\ Count(g, i) = Count(f, i) - Names(f[q], Fds, i) + Names(g[q], Fds, i)
<1>1. Others(g, q, i) = Others(f, q, i)
  BY DEF Others, Refs, Differ
<1>2. /\ Cardinality(Others(f, q, i)) \in Nat
      /\ Count(f, i) = Cardinality(Others(f, q, i)) + Names(f[q], Fds, i)
  BY RefsSplit
<1>3. Count(g, i) = Cardinality(Others(g, q, i)) + Names(g[q], Fds, i)
  BY RefsSplit
<1>4. Names(f[q], Fds, i) \in Nat /\ Names(g[q], Fds, i) \in Nat
  BY NamesType
<1> QED BY <1>1, <1>2, <1>3, <1>4

-----------------------------------------------------------------------------
(* Entries *)

Vnodes == ({"none", "tty", "file"} \X {0}) \union ({"r", "w"} \X PipeIds)
FileEntries == [vnode : Vnodes, offset : 0..MaxOffset, refcount : Nat]

\* Entry e is right when it has n references.
EntryOK(e, n) ==
  /\ e \in FileEntries
  /\ e.refcount = n
  /\ e = None <=> n = 0

\* The free entry.
LEMMA NoneOK ==
  /\ None \in FileEntries /\ EntryOK(None, 0)
  /\ None.vnode = <<"none", 0>> /\ None.offset = 0 /\ None.refcount = 0
BY FilesAssumption DEF None, FileEntries, Vnodes, EntryOK

\* A new entry has one reference.
LEMMA OpenFileOK ==
  ASSUME NEW vn \in Vnodes
  PROVE  /\ EntryOK(OpenFile(vn), 1) /\ OpenFile(vn) \in FileEntries
         /\ OpenFile(vn).vnode = vn /\ OpenFile(vn).offset = 0
<1>1. OpenFile(vn) \in FileEntries /\ OpenFile(vn).refcount = 1
  BY FilesAssumption DEF OpenFile, FileEntries
<1>2. OpenFile(vn) # None
  BY <1>1, NoneOK
<1> QED BY <1>1, <1>2 DEF EntryOK, OpenFile

\* oft_decref, m times.
LEMMA DecrefOK ==
  ASSUME NEW e, NEW n \in Nat, EntryOK(e, n), NEW m \in 0..n
  PROVE  /\ EntryOK(Decref(e, m), n - m)
         /\ Decref(e, m) # None => Decref(e, m).vnode = e.vnode /\ Decref(e, m).offset = e.offset
<1>1. CASE m = 0 \/ e = None
  <2>1. Decref(e, m) = e /\ n - m = n
    BY <1>1 DEF Decref, EntryOK
  <2> QED BY <2>1
<1>2. CASE m # 0 /\ e # None /\ n <= m
  <2>1. Decref(e, m) = None /\ n - m = 0
    BY <1>2 DEF Decref, EntryOK
  <2> QED BY <2>1, NoneOK
<1>3. CASE m # 0 /\ e # None /\ ~(n <= m)
  <2> DEFINE d == [e EXCEPT !.refcount = @ - m]
  <2>1. Decref(e, m) = d
    BY <1>3 DEF Decref, EntryOK
  <2>2. n - m \in Nat /\ n - m # 0
    BY <1>3
  <2>3. d \in FileEntries /\ d.refcount = n - m /\ d.vnode = e.vnode /\ d.offset = e.offset
    BY <2>2 DEF EntryOK, FileEntries
  <2> HIDE DEF d
  <2>4. d # None
    BY <2>2, <2>3, NoneOK
  <2> QED BY <2>1, <2>2, <2>3, <2>4 DEF EntryOK
<1> QED BY <1>1, <1>2, <1>3

\* oft_incref, m times, of an entry in use.
LEMMA IncrefOK ==
  ASSUME NEW e, NEW n \in Nat, EntryOK(e, n), NEW m \in Nat, n = 0 => m = 0
  PROVE  /\ EntryOK(Incref(e, m), n + m)
         /\ Incref(e, m).vnode = e.vnode /\ Incref(e, m).offset = e.offset
<1>1. CASE e = None
  <2>1. Incref(e, m) = e /\ n + m = n
    BY <1>1 DEF Incref, EntryOK
  <2> QED BY <2>1
<1>2. CASE e # None
  <2> DEFINE d == [e EXCEPT !.refcount = @ + m]
  <2>1. Incref(e, m) = d
    BY <1>2 DEF Incref
  <2>2. n + m \in Nat /\ n + m # 0
    BY <1>2 DEF EntryOK
  <2>3. d \in FileEntries /\ d.refcount = n + m /\ d.vnode = e.vnode /\ d.offset = e.offset
    BY <2>2 DEF EntryOK, FileEntries
  <2> HIDE DEF d
  <2>4. d # None
    BY <2>2, <2>3, NoneOK
  <2> QED BY <2>1, <2>2, <2>3, <2>4 DEF EntryOK
<1> QED BY <1>1, <1>2

-----------------------------------------------------------------------------
(* The descriptor tables and the open file table *)

\* Every entry of es is right for the descriptor tables f, and a slot without a
\* process has no descriptors.
TablesOK(hs, f, es) ==
  /\ hs \in [Procs -> {"none", "live", "zombie"}]
  /\ f \in [Procs -> Tables]
  /\ es \in [Index -> FileEntries]
  /\ \A i \in Index : EntryOK(es[i], Count(f, i))
  /\ \A p \in Procs : hs[p] = "none" => f[p] = NoFds

\* The empty table.
LEMMA NoFdsTable ==
  NoFds \in Tables /\ \A i \in Index, F \in SUBSET Fds : Names(NoFds, F, i) = 0
<1>1. NoFds \in Tables
  BY DEF NoFds, Tables
<1>2. ASSUME NEW i \in Index, NEW F \in SUBSET Fds PROVE Names(NoFds, F, i) = 0
  <2>1. i # -1
    BY FilesAssumption DEF Index
  <2>2. \A fd \in F : NoFds[fd] # i
    BY <2>1 DEF NoFds
  <2> QED BY <2>2, NamesType
<1> QED BY <1>1, <1>2

\* No process but p goes.
HoldersStep(hs, hs2, p) ==
  /\ hs2 \in [Procs -> {"none", "live", "zombie"}]
  /\ \A q \in Procs \ {p} : hs2[q] = "none" => hs[q] = "none"

\* The entries change from es to es2 as the table of a process from t to u,
\* however many references other processes have.
EntriesStep(es, es2, t, u) ==
  /\ es2 = [i \in Index |-> es2[i]]
  /\ \A i \in Index : \A n \in Nat : EntryOK(es[i], n + Names(t, Fds, i)) =>
                                      EntryOK(es2[i], n + Names(u, Fds, i))

\* A call changes the descriptor table of process p and the entries accordingly.
LEMMA TablesStep ==
  ASSUME NEW hs, NEW f, NEW es, TablesOK(hs, f, es), NEW p \in Procs,
         NEW hs2, HoldersStep(hs, hs2, p),
         NEW g, g \in [Procs -> Tables], Differ(f, g, p), hs2[p] = "none" => g[p] = NoFds,
         NEW es2, EntriesStep(es, es2, f[p], g[p])
  PROVE  TablesOK(hs2, g, es2)
<1>1. ASSUME NEW i \in Index PROVE EntryOK(es2[i], Count(g, i))
  <2> DEFINE n == Count(f, i) - Names(f[p], Fds, i)
  <2>1. n \in Nat /\ Count(g, i) = n + Names(g[p], Fds, i)
    BY TableChange
  <2>2. Count(f, i) \in Nat /\ Names(f[p], Fds, i) \in Nat
    BY RefsFinite, NamesType
  <2>3. n + Names(f[p], Fds, i) = Count(f, i)
    BY <2>2
  <2>4. EntryOK(es[i], Count(f, i))
    BY DEF TablesOK
  <2> HIDE DEF n
  <2> QED BY Zenon, <2>1, <2>3, <2>4 DEF EntriesStep
<1>2. es2 \in [Index -> FileEntries]
  BY <1>1 DEF EntryOK, EntriesStep
<1>3. ASSUME NEW q \in Procs, hs2[q] = "none" PROVE g[q] = NoFds
  <2>1. q # p => hs[q] = "none" /\ g[q] = f[q]
    BY <1>3 DEF Differ, HoldersStep
  <2> QED BY <1>3, <2>1 DEF TablesOK
<1> QED BY <1>1, <1>2, <1>3 DEF TablesOK, HoldersStep

\* Two changes of the same table, one after the other.
LEMMA EntriesTwice ==
  ASSUME NEW es, NEW es1, NEW es2, NEW t, NEW t1, NEW t2,
         EntriesStep(es, es1, t, t1), EntriesStep(es1, es2, t1, t2)
  PROVE  EntriesStep(es, es2, t, t2)
BY DEF EntriesStep

\* The table t once the descriptors F are closed.
Closed(t, F) == [fd \in Fds |-> IF fd \in F THEN -1 ELSE t[fd]]

\* The entries once they are.
Released(es, t, F) == [i \in Index |-> Decref(es[i], Names(t, F, i))]

\* The entries follow the table.
LEMMA EntriesClosed ==
  ASSUME NEW es, NEW t \in Tables, NEW F \in SUBSET Fds
  PROVE  Closed(t, F) \in Tables /\ EntriesStep(es, Released(es, t, F), t, Closed(t, F))
<1> DEFINE u == Closed(t, F)
           es2 == Released(es, t, F)
<1>1. u \in Tables
  BY DEF Closed, Tables
<1>2. ASSUME NEW i \in Index, NEW n \in Nat, EntryOK(es[i], n + Names(t, Fds, i))
      PROVE  EntryOK(es2[i], n + Names(u, Fds, i))
  <2> DEFINE m == Names(t, F, i)
             a == n + Names(t, Fds, i)
  <2>1. m \in 0..Names(t, Fds, i) /\ Names(u, Fds, i) = Names(t, Fds, i) - m
    BY NamesClosed DEF Closed
  <2>2. Names(t, Fds, i) \in Nat
    BY NamesType
  <2>3. es2[i] = Decref(es[i], m)
    BY DEF Released
  <2> HIDE DEF u, es2
  <2>4. m \in 0..a /\ a \in Nat /\ n + Names(u, Fds, i) = a - m
    BY <2>1, <2>2
  <2> HIDE DEF m, a
  <2>5. EntryOK(Decref(es[i], m), a - m)
    BY <1>2, <2>4, DecrefOK DEF a
  <2> QED BY Zenon, <2>3, <2>4, <2>5
<1>3. es2 = [i \in Index |-> es2[i]]
  BY DEF Released
<1> HIDE DEF u, es2
<1> QED BY <1>1, <1>2, <1>3 DEF EntriesStep, u, es2

\* A free descriptor fd is made a name of entry k, and k gets a reference.
LEMMA EntriesSet ==
  ASSUME NEW es, NEW es2, NEW t \in Tables, NEW fd \in Fds, t[fd] = -1, NEW k \in Index,
         es2 = [j \in Index |-> es2[j]], \A j \in Index \ {k} : es2[j] = es[j],
         \A n \in Nat : EntryOK(es[k], n) /\ n >= Names(t, Fds, k) => EntryOK(es2[k], n + 1)
  PROVE  EntriesStep(es, es2, t, [t EXCEPT ![fd] = k])
<1> DEFINE u == [t EXCEPT ![fd] = k]
<1>1. ASSUME NEW j \in Index, NEW n \in Nat, EntryOK(es[j], n + Names(t, Fds, j))
      PROVE  EntryOK(es2[j], n + Names(u, Fds, j))
  <2>1. Names(u, Fds, j) = Names(t, Fds, j) - Same(t[fd], j) + Same(k, j)
    BY NamesSet
  <2>2. Same(t[fd], j) = 0
    BY FilesAssumption DEF Same, Index
  <2>3. Names(t, Fds, j) \in Nat
    BY NamesType
  <2> DEFINE a == n + Names(t, Fds, j)
  <2> HIDE DEF u
  <2>4. CASE j = k
    <3>1. Same(k, j) = 1
      BY <2>4 DEF Same
    <3>2. a \in Nat /\ a >= Names(t, Fds, k) /\ n + Names(u, Fds, j) = a + 1
      BY <2>1, <2>2, <2>3, <2>4, <3>1
    <3>3. EntryOK(es[k], a)
      BY <1>1, <2>4
    <3> HIDE DEF a
    <3> QED BY Zenon, <2>4, <3>2, <3>3
  <2>5. CASE j # k
    <3>1. Same(k, j) = 0
      BY <2>5 DEF Same
    <3>2. n + Names(u, Fds, j) = a
      BY <2>1, <2>2, <2>3, <3>1
    <3>3. es2[j] = es[j]
      BY <2>5
    <3> QED BY Zenon, <1>1, <3>2, <3>3
  <2> QED BY <2>4, <2>5
<1> HIDE DEF u
<1> QED BY <1>1 DEF EntriesStep, u

\* Closing the descriptors F of process p.
LEMMA CloseTables ==
  ASSUME NEW hs, NEW f, NEW es, TablesOK(hs, f, es), NEW p \in Procs, NEW F \in SUBSET Fds,
         NEW hs2, HoldersStep(hs, hs2, p), hs2[p] = "none" => Closed(f[p], F) = NoFds,
         NEW g, g = [f EXCEPT ![p] = Closed(f[p], F)]
  PROVE  TablesOK(hs2, g, Released(es, f[p], F))
<1>1. f[p] \in Tables /\ f \in [Procs -> Tables]
  BY DEF TablesOK
<1>2. Closed(f[p], F) \in Tables /\ EntriesStep(es, Released(es, f[p], F), f[p], Closed(f[p], F))
  BY <1>1, EntriesClosed
<1>3. g[p] = Closed(f[p], F) /\ g \in [Procs -> Tables]
  BY <1>1, <1>2
<1>4. Differ(f, g, p)
  BY <1>1 DEF Differ
<1>5. hs2[p] = "none" => g[p] = NoFds
  BY <1>3
<1>6. EntriesStep(es, Released(es, f[p], F), f[p], g[p])
  BY Zenon, <1>2, <1>3
<1> QED BY Zenon, <1>3, <1>4, <1>5, <1>6, TablesStep

-----------------------------------------------------------------------------
(* The calls, on the tables *)

TabsOK == TablesOK(holder, fds, entries)

\* An entry that stays in use keeps its vnode and its offset.
Kept(es, es2) ==
  \A i \in Index : es2[i] = None \/ (es2[i].vnode = es[i].vnode /\ es2[i].offset = es[i].offset)

\* No entry changes its vnode.
SameVnodes(es, es2) == \A i \in Index : es2[i].vnode = es[i].vnode

\* What a call does that opens nothing: the tables stay right, and the entries
\* keep what they name.
QuietCall == TabsOK' /\ Kept(entries, entries')

\* The holders, when a call does not change them.
LEMMA SameHolders ==
  ASSUME TabsOK, NEW p
  PROVE  HoldersStep(holder, holder, p)
BY DEF TabsOK, TablesOK, HoldersStep

\* The entries, when a call does not change them.
LEMMA SameKept ==
  ASSUME NEW es PROVE Kept(es, es)
BY DEF Kept

\* Closing descriptors changes nothing in the entries that stay.
LEMMA ReleasedKept ==
  ASSUME NEW es, NEW t, NEW F, \A i \in Index : es[i] \in FileEntries
  PROVE  Kept(es, Released(es, t, F))
<1> SUFFICES ASSUME NEW i \in Index, Released(es, t, F)[i] # None
             PROVE  /\ Released(es, t, F)[i].vnode = es[i].vnode
                    /\ Released(es, t, F)[i].offset = es[i].offset
  BY DEF Kept
<1> DEFINE m == Names(t, F, i)
<1>1. Released(es, t, F)[i] = Decref(es[i], m)
  BY DEF Released
<1> HIDE DEF m
<1>2. Decref(es[i], m) = es[i] \/ Decref(es[i], m) = [es[i] EXCEPT !.refcount = @ - m]
  BY <1>1 DEF Decref
<1>3. es[i] \in FileEntries
  OBVIOUS
<1> QED BY <1>1, <1>2, <1>3 DEF FileEntries

\* CloseFds, of descriptors F of process p.
LEMMA CloseQuiet ==
  ASSUME TabsOK, NEW p \in Procs, NEW F \in SUBSET Fds, CloseFds(p, F),
         HoldersStep(holder, holder', p), holder'[p] = "none" => Closed(fds[p], F) = NoFds
  PROVE  QuietCall
<1>1. fds' = [fds EXCEPT ![p] = Closed(fds[p], F)]
  BY DEF CloseFds, Closed
<1>2. entries' = Released(entries, fds[p], F)
  BY DEF CloseFds, Released
<1>3. TablesOK(holder, fds, entries)
  BY DEF TabsOK
<1>4. TablesOK(holder', fds', Released(entries, fds[p], F))
  BY <1>1, <1>3, CloseTables
<1>5. \A i \in Index : entries[i] \in FileEntries
  BY <1>3 DEF TablesOK
<1>6. Kept(entries, Released(entries, fds[p], F))
  BY <1>5, ReleasedKept
<1> QED BY Zenon, <1>2, <1>4, <1>6 DEF QuietCall, TabsOK

\* close(), exec() and waitpid().
LEMMA CloseCalls ==
  ASSUME TabsOK, NEW p \in Procs,
         (\E fd \in Fds : SysClose(p, fd)) \/ SysExec(p) \/ Reap(p)
  PROVE  QuietCall
<1>1. holder \in [Procs -> {"none", "live", "zombie"}] /\ fds \in [Procs -> Tables]
      /\ \A q \in Procs : holder[q] = "none" => fds[q] = NoFds
  BY DEF TabsOK, TablesOK
<1>2. ASSUME NEW F \in SUBSET Fds, CloseFds(p, F), UNCHANGED holder PROVE QuietCall
  <2>1. HoldersStep(holder, holder', p)
    BY <1>2, SameHolders
  <2>2. holder'[p] = "none" => Closed(fds[p], F) = NoFds
    BY <1>1, <1>2 DEF Closed, NoFds
  <2> QED BY <1>2, <2>1, <2>2, CloseQuiet
<1>3. CASE \E fd \in Fds : SysClose(p, fd)
  BY <1>2, <1>3 DEF SysClose
<1>4. CASE SysExec(p)
  BY <1>2, <1>4 DEF SysExec
<1>5. CASE Reap(p)
  <2> DEFINE F == {fd \in Fds : fds[p][fd] # -1}
  <2>1. CloseFds(p, F) /\ F \in SUBSET Fds
    BY <1>5 DEF Reap
  <2>2. HoldersStep(holder, holder', p)
    BY <1>1, <1>5 DEF Reap, HoldersStep
  <2>3. Closed(fds[p], F) = NoFds
    BY <1>1 DEF Closed, NoFds, Tables
  <2> QED BY <2>1, <2>2, <2>3, CloseQuiet
<1> QED BY <1>3, <1>4, <1>5

\* A table in which a descriptor of F names entry i has a name for it.
LEMMA NamedHasName ==
  ASSUME NEW t, NEW fd \in Fds, NEW i, t[fd] = i
  PROVE  Names(t, Fds, i) \in Nat /\ Names(t, Fds, i) >= 1
BY NamesType

\* The entries once entry k has one more reference.
Shared(es, k) == [j \in Index |-> IF j = k THEN Incref(es[j], 1) ELSE es[j]]

\* A free descriptor becomes a name of an entry that has another name.
LEMMA IncrefSet ==
  ASSUME NEW es, NEW t \in Tables, NEW fd \in Fds, t[fd] = -1, NEW k \in Index,
         NEW old \in Fds, t[old] = k
  PROVE  EntriesStep(es, Shared(es, k), t, [t EXCEPT ![fd] = k])
<1> DEFINE es2 == Shared(es, k)
<1>1. es2 = [j \in Index |-> es2[j]] /\ \A j \in Index \ {k} : es2[j] = es[j]
  BY DEF Shared
<1>2. es2[k] = Incref(es[k], 1)
  BY DEF Shared
<1> HIDE DEF es2
<1>3. ASSUME NEW n \in Nat, EntryOK(es[k], n), n >= Names(t, Fds, k)
      PROVE  EntryOK(es2[k], n + 1)
  <2>1. n # 0
    BY <1>3, NamedHasName
  <2> QED BY <1>2, <1>3, <2>1, IncrefOK
<1>4. EntriesStep(es, es2, t, [t EXCEPT ![fd] = k])
  BY <1>1, <1>3, EntriesSet
<1> QED BY <1>4 DEF es2

\* dup().
LEMMA DupCall ==
  ASSUME TabsOK, NEW p \in Procs, NEW old \in Fds, SysDup(p, old)
  PROVE  QuietCall /\ SameVnodes(entries, entries')
<1>1. TablesOK(holder, fds, entries) /\ fds \in [Procs -> Tables] /\ entries \in [Index -> FileEntries]
  BY DEF TabsOK, TablesOK
<1> DEFINE t == fds[p]
           k == fds[p][old]
<1>2. t \in Tables /\ k \in Index
  BY <1>1 DEF SysDup, Tables
<1>3. PICK new \in Fds : t[new] = -1 /\ fds' = [fds EXCEPT ![p][new] = k]
  BY DEF SysDup, IsFirstFree, FreeFds
<1>4. entries' = Shared(entries, k) /\ UNCHANGED holder
  BY <1>1 DEF SysDup, Shared
<1>6. fds'[p] = [t EXCEPT ![new] = k] /\ fds' \in [Procs -> Tables]
  BY <1>1, <1>2, <1>3 DEF Tables
<1>7. Differ(fds, fds', p)
  BY <1>1, <1>3 DEF Differ
<1>8. t[old] = k
  OBVIOUS
<1> HIDE DEF t, k
<1>9. EntriesStep(entries, entries', t, [t EXCEPT ![new] = k])
  BY <1>2, <1>3, <1>4, <1>8, IncrefSet
<1>10. EntriesStep(entries, entries', fds[p], fds'[p])
  BY Zenon, <1>6, <1>9 DEF t
<1>11. HoldersStep(holder, holder', p)
  BY <1>4, SameHolders
<1>12. holder'[p] = "none" => fds'[p] = NoFds
  BY <1>1, <1>2, <1>4, <1>8, FilesAssumption DEF TablesOK, NoFds, t, Index
<1>13. TabsOK'
  BY Zenon, <1>1, <1>6, <1>7, <1>10, <1>11, <1>12, TablesStep DEF TabsOK
<1>14. entries[k] \in FileEntries
  BY <1>1, <1>2
<1>15. Kept(entries, entries')
  BY <1>1, <1>2, <1>4, <1>14 DEF Kept, Shared, Incref, FileEntries
<1>16. SameVnodes(entries, entries')
  BY <1>1, <1>2, <1>4, <1>14 DEF SameVnodes, Shared, Incref, FileEntries
<1> QED BY <1>13, <1>15, <1>16 DEF QuietCall

\* dup2(): the close of new, and then a new name for the description of old.
LEMMA Dup2Call ==
  ASSUME TabsOK, NEW p \in Procs, NEW old \in Fds, NEW new \in Fds, SysDup2(p, old, new)
  PROVE  /\ QuietCall
         /\ SameVnodes(Released(entries, fds[p], {fd \in {new} : fds[p][fd] # -1}), entries')
<1>1. TablesOK(holder, fds, entries) /\ fds \in [Procs -> Tables] /\ entries \in [Index -> FileEntries]
  BY DEF TabsOK, TablesOK
<1> DEFINE t == fds[p]
           k == fds[p][old]
           F == {fd \in {new} : fds[p][fd] # -1}
           c == Closed(t, F)
           es1 == Released(entries, t, F)
<1>2. t \in Tables /\ k \in Index /\ F \in SUBSET Fds /\ old # new
  BY <1>1 DEF SysDup2, Tables
<1>3. /\ fds' = [fds EXCEPT ![p][new] = k] /\ UNCHANGED holder
      /\ entries' = [j \in Index |-> IF j = k THEN Incref(Decref(entries[j], Names(t, F, j)), 1)
                                     ELSE Decref(entries[j], Names(t, F, j))]
  BY DEF SysDup2
<1>4. c \in Tables /\ EntriesStep(entries, es1, t, c)
  BY <1>2, EntriesClosed
<1>5. c[new] = -1 /\ c[old] = k
  BY <1>2 DEF Closed, Tables
<1>6. es1 = [j \in Index |-> es1[j]] /\ \A j \in Index : es1[j] = Decref(entries[j], Names(t, F, j))
  BY DEF Released
<1>7. fds'[p] = [c EXCEPT ![new] = k]
  BY <1>1, <1>2, <1>3 DEF Closed, Tables
<1>8. fds' \in [Procs -> Tables] /\ Differ(fds, fds', p)
  BY <1>1, <1>2, <1>3 DEF Tables, Differ
<1>9. \A j \in Index : entries[j] \in FileEntries
  BY <1>1
<1>10. Kept(entries, es1)
  BY <1>9, ReleasedKept
<1> HIDE DEF t, k, F, c, es1
<1>11. entries' = Shared(es1, k)
  BY <1>3, <1>6 DEF Shared
<1>12. EntriesStep(es1, entries', c, [c EXCEPT ![new] = k])
  BY Zenon, <1>2, <1>4, <1>5, <1>11, IncrefSet
<1>13. EntriesStep(entries, entries', fds[p], fds'[p])
  <2> DEFINE u == [c EXCEPT ![new] = k]
  <2>1. EntriesStep(entries, es1, t, c) /\ EntriesStep(es1, entries', c, u)
    BY <1>4, <1>12
  <2> HIDE DEF u
  <2>2. EntriesStep(entries, entries', t, u)
    BY Zenon, <2>1, EntriesTwice
  <2> QED BY Zenon, <1>7, <2>2 DEF t, u
<1>14. HoldersStep(holder, holder', p)
  BY <1>3, SameHolders
<1>15. holder'[p] = "none" => fds'[p] = NoFds
  <2>1. fds[p][old] # -1
    BY <1>2, FilesAssumption DEF k, Index
  <2> QED BY <1>1, <1>3, <2>1 DEF TablesOK, NoFds
<1>16. TabsOK'
  BY Zenon, <1>1, <1>8, <1>13, <1>14, <1>15, TablesStep DEF TabsOK
<1>17. ASSUME NEW i \in Index
       PROVE  /\ entries'[i].vnode = es1[i].vnode
              /\ entries'[i].offset = es1[i].offset
              /\ entries'[i] # None => es1[i] # None
  <2>1. CASE es1[i] = None
    BY <1>11, <2>1 DEF Incref, Shared
  <2>2. CASE es1[i] # None
    <3>1. entries'[i] = es1[i] \/ entries'[i] = [es1[i] EXCEPT !.refcount = @ + 1]
      BY <1>11 DEF Incref, Shared
    <3>2. es1[i] = [vnode |-> es1[i].vnode, offset |-> es1[i].offset, refcount |-> es1[i].refcount]
      <4> DEFINE m == Names(t, F, i)
      <4>1. es1[i] = Decref(entries[i], m)
        BY <1>6
      <4> HIDE DEF m
      <4>2. es1[i] = entries[i] \/ es1[i] = [entries[i] EXCEPT !.refcount = @ - m]
        BY <2>2, <4>1 DEF Decref
      <4>3. entries[i] \in FileEntries
        BY <1>9
      <4> QED BY <4>2, <4>3 DEF FileEntries
    <3> QED BY <2>2, <3>1, <3>2
  <2> QED BY <2>1, <2>2
<1>18. Kept(entries, entries')
  BY Zenon, <1>10, <1>17 DEF Kept
<1>19. SameVnodes(es1, entries')
  BY Zenon, <1>17 DEF SameVnodes
<1> QED BY <1>16, <1>18, <1>19 DEF QuietCall, es1, t, F

\* lseek() and read(): an offset moves.
LEMMA SeekCall ==
  ASSUME TabsOK, NEW p \in Procs, NEW fd \in Fds, NEW o \in 0..MaxOffset, SysSeek(p, fd, o)
  PROVE  /\ TabsOK'
         /\ fds[p][fd] \in Index
         /\ SameVnodes(entries, entries')
         /\ \A i \in Index : entries'[i].offset = IF i = fds[p][fd] THEN o ELSE entries[i].offset
<1>1. TablesOK(holder, fds, entries) /\ fds \in [Procs -> Tables] /\ entries \in [Index -> FileEntries]
  BY DEF TabsOK, TablesOK
<1> DEFINE k == fds[p][fd]
           d == [entries[k] EXCEPT !.offset = o]
<1>2. k \in Index /\ entries[k] # None /\ UNCHANGED <<holder, fds>>
  BY <1>1 DEF SysSeek, Tables
<1>3. entries' = [j \in Index |-> IF j = k THEN d ELSE entries[j]]
  BY <1>1, <1>2 DEF SysSeek
<1>4. d \in FileEntries /\ d.refcount = entries[k].refcount /\ d.vnode = entries[k].vnode /\ d.offset = o
  BY <1>1, <1>2 DEF FileEntries
<1> HIDE DEF d, k
<1>5. ASSUME NEW i \in Index, NEW n \in Nat, EntryOK(entries[i], n) PROVE EntryOK(entries'[i], n)
  <2>1. CASE i # k
    BY <1>3, <1>5, <2>1
  <2>2. CASE i = k
    <3>1. entries'[i] = d /\ entries[k].refcount = n /\ n # 0
      BY <1>2, <1>3, <1>5, <2>2 DEF EntryOK
    <3>2. d # None
      BY <1>4, <3>1, NoneOK
    <3> QED BY <1>4, <3>1, <3>2 DEF EntryOK
  <2> QED BY <2>1, <2>2
<1>6. \A i \in Index : Count(fds, i) \in Nat /\ EntryOK(entries[i], Count(fds, i))
  BY <1>1, RefsFinite DEF TablesOK
<1>7. \A i \in Index : EntryOK(entries'[i], Count(fds, i))
  BY <1>5, <1>6
<1>8. TablesOK(holder, fds, entries')
  BY <1>1, <1>3, <1>7 DEF TablesOK, EntryOK
<1>9. TabsOK'
  BY <1>2, <1>8 DEF TabsOK
<1> QED BY <1>2, <1>3, <1>4, <1>9 DEF k, SameVnodes

\* Death leaves the descriptors open.
LEMMA ExitCall ==
  ASSUME TabsOK, NEW p \in Procs, holder[p] = "live", Exit(p)
  PROVE  QuietCall
<1>1. TablesOK(holder', fds, entries)
  BY DEF TabsOK, TablesOK, Exit
<1> QED BY <1>1, SameKept DEF QuietCall, TabsOK, Exit

\* fork(): the child has the names of the parent.
LEMMA ForkCall ==
  ASSUME TabsOK, NEW p \in Procs, NEW c \in Procs, holder[p] = "live", SysFork(p, c)
  PROVE  QuietCall /\ SameVnodes(entries, entries')
<1>1. /\ TablesOK(holder, fds, entries) /\ fds \in [Procs -> Tables]
      /\ entries \in [Index -> FileEntries] /\ holder \in [Procs -> {"none", "live", "zombie"}]
      /\ \A q \in Procs : holder[q] = "none" => fds[q] = NoFds
  BY DEF TabsOK, TablesOK
<1>2. /\ holder[c] = "none" /\ holder' = [holder EXCEPT ![c] = "live"] /\ c # p
      /\ fds' = [fds EXCEPT ![c] = fds[p]]
      /\ \A i \in Index : entries'[i] = Incref(entries[i], Names(fds[p], Fds, i))
      /\ entries' = [i \in Index |-> entries'[i]]
  BY DEF SysFork
<1>3. fds[c] = NoFds /\ fds'[c] = fds[p] /\ fds' \in [Procs -> Tables] /\ Differ(fds, fds', c)
  BY <1>1, <1>2 DEF Differ
<1>4. ASSUME NEW i \in Index
      PROVE  /\ EntryOK(entries'[i], Count(fds', i))
             /\ entries'[i].vnode = entries[i].vnode /\ entries'[i].offset = entries[i].offset
  <2> DEFINE n == Count(fds, i)
             m == Names(fds[p], Fds, i)
  <2>1. n \in Nat /\ EntryOK(entries[i], n)
    BY <1>1, RefsFinite DEF TablesOK
  <2>2. m \in Nat
    BY NamesType
  <2>3. n - m \in Nat
    BY TableChange DEF Differ
  <2>4. Names(fds[c], Fds, i) = 0
    BY <1>3, NoFdsTable
  <2>5. Count(fds', i) = n - Names(fds[c], Fds, i) + Names(fds'[c], Fds, i)
    BY <1>3, TableChange
  <2>6. Count(fds', i) = n + m
    BY <1>3, <2>1, <2>2, <2>4, <2>5
  <2>7. entries'[i] = Incref(entries[i], m)
    BY <1>2
  <2> HIDE DEF n, m
  <2>8. n = 0 => m = 0
    BY <2>1, <2>2, <2>3
  <2> DEFINE e == entries[i]
  <2>9. n \in Nat /\ EntryOK(e, n) /\ entries'[i] = Incref(e, m)
    BY <2>1, <2>7
  <2> HIDE DEF e
  <2>10. EntryOK(Incref(e, m), n + m) /\ Incref(e, m).vnode = e.vnode /\ Incref(e, m).offset = e.offset
    BY Zenon, <2>2, <2>8, <2>9, IncrefOK
  <2> QED BY Zenon, <2>6, <2>9, <2>10 DEF e
<1>5. TablesOK(holder', fds', entries')
  <2>1. entries' \in [Index -> FileEntries]
    BY <1>2, <1>4 DEF EntryOK
  <2>2. \A q \in Procs : holder'[q] = "none" => fds'[q] = NoFds
    BY <1>1, <1>2
  <2>3. holder' \in [Procs -> {"none", "live", "zombie"}]
    BY <1>1, <1>2
  <2> QED BY <1>3, <1>4, <2>1, <2>2, <2>3 DEF TablesOK
<1> QED BY <1>4, <1>5 DEF QuietCall, TabsOK, Kept, SameVnodes

\* The entries once entry k is opened for the vnode vn.
Opened(es, k, vn) == [j \in Index |-> IF j = k THEN OpenFile(vn) ELSE es[j]]

\* A free descriptor becomes the first name of a free entry.
LEMMA OpenSet ==
  ASSUME NEW es, NEW t \in Tables, NEW fd \in Fds, t[fd] = -1, NEW k \in Index, es[k] = None,
         NEW vn \in Vnodes
  PROVE  EntriesStep(es, Opened(es, k, vn), t, [t EXCEPT ![fd] = k])
<1> DEFINE es2 == Opened(es, k, vn)
<1>1. es2 = [j \in Index |-> es2[j]] /\ \A j \in Index \ {k} : es2[j] = es[j]
  BY DEF Opened
<1>2. es2[k] = OpenFile(vn)
  BY DEF Opened
<1> HIDE DEF es2
<1>3. ASSUME NEW n \in Nat, EntryOK(es[k], n) PROVE EntryOK(es2[k], n + 1)
  <2>1. n = 0
    BY <1>3 DEF EntryOK
  <2> QED BY <1>2, <2>1, OpenFileOK
<1>4. EntriesStep(es, es2, t, [t EXCEPT ![fd] = k])
  BY <1>1, <1>3, EntriesSet
<1> QED BY <1>4 DEF es2

\* The entry oft_alloc finds is free, and the table has one for every call that
\* does not fail with ENFILE.
OpensOne(p) ==
  \E i \in Index, fd \in Fds :
    /\ entries[i] = None /\ fds[p][fd] = -1
    /\ entries' = Opened(entries, i, <<"file", 0>>)
    /\ fds' = [fds EXCEPT ![p][fd] = i]

\* open(): one entry and one descriptor, or no change.
LEMMA OpenCall ==
  ASSUME TabsOK, NEW p \in Procs, holder[p] = "live", SysOpen(p)
  PROVE  /\ TabsOK'
         /\ \/ OpensOne(p) /\ failed' = "no"
            \/ UNCHANGED <<fds, entries>> /\ failed' = "no"
            \/ FreeIndex = {} /\ UNCHANGED <<fds, entries>> /\ failed' = "open"
<1>1. TablesOK(holder, fds, entries) /\ fds \in [Procs -> Tables] /\ entries \in [Index -> FileEntries]
  BY DEF TabsOK, TablesOK
<1>2. UNCHANGED holder
  BY DEF SysOpen
<1>3. UNCHANGED <<fds, entries>> => TabsOK'
  BY <1>1, <1>2 DEF TabsOK
<1>4. ASSUME NEW i \in Index, NEW fd \in Fds, entries[i] = None, fds[p][fd] = -1,
             entries' = Opened(entries, i, <<"file", 0>>), fds' = [fds EXCEPT ![p][fd] = i]
      PROVE  TabsOK'
  <2>1. <<"file", 0>> \in Vnodes /\ fds[p] \in Tables
    BY <1>1 DEF Vnodes
  <2>2. EntriesStep(entries, Opened(entries, i, <<"file", 0>>), fds[p], [fds[p] EXCEPT ![fd] = i])
    BY <1>4, <2>1, OpenSet
  <2>3. fds'[p] = [fds[p] EXCEPT ![fd] = i] /\ fds' \in [Procs -> Tables]
    BY <1>1, <1>4 DEF Tables
  <2>4. EntriesStep(entries, entries', fds[p], fds'[p])
    BY Zenon, <1>4, <2>2, <2>3
  <2>5. Differ(fds, fds', p)
    BY <1>1, <1>4 DEF Differ
  <2>6. HoldersStep(holder, holder', p) /\ holder'[p] # "none"
    BY <1>2, SameHolders
  <2> QED BY Zenon, <1>1, <2>3, <2>4, <2>5, <2>6, TablesStep DEF TabsOK
<1>5. CASE \E i \in Index, fd \in Fds :
             /\ IsFirstFree(i, FreeIndex)
             /\ IsFirstFree(fd, FreeFds(fds[p]))
             /\ entries' = [entries EXCEPT ![i] = OpenFile(<<"file", 0>>)]
             /\ fds' = [fds EXCEPT ![p][fd] = i]
             /\ failed' = "no"
  <2>1. PICK i \in Index, fd \in Fds :
             /\ IsFirstFree(i, FreeIndex)
             /\ IsFirstFree(fd, FreeFds(fds[p]))
             /\ entries' = [entries EXCEPT ![i] = OpenFile(<<"file", 0>>)]
             /\ fds' = [fds EXCEPT ![p][fd] = i]
             /\ failed' = "no"
    BY <1>5
  <2>2. entries[i] = None /\ fds[p][fd] = -1
    BY <2>1 DEF IsFirstFree, FreeIndex, FreeFds
  <2>3. entries' = Opened(entries, i, <<"file", 0>>)
    BY <1>1, <2>1 DEF Opened
  <2> QED BY <1>4, <2>1, <2>2, <2>3 DEF OpensOne
<1>6. CASE /\ \E i \in Index :
                /\ IsFirstFree(i, FreeIndex)
                /\ entries' = [entries EXCEPT ![i] = Decref(OpenFile(<<"file", 0>>), 1)]
           /\ failed' = "no"
           /\ UNCHANGED fds
  <2>1. Decref(OpenFile(<<"file", 0>>), 1) = None
    BY DEF Decref, OpenFile
  <2>2. entries' = entries
    BY <1>1, <1>6, <2>1 DEF IsFirstFree, FreeIndex
  <2> QED BY <1>3, <1>6, <2>2
<1>7. CASE FreeIndex = {} /\ failed' = "open" /\ UNCHANGED <<fds, entries>>
  BY <1>3, <1>7
<1> QED BY <1>5, <1>6, <1>7 DEF SysOpen

\* pipe(): two entries and two descriptors.
OpensTwo(p, k) ==
  \E i, j \in Index, rfd, wfd \in Fds :
    /\ i # j /\ rfd # wfd
    /\ entries[i] = None /\ entries[j] = None /\ fds[p][rfd] = -1 /\ fds[p][wfd] = -1
    /\ entries' = Opened(Opened(entries, i, <<"r", k>>), j, <<"w", k>>)
    /\ fds' = [fds EXCEPT ![p][rfd] = i, ![p][wfd] = j]

\* pipe(), when it succeeds.
LEMMA PipeCall ==
  ASSUME TabsOK, NEW p \in Procs, holder[p] = "live", NEW k \in PipeIds, PipeDone(p, k),
         UNCHANGED holder
  PROVE  TabsOK' /\ OpensTwo(p, k)
<1>1. TablesOK(holder, fds, entries) /\ fds \in [Procs -> Tables] /\ entries \in [Index -> FileEntries]
  BY DEF TabsOK, TablesOK
<1>2. PICK i \in Index, j \in Index, rfd \in Fds, wfd \in Fds :
       /\ IsFirstFree(i, FreeIndex) /\ IsFirstFree(j, FreeIndex \ {i})
       /\ IsFirstFree(rfd, FreeFds(fds[p]))
       /\ IsFirstFree(wfd, FreeFds(fds[p]) \ {rfd})
       /\ entries' = [entries EXCEPT ![i] = OpenFile(<<"r", k>>),
                                     ![j] = OpenFile(<<"w", k>>)]
       /\ fds' = [fds EXCEPT ![p][rfd] = i, ![p][wfd] = j]
  BY DEF PipeDone
<1> DEFINE es1 == Opened(entries, i, <<"r", k>>)
           t == fds[p]
           t1 == [t EXCEPT ![rfd] = i]
           t2 == [t1 EXCEPT ![wfd] = j]
<1>3. /\ i # j /\ rfd # wfd
      /\ entries[i] = None /\ entries[j] = None /\ t[rfd] = -1 /\ t[wfd] = -1
  BY <1>2 DEF IsFirstFree, FreeIndex, FreeFds
<1>4. entries' = Opened(es1, j, <<"w", k>>)
  BY <1>1, <1>2 DEF Opened
<1>5. t \in Tables /\ t1 \in Tables /\ t1[wfd] = -1 /\ t2 \in Tables
  BY <1>1, <1>3 DEF Tables
<1>6. fds'[p] = t2 /\ fds' \in [Procs -> Tables] /\ Differ(fds, fds', p)
  BY <1>1, <1>2, <1>5 DEF Differ
<1>7. es1[j] = None
  BY <1>3 DEF Opened
<1>8. <<"r", k>> \in Vnodes /\ <<"w", k>> \in Vnodes
  BY DEF Vnodes
<1>9. EntriesStep(entries, es1, t, t1)
  BY <1>3, <1>5, <1>8, OpenSet
<1>10. EntriesStep(es1, Opened(es1, j, <<"w", k>>), t1, t2)
  <2> HIDE DEF es1, t1
  <2> QED BY <1>5, <1>7, <1>8, OpenSet
<1>11. EntriesStep(entries, entries', fds[p], fds'[p])
  <2> HIDE DEF es1, t1, t2
  <2>1. EntriesStep(entries, entries', t, t2)
    BY Zenon, <1>4, <1>9, <1>10, EntriesTwice
  <2> QED BY Zenon, <1>6, <2>1
<1>12. HoldersStep(holder, holder', p) /\ holder'[p] # "none"
  BY SameHolders
<1>13. TabsOK'
  BY Zenon, <1>1, <1>6, <1>11, <1>12, TablesStep DEF TabsOK
<1> QED BY <1>2, <1>3, <1>4, <1>13 DEF OpensTwo

\* spawn_init: the terminal has STD_FDS names.
LEMMA TablesStart == Init => TabsOK
<1> SUFFICES ASSUME Init PROVE TabsOK
  OBVIOUS
<1> DEFINE t == [fd \in Fds |-> IF fd < STD_FDS THEN 0 ELSE -1]
           f0 == [p \in Procs |-> NoFds]
           tty == [vnode |-> <<"tty", 0>>, offset |-> 0, refcount |-> STD_FDS]
<1>1. 1 \in Procs /\ 0 \in Index /\ 0 # -1
  BY FilesAssumption DEF Procs, Index
<1>2. t \in Tables /\ fds \in [Procs -> Tables] /\ fds[1] = t /\ \A p \in Procs \ {1} : fds[p] = NoFds
  BY <1>1, NoFdsTable DEF Init, Tables
<1>3. Names(t, Fds, 0) = STD_FDS /\ \A i \in Index \ {0} : Names(t, Fds, i) = 0
  <2>1. Naming(t, Fds, 0) = 0..(STD_FDS - 1)
    BY FilesAssumption DEF Naming, Fds
  <2>2. Cardinality(0..(STD_FDS - 1)) = STD_FDS
    BY FS_Interval, FilesAssumption
  <2>3. \A i \in Index \ {0} : \A fd \in Fds : t[fd] # i
    BY FilesAssumption DEF Index
  <2> HIDE DEF t
  <2> QED BY <2>1, <2>2, <2>3, NamesType
<1>4. f0[1] = NoFds /\ Differ(f0, fds, 1)
  BY <1>1, <1>2 DEF Differ
<1>5. ASSUME NEW i \in Index PROVE Count(f0, i) = 0
  <2>1. Refs(f0, i) = {}
    BY FilesAssumption DEF Refs, NoFds, Index
  <2> QED BY <2>1, FS_EmptySet DEF Count
<1>6. ASSUME NEW i \in Index PROVE Count(fds, i) = Names(t, Fds, i)
  <2>1. Count(fds, i) = Count(f0, i) - Names(f0[1], Fds, i) + Names(fds[1], Fds, i)
    BY <1>1, <1>4, TableChange
  <2>2. Names(f0[1], Fds, i) = 0
    BY <1>4, NoFdsTable
  <2>3. Names(fds[1], Fds, i) = Names(t, Fds, i) /\ Names(t, Fds, i) \in Nat
    BY Zenon, <1>2, NamesType
  <2> QED BY <1>5, <2>1, <2>2, <2>3
<1>7. entries = [i \in Index |-> IF i = 0 THEN tty ELSE None]
  BY DEF Init
<1>8. EntryOK(tty, STD_FDS)
  <2>1. tty \in FileEntries /\ tty.refcount = STD_FDS /\ STD_FDS # 0 /\ STD_FDS \in Nat
    BY FilesAssumption DEF FileEntries, Vnodes
  <2> HIDE DEF tty
  <2>2. tty # None
    BY <2>1, NoneOK
  <2> QED BY <2>1, <2>2 DEF EntryOK
<1> HIDE DEF tty, t, f0
<1>9. ASSUME NEW i \in Index PROVE EntryOK(entries[i], Count(fds, i))
  BY <1>3, <1>6, <1>7, <1>8, NoneOK
<1>10. entries \in [Index -> FileEntries]
  BY <1>7, <1>8, NoneOK DEF EntryOK
<1>11. /\ holder \in [Procs -> {"none", "live", "zombie"}]
       /\ \A p \in Procs : holder[p] = "none" => fds[p] = NoFds
  BY <1>2 DEF Init
<1> QED BY <1>2, <1>9, <1>10, <1>11 DEF TabsOK, TablesOK

-----------------------------------------------------------------------------
(* The heap of the pipes *)

AllEnds == {"r", "w"} \X PipeIds
Objects == {"buf", "r", "w"} \X PipeIds

\* A heap, and one on which nothing was freed twice.
AnyHeap(o, r, b) == [objs |-> o, refs |-> r, bad |-> b]
Heap(o, r) == AnyHeap(o, r, FALSE)

\* 1 if v is in E, and 0 if not.
Has(E, v) == IF v \in E THEN 1 ELSE 0

\* EndsIn counts the two ends.
LEMMA EndsInIs ==
  ASSUME NEW E, NEW k
  PROVE  EndsIn(E, k) = Has(E, <<"r", k>>) + Has(E, <<"w", k>>) /\ EndsIn(E, k) \in 0..2
<1> DEFINE S == {side \in {"r", "w"} : <<side, k>> \in E}
<1>1. EndsIn(E, k) = Cardinality(S)
  BY DEF EndsIn
<1>2. /\ Cardinality({}) = 0 /\ Cardinality({"r"}) = 1 /\ Cardinality({"w"}) = 1
      /\ Cardinality({"r", "w"}) = 2
  <2>1. IsFiniteSet({"r"}) /\ "w" \notin {"r"} /\ {"r"} \union {"w"} = {"r", "w"}
    BY FS_Singleton
  <2>2. Cardinality({"r"}) = 1 /\ Cardinality({"w"}) = 1 /\ Cardinality({}) = 0
    BY FS_Singleton, FS_EmptySet
  <2>3. Cardinality({"r"} \union {"w"}) = Cardinality({"r"}) + 1
    BY <2>1, FS_AddElement
  <2> QED BY <2>1, <2>2, <2>3
<1>3. CASE <<"r", k>> \in E /\ <<"w", k>> \in E
  <2>1. S = {"r", "w"}
    BY <1>3
  <2>2. Has(E, <<"r", k>>) = 1 /\ Has(E, <<"w", k>>) = 1
    BY <1>3 DEF Has
  <2>3. EndsIn(E, k) = 2
    BY Zenon, <1>1, <1>2, <2>1
  <2> QED BY <2>2, <2>3
<1>4. CASE <<"r", k>> \in E /\ <<"w", k>> \notin E
  <2>1. S = {"r"}
    BY <1>4
  <2>2. Has(E, <<"r", k>>) = 1 /\ Has(E, <<"w", k>>) = 0
    BY <1>4 DEF Has
  <2>3. EndsIn(E, k) = 1
    BY Zenon, <1>1, <1>2, <2>1
  <2> QED BY <2>2, <2>3
<1>5. CASE <<"r", k>> \notin E /\ <<"w", k>> \in E
  <2>1. S = {"w"}
    BY <1>5
  <2>2. Has(E, <<"r", k>>) = 0 /\ Has(E, <<"w", k>>) = 1
    BY <1>5 DEF Has
  <2>3. EndsIn(E, k) = 1
    BY Zenon, <1>1, <1>2, <2>1
  <2> QED BY <2>2, <2>3
<1>6. CASE <<"r", k>> \notin E /\ <<"w", k>> \notin E
  <2>1. S = {}
    BY <1>6
  <2>2. Has(E, <<"r", k>>) = 0 /\ Has(E, <<"w", k>>) = 0
    BY <1>6 DEF Has
  <2>3. EndsIn(E, k) = 0
    BY Zenon, <1>1, <1>2, <2>1
  <2> QED BY <2>2, <2>3
<1> QED BY <1>3, <1>4, <1>5, <1>6

\* Taking ends E out of the open ends O.
LEMMA EndsLeft ==
  ASSUME NEW O, NEW E \in SUBSET O, NEW k
  PROVE  /\ EndsIn(O \ E, k) = EndsIn(O, k) - EndsIn(E, k)
         /\ EndsIn(E, k) \in 0..EndsIn(O, k)
<1>1. ASSUME NEW v PROVE Has(O \ E, v) = Has(O, v) - Has(E, v) /\ Has(E, v) \in 0..Has(O, v)
                         /\ Has(O, v) \in 0..1
  BY DEF Has
<1>2. \A S \in {O, E, O \ E} : EndsIn(S, k) = Has(S, <<"r", k>>) + Has(S, <<"w", k>>)
  BY EndsInIs
<1> QED BY <1>1, <1>2

\* The ends of pipe k that are open are in the heap, with the buffer of k while
\* there are any, and the buffer counts them.
HeapOK(h, O) ==
  /\ h = Heap(h.objs, h.refs)
  /\ h.objs \in SUBSET Objects
  /\ h.refs = [k \in PipeIds |-> EndsIn(O, k)]
  /\ \A k \in PipeIds : <<"buf", k>> \in h.objs <=> EndsIn(O, k) # 0
  /\ \A v \in AllEnds : v \in h.objs <=> v \in O

\* pipe_close() of some of the open ends.
LEMMA CloseHeap ==
  ASSUME NEW h, NEW O \in SUBSET AllEnds, HeapOK(h, O), NEW E \in SUBSET O
  PROVE  HeapOK(ClosePipes(h, E), O \ E)
<1> DEFINE gone == {<<"buf", k>> : k \in {j \in PipeIds : h.refs[j] \in 1..EndsIn(E, j)}}
           o == h.objs \ (E \union gone)
           r == [k \in PipeIds |-> h.refs[k] - EndsIn(E, k)]
<1>1. \A k \in PipeIds : /\ h.refs[k] = EndsIn(O, k) /\ EndsIn(O, k) \in 0..2
                         /\ EndsIn(E, k) \in 0..EndsIn(O, k)
                         /\ EndsIn(O \ E, k) = EndsIn(O, k) - EndsIn(E, k)
  <2> SUFFICES ASSUME NEW k \in PipeIds
               PROVE  /\ h.refs[k] = EndsIn(O, k) /\ EndsIn(O, k) \in 0..2
                      /\ EndsIn(E, k) \in 0..EndsIn(O, k)
                      /\ EndsIn(O \ E, k) = EndsIn(O, k) - EndsIn(E, k)
    OBVIOUS
  <2>1. h.refs[k] = EndsIn(O, k)
    BY DEF HeapOK
  <2>2. EndsIn(O, k) \in 0..2
    BY EndsInIs
  <2> QED BY <2>1, <2>2, EndsLeft
<1>2. ASSUME NEW k \in PipeIds
      PROVE  <<"buf", k>> \in gone <=> EndsIn(O, k) # 0 /\ EndsIn(O \ E, k) = 0
  <2>1. <<"buf", k>> \in gone <=> h.refs[k] \in 1..EndsIn(E, k)
    OBVIOUS
  <2> HIDE DEF gone
  <2> QED BY <1>1, <2>1
<1>3. gone \in SUBSET h.objs /\ \A v \in AllEnds : v \notin gone
  BY <1>1 DEF HeapOK, AllEnds
<1>4. E \in SUBSET h.objs
  BY DEF HeapOK
<1>5. ClosePipes(h, E) = Heap(o, r)
  <2>1. ClosePipes(h, E) = [objs |-> o, refs |-> r, bad |-> h.bad \/ ~(E \union gone \subseteq h.objs)]
    BY DEF ClosePipes
  <2>2. h.bad = FALSE
    BY DEF HeapOK, Heap, AnyHeap
  <2>3. E \union gone \subseteq h.objs
    BY <1>3, <1>4
  <2> HIDE DEF gone, o, r
  <2> QED BY <2>1, <2>2, <2>3 DEF Heap, AnyHeap
<1>6. r = [k \in PipeIds |-> EndsIn(O \ E, k)]
  BY <1>1
<1>7. \A k \in PipeIds : <<"buf", k>> \in o <=> EndsIn(O \ E, k) # 0
  <2>1. \A k \in PipeIds : <<"buf", k>> \notin E
    BY DEF AllEnds
  <2>2. \A k \in PipeIds : <<"buf", k>> \in h.objs <=> EndsIn(O, k) # 0
    BY DEF HeapOK
  <2>3. \A k \in PipeIds : EndsIn(O \ E, k) # 0 => EndsIn(O, k) # 0
    BY <1>1
  <2> HIDE DEF gone
  <2> QED BY Zenon, <1>2, <2>1, <2>2, <2>3
<1>8. \A v \in AllEnds : v \in o <=> v \in O \ E
  <2> HIDE DEF gone
  <2> QED BY <1>3 DEF HeapOK
<1>9. o \in SUBSET Objects
  BY DEF HeapOK
<1> HIDE DEF o, r
<1>10. Heap(o, r).objs = o /\ Heap(o, r).refs = r
  BY DEF Heap, AnyHeap
<1> QED BY <1>5, <1>6, <1>7, <1>8, <1>9, <1>10 DEF HeapOK

\* kfree of an object that is there.
LEMMA KfreeHeap ==
  ASSUME NEW o, NEW r, NEW obj \in o
  PROVE  Kfree(Heap(o, r), obj) = Heap(o \ {obj}, r)
<1>1. ASSUME NEW b PROVE Kfree(AnyHeap(o, r, b), obj) = AnyHeap(o \ {obj}, r, b)
  BY DEF Kfree, AnyHeap
<1> QED BY <1>1 DEF Heap

\* kmalloc.
LEMMA KmallocHeap ==
  ASSUME NEW o, NEW r, NEW S
  PROVE  Kmalloc(Heap(o, r), S) = Heap(o \union S, r)
<1>1. ASSUME NEW b PROVE Kmalloc(AnyHeap(o, r, b), S) = AnyHeap(o \union S, r, b)
  BY DEF Kmalloc, AnyHeap
<1> QED BY <1>1 DEF Heap

\* A store to a reference count.
LEMMA StoreHeap ==
  ASSUME NEW o, NEW r, NEW k, NEW n
  PROVE  [Heap(o, r) EXCEPT !.refs[k] = n] = Heap(o, [r EXCEPT ![k] = n])
<1>1. ASSUME NEW b PROVE [AnyHeap(o, r, b) EXCEPT !.refs[k] = n] = AnyHeap(o, [r EXCEPT ![k] = n], b)
  BY DEF AnyHeap
<1> QED BY <1>1 DEF Heap

\* The fields of a heap.
LEMMA HeapFields ==
  ASSUME NEW o, NEW r
  PROVE  Heap(o, r).objs = o /\ Heap(o, r).refs = r
BY DEF Heap, AnyHeap

\* The heap without an end of pipe k.
EndGone(o, r, side, k) ==
  Heap((o \ {<<side, k>>}) \ (IF r[k] = 1 THEN {<<"buf", k>>} ELSE {}),
       [r EXCEPT ![k] = r[k] - 1])

\* pipe_close() of an end that is there.
LEMMA PipeCloseIs ==
  ASSUME NEW o, NEW r \in [PipeIds -> Int], NEW side \in {"r", "w"}, NEW k \in PipeIds,
         <<side, k>> \in o, <<"buf", k>> \in o
  PROVE  PipeClose(Heap(o, r), <<side, k>>) = EndGone(o, r, side, k)
<1> DEFINE r1 == [r EXCEPT ![k] = r[k] - 1]
           vn == <<side, k>>
           o1 == o \ {vn}
           h1 == Kfree([Heap(o, r) EXCEPT !.refs[k] = @ - 1], vn)
<1>1. vn[2] = k
  OBVIOUS
<1>2. PipeClose(Heap(o, r), vn) = IF h1.refs[k] = 0 THEN Kfree(h1, <<"buf", k>>) ELSE h1
  BY <1>1 DEF PipeClose
<1>3. r1 \in [PipeIds -> Int] /\ r1[k] = r[k] - 1 /\ r[k] \in Int
  OBVIOUS
<1>4. [Heap(o, r) EXCEPT !.refs[k] = @ - 1] = Heap(o, r1)
  <2>1. ASSUME NEW b PROVE [AnyHeap(o, r, b) EXCEPT !.refs[k] = @ - 1] = AnyHeap(o, r1, b)
    BY DEF AnyHeap
  <2> QED BY <2>1 DEF Heap
<1>5. <<"buf", k>> \in o1 /\ vn \in o
  OBVIOUS
<1> HIDE DEF r1, vn, o1
<1>6. h1 = Heap(o1, r1)
  <2>1. Kfree(Heap(o, r1), vn) = Heap(o \ {vn}, r1)
    BY <1>5, KfreeHeap
  <2> QED BY Zenon, <1>4, <2>1 DEF o1
<1>7. h1.refs[k] = r1[k] /\ Kfree(h1, <<"buf", k>>) = Heap(o1 \ {<<"buf", k>>}, r1)
  <2>1. Kfree(Heap(o1, r1), <<"buf", k>>) = Heap(o1 \ {<<"buf", k>>}, r1) /\ Heap(o1, r1).refs = r1
    BY <1>5, KfreeHeap, HeapFields
  <2> QED BY Zenon, <1>6, <2>1
<1> HIDE DEF h1
<1>8. PipeClose(Heap(o, r), vn) = Heap(o1 \ (IF r[k] = 1 THEN {<<"buf", k>>} ELSE {}), r1)
  <2>1. CASE r[k] = 1
    BY <1>2, <1>3, <1>7, <2>1
  <2>2. CASE r[k] # 1
    <3>1. h1.refs[k] # 0 /\ o1 \ {} = o1
      BY <1>3, <1>7, <2>2
    <3> QED BY <1>2, <1>6, <2>2, <3>1
  <2> QED BY <2>1, <2>2
<1> QED BY Zenon, <1>8 DEF r1, vn, o1, EndGone

\* A pipe whose buffer is not allocated has no open end.
LEMMA NoBufNoEnds ==
  ASSUME NEW h, NEW O \in SUBSET AllEnds, HeapOK(h, O), NEW k \in PipeIds, <<"buf", k>> \notin h.objs
  PROVE  /\ h.refs[k] = 0 /\ EndsIn(O, k) = 0 /\ h.refs \in [PipeIds -> Int]
         /\ \A side \in {"r", "w"} : <<side, k>> \notin O /\ <<side, k>> \notin h.objs
<1>1. EndsIn(O, k) = 0 /\ h.refs[k] = 0
  BY DEF HeapOK
<1>2. Has(O, <<"r", k>>) = 0 /\ Has(O, <<"w", k>>) = 0
  <2>1. Has(O, <<"r", k>>) \in 0..1 /\ Has(O, <<"w", k>>) \in 0..1
    BY DEF Has
  <2>2. Has(O, <<"r", k>>) + Has(O, <<"w", k>>) = 0
    BY <1>1, EndsInIs
  <2> QED BY <2>1, <2>2
<1>3. <<"r", k>> \notin O /\ <<"w", k>> \notin O /\ <<"r", k>> \in AllEnds /\ <<"w", k>> \in AllEnds
  BY <1>2 DEF Has, AllEnds
<1>4. h.refs \in [PipeIds -> Int]
  <2>1. ASSUME NEW j \in PipeIds PROVE EndsIn(O, j) \in Int
    <3>1. EndsIn(O, j) \in 0..2
      BY EndsInIs
    <3> QED BY <3>1
  <2> QED BY <2>1 DEF HeapOK
<1> QED BY <1>1, <1>3, <1>4 DEF HeapOK

\* The three objects of pipe k.
OfPipe(k) == {<<"buf", k>>, <<"r", k>>, <<"w", k>>}

\* The heap after the three allocations of sys_pipe: the two new ends.
LEMMA AllocatedHeap ==
  ASSUME NEW O \in SUBSET AllEnds, HeapOK(heap, O), NEW k \in PipeIds, <<"buf", k>> \notin heap.objs
  PROVE  /\ PipeAllocated(k) = Heap(heap.objs \union OfPipe(k), [heap.refs EXCEPT ![k] = 2])
         /\ HeapOK(PipeAllocated(k), O \union {<<"r", k>>, <<"w", k>>})
<1> DEFINE o == heap.objs
           r == heap.refs
           h2 == PipeAllocated(k)
           O2 == O \union {<<"r", k>>, <<"w", k>>}
           r2 == [r EXCEPT ![k] = 2]
<1>1. heap = Heap(o, r)
  BY DEF HeapOK
<1>2. h2 = Heap(o \union OfPipe(k), r2)
  <2> HIDE DEF o, r
  <2>1. Kmalloc(Heap(o, r), OfPipe(k)) = Heap(o \union OfPipe(k), r)
    BY KmallocHeap
  <2>2. h2 = [Heap(o \union OfPipe(k), r) EXCEPT !.refs[k] = 2]
    BY Zenon, <1>1, <2>1 DEF PipeAllocated, OfPipe
  <2> DEFINE o3 == o \union OfPipe(k)
  <2> HIDE DEF h2, o3
  <2>3. [Heap(o3, r) EXCEPT !.refs[k] = 2] = Heap(o3, [r EXCEPT ![k] = 2])
    BY StoreHeap
  <2> QED BY Zenon, <2>2, <2>3 DEF o3
<1>3. h2.objs = o \union OfPipe(k) /\ h2.refs = r2
  <2> HIDE DEF o, r2, h2
  <2> QED BY <1>2, HeapFields
<1>4. /\ EndsIn(O2, k) = 2
      /\ \A j \in PipeIds \ {k} : EndsIn(O2, j) = EndsIn(O, j)
  <2>1. Has(O2, <<"r", k>>) = 1 /\ Has(O2, <<"w", k>>) = 1
    BY DEF Has
  <2>2. ASSUME NEW j \in PipeIds \ {k}
        PROVE  Has(O2, <<"r", j>>) = Has(O, <<"r", j>>) /\ Has(O2, <<"w", j>>) = Has(O, <<"w", j>>)
    BY DEF Has
  <2>3. \A j \in PipeIds : EndsIn(O2, j) = Has(O2, <<"r", j>>) + Has(O2, <<"w", j>>)
    BY EndsInIs
  <2>4. \A j \in PipeIds : EndsIn(O, j) = Has(O, <<"r", j>>) + Has(O, <<"w", j>>)
    BY EndsInIs
  <2> HIDE DEF O2
  <2>5. EndsIn(O2, k) = 2
    BY <2>1, <2>3
  <2>6. \A j \in PipeIds \ {k} : EndsIn(O2, j) = EndsIn(O, j)
    BY Zenon, <2>2, <2>3, <2>4
  <2> QED BY <2>5, <2>6
<1>5. r = [j \in PipeIds |-> EndsIn(O, j)] /\ o \in SUBSET Objects
  BY DEF HeapOK
<1>6. r2 = [j \in PipeIds |-> EndsIn(O2, j)]
  BY <1>4, <1>5
<1>7. \A j \in PipeIds : <<"buf", j>> \in h2.objs <=> EndsIn(O2, j) # 0
  <2>1. \A j \in PipeIds : <<"buf", j>> \in h2.objs <=> j = k \/ <<"buf", j>> \in o
    BY <1>3 DEF OfPipe
  <2>2. \A j \in PipeIds : <<"buf", j>> \in o <=> EndsIn(O, j) # 0
    BY DEF HeapOK
  <2>3. EndsIn(O2, k) # 0
    BY <1>4
  <2> HIDE DEF o, O2, h2
  <2> QED BY Zenon, <1>4, <2>1, <2>2, <2>3
<1>8. \A v \in AllEnds : v \in h2.objs <=> v \in O2
  <2>1. \A v \in AllEnds : v \in h2.objs <=> v \in o \/ v \in {<<"r", k>>, <<"w", k>>}
    BY <1>3 DEF OfPipe, AllEnds
  <2> QED BY <2>1 DEF HeapOK
<1>9. h2.objs \in SUBSET Objects
  BY <1>3, <1>5 DEF OfPipe, Objects
<1> HIDE DEF o, r2, h2, O2
<1>10. HeapOK(h2, O2)
  BY <1>2, <1>3, <1>6, <1>7, <1>8, <1>9 DEF HeapOK
<1> QED BY <1>2, <1>10 DEF h2, O2, o, r2

\* A pipe() that fails, at whatever point, leaves the heap as it found it.
LEMMA RollBack ==
  ASSUME NEW O \in SUBSET AllEnds, HeapOK(heap, O), NEW p, NEW k \in PipeIds,
         <<"buf", k>> \notin heap.objs,
         (\E n \in 1..3 : PipeNoMemory(k, n)) \/ PipeNoEntry(k) \/ PipeNoFd(p, k)
  PROVE  heap' = heap
<1> DEFINE o == heap.objs
           r == heap.refs
           b == <<"buf", k>>
           re == <<"r", k>>
           we == <<"w", k>>
           o3 == o \union OfPipe(k)
           r2 == [r EXCEPT ![k] = 2]
<1>1. heap = Heap(o, r)
  BY DEF HeapOK
<1>2. r[k] = 0 /\ r \in [PipeIds -> Int] /\ b \notin o /\ re \notin o /\ we \notin o
  BY NoBufNoEnds
<1>3. PipeAllocated(k) = Heap(o3, r2)
  BY AllocatedHeap
<1>4. b # re /\ b # we /\ re # we
  OBVIOUS
<1>5. re \in o3 /\ we \in o3 /\ b \in o3
  BY DEF OfPipe
<1>6. ((o3 \ {re}) \ {b}) \ {we} = o
  BY <1>2 DEF OfPipe
<1>7. r2 \in [PipeIds -> Int] /\ r2[k] = 2
  BY <1>2
<1>8. \A x \in Int : [[r EXCEPT ![k] = x] EXCEPT ![k] = 0] = r
  BY <1>2
<1> DEFINE r1 == [r2 EXCEPT ![k] = r2[k] - 1]
<1>9. r1 \in [PipeIds -> Int] /\ r1[k] = 1 /\ [r1 EXCEPT ![k] = 0] = r /\ [r2 EXCEPT ![k] = 0] = r
      /\ [r1 EXCEPT ![k] = r1[k] - 1] = r
  BY <1>2, <1>7
<1>10. PipeClose(Heap(o3, r2), re) = Heap(o3 \ {re}, r1)
  <2>1. (o3 \ {re}) \ {} = o3 \ {re} /\ r2[k] # 1
    BY <1>7
  <2> HIDE DEF o3, r2, r1
  <2>2. PipeClose(Heap(o3, r2), re) = EndGone(o3, r2, "r", k)
    BY Zenon, <1>5, <1>7, PipeCloseIs
  <2>3. (IF r2[k] = 1 THEN {b} ELSE {}) = {}
    BY Zenon, <2>1
  <2> QED BY Zenon, <2>1, <2>2, <2>3 DEF EndGone, r1
<1>11. CASE \E n \in 1..3 : PipeNoMemory(k, n)
  <2>1. PICK n \in 1..3 : PipeNoMemory(k, n)
    BY <1>11
  <2>2. CASE n = 1
    BY <2>1, <2>2 DEF PipeNoMemory
  <2>3. CASE n = 2
    <3>1. heap' = Kfree(Kmalloc(Heap(o, r), {b}), b)
      BY <1>1, <2>1, <2>3 DEF PipeNoMemory
    <3>2. b \in o \union {b} /\ (o \union {b}) \ {b} = o
      BY <1>2
    <3> DEFINE o1 == o \union {b}
    <3> HIDE DEF o, r, b
    <3>3. Kmalloc(Heap(o, r), {b}) = Heap(o1, r)
      BY KmallocHeap
    <3> HIDE DEF o1
    <3>4. Kfree(Heap(o1, r), b) = Heap(o1 \ {b}, r)
      BY <3>2, KfreeHeap DEF o1
    <3> QED BY Zenon, <1>1, <3>1, <3>2, <3>3, <3>4 DEF o1
  <2>4. CASE n = 3
    <3>1. heap' = Kfree(Kfree(Kmalloc(Heap(o, r), {b, re}), b), re)
      BY <1>1, <2>1, <2>4 DEF PipeNoMemory
    <3> DEFINE o2 == o \union {b, re}
    <3>2. b \in o2 /\ re \in o2 \ {b} /\ (o2 \ {b}) \ {re} = o
      BY <1>2
    <3> HIDE DEF o, r, b, re
    <3>3. Kmalloc(Heap(o, r), {b, re}) = Heap(o2, r)
      BY KmallocHeap
    <3> HIDE DEF o2
    <3>4. Kfree(Heap(o2, r), b) = Heap(o2 \ {b}, r)
      BY <3>2, KfreeHeap
    <3>5. Kfree(Heap(o2 \ {b}, r), re) = Heap((o2 \ {b}) \ {re}, r)
      BY <3>2, KfreeHeap
    <3> QED BY Zenon, <1>1, <3>1, <3>2, <3>3, <3>4, <3>5
  <2> QED BY <2>1, <2>2, <2>3, <2>4
<1>12. CASE PipeNoEntry(k)
  <2> DEFINE h == IF FreeIndex = {} THEN Kfree(PipeAllocated(k), re) ELSE PipeClose(PipeAllocated(k), re)
  <2>1. heap' = [Kfree(Kfree(h, b), we) EXCEPT !.refs[k] = 0]
    BY <1>12 DEF PipeNoEntry
  <2>2. b \in o3 \ {re} /\ we \in (o3 \ {re}) \ {b}
    BY <1>4, <1>5
  <2> HIDE DEF o3, r2, r1, b, re, we
  <2>3. Kfree(Heap(o3, r2), re) = Heap(o3 \ {re}, r2)
    BY <1>5, KfreeHeap
  <2>4. h = Heap(o3 \ {re}, r2) \/ h = Heap(o3 \ {re}, r1)
    BY Zenon, <1>3, <1>10, <2>3
  <2> HIDE DEF h
  <2>5. ASSUME NEW x, h = Heap(o3 \ {re}, x), [x EXCEPT ![k] = 0] = r PROVE heap' = heap
    <3>1. Kfree(h, b) = Heap((o3 \ {re}) \ {b}, x)
      BY <2>2, <2>5, KfreeHeap
    <3>2. Kfree(Kfree(h, b), we) = Heap(o, x)
      BY <1>6, <2>2, <3>1, KfreeHeap
    <3>3. [Heap(o, x) EXCEPT !.refs[k] = 0] = Heap(o, r)
      BY <2>5, StoreHeap
    <3> QED BY Zenon, <1>1, <2>1, <3>2, <3>3
  <2> QED BY Zenon, <1>9, <2>4, <2>5
<1>13. CASE PipeNoFd(p, k)
  <2>1. heap' = PipeClose(PipeClose(PipeAllocated(k), re), we)
    BY <1>13 DEF PipeNoFd
  <2>2. we \in o3 \ {re} /\ b \in o3 \ {re} /\ ((o3 \ {re}) \ {we}) \ {b} = o
    BY <1>4, <1>5, <1>6
  <2> DEFINE o4 == o3 \ {re}
  <2> HIDE DEF o3, r2, r1
  <2>3. heap' = PipeClose(Heap(o4, r1), we)
    BY Zenon, <1>3, <1>10, <2>1
  <2> HIDE DEF o4
  <2>4. PipeClose(Heap(o4, r1), we) = EndGone(o4, r1, "w", k)
    <3>1. we \in o4 /\ b \in o4
      BY <2>2 DEF o4
    <3> QED BY Zenon, <1>9, <3>1, PipeCloseIs
  <2>5. EndGone(o4, r1, "w", k) = Heap(o, r)
    <3>1. (IF r1[k] = 1 THEN {b} ELSE {}) = {b}
      BY Zenon, <1>9
    <3> QED BY Zenon, <1>9, <2>2, <3>1 DEF o4, EndGone
  <2> QED BY Zenon, <1>1, <2>3, <2>4, <2>5
<1> QED BY <1>11, <1>12, <1>13

-----------------------------------------------------------------------------
(* The open ends of pipes *)

\* The ends that have an entry.
Ends(es) == {v \in AllEnds : \E i \in Index : es[i].vnode = v}

\* No end has two entries.
Distinct(es) ==
  \A i, j \in Index : es[i].vnode \in AllEnds /\ es[i].vnode = es[j].vnode => i = j

\* A call that changes no vnode changes no end.
LEMMA SameEnds ==
  ASSUME NEW es, NEW es2, SameVnodes(es, es2)
  PROVE  Ends(es2) = Ends(es) /\ (Distinct(es) => Distinct(es2))
BY DEF SameVnodes, Ends, Distinct

\* The free entry and a file are no ends.
LEMMA NoEnds == None.vnode \notin AllEnds /\ <<"file", 0>> \notin AllEnds /\ <<"tty", 0>> \notin AllEnds
BY DEF None, AllEnds

\* Entries that keep their vnodes, or are freed, keep the ends apart.
LEMMA KeptDistinct ==
  ASSUME NEW es, NEW es2, Kept(es, es2), Distinct(es)
  PROVE  Distinct(es2)
<1> SUFFICES ASSUME NEW i \in Index, NEW j \in Index,
                    es2[i].vnode \in AllEnds, es2[i].vnode = es2[j].vnode
             PROVE  i = j
  BY DEF Distinct
<1>1. es2[i] # None /\ es2[j] # None
  BY NoEnds
<1>2. es2[i].vnode = es[i].vnode /\ es2[j].vnode = es[j].vnode
  BY <1>1 DEF Kept
<1> QED BY <1>2 DEF Distinct

\* A free entry that is opened for an end adds the end.
LEMMA OpenedEnds ==
  ASSUME NEW es, NEW k \in Index, es[k] = None, NEW vn \in Vnodes
  PROVE  /\ Ends(Opened(es, k, vn)) = Ends(es) \union ({vn} \intersect AllEnds)
         /\ Distinct(es) /\ vn \notin Ends(es) => Distinct(Opened(es, k, vn))
<1> DEFINE es2 == Opened(es, k, vn)
<1>1. es2[k].vnode = vn /\ \A j \in Index \ {k} : es2[j].vnode = es[j].vnode
  <2>1. es2[k] = OpenFile(vn) /\ \A j \in Index \ {k} : es2[j] = es[j]
    BY DEF Opened
  <2> QED BY <2>1, OpenFileOK
<1>2. es[k].vnode \notin AllEnds
  BY NoEnds
<1> HIDE DEF es2
<1>3. Ends(es2) = Ends(es) \union ({vn} \intersect AllEnds)
  <2>1. ASSUME NEW v \in Ends(es2) PROVE v \in Ends(es) \union ({vn} \intersect AllEnds)
    BY <1>1 DEF Ends
  <2>2. ASSUME NEW v \in Ends(es) PROVE v \in Ends(es2)
    BY <1>1, <1>2 DEF Ends
  <2>3. vn \in AllEnds => vn \in Ends(es2)
    BY <1>1 DEF Ends
  <2> QED BY <2>1, <2>2, <2>3
<1>4. ASSUME Distinct(es), vn \notin Ends(es) PROVE Distinct(es2)
  <2> SUFFICES ASSUME NEW i \in Index, NEW j \in Index,
                      es2[i].vnode \in AllEnds, es2[i].vnode = es2[j].vnode
               PROVE  i = j
    BY DEF Distinct
  <2>1. CASE i # k /\ j # k
    BY <1>1, <1>4, <2>1 DEF Distinct
  <2>2. CASE i = k /\ j # k
    BY <1>1, <1>4, <2>2 DEF Ends
  <2>3. CASE i # k /\ j = k
    BY <1>1, <1>4, <2>3 DEF Ends
  <2> QED BY <2>1, <2>2, <2>3
<1> QED BY <1>3, <1>4 DEF es2

\* The descriptors F are closed: the ends that lose their last reference are
\* those whose entries are freed.
LEMMA LastEndsGone ==
  ASSUME TabsOK, Distinct(entries), NEW t, NEW F \in SUBSET Fds
  PROVE  /\ LastEnds(t, F) \in SUBSET Ends(entries)
         /\ Ends(Released(entries, t, F)) = Ends(entries) \ LastEnds(t, F)
<1> DEFINE es2 == Released(entries, t, F)
           Dies(j) == Names(t, F, j) > 0 /\ entries[j].refcount <= Names(t, F, j)
<1>1. \A j \in Index : entries[j] \in FileEntries
  BY DEF TabsOK, TablesOK
<1>2. ASSUME NEW v
      PROVE  v \in LastEnds(t, F) <=>
               \E j \in Index : entries[j].vnode = v /\ v \in AllEnds /\ Dies(j)
  BY DEF LastEnds, IsPipeEnd, AllEnds
<1>3. ASSUME NEW j \in Index, entries[j].vnode \in AllEnds
      PROVE  /\ Dies(j) => es2[j].vnode \notin AllEnds
             /\ ~Dies(j) => es2[j].vnode = entries[j].vnode
  <2> DEFINE e == entries[j]
             m == Names(t, F, j)
  <2>1. es2[j] = Decref(e, m)
    BY DEF Released
  <2>2. m \in Nat /\ e \in FileEntries /\ e # None
    BY <1>1, <1>3, NamesType, NoEnds
  <2> HIDE DEF es2, e, m
  <2>3. CASE m > 0 /\ e.refcount <= m
    <3>1. es2[j] = None
      BY <2>1, <2>2, <2>3 DEF Decref
    <3> QED BY <2>3, <3>1, NoEnds DEF e, m
  <2>4. CASE ~(m > 0 /\ e.refcount <= m)
    <3>1. es2[j] = e \/ es2[j] = [e EXCEPT !.refcount = @ - m]
      BY <2>1, <2>2, <2>4 DEF Decref
    <3>2. es2[j].vnode = e.vnode
      BY <2>2, <3>1 DEF FileEntries
    <3> QED BY <2>4, <3>2 DEF e, m
  <2> QED BY <2>3, <2>4
<1>4. Kept(entries, es2)
  BY <1>1, ReleasedKept
<1> HIDE DEF es2, Dies
<1>5. LastEnds(t, F) \in SUBSET Ends(entries)
  BY <1>2 DEF Ends
<1>6. ASSUME NEW v \in Ends(es2) PROVE v \in Ends(entries) \ LastEnds(t, F)
  <2>1. PICK i \in Index : es2[i].vnode = v /\ v \in AllEnds
    BY DEF Ends
  <2>2. entries[i].vnode = v
    BY <1>4, <2>1, NoEnds DEF Kept
  <2>3. ~Dies(i)
    BY <1>3, <2>1, <2>2
  <2>4. v \notin LastEnds(t, F)
    <3> SUFFICES ASSUME NEW j \in Index, entries[j].vnode = v, Dies(j) PROVE FALSE
      BY <1>2
    <3>1. i = j
      BY <2>1, <2>2 DEF Distinct
    <3> QED BY <2>3, <3>1
  <2> QED BY <2>1, <2>2, <2>4 DEF Ends
<1>7. ASSUME NEW v \in Ends(entries) \ LastEnds(t, F) PROVE v \in Ends(es2)
  <2>1. PICK i \in Index : entries[i].vnode = v /\ v \in AllEnds
    BY DEF Ends
  <2>2. ~Dies(i)
    BY <1>2, <1>7, <2>1
  <2>3. es2[i].vnode = v
    BY <1>3, <2>1, <2>2
  <2> QED BY <2>1, <2>3 DEF Ends
<1>8. Ends(es2) = Ends(entries) \ LastEnds(t, F)
  BY <1>6, <1>7
<1> QED BY <1>5, <1>8 DEF es2

-----------------------------------------------------------------------------
(* The invariant *)

\* The counts are right, no end of a pipe has two entries, and the heap holds
\* what the ends with an entry need.
FilesInv ==
  /\ TabsOK
  /\ Distinct(entries)
  /\ HeapOK(heap, Ends(entries))
  /\ failed \in {"no", "open", "pipe"}

\* The ends are ends.
LEMMA EndsAreEnds == ASSUME NEW es PROVE Ends(es) \in SUBSET AllEnds
BY DEF Ends

\* A call that neither opens nor closes an end.
LEMMA NoEndChanges ==
  ASSUME FilesInv, TabsOK', SameVnodes(entries, entries'), UNCHANGED heap,
         failed' \in {"no", "open", "pipe"}
  PROVE  FilesInv'
<1>1. Ends(entries') = Ends(entries) /\ Distinct(entries')
  BY SameEnds DEF FilesInv
<1>2. HeapOK(heap, Ends(entries))
  BY DEF FilesInv
<1>3. HeapOK(heap', Ends(entries'))
  BY Zenon, <1>1, <1>2
<1> QED BY Zenon, <1>1, <1>3 DEF FilesInv

\* A call that closes the descriptors F of a table t.
LEMMA EndsClose ==
  ASSUME FilesInv, QuietCall, NEW t, NEW F \in SUBSET Fds,
         SameVnodes(Released(entries, t, F), entries'),
         heap' = ClosePipes(heap, LastEnds(t, F)), failed' = "no"
  PROVE  FilesInv'
<1> DEFINE O == Ends(entries)
           E == LastEnds(t, F)
<1>1. TabsOK /\ Distinct(entries) /\ HeapOK(heap, O) /\ O \in SUBSET AllEnds
  BY EndsAreEnds DEF FilesInv
<1>2. E \in SUBSET O /\ Ends(Released(entries, t, F)) = O \ E
  BY <1>1, LastEndsGone
<1>3. Ends(entries') = O \ E
  BY <1>2, SameEnds
<1>4. Distinct(entries')
  BY <1>1, KeptDistinct DEF QuietCall
<1> HIDE DEF O, E
<1>5. HeapOK(ClosePipes(heap, E), O \ E)
  BY <1>1, <1>2, CloseHeap
<1>6. HeapOK(heap', Ends(entries'))
  BY Zenon, <1>3, <1>5 DEF E
<1>7. TabsOK' /\ failed' \in {"no", "open", "pipe"}
  BY DEF QuietCall
<1> QED BY Zenon, <1>4, <1>6, <1>7 DEF FilesInv

\* close(), exec() and waitpid() close descriptors and nothing else.
LEMMA CloseFdsInv ==
  ASSUME FilesInv, QuietCall, NEW p \in Procs, NEW F \in SUBSET Fds, CloseFds(p, F)
  PROVE  FilesInv'
<1>1. /\ entries' = Released(entries, fds[p], F)
      /\ heap' = ClosePipes(heap, LastEnds(fds[p], F)) /\ failed' = "no"
  BY DEF CloseFds, Released
<1>2. SameVnodes(Released(entries, fds[p], F), entries')
  BY <1>1 DEF SameVnodes
<1> QED BY <1>1, <1>2, EndsClose

\* open() of a file.
LEMMA OpenInv ==
  ASSUME FilesInv, NEW p \in Procs, holder[p] = "live", SysOpen(p)
  PROVE  FilesInv'
<1>1. TabsOK /\ Distinct(entries) /\ HeapOK(heap, Ends(entries)) /\ UNCHANGED heap
  BY DEF FilesInv, SysOpen
<1>2. /\ TabsOK'
      /\ \/ OpensOne(p) /\ failed' = "no"
         \/ UNCHANGED <<fds, entries>> /\ failed' = "no"
         \/ FreeIndex = {} /\ UNCHANGED <<fds, entries>> /\ failed' = "open"
  BY <1>1, OpenCall
<1>3. CASE UNCHANGED entries
  <2>1. SameVnodes(entries, entries')
    BY <1>3 DEF SameVnodes
  <2> QED BY <1>1, <1>2, <2>1, NoEndChanges
<1>4. CASE OpensOne(p) /\ failed' = "no"
  <2>1. PICK i \in Index : entries[i] = None /\ entries' = Opened(entries, i, <<"file", 0>>)
    BY <1>4 DEF OpensOne
  <2>2. <<"file", 0>> \in Vnodes /\ <<"file", 0>> \notin AllEnds /\ <<"file", 0>> \notin Ends(entries)
    BY NoEnds DEF Vnodes, Ends
  <2>3. /\ Ends(entries') = Ends(entries) \union ({<<"file", 0>>} \intersect AllEnds)
        /\ Distinct(entries')
    BY <1>1, <2>1, <2>2, OpenedEnds
  <2>4. Ends(entries') = Ends(entries)
    BY <2>2, <2>3
  <2>5. HeapOK(heap', Ends(entries'))
    BY Zenon, <1>1, <2>4
  <2>6. failed' \in {"no", "open", "pipe"}
    BY <1>4
  <2> QED BY Zenon, <1>2, <2>3, <2>5, <2>6 DEF FilesInv
<1> QED BY <1>2, <1>3, <1>4

\* pipe(), and its roll-backs.
LEMMA PipeInv ==
  ASSUME FilesInv, NEW p \in Procs, holder[p] = "live", SysPipe(p)
  PROVE  FilesInv'
<1> DEFINE O == Ends(entries)
<1>1. /\ TabsOK /\ Distinct(entries) /\ HeapOK(heap, O) /\ O \in SUBSET AllEnds
      /\ UNCHANGED holder
  BY EndsAreEnds DEF FilesInv, SysPipe
<1>2. PICK k \in PipeIds : /\ <<"buf", k>> \notin heap.objs
                           /\ \/ \E n \in 1..3 : PipeNoMemory(k, n)
                              \/ PipeNoEntry(k)
                              \/ PipeNoFd(p, k)
                              \/ PipeDone(p, k)
  BY DEF SysPipe
<1>3. CASE (\E n \in 1..3 : PipeNoMemory(k, n)) \/ PipeNoEntry(k) \/ PipeNoFd(p, k)
  <2>1. heap' = heap
    BY <1>1, <1>2, <1>3, RollBack
  <2>2. UNCHANGED <<fds, entries>> /\ failed' \in {"no", "open", "pipe"}
    BY <1>3 DEF PipeNoMemory, PipeNoEntry, PipeNoFd
  <2>3. TabsOK' /\ SameVnodes(entries, entries')
    BY <1>1, <2>2 DEF TabsOK, SameVnodes
  <2> QED BY <2>1, <2>2, <2>3, NoEndChanges
<1>4. CASE PipeDone(p, k)
  <2>1. TabsOK' /\ OpensTwo(p, k)
    BY <1>1, <1>4, PipeCall
  <2> DEFINE re == <<"r", k>>
             we == <<"w", k>>
  <2>2. PICK i \in Index, j \in Index :
          /\ i # j /\ entries[i] = None /\ entries[j] = None
          /\ entries' = Opened(Opened(entries, i, re), j, we)
    BY <2>1 DEF OpensTwo
  <2> DEFINE es1 == Opened(entries, i, re)
  <2>3. re \in Vnodes /\ we \in Vnodes /\ re \in AllEnds /\ we \in AllEnds /\ re # we
    BY DEF Vnodes, AllEnds
  <2>4. re \notin O /\ we \notin O
    BY <1>1, <1>2, NoBufNoEnds
  <2>5. es1[j] = None
    BY <2>2 DEF Opened
  <2>6. PipeAllocated(k) = heap' /\ failed' = "no"
    BY <1>4 DEF PipeDone
  <2>7. HeapOK(PipeAllocated(k), O \union {re, we})
    BY <1>1, <1>2, AllocatedHeap
  <2> HIDE DEF re, we
  <2>8. Ends(es1) = O \union ({re} \intersect AllEnds) /\ Distinct(es1)
    BY <1>1, <2>2, <2>3, <2>4, OpenedEnds
  <2>9. we \notin Ends(es1)
    BY <2>3, <2>4, <2>8
  <2> HIDE DEF es1
  <2>10. Ends(Opened(es1, j, we)) = Ends(es1) \union ({we} \intersect AllEnds) /\ Distinct(Opened(es1, j, we))
    BY <2>3, <2>5, <2>8, <2>9, OpenedEnds
  <2>11. Ends(entries') = O \union {re, we} /\ Distinct(entries')
    BY <2>2, <2>3, <2>8, <2>10 DEF es1
  <2>12. HeapOK(heap', Ends(entries'))
    BY Zenon, <2>6, <2>7, <2>11
  <2>13. failed' \in {"no", "open", "pipe"}
    BY <2>6
  <2> QED BY Zenon, <2>1, <2>11, <2>12, <2>13 DEF FilesInv
<1> QED BY <1>2, <1>3, <1>4

\* The invariant is inductive.
LEMMA FilesInductive == FilesInv /\ [Next]_fileVars => FilesInv'
<1> SUFFICES ASSUME FilesInv, [Next]_fileVars PROVE FilesInv'
  OBVIOUS
<1>1. TabsOK
  BY DEF FilesInv
<1>2. ASSUME NEW p \in Procs, holder[p] = "live", Syscall(p) PROVE FilesInv'
  <2>1. CASE SysOpen(p)
    BY <1>2, <2>1, OpenInv
  <2>2. ASSUME NEW q \in Procs, (\E fd \in Fds : SysClose(q, fd)) \/ SysExec(q) \/ Reap(q)
        PROVE  FilesInv'
    <3>1. QuietCall
      BY <1>1, <2>2, CloseCalls
    <3>2. \E F \in SUBSET Fds : CloseFds(q, F)
      BY <2>2 DEF SysClose, SysExec, Reap
    <3> QED BY <3>1, <3>2, CloseFdsInv
  <2>3. CASE \E fd \in Fds : SysDup(p, fd)
    <3>1. QuietCall /\ SameVnodes(entries, entries')
      BY <1>1, <2>3, DupCall
    <3>2. UNCHANGED heap /\ failed' = "no"
      BY <2>3 DEF SysDup
    <3> QED BY <3>1, <3>2, NoEndChanges DEF QuietCall
  <2>4. ASSUME NEW old \in Fds, NEW new \in Fds, SysDup2(p, old, new) PROVE FilesInv'
    <3> DEFINE F == {fd \in {new} : fds[p][fd] # -1}
    <3>1. QuietCall /\ SameVnodes(Released(entries, fds[p], F), entries')
      BY <1>1, <2>4, Dup2Call
    <3>2. heap' = ClosePipes(heap, LastEnds(fds[p], F)) /\ failed' = "no"
      BY <2>4 DEF SysDup2
    <3>3. F \in SUBSET Fds
      OBVIOUS
    <3> HIDE DEF F
    <3> QED BY <3>1, <3>2, <3>3, EndsClose
  <2>5. ASSUME NEW fd \in Fds, NEW o \in 0..MaxOffset, SysSeek(p, fd, o) PROVE FilesInv'
    <3>1. TabsOK' /\ SameVnodes(entries, entries')
      BY <1>1, <2>5, SeekCall
    <3>2. UNCHANGED heap /\ failed' = "no"
      BY <2>5 DEF SysSeek
    <3> QED BY <3>1, <3>2, NoEndChanges
  <2>6. CASE SysPipe(p)
    BY <1>2, <2>6, PipeInv
  <2>7. ASSUME NEW c \in Procs, SysFork(p, c) PROVE FilesInv'
    <3>1. QuietCall /\ SameVnodes(entries, entries')
      BY <1>1, <1>2, <2>7, ForkCall
    <3>2. UNCHANGED heap /\ failed' = "no"
      BY <2>7 DEF SysFork
    <3> QED BY <3>1, <3>2, NoEndChanges DEF QuietCall
  <2>8. CASE Exit(p)
    <3>1. QuietCall
      BY <1>1, <1>2, <2>8, ExitCall
    <3>2. UNCHANGED <<entries, heap>> /\ failed' = "no"
      BY <2>8 DEF Exit
    <3>3. SameVnodes(entries, entries')
      BY <3>2 DEF SameVnodes
    <3> QED BY <3>1, <3>2, <3>3, NoEndChanges DEF QuietCall
  <2> QED BY Zenon, <1>2, <2>1, <2>2, <2>3, <2>4, <2>5, <2>6, <2>7, <2>8 DEF Syscall
<1>3. CASE UNCHANGED fileVars
  BY <1>3 DEF fileVars, FilesInv, TabsOK
<1> QED BY <1>2, <1>3 DEF Next

\* The system starts without pipes.
LEMMA FilesStart == Init => FilesInv
<1> SUFFICES ASSUME Init PROVE FilesInv
  OBVIOUS
<1>1. \A i \in Index : entries[i].vnode \notin AllEnds
  <2>1. \A i \in Index : entries[i].vnode = <<"tty", 0>> \/ entries[i] = None
    BY DEF Init
  <2> QED BY <2>1, NoEnds
<1>2. Distinct(entries) /\ Ends(entries) = {}
  BY <1>1 DEF Distinct, Ends
<1>3. heap = Heap({}, [k \in PipeIds |-> 0])
  BY DEF Init, Heap, AnyHeap
<1>4. ASSUME NEW k \in PipeIds PROVE EndsIn({}, k) = 0
  <2>1. Has({}, <<"r", k>>) = 0 /\ Has({}, <<"w", k>>) = 0
    BY DEF Has
  <2> QED BY <2>1, EndsInIs
<1>5. heap.objs = {} /\ heap.refs = [k \in PipeIds |-> 0]
  BY <1>3, HeapFields
<1>6. HeapOK(heap, {})
  BY <1>3, <1>4, <1>5 DEF HeapOK
<1>7. HeapOK(heap, Ends(entries))
  BY Zenon, <1>2, <1>6
<1> QED BY <1>2, <1>7, TablesStart DEF FilesInv, Init

\* Whatever calls were made, the counts, the ends and the heap agree.
THEOREM FilesInvariance == Spec => []FilesInv
BY FilesInductive, FilesStart, PTL DEF Spec

\* The reference counts are exact, from the invariant.
LEMMA CountsFromInv == FilesInv => RefcountsExact
<1> SUFFICES ASSUME FilesInv PROVE RefcountsExact
  OBVIOUS
<1>1. TablesOK(holder, fds, entries) /\ HeapOK(heap, Ends(entries)) /\ failed \in {"no", "open", "pipe"}
  BY DEF FilesInv, TabsOK
<1>2. heap \in [objs : SUBSET ({"buf", "r", "w"} \X PipeIds), refs : [PipeIds -> 0..2], bad : BOOLEAN]
  <2>1. ASSUME NEW k \in PipeIds PROVE EndsIn(Ends(entries), k) \in 0..2
    BY EndsInIs
  <2>2. heap.refs \in [PipeIds -> 0..2] /\ heap.objs \in SUBSET ({"buf", "r", "w"} \X PipeIds)
    BY <1>1, <2>1 DEF HeapOK, Objects
  <2>3. heap = [objs |-> heap.objs, refs |-> heap.refs, bad |-> FALSE]
    BY <1>1 DEF HeapOK, Heap, AnyHeap
  <2>4. ASSUME NEW b \in BOOLEAN
        PROVE  [objs |-> heap.objs, refs |-> heap.refs, bad |-> b] \in
                 [objs : SUBSET ({"buf", "r", "w"} \X PipeIds), refs : [PipeIds -> 0..2], bad : BOOLEAN]
    BY <2>2
  <2>5. FALSE \in BOOLEAN
    OBVIOUS
  <2> QED BY Zenon, <2>3, <2>4, <2>5
<1>3. FilesTypeOK
  BY <1>1, <1>2 DEF TablesOK, FilesTypeOK, Tables, FileEntries, Vnodes
<1>4. ASSUME NEW i \in Index
      PROVE  /\ entries[i].refcount = Cardinality(References(i))
             /\ entries[i] = None <=> References(i) = {}
  <2>1. References(i) = Refs(fds, i)
    BY DEF References, Refs
  <2>2. EntryOK(entries[i], Cardinality(Refs(fds, i)))
    BY <1>1 DEF TablesOK, Count
  <2>3. Cardinality(Refs(fds, i)) = 0 <=> Refs(fds, i) = {}
    BY RefsFinite, FS_EmptySet
  <2> QED BY Zenon, <2>1, <2>2, <2>3 DEF EntryOK
<1> QED BY <1>3, <1>4 DEF RefcountsExact

\* The reference count of an entry is the number of descriptors that name it,
\* and an entry is free exactly when nobody does, however many processes share
\* it and whatever calls they make (oft_incref, oft_decref and their callers).
THEOREM CountsAreExact == Spec => []RefcountsExact
BY FilesInvariance, CountsFromInv, PTL

\* The entries of one end: one, or none.
LEMMA OneEntry ==
  ASSUME Distinct(entries), NEW v \in AllEnds
  PROVE  LET A == {i \in Index : entries[i].vnode = v}
         IN  IsFiniteSet(A) /\ Cardinality(A) = Has(Ends(entries), v)
<1> DEFINE A == {i \in Index : entries[i].vnode = v}
<1>1. CASE v \in Ends(entries)
  <2>1. PICK i \in Index : entries[i].vnode = v
    BY <1>1 DEF Ends
  <2>2. A = {i}
    BY <2>1 DEF Distinct
  <2>3. Has(Ends(entries), v) = 1
    BY <1>1 DEF Has
  <2> QED BY Zenon, <2>2, <2>3, FS_Singleton
<1>2. CASE v \notin Ends(entries)
  <2>1. A = {}
    BY <1>2 DEF Ends
  <2>2. Has(Ends(entries), v) = 0
    BY <1>2 DEF Has
  <2> QED BY Zenon, <2>1, <2>2, FS_EmptySet
<1> QED BY <1>1, <1>2

\* The objects of the pipes are right, from the invariant.
LEMMA PipesFromInv == FilesInv => PipeObjectsExact
<1> SUFFICES ASSUME FilesInv PROVE PipeObjectsExact
  OBVIOUS
<1> DEFINE O == Ends(entries)
<1>1. Distinct(entries) /\ HeapOK(heap, O)
  BY DEF FilesInv
<1>2. ~heap.bad
  BY <1>1 DEF HeapOK, Heap, AnyHeap
<1>3. ASSUME NEW k \in PipeIds
      PROVE  /\ heap.refs[k] = Cardinality(EndsOpen(k))
             /\ <<"buf", k>> \in heap.objs <=> EndsOpen(k) # {}
             /\ \A side \in {"r", "w"} :
                  <<side, k>> \in heap.objs <=> \E i \in Index : entries[i].vnode = <<side, k>>
  <2> DEFINE A == {i \in Index : entries[i].vnode = <<"r", k>>}
             B == {i \in Index : entries[i].vnode = <<"w", k>>}
  <2>1. <<"r", k>> \in AllEnds /\ <<"w", k>> \in AllEnds
    BY DEF AllEnds
  <2>2. /\ IsFiniteSet(A) /\ Cardinality(A) = Has(O, <<"r", k>>)
        /\ IsFiniteSet(B) /\ Cardinality(B) = Has(O, <<"w", k>>)
    BY Zenon, <1>1, <2>1, OneEntry
  <2>3. A \intersect B = {} /\ EndsOpen(k) = A \union B
    BY DEF EndsOpen
  <2> HIDE DEF A, B
  <2>4. Cardinality(A \union B) = Cardinality(A) + Cardinality(B) /\ IsFiniteSet(A \union B)
    BY <2>2, <2>3, DisjointUnion
  <2>5. Cardinality(EndsOpen(k)) = EndsIn(O, k)
    <3>1. EndsIn(O, k) = Has(O, <<"r", k>>) + Has(O, <<"w", k>>)
      BY EndsInIs
    <3> QED BY Zenon, <2>2, <2>3, <2>4, <3>1
  <2>6. EndsOpen(k) = {} <=> EndsIn(O, k) = 0
    BY Zenon, <2>3, <2>4, <2>5, FS_EmptySet
  <2>7. heap.refs[k] = EndsIn(O, k)
    BY <1>1 DEF HeapOK
  <2>8. <<"buf", k>> \in heap.objs <=> EndsIn(O, k) # 0
    BY <1>1 DEF HeapOK
  <2>9. ASSUME NEW side \in {"r", "w"}
        PROVE  <<side, k>> \in heap.objs <=> \E i \in Index : entries[i].vnode = <<side, k>>
    <3>1. <<side, k>> \in AllEnds
      BY DEF AllEnds
    <3>2. <<side, k>> \in heap.objs <=> <<side, k>> \in O
      BY <1>1, <3>1 DEF HeapOK
    <3> QED BY <3>1, <3>2 DEF Ends
  <2> QED BY Zenon, <2>5, <2>6, <2>7, <2>8, <2>9
<1> QED BY Zenon, <1>2, <1>3 DEF PipeObjectsExact

\* The heap holds exactly what the open ends of pipes need, and nothing is freed
\* twice, for every roll-back of sys_pipe and every order of closing the ends.
THEOREM PipeObjectsAreExact == Spec => []PipeObjectsExact
BY FilesInvariance, PipesFromInv, PTL

-----------------------------------------------------------------------------
(* The table implements open file descriptions *)

\* The descriptions in use are the entries in use.
UsedIsNamed == \A i \in Index : Descriptions!Named(i) <=> entries[i] # None

\* They are, when the counts are right.
LEMMA UsedNamed == TabsOK => UsedIsNamed
<1> SUFFICES ASSUME TabsOK, NEW i \in Index PROVE Descriptions!Named(i) <=> entries[i] # None
  BY DEF UsedIsNamed
<1>1. EntryOK(entries[i], Count(fds, i))
  BY DEF TabsOK, TablesOK
<1>2. Count(fds, i) = 0 <=> Refs(fds, i) = {}
  BY RefsFinite, FS_EmptySet DEF Count
<1>3. Refs(fds, i) # {} <=> Descriptions!Named(i)
  <2>1. ASSUME NEW q \in Procs, NEW fd \in Fds, fds[q][fd] = i PROVE Refs(fds, i) # {}
    <3>1. <<q, fd>> \in Refs(fds, i)
      BY <2>1 DEF Refs
    <3> QED BY <3>1
  <2>2. ASSUME NEW x \in Refs(fds, i) PROVE \E q \in Procs, fd \in Fds : fds[q][fd] = i
    BY DEF Refs
  <2> QED BY Zenon, <2>1, <2>2 DEF Descriptions!Named
<1> QED BY Zenon, <1>1, <1>2, <1>3 DEF EntryOK

\* A call that opens nothing and moves no offset keeps the descriptions.
LEMMA QuietOffsets ==
  ASSUME TabsOK, QuietCall
  PROVE  Descriptions!OffsetsKept
<1>1. UsedIsNamed'
  <2>1. TabsOK'
    BY DEF QuietCall
  <2> QED BY <2>1, UsedNamed, PTL
<1>2. ASSUME NEW i \in Index
      PROVE  entries'[i].offset = IF Descriptions!Named(i)' THEN entries[i].offset ELSE 0
  <2>1. Descriptions!Named(i)' <=> entries'[i] # None
    BY <1>1 DEF UsedIsNamed
  <2>2. CASE entries'[i] = None
    BY <2>1, <2>2, NoneOK
  <2>3. CASE entries'[i] # None
    <3>1. entries'[i].offset = entries[i].offset
      BY <2>3 DEF QuietCall, Kept
    <3> QED BY <2>1, <2>3, <3>1
  <2> QED BY <2>2, <2>3
<1> QED BY <1>2 DEF Descriptions!OffsetsKept

\* A call that changes no descriptor and no entry drops nothing.
LEMMA NothingDropped ==
  ASSUME TabsOK, NEW p \in Procs, TabsOK', UNCHANGED <<fds, entries>>, failed' = "no"
  PROVE  Descriptions!Drop
<1>1. Descriptions!OffsetsKept
  BY SameKept, QuietOffsets DEF QuietCall
<1>2. fds \in [Procs -> Tables]
  BY DEF TabsOK, TablesOK
<1>3. fds' = [fds EXCEPT ![p] = [fd \in Fds |-> IF fd \in {} THEN -1 ELSE fds[p][fd]]]
  BY <1>2 DEF Tables
<1>4. {} \in SUBSET Fds
  OBVIOUS
<1> QED BY Zenon, <1>1, <1>3, <1>4 DEF Descriptions!Drop

\* open().
LEMMA OpenRefines ==
  ASSUME FilesInv, NEW p \in Procs, holder[p] = "live", SysOpen(p)
  PROVE  Descriptions!DescNext
<1>1. /\ TabsOK /\ TabsOK' /\ UsedIsNamed
      /\ \/ OpensOne(p) /\ failed' = "no"
         \/ UNCHANGED <<fds, entries>> /\ failed' = "no"
         \/ FreeIndex = {} /\ UNCHANGED <<fds, entries>> /\ failed' = "open"
  BY OpenCall, UsedNamed DEF FilesInv
<1>2. CASE OpensOne(p) /\ failed' = "no"
  <2>1. PICK i \in Index, fd \in Fds :
          /\ entries[i] = None /\ fds[p][fd] = -1
          /\ entries' = Opened(entries, i, <<"file", 0>>)
          /\ fds' = [fds EXCEPT ![p][fd] = i]
    BY <1>2 DEF OpensOne
  <2>2. ~Descriptions!Named(i)
    BY <1>1, <2>1 DEF UsedIsNamed
  <2>3. \A j \in Index : entries'[j].offset = IF j = i THEN 0 ELSE entries[j].offset
    BY <2>1 DEF Opened, OpenFile
  <2>4. [j \in Index |-> entries'[j].offset] = [[j \in Index |-> entries[j].offset] EXCEPT ![i] = 0]
    BY <2>3
  <2>5. Descriptions!New
    BY <1>2, <2>1, <2>2, <2>4 DEF Descriptions!New
  <2> QED BY <2>5 DEF Descriptions!DescNext
<1>3. CASE UNCHANGED <<fds, entries>> /\ failed' = "no"
  BY <1>1, <1>3, NothingDropped DEF Descriptions!DescNext
<1>4. CASE FreeIndex = {} /\ UNCHANGED <<fds, entries>> /\ failed' = "open"
  <2>1. \A i \in Index : Descriptions!Named(i)
    BY <1>1, <1>4 DEF UsedIsNamed, FreeIndex
  <2>2. Descriptions!FullOpen
    BY <1>4, <2>1 DEF Descriptions!FullOpen
  <2> QED BY <2>2 DEF Descriptions!DescNext
<1> QED BY <1>1, <1>2, <1>3, <1>4

\* pipe().
LEMMA PipeRefines ==
  ASSUME FilesInv, NEW p \in Procs, holder[p] = "live", SysPipe(p)
  PROVE  Descriptions!DescNext
<1>1. TabsOK /\ UsedIsNamed /\ UNCHANGED holder
  BY UsedNamed DEF FilesInv, SysPipe
<1>2. PICK k \in PipeIds : \/ \E n \in 1..3 : PipeNoMemory(k, n)
                           \/ PipeNoEntry(k)
                           \/ PipeNoFd(p, k)
                           \/ PipeDone(p, k)
  BY DEF SysPipe
<1>3. CASE (\E n \in 1..3 : PipeNoMemory(k, n)) \/ PipeNoFd(p, k)
  <2>1. UNCHANGED <<fds, entries>> /\ failed' = "no"
    BY <1>3 DEF PipeNoMemory, PipeNoFd
  <2>2. TabsOK'
    BY <1>1, <2>1 DEF TabsOK
  <2> QED BY <1>1, <2>1, <2>2, NothingDropped DEF Descriptions!DescNext
<1>4. CASE PipeNoEntry(k)
  <2>1. UNCHANGED <<fds, entries>> /\ failed' = "pipe" /\ Cardinality(FreeIndex) < 2
    BY <1>4 DEF PipeNoEntry
  <2>2. ASSUME NEW d \in Index, NEW e \in Index, d # e, entries[d] = None, entries[e] = None
        PROVE  FALSE
    <3>1. IsFiniteSet(FreeIndex)
      BY FdsFinite, FS_Subset DEF FreeIndex
    <3>2. {d} \union {e} \subseteq FreeIndex
      BY <2>2 DEF FreeIndex
    <3>3. IsFiniteSet({d}) /\ Cardinality({d}) = 1
      BY FS_Singleton
    <3>4. Cardinality({d} \union {e}) = 2
      <4>1. e \notin {d}
        BY <2>2
      <4>2. Cardinality({d} \union {e}) = Cardinality({d}) + 1
        BY <3>3, <4>1, FS_AddElement
      <4> QED BY <3>3, <4>2
    <3>5. Cardinality({d} \union {e}) <= Cardinality(FreeIndex) /\ Cardinality(FreeIndex) \in Nat
      BY <3>1, <3>2, FS_Subset, FS_CardinalityType
    <3> QED BY <2>1, <3>4, <3>5
  <2>3. \A d, e \in Index : d # e => Descriptions!Named(d) \/ Descriptions!Named(e)
    BY <1>1, <2>2 DEF UsedIsNamed
  <2>4. Descriptions!FullPipe
    BY <2>1, <2>3 DEF Descriptions!FullPipe
  <2> QED BY <2>4 DEF Descriptions!DescNext
<1>5. CASE PipeDone(p, k)
  <2>1. OpensTwo(p, k) /\ failed' = "no"
    BY <1>1, <1>5, PipeCall DEF PipeDone
  <2>2. PICK i \in Index, j \in Index, rfd \in Fds, wfd \in Fds :
          /\ i # j /\ rfd # wfd
          /\ entries[i] = None /\ entries[j] = None /\ fds[p][rfd] = -1 /\ fds[p][wfd] = -1
          /\ entries' = Opened(Opened(entries, i, <<"r", k>>), j, <<"w", k>>)
          /\ fds' = [fds EXCEPT ![p][rfd] = i, ![p][wfd] = j]
    BY <2>1 DEF OpensTwo
  <2>3. ~Descriptions!Named(i) /\ ~Descriptions!Named(j)
    BY <1>1, <2>2 DEF UsedIsNamed
  <2>4. \A x \in Index : entries'[x].offset = IF x = i \/ x = j THEN 0 ELSE entries[x].offset
    BY <2>2 DEF Opened, OpenFile
  <2>5. [x \in Index |-> entries'[x].offset] =
          [[x \in Index |-> entries[x].offset] EXCEPT ![i] = 0, ![j] = 0]
    BY <2>2, <2>4
  <2>6. j \in Index \ {i} /\ wfd \in Fds \ {rfd}
    BY <2>2
  <2>7. Descriptions!New
    BY Zenon, <2>1, <2>2, <2>3, <2>5, <2>6 DEF Descriptions!New
  <2> QED BY <2>7 DEF Descriptions!DescNext
<1> QED BY <1>2, <1>3, <1>4, <1>5

\* Every call is a step of the descriptions.
LEMMA CallRefines ==
  ASSUME FilesInv, NEW p \in Procs, holder[p] = "live", Syscall(p)
  PROVE  Descriptions!DescNext
<1>1. TabsOK /\ UsedIsNamed /\ fds \in [Procs -> Tables] /\ entries \in [Index -> FileEntries]
  BY UsedNamed DEF FilesInv, TabsOK, TablesOK
<1>2. CASE SysOpen(p)
  BY <1>2, OpenRefines
<1>3. ASSUME NEW q \in Procs, (\E fd \in Fds : SysClose(q, fd)) \/ SysExec(q) \/ Reap(q)
      PROVE  Descriptions!DescNext
  <2>1. QuietCall
    BY <1>1, <1>3, CloseCalls
  <2>2. PICK F \in SUBSET Fds : CloseFds(q, F)
    BY <1>3 DEF SysClose, SysExec, Reap
  <2>3. Descriptions!OffsetsKept
    BY <1>1, <2>1, QuietOffsets
  <2>4. /\ fds' = [fds EXCEPT ![q] = [fd \in Fds |-> IF fd \in F THEN -1 ELSE fds[q][fd]]]
        /\ failed' = "no"
    BY <2>2 DEF CloseFds
  <2>5. Descriptions!Drop
    BY Zenon, <2>3, <2>4 DEF Descriptions!Drop
  <2> QED BY <2>5 DEF Descriptions!DescNext
<1>4. ASSUME NEW old \in Fds, NEW new \in Fds, QuietCall, fds[p][old] # -1,
             fds' = [fds EXCEPT ![p][new] = fds[p][old]], failed' = "no"
      PROVE  Descriptions!DescNext
  <2>1. Descriptions!OffsetsKept
    BY <1>1, <1>4, QuietOffsets
  <2>2. Descriptions!Dup
    BY Zenon, <1>4, <2>1 DEF Descriptions!Dup
  <2> QED BY <2>2 DEF Descriptions!DescNext
<1>5. ASSUME NEW old \in Fds, SysDup(p, old) PROVE Descriptions!DescNext
  <2>1. QuietCall
    BY <1>1, <1>5, DupCall
  <2> QED BY <1>4, <1>5, <2>1 DEF SysDup
<1>6. ASSUME NEW old \in Fds, NEW new \in Fds, SysDup2(p, old, new) PROVE Descriptions!DescNext
  <2>1. QuietCall
    BY <1>1, <1>6, Dup2Call
  <2> QED BY <1>4, <1>6, <2>1 DEF SysDup2
<1>7. ASSUME NEW fd \in Fds, NEW o \in 0..MaxOffset, SysSeek(p, fd, o) PROVE Descriptions!DescNext
  <2> DEFINE d == fds[p][fd]
  <2>1. /\ d \in Index
        /\ \A i \in Index : entries'[i].offset = IF i = d THEN o ELSE entries[i].offset
    BY SMTT(30), <1>1, <1>7, SeekCall
  <2>2. entries[d] # None /\ failed' = "no" /\ UNCHANGED fds
    BY <1>7 DEF SysSeek
  <2>3. Descriptions!Named(d)
    BY <1>1, <2>1, <2>2 DEF UsedIsNamed
  <2>4. entries'[d].offset = o /\ o \in Nat
    BY <2>1, FilesAssumption
  <2> HIDE DEF d
  <2>5. [i \in Index |-> entries'[i].offset] = [[i \in Index |-> entries[i].offset] EXCEPT ![d] = entries'[d].offset]
    BY <2>1, <2>4
  <2>6. [i \in Index |-> entries'[i].offset][d] = entries'[d].offset
    BY <2>1
  <2>7. Descriptions!Move
    BY <2>1, <2>2, <2>3, <2>4, <2>5, <2>6 DEF Descriptions!Move
  <2> QED BY <2>7 DEF Descriptions!DescNext
<1>8. CASE SysPipe(p)
  BY <1>8, PipeRefines
<1>9. ASSUME NEW c \in Procs, SysFork(p, c) PROVE Descriptions!DescNext
  <2>1. QuietCall
    BY <1>1, <1>9, ForkCall
  <2>2. Descriptions!OffsetsKept
    BY <1>1, <2>1, QuietOffsets
  <2>3. holder[c] = "none" /\ fds' = [fds EXCEPT ![c] = fds[p]] /\ failed' = "no"
    BY <1>9 DEF SysFork
  <2>4. \A fd \in Fds : fds[c][fd] = -1
    <3>1. fds[c] = NoFds
      BY <1>1, <2>3 DEF TabsOK, TablesOK
    <3> QED BY <3>1 DEF NoFds
  <2>5. Descriptions!Fork
    BY Zenon, <2>2, <2>3, <2>4 DEF Descriptions!Fork
  <2> QED BY <2>5 DEF Descriptions!DescNext
<1>10. CASE Exit(p)
  <2>1. TabsOK'
    BY <1>1, <1>10, ExitCall DEF QuietCall
  <2>2. UNCHANGED <<fds, entries>> /\ failed' = "no"
    BY <1>10 DEF Exit
  <2> QED BY <1>1, <2>1, <2>2, NothingDropped DEF Descriptions!DescNext
<1> QED BY Zenon, <1>2, <1>3, <1>5, <1>6, <1>7, <1>8, <1>9, <1>10 DEF Syscall

\* The reference-counted table implements open file descriptions that live as
\* long as a descriptor names them: dup, dup2 and fork share them with their
\* offset, no offset moves but by a read or a seek, and ENFILE is returned only
\* when every description (or, for pipe, all but one) has a name.
THEOREM FilesImplementDescriptions == Spec => ImplementsDescriptions
<1>1. ASSUME Init PROVE Descriptions!DescInit
  <2>1. TabsOK
    BY <1>1, TablesStart
  <2>2. fds \in [Procs -> [Fds -> Index \union {-1}]]
    BY <2>1 DEF TabsOK, TablesOK, Tables
  <2>3. \A i \in Index : entries[i].offset = 0
    BY <1>1, NoneOK DEF Init
  <2>4. [i \in Index |-> entries[i].offset] = [i \in Index |-> 0]
    BY <2>3
  <2> QED BY <1>1, <2>2, <2>4 DEF Descriptions!DescInit, Init
<1>2. ASSUME FilesInv, [Next]_fileVars PROVE [Descriptions!DescNext]_(Descriptions!descVars)
  <2>1. CASE UNCHANGED fileVars
    BY <2>1 DEF fileVars, Descriptions!descVars
  <2>2. CASE Next
    <3>1. PICK p \in Procs : holder[p] = "live" /\ Syscall(p)
      BY <2>2 DEF Next
    <3> QED BY <1>2, <3>1, CallRefines
  <2> QED BY <1>2, <2>1, <2>2
<1> QED BY <1>1, <1>2, FilesInvariance, PTL DEF Spec, ImplementsDescriptions, Descriptions!DescSpec
=============================================================================
