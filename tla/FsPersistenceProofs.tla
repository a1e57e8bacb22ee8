------------------------ MODULE FsPersistenceProofs ------------------------
(***************************************************************************)
(* Proofs about the file system store, for any set of keys and packets.    *)
(***************************************************************************)
EXTENDS FsPersistence, TLAPS

USE DEF Empty, Contents, Cached, Failed, Unseen, load

\* Every operation, and every fault in it, keeps the types.
LEMMA TypeStep == TypeOK /\ [Next]_vars => TypeOK'
<1> SUFFICES ASSUME TypeOK, [Next]_vars PROVE TypeOK'
  OBVIOUS
<1> USE FsAssumption DEF TypeOK, Ok, Err, Found, Listed
<1>0. UNCHANGED faults
  BY DEF Next, vars
<1> USE <1>0
<1>1. ASSUME NEW s \in Stores, open(s) PROVE TypeOK'
  BY <1>1 DEF open
<1>2. CASE close
  BY <1>2 DEF close
<1>3. CASE Restart
  BY <1>3 DEF Restart
<1>4. CASE keys
  BY <1>4 DEF keys
<1>5. CASE clear
  BY <1>5 DEF clear
<1>6. ASSUME NEW k \in Keys, get(k) PROVE TypeOK'
  BY <1>6 DEF get
<1>7. ASSUME NEW k \in Keys, contains(k) PROVE TypeOK'
  BY <1>7 DEF contains
<1>8. ASSUME NEW k \in Keys, remove(k) PROVE TypeOK'
  BY <1>8 DEF remove
<1>9. ASSUME NEW k \in Keys, NEW v \in Packets, put(k, v) PROVE TypeOK'
  BY <1>9 DEF put
<1>10. CASE UNCHANGED vars
  BY <1>10 DEF vars
<1> QED
  BY <1>1, <1>2, <1>3, <1>4, <1>5, <1>6, <1>7, <1>8, <1>9, <1>10 DEF Next, Operation

\* The fields of FsPersistence and what its operations return keep their
\* types, whatever fails.
THEOREM TypeCorrect == Spec => []TypeOK
<1>1. Init => TypeOK
  BY FsAssumption DEF Init, TypeOK, Ok
<1> QED
  BY <1>1, TypeStep, PTL DEF Spec

-----------------------------------------------------------------------------
\* While writes do not fail, what an operation caches it has also written.
LEMMA BackedStep == TypeOK /\ CacheIsBacked /\ [Next]_vars => CacheIsBacked'
<1> SUFFICES ASSUME TypeOK, CacheIsBacked, [Next]_vars PROVE CacheIsBacked'
  OBVIOUS
<1> USE FsAssumption DEF TypeOK, CacheIsBacked
<1>0. UNCHANGED faults
  BY DEF Next, vars
<1> USE <1>0
<1>1. ASSUME NEW s \in Stores, open(s) PROVE CacheIsBacked'
  BY <1>1 DEF open
<1>2. CASE close
  BY <1>2 DEF close
<1>3. CASE Restart
  BY <1>3 DEF Restart
<1>4. CASE keys
  BY <1>4 DEF keys
<1>5. CASE clear
  BY <1>5 DEF clear
<1>6. ASSUME NEW k \in Keys, get(k) PROVE CacheIsBacked'
  BY <1>6 DEF get
<1>7. ASSUME NEW k \in Keys, contains(k) PROVE CacheIsBacked'
  BY <1>7 DEF contains
<1>8. ASSUME NEW k \in Keys, remove(k) PROVE CacheIsBacked'
  BY <1>8 DEF remove
<1>9. ASSUME NEW k \in Keys, NEW v \in Packets, put(k, v) PROVE CacheIsBacked'
  BY <1>9 DEF put
<1>10. CASE UNCHANGED vars
  BY <1>10 DEF vars
<1> QED
  BY <1>1, <1>2, <1>3, <1>4, <1>5, <1>6, <1>7, <1>8, <1>9, <1>10 DEF Next, Operation

\* While the file system works, no packet lives in the cache only: crashes
\* in the middle of put and any number of stores included.
THEOREM CacheCanBeTrusted == Spec => []CacheIsBacked
<1>1. Init => CacheIsBacked
  BY DEF Init, CacheIsBacked
<1>2. TypeOK /\ CacheIsBacked /\ [Next]_vars => CacheIsBacked'
  BY BackedStep
<1> QED
  BY <1>1, <1>2, TypeCorrect, PTL DEF Spec

-----------------------------------------------------------------------------
\* No file changes behind the back of the caller: the file of a cached
\* packet is only removed, another is written whole or torn by a put that
\* failed or did not return (fs.rs:45, 96).
THEOREM FilesAreAccounted == Spec => FilesFollowAnswers
<1> DEFINE Told(k) ==
      disk'[k] # disk[k] =>
        \/ cache[k] # Absent /\ disk'[k] = Absent /\ answer' = Ok
        \/ cache[k] = Absent /\ disk'[k] = cache'[k] /\ answer' = Ok
        \/ cache[k] = Absent /\ disk'[k] = Torn /\ (answer' = Err \/ opened' = NoStore)
<1>1. ASSUME TypeOK, [Next]_vars, NEW k \in Keys PROVE Told(k)
  <2> USE <1>1, FsAssumption DEF TypeOK
  <2>1. ASSUME NEW j \in Keys, remove(j) PROVE Told(k)
    BY <2>1 DEF remove
  <2>2. ASSUME NEW j \in Keys, NEW v \in Packets, put(j, v) PROVE Told(k)
    BY <2>2 DEF put
  <2>3. CASE Restart
    BY <2>3 DEF Restart
  <2>4. CASE UNCHANGED disk
    BY <2>4
  <2> QED
    BY <2>1, <2>2, <2>3, <2>4 DEF Next, Operation, open, close, keys, clear, get, contains, vars
<1>2. TypeOK /\ [Next]_vars => \A k \in Keys : Told(k)
  BY <1>1
<1> QED
  BY <1>2, TypeCorrect, PTL DEF Spec, FilesFollowAnswers

-----------------------------------------------------------------------------
(* With one store and no faults the store implements the contract.  What   *)
(* it shows is then what is on disk, and no file is torn.                  *)

Whole == TypeOK /\ CacheIsBacked /\ (faults = {} => \A k \in Keys : disk[k] # Torn)

\* Without faults no file is ever torn.
LEMMA WholeStep == Whole /\ [Next]_vars => Whole'
<1> SUFFICES ASSUME Whole, [Next]_vars, faults = {}
             PROVE  \A k \in Keys : disk'[k] # Torn
  BY TypeStep, BackedStep DEF Whole, Next, vars
<1> USE FsAssumption DEF Whole, TypeOK
<1>1. ASSUME NEW k \in Keys, remove(k) PROVE \A j \in Keys : disk'[j] # Torn
  BY <1>1 DEF remove
<1>2. ASSUME NEW k \in Keys, NEW v \in Packets, put(k, v)
      PROVE  \A j \in Keys : disk'[j] # Torn
  BY <1>2 DEF put
<1>3. CASE UNCHANGED disk
  BY <1>3
<1> QED
  BY <1>1, <1>2, <1>3
  DEF Next, Operation, open, close, Restart, keys, clear, get, contains, vars

\* The refinement mapping then shows the files.
LEMMA ShownIsOnDisk == TypeOK /\ CacheIsBacked /\ faults = {} => Visible = disk
BY DEF TypeOK, CacheIsBacked, Visible

\* Every operation is the operation of that name of the contract, or its
\* failure; the files outlive a restart (mod.rs:7-21).
THEOREM ContractIsKept ==
  ASSUME \A s, t \in Stores : s = t
  PROVE  Spec => KeepsContract
<1> USE FsAssumption
<1>1. Init => Whole /\ Contract!Init
  BY DEF Init, Whole, TypeOK, CacheIsBacked, Visible, Ok, Contract!Init, Contract!Empty, Contract!Ok
<1>2. ASSUME Whole, [Next]_vars, faults # {} PROVE UNCHANGED Contract!vars
  BY <1>2 DEF Next, vars, Contract!vars
<1>3. ASSUME Whole, [Next]_vars, faults = {} PROVE [Contract!Next]_(Contract!vars)
  <2>0. faults' = {}
    BY <1>3 DEF Next, vars
  <2>1. Visible = disk /\ Visible' = disk'
    <3>1. TypeOK' /\ CacheIsBacked'
      BY <1>3, WholeStep DEF Whole
    <3>2. Visible' = disk'
      BY <3>1, <2>0 DEF TypeOK, CacheIsBacked, Visible
    <3> QED
      BY <1>3, <3>2, ShownIsOnDisk DEF Whole
  <2> USE <1>3, <2>0, <2>1 DEF Whole, TypeOK, CacheIsBacked
  <2>2. ASSUME NEW s \in Stores, open(s) PROVE Contract!Open(s)
    BY <2>2 DEF open, Contract!Open, Contract!Ok, Ok
  <2>3. ASSUME close PROVE Contract!Close
    BY <2>3 DEF close, Contract!Close, Contract!Ok, Ok
  <2>4. ASSUME Restart PROVE Contract!Shutdown
    BY <2>4 DEF Restart, Contract!Shutdown, Contract!Ok, Ok
  <2>5. ASSUME keys, opened \in Stores PROVE Contract!ListKeys \/ Contract!Fail
    <3>1. CASE Cached = {}
      BY <2>5, <3>1 DEF keys, Contract!Fail, Contract!Err, Err
    <3>2. CASE Cached # {}
      <4>1. Cached \in SUBSET {k \in Keys : [s \in Stores |-> Visible][opened][k] # Absent}
        BY <2>5
      <4>2. answer' = Contract!Listed(Cached)
        BY <2>5, <3>2 DEF keys, Contract!Listed, Listed
      <4>3. UNCHANGED <<opened, cache, disk>>
        BY <2>5 DEF keys
      <4> QED
        BY <4>1, <4>2, <4>3 DEF Contract!ListKeys
    <3> QED
      BY <3>1, <3>2
  <2>6. ASSUME clear PROVE Contract!Fail
    BY <2>6 DEF clear, Contract!Fail, Contract!Err, Err
  <2>7. ASSUME NEW k \in Keys, get(k), opened \in Stores
        PROVE  Contract!Get(k) \/ Contract!Fail
    BY <2>7 DEF get, Contract!Get, Contract!Fail, Contract!Err, Contract!Found, Err, Found
  <2>8. ASSUME NEW k \in Keys, contains(k), opened \in Stores
        PROVE  Contract!Contains(k)
    BY <2>8 DEF contains, Contract!Contains, Contract!Listed, Listed
  <2>9. ASSUME NEW k \in Keys, remove(k), opened \in Stores
        PROVE  Contract!Remove(k) \/ Contract!Fail
    BY <2>9 DEF remove, Contract!Remove, Contract!Fail, Contract!Ok, Contract!Err, Ok, Err
  <2>10. ASSUME NEW k \in Keys, NEW v \in Packets, put(k, v), opened \in Stores
         PROVE  Contract!Put(k, v) \/ Contract!Fail
    BY <2>10 DEF put, Contract!Put, Contract!Fail, Contract!Ok, Contract!Err, Ok, Err
  <2>11. CASE UNCHANGED vars
    BY <2>11 DEF vars, Contract!vars
  <2> QED
    BY <2>2, <2>3, <2>4, <2>5, <2>6, <2>7, <2>8, <2>9, <2>10, <2>11
    DEF Next, Operation, Contract!Next
<1>4. Whole /\ [Next]_vars => Whole'
  BY WholeStep
<1>5. Whole /\ [Next]_vars => [Contract!Next]_(Contract!vars)
  BY <1>2, <1>3
<1> QED
  BY <1>1, <1>4, <1>5, PTL DEF Spec, KeepsContract, Contract!Spec
=============================================================================
