--------------------------- MODULE FsPersistence ---------------------------
(***************************************************************************)
(* The file system store (persistence/fs.rs): a cache in memory in front   *)
(* of one file for each packet.                                            *)
(*                                                                         *)
(* The path of a file is current_store.with_file_name(key).  It replaces   *)
(* the last part of root/client@server by the key, so the files of every   *)
(* store lie in the root itself, and the directory root/client@server,     *)
(* which nothing creates, does not exist when read_dir asks for it.        *)
(*                                                                         *)
(* An operation runs to its end unless the program is stopped in it, which *)
(* shows only in put: the file exists before it is written.  Torn is what  *)
(* such a file, or one whose write failed, holds.  The caller opens a      *)
(* store before it uses it.                                                *)
(***************************************************************************)
CONSTANTS
  Stores,   \* pairs of a client and a server
  Keys,
  Packets,
  NoStore,  \* no store is open
  Absent,   \* no packet
  Torn      \* the contents of a file that was not written to its end

ASSUME FsAssumption ==
  /\ NoStore \notin Stores
  /\ Absent \notin Packets \cup {Torn}
  /\ Torn \notin Packets

VARIABLES
  faults,  \* what can go wrong on this machine: "io" an operation of the file
           \* system fails, "crash" the program is stopped in the middle of put
  opened,  \* current_store
  cache,   \* key -> packet, the HashMap in memory
  disk,    \* key -> what the file of that name in the root holds
  answer   \* what the last operation returned

vars == <<faults, opened, cache, disk, answer>>

Empty == [k \in Keys |-> Absent]
Contents == Packets \cup {Torn, Absent}

Ok == [is |-> "ok", packet |-> Absent, keys |-> {}]
Err == [is |-> "err", packet |-> Absent, keys |-> {}]
Found(v) == [is |-> "found", packet |-> v, keys |-> {}]
Listed(K) == [is |-> "listed", packet |-> Absent, keys |-> K]

TypeOK ==
  /\ faults \subseteq {"io", "crash"}
  /\ opened \in Stores \cup {NoStore}
  /\ cache \in [Keys -> Contents]
  /\ disk \in [Keys -> Contents]
  /\ answer \in [is : {"ok", "err", "found", "listed"},
                 packet : Contents, keys : SUBSET Keys]

Init ==
  /\ faults \in SUBSET {"io", "crash"}
  /\ opened = NoStore
  /\ cache = Empty
  /\ disk = Empty
  /\ answer = Ok

Cached == {k \in Keys : cache[k] # Absent}

\* An operation of the file system fails, and so does the caller.
Failed == "io" \in faults /\ answer' = Err

\* It fails, and the caller takes the file for one that does not exist.
Unseen == "io" \in faults /\ answer' = Listed({})

-----------------------------------------------------------------------------
\* The cache of the store that was open stays.
open(s) == opened' = s /\ answer' = Ok /\ UNCHANGED <<cache, disk>>

\* Mutant: the path goes back to one that is no store.
close_elsewhere ==
  /\ opened' = Absent /\ cache' = Empty /\ answer' = Ok
  /\ UNCHANGED disk

close ==
  /\ opened' = NoStore /\ cache' = Empty /\ answer' = Ok
  /\ UNCHANGED disk

\* Mutant: the file is created before the cache is asked.
put_creates_first(k, v) ==
  /\ UNCHANGED opened
  /\ \/ /\ cache[k] # Absent /\ answer' = Err
        /\ disk' = [disk EXCEPT ![k] = Torn] /\ UNCHANGED cache
     \/ /\ cache[k] = Absent /\ answer' = Ok
        /\ cache' = [cache EXCEPT ![k] = v] /\ disk' = [disk EXCEPT ![k] = v]

\* The cache alone decides whether the key is taken, and has the packet
\* before the file is created.
put(k, v) ==
  /\ UNCHANGED opened
  /\ \/ cache[k] # Absent /\ answer' = Err /\ UNCHANGED <<cache, disk>>
     \/ /\ cache[k] = Absent
        /\ cache' = [cache EXCEPT ![k] = v]
        /\ \/ disk' = [disk EXCEPT ![k] = v] /\ answer' = Ok
           \/ Failed /\ disk' \in {disk, [disk EXCEPT ![k] = Torn]}

\* What get and contains do first: a packet that is only on disk is read
\* into the cache.
load(k) ==
  /\ UNCHANGED <<opened, disk>>
  /\ cache' = [cache EXCEPT ![k] = IF cache[k] = Absent THEN disk[k] ELSE cache[k]]

get(k) ==
  \/ /\ ~(cache[k] = Absent /\ disk[k] = Absent)
     /\ load(k)
     /\ answer' = Found(cache'[k])
  \/ /\ cache[k] = Absent
     /\ \/ disk[k] = Absent /\ answer' = Err
        \/ Failed
     /\ UNCHANGED <<opened, cache, disk>>

\* path.exists() is false when it cannot look, so a failure of the file
\* system is an error only if the file was there when it was asked.
contains(k) ==
  \/ /\ load(k)
     /\ answer' = Listed(IF cache'[k] = Absent THEN {} ELSE {k})
  \/ /\ cache[k] = Absent /\ disk[k] # Absent
     /\ Failed \/ Unseen
     /\ UNCHANGED <<opened, cache, disk>>

\* Mutant: the entry is kept until the file is known to be gone.
remove_keeps_entry(k) ==
  /\ cache[k] # Absent
  /\ disk' = [disk EXCEPT ![k] = Absent] /\ answer' = Ok
  /\ UNCHANGED <<opened, cache>>

\* A packet that is not cached is not removed, whether it has a file or not.
remove(k) ==
  /\ UNCHANGED opened
  /\ \/ cache[k] = Absent /\ answer' = Err /\ UNCHANGED <<cache, disk>>
     \/ /\ cache[k] # Absent
        /\ cache' = [cache EXCEPT ![k] = Absent]
        /\ \/ disk[k] # Absent /\ disk' = [disk EXCEPT ![k] = Absent] /\ answer' = Ok
           \/ disk[k] = Absent /\ answer' = Err /\ UNCHANGED disk
           \/ disk[k] # Absent /\ Failed /\ UNCHANGED disk

\* An empty cache is filled from a directory that does not exist.
keys ==
  /\ answer' = IF Cached = {} THEN Err ELSE Listed(Cached)
  /\ UNCHANGED <<opened, cache, disk>>

\* So is the directory that clear would empty.
clear ==
  /\ cache' = Empty /\ answer' = Err
  /\ UNCHANGED <<opened, disk>>

\* The program stops, at rest or between the creation of a file and the
\* end of its write.
Restart ==
  /\ opened' = NoStore /\ cache' = Empty /\ answer' = Ok
  /\ \/ UNCHANGED disk
     \/ /\ "crash" \in faults /\ opened # NoStore
        /\ \E k \in Keys \ Cached : disk' = [disk EXCEPT ![k] = Torn]

Operation ==
  \/ keys
  \/ clear
  \/ \E k \in Keys : get(k) \/ contains(k) \/ remove(k)
  \/ \E k \in Keys, v \in Packets : put(k, v)

Next ==
  /\ \/ \E s \in Stores : open(s)
     \/ close
     \/ Restart
     \/ opened # NoStore /\ Operation
  /\ UNCHANGED faults

Spec == Init /\ [][Next]_vars

-----------------------------------------------------------------------------
(* What the store shows its user: the cache first, then the files.  Where  *)
(* something can go wrong the contract is not kept, and the mapping shows  *)
(* a store that is never used.                                             *)

Visible == [k \in Keys |-> IF cache[k] # Absent THEN cache[k] ELSE disk[k]]

Contract == INSTANCE PacketStore WITH
  opened <- IF faults = {} THEN opened ELSE NoStore,
  kept <- [s \in Stores |-> IF faults = {} THEN Visible ELSE Empty],
  answer <- IF faults = {} THEN answer ELSE Ok

\* The store keeps the contract of the trait (mod.rs:12-21): with one store
\* and no faults.  Two stores, an operation of the file system that fails,
\* and a program that stops inside put each break it.
KeepsContract == Contract!Spec

\* As long as the file system does not fail, what the cache answers is what
\* a restart would find: no packet lives in memory only, whichever store it
\* was put in.
CacheIsBacked ==
  "io" \notin faults => \A k \in Keys : cache[k] # Absent => disk[k] = cache[k]

\* What a file holds changes only by what the caller was told, whatever
\* fails (fs.rs:44-58, 93-104): it goes when its packet was cached and remove
\* succeeds, it is whole after a put that succeeds, and it is torn by a put
\* that failed or was cut off by a restart, never one over a cached packet.
FilesFollowAnswers ==
  [][\A k \in Keys : disk'[k] # disk[k] =>
       \/ cache[k] # Absent /\ disk'[k] = Absent /\ answer' = Ok
       \/ cache[k] = Absent /\ disk'[k] = cache'[k] /\ answer' = Ok
       \/ cache[k] = Absent /\ disk'[k] = Torn /\ (answer' = Err \/ opened' = NoStore)]_vars

=============================================================================
