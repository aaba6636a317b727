------------------------------ MODULE XfsDriver ------------------------------
(***************************************************************************)
(* The FUSE handlers of fuse/fuse_xfs.c over find_path (xfsutil/xfsutil.c) *)
(* and libxfs_iget, libxfs_iput and libxfs_umount (libxfs/rdwr.c, init.c): *)
(* which inode a handler works on, whether it has been read from disk, and *)
(* who holds a reference to it.                                            *)
(*                                                                         *)
(* The inode cache keeps the promise of PinnedStore: a referenced node     *)
(* stays under its inode number, an unreferenced one may go at any time,   *)
(* and two threads that miss together insert a node each.  libxfs_iget is  *)
(* the steps another thread can come between: the search, the insertion of *)
(* a blank inode, the read that fills it.  The handlers the driver refuses *)
(* (ENOSYS) and those that touch no inode (statfs, flush, fsync) are left  *)
(* out.  The kernel does not release a file that is being read, reads only *)
(* open files and unmounts when none is open.                              *)
(*                                                                         *)
(* DoublePut, PutAtOpen, ... state plausible mistakes in the definition  *)
(* after them; the specification does not use them.                        *)
(***************************************************************************)
EXTENDS Integers, Sequences, FiniteSets

CONSTANTS
  Threads,     \* FUSE threads
  Nodes,       \* memory for incore inodes
  Inos,        \* inode numbers
  Root,        \* sb_rootino
  Kind,        \* di_mode on disk: "dir", "file" or "link"
  Child,       \* directory entries on disk: <<directory, name>> -> inode number
  Paths,       \* what the kernel may ask for: sequences of names
  Calls,       \* the handlers it calls
  Files,       \* struct fuse_file_info of the files open at a time
  DeviceFails, \* the device may fail to read
  Corrupt,     \* inodes and directory blocks may be found corrupt
  MaxCount,    \* no new call starts over this many references to an inode
  None

ASSUME DriverAssumption ==
  /\ IsFiniteSet(Threads) /\ IsFiniteSet(Files)
  /\ Root \in Inos /\ Kind \in [Inos -> {"dir", "file", "link"}]
  /\ Kind[Root] = "dir"
  /\ \A e \in DOMAIN Child : e[1] \in Inos /\ Child[e] \in Inos
  /\ Calls \subseteq {"getattr", "opendir", "open", "readlink", "readdir"}
  /\ DeviceFails \in BOOLEAN /\ Corrupt \in BOOLEAN /\ MaxCount \in Nat
  /\ None \notin Nodes \cup Inos \cup [node : Nodes, ino : Inos]

VARIABLES
  status,  \* "mounted", "unmounted", or how the daemon died
  ino,     \* the inode number a node is cached under, None if it is free
  count,   \* cn_count of a node
  filled,  \* libxfs_iread has filled the node
  fh,      \* the node of an open file, and the inode number it was opened for
  pc,      \* where a thread is
  call,    \* its handler
  rest,    \* find_path: the names to go
  want,    \* libxfs_iget: the inode number asked for
  phase,   \* what it is asked for: "root", "path" or "entry"
  cur,     \* find_path's current, then the handler's inode
  got,     \* what libxfs_iget has found or inserted
  entries, \* readdir: inode numbers of the entries to go
  true     \* the answer so far is what is on disk, or an error

cache == <<ino, count, filled>>
locals == <<call, rest, want, phase, cur, got, entries, true>>
vars == <<status, cache, fh, pc, locals>>

\* After libxfs_mount: m_rootip holds the root inode.
Init ==
  /\ status = "mounted"
  /\ \E n \in Nodes :
       /\ ino = [m \in Nodes |-> IF m = n THEN Root ELSE None]
       /\ count = [m \in Nodes |-> IF m = n THEN 1 ELSE 0]
       /\ filled = [m \in Nodes |-> m = n]
  /\ fh = [f \in Files |-> None]
  /\ pc = [t \in Threads |-> "idle"]
  /\ call = [t \in Threads |-> None] /\ rest = [t \in Threads |-> <<>>]
  /\ want = [t \in Threads |-> None] /\ phase = [t \in Threads |-> None]
  /\ cur = [t \in Threads |-> None] /\ got = [t \in Threads |-> None]
  /\ entries = [t \in Threads |-> {}] /\ true = [t \in Threads |-> TRUE]

Goto(t, label) == pc' = [pc EXCEPT ![t] = label]

\* libxfs_iput
Put(n) == count' = [count EXCEPT ![n] = @ - 1]

\* The handler returns; what it knew of inodes is gone.
Return(t, holds) ==
  /\ Goto(t, "replied")
  /\ true' = [true EXCEPT ![t] = holds]
  /\ call' = [call EXCEPT ![t] = None] /\ rest' = [rest EXCEPT ![t] = <<>>]
  /\ want' = [want EXCEPT ![t] = None] /\ phase' = [phase EXCEPT ![t] = None]
  /\ cur' = [cur EXCEPT ![t] = None] /\ got' = [got EXCEPT ![t] = None]
  /\ entries' = [entries EXCEPT ![t] = {}]

-----------------------------------------------------------------------------
(* libxfs_iget *)

Get(t, i, ph) ==
  /\ Goto(t, "search")
  /\ want' = [want EXCEPT ![t] = i] /\ phase' = [phase EXCEPT ![t] = ph]

Hit(t) ==
  /\ pc[t] = "search"
  /\ \E n \in Nodes :
       /\ ino[n] = want[t]
       /\ count' = [count EXCEPT ![n] = @ + 1]
       /\ got' = [got EXCEPT ![t] = n]
  /\ Goto(t, "got")
  /\ UNCHANGED <<status, ino, filled, fh, call, rest, want, phase, cur, entries, true>>

Miss(t) ==
  /\ pc[t] = "search"
  /\ \A n \in Nodes : ino[n] # want[t]
  /\ Goto(t, "missed")
  /\ UNCHANGED <<status, cache, fh, locals>>

\* cache_node_allocate: a zeroed inode goes on the chain for all to find, at
\* the latest when libxfs_iread sets i_ino, before it reads.  A search that
\* comes in between misses, as one does that comes before the insertion.
Insert(t) ==
  /\ pc[t] = "missed"
  /\ \/ \E n \in Nodes :
          /\ ino[n] = None
          /\ ino' = [ino EXCEPT ![n] = want[t]]
          /\ count' = [count EXCEPT ![n] = 1]
          /\ filled' = [filled EXCEPT ![n] = FALSE]
          /\ got' = [got EXCEPT ![t] = n]
          /\ Goto(t, "fill")
          /\ UNCHANGED status
     \/ /\ \A n \in Nodes : ino[n] # None
        /\ status' = "exited"     \* kmem_zone_zalloc: exit(1)
        /\ UNCHANGED <<cache, got, pc>>
  /\ UNCHANGED <<fh, call, rest, want, phase, cur, entries, true>>

\* cache_node_purge finds the reference libxfs_iget itself took on the node,
\* so it leaves the node where it is, blank and referenced.
FillNode(t) == filled' = [filled EXCEPT ![got[t]] = TRUE]
Fill(t) ==
  /\ pc[t] = "fill"
  /\ \/ /\ FillNode(t)
        /\ Goto(t, "got")
        /\ UNCHANGED got
     \/ /\ Corrupt
        /\ got' = [got EXCEPT ![t] = None]
        /\ Goto(t, "failed")
        /\ UNCHANGED filled
  /\ UNCHANGED <<status, ino, count, fh, call, rest, want, phase, cur, entries, true>>

-----------------------------------------------------------------------------
(* find_path *)

Opening == {t \in Threads : call[t] = "open"}
Unused  == {f \in Files : fh[f] = None}

Start(t) ==
  /\ pc[t] = "idle"
  /\ \A n \in Nodes : count[n] < MaxCount
  /\ \E c \in Calls, path \in Paths :
       /\ c = "open" => Cardinality(Opening) < Cardinality(Unused)
       /\ call' = [call EXCEPT ![t] = c]
       /\ rest' = [rest EXCEPT ![t] = path]
  /\ Get(t, Root, "root")
  /\ UNCHANGED <<status, cache, fh, cur, got, entries, true>>

\* assert(error==0) for the root, EIO for the others.
GetFailed(t) ==
  /\ pc[t] = "failed" /\ phase[t] \in {"root", "path"}
  /\ status' = IF phase[t] = "root" THEN "aborted" ELSE status
  /\ Return(t, TRUE)
  /\ UNCHANGED <<cache, fh>>

Got(t) ==
  /\ pc[t] = "got" /\ phase[t] \in {"root", "path"}
  /\ cur' = [cur EXCEPT ![t] = got[t]] /\ got' = [got EXCEPT ![t] = None]
  /\ Goto(t, IF rest[t] = <<>> THEN "serve" ELSE "walk")
  /\ UNCHANGED <<status, cache, fh, call, rest, want, phase, entries, true>>

Is(n, kind) == filled[n] /\ Kind[ino[n]] = kind

NotDirectory(t) ==
  /\ pc[t] = "walk" /\ ~Is(cur[t], "dir")
  /\ Put(cur[t])
  /\ Return(t, filled[cur[t]])
  /\ UNCHANGED <<status, ino, filled, fh>>

\* libxfs_dir_lookup fails: current keeps the reference find_path took.
LookupFails(t) ==
  /\ pc[t] = "walk" /\ Is(cur[t], "dir")
  /\ <<ino[cur[t]], Head(rest[t])>> \notin DOMAIN Child \/ Corrupt
  /\ Return(t, TRUE)
  /\ UNCHANGED <<status, cache, fh>>

LookupFinds(t) ==
  /\ pc[t] = "walk" /\ Is(cur[t], "dir")
  /\ <<ino[cur[t]], Head(rest[t])>> \in DOMAIN Child
  /\ Put(cur[t])
  /\ Get(t, Child[<<ino[cur[t]], Head(rest[t])>>], "path")
  /\ rest' = [rest EXCEPT ![t] = Tail(@)]
  /\ cur' = [cur EXCEPT ![t] = None]
  /\ UNCHANGED <<status, ino, filled, fh, call, got, entries, true>>

-----------------------------------------------------------------------------
(* The handlers *)

\* fuse_xfs_fgetattr and fuse_xfs_getattr have no libxfs_iput.
Getattr(t) ==
  /\ pc[t] = "serve" /\ call[t] = "getattr"
  /\ Return(t, filled[cur[t]])
  /\ UNCHANGED <<status, cache, fh>>

DoublePut(t) == count' = [count EXCEPT ![cur[t]] = @ - 2]
PutDirectory(t) == Put(cur[t])

Opendir(t) ==
  /\ pc[t] = "serve" /\ call[t] = "opendir"
  /\ PutDirectory(t)
  /\ Return(t, filled[cur[t]])
  /\ UNCHANGED <<status, ino, filled, fh>>

\* The reference goes with the file handle, until fuse_xfs_release.
PutAtOpen(t) == Put(cur[t])
KeptForFile(t) == UNCHANGED count

Open(t) ==
  /\ pc[t] = "serve" /\ call[t] = "open"
  /\ \E f \in Unused :
       fh' = [fh EXCEPT ![f] = [node |-> cur[t], ino |-> ino[cur[t]]]]
  /\ KeptForFile(t)
  /\ Return(t, filled[cur[t]])
  /\ UNCHANGED <<status, ino, filled>>

\* A negative result of xfs_readlink leaves without libxfs_iput.  The bits
\* of S_IFLNK include S_IFREG: a file in extents reads as a link.
Readlink(t) ==
  /\ pc[t] = "serve" /\ call[t] = "readlink"
  /\ \/ /\ Is(cur[t], "link") \/ Is(cur[t], "file")
        /\ Put(cur[t])
     \/ /\ ~Is(cur[t], "link") \/ DeviceFails
        /\ UNCHANGED count
  /\ Return(t, filled[cur[t]])
  /\ UNCHANGED <<status, ino, filled, fh>>

\* The inodes of the entries of a directory, ".", ".." included.
EntriesOf(d) ==
  {d} \cup {Child[e] : e \in {f \in DOMAIN Child : f[1] = d}}
      \cup {e[1] : e \in {f \in DOMAIN Child : Child[f] = d}}

\* xfs_readdir; what it returns is not looked at.
Readdir(t) ==
  /\ pc[t] = "serve" /\ call[t] = "readdir"
  /\ entries' = [entries EXCEPT ![t] =
       IF Is(cur[t], "dir") THEN EntriesOf(ino[cur[t]]) ELSE {}]
  /\ true' = [true EXCEPT ![t] = filled[cur[t]]]
  /\ Goto(t, "listing")
  /\ UNCHANGED <<status, cache, fh, call, rest, want, phase, cur, got>>

\* fuse_xfs_filldir for the next entry.
Entry(t) ==
  /\ pc[t] = "listing"
  /\ \E i \in entries[t] :
       /\ entries' = [entries EXCEPT ![t] = @ \ {i}]
       /\ Get(t, i, "entry")
  /\ UNCHANGED <<status, cache, fh, call, rest, cur, got, true>>

\* An entry whose inode cannot be read is left out of the listing.
EntryFailed(t) ==
  /\ pc[t] = "failed" /\ phase[t] = "entry"
  /\ true' = [true EXCEPT ![t] = FALSE]
  /\ Goto(t, "listing")
  /\ UNCHANGED <<status, cache, fh, call, rest, want, phase, cur, got, entries>>

PutDirectoryAgain(t) == Put(cur[t])
PutEntry(t) == Put(got[t])

EntryGot(t) ==
  /\ pc[t] = "got" /\ phase[t] = "entry"
  /\ PutEntry(t)
  /\ true' = [true EXCEPT ![t] = @ /\ filled[got[t]]]
  /\ got' = [got EXCEPT ![t] = None]
  /\ Goto(t, "listing")
  /\ UNCHANGED <<status, ino, filled, fh, call, rest, want, phase, cur, entries>>

\* A corrupt block of the directory ends the listing early.
Listed(t) ==
  /\ pc[t] = "listing"
  /\ entries[t] = {} \/ Corrupt
  /\ Put(cur[t])
  /\ Return(t, true[t] /\ entries[t] = {})
  /\ UNCHANGED <<status, ino, filled, fh>>

Read(t) ==
  /\ pc[t] = "idle"
  /\ \E f \in Files \ Unused : Return(t, filled[fh[f].node])
  /\ UNCHANGED <<status, cache, fh>>

Release(t) ==
  /\ pc[t] = "idle"
  /\ \E f \in Files \ Unused :
       /\ Put(fh[f].node)
       /\ fh' = [fh EXCEPT ![f] = None]
  /\ UNCHANGED <<status, ino, filled, pc, locals>>

\* The device fails to read an inode, a directory block or a leaf of a bmap
\* btree: libxfs_trans_read_buf returns 0 and no buffer, and its callers look
\* into it.  (The blocks of a link or of a file are checked for.)
Crash(t) ==
  /\ DeviceFails
  /\ \/ pc[t] \in {"fill", "listing"}
     \/ pc[t] = "walk" /\ Is(cur[t], "dir")
     \/ pc[t] = "idle" /\ Unused # Files
  /\ status' = "crashed"
  /\ UNCHANGED <<cache, fh, pc, locals>>

Reply(t) ==
  /\ pc[t] = "replied"
  /\ Goto(t, "idle")
  /\ true' = [true EXCEPT ![t] = TRUE]
  /\ UNCHANGED <<status, cache, fh, call, rest, want, phase, cur, got, entries>>

-----------------------------------------------------------------------------
\* The cache makes room: what PinnedStore allows.
Freed(N) ==
  /\ ino' = [n \in Nodes |-> IF n \in N THEN None ELSE ino[n]]
  /\ filled' = [n \in Nodes |-> n \notin N /\ filled[n]]
Unreferenced == {n \in Nodes : ino[n] # None /\ count[n] = 0}

Evict(n) ==
  /\ n \in Unreferenced
  /\ Freed({n})
  /\ UNCHANGED <<status, count, fh, pc, locals>>

\* fuse_xfs_destroy: libxfs_umount purges both caches, and does not put
\* m_rootip.
Unmount ==
  /\ \A t \in Threads : pc[t] = "idle"
  /\ Unused = Files
  /\ status' = "unmounted"
  /\ Freed(Unreferenced)
  /\ UNCHANGED <<count, fh, pc, locals>>

Stopped == status # "mounted" /\ UNCHANGED vars

Step(t) ==
  \/ Start(t) \/ Hit(t) \/ Miss(t) \/ Insert(t) \/ Fill(t)
  \/ GetFailed(t) \/ Got(t) \/ NotDirectory(t) \/ LookupFails(t) \/ LookupFinds(t)
  \/ Getattr(t) \/ Opendir(t) \/ Open(t) \/ Readlink(t)
  \/ Readdir(t) \/ Entry(t) \/ EntryFailed(t) \/ EntryGot(t) \/ Listed(t)
  \/ Read(t) \/ Release(t) \/ Reply(t) \/ Crash(t)

Next ==
  \/ /\ status = "mounted"
     /\ \/ \E t \in Threads : Step(t)
        \/ \E n \in Nodes : Evict(n)
        \/ Unmount
  \/ Stopped

Spec == Init /\ [][Next]_vars

-----------------------------------------------------------------------------
(* Properties *)

\* Every variable stays in its range; a reference count is never negative.
TypeOK ==
  /\ status \in {"mounted", "aborted", "exited", "crashed", "unmounted"}
  /\ ino \in [Nodes -> Inos \cup {None}] /\ count \in [Nodes -> Nat]
  /\ filled \in [Nodes -> BOOLEAN]
  /\ fh \in [Files -> [node : Nodes, ino : Inos] \cup {None}]
  /\ pc \in [Threads -> {"idle", "search", "missed", "fill", "got", "failed",
                         "walk", "serve", "listing", "replied"}]
  /\ want \in [Threads -> Inos \cup {None}]
  /\ cur \in [Threads -> Nodes \cup {None}] /\ got \in [Threads -> Nodes \cup {None}]
  /\ entries \in [Threads -> SUBSET Inos] /\ true \in [Threads -> BOOLEAN]

\* The references somebody will put again: find_path, a handler, an entry of
\* a listing, an open file.  m_rootip is one more, for the node it was made on.
Holders(n) ==
  Cardinality({t \in Threads : cur[t] = n}) + Cardinality({t \in Threads : got[t] = n})
    + Cardinality({f \in Files : fh[f] # None /\ fh[f].node = n})

\* No reference is put twice, on any path through a handler: what somebody
\* still holds is counted, the mount's own reference to the root inode on top,
\* and so stays cached.  (TypeOK: no count is negative.)
HeldIsCounted ==
  /\ TypeOK
  /\ \A n \in Nodes : Holders(n) > 0 => ino[n] # None
  /\ \E m \in Nodes :
       /\ ino[m] = Root
       /\ \A n \in Nodes : count[n] >= Holders(n) + IF n = m THEN 1 ELSE 0

\* The inode behind fi->fh is, until release, the one the file was opened for.
OpenPinned ==
  \A f \in Files : fh[f] # None =>
    ino[fh[f].node] = fh[f].ino /\ count[fh[f].node] > 0

\* The assert of find_path: the root inode is in the cache at every lookup,
\* because the mount still holds it; so it is never read again.
RootAssert == status # "aborted"

\* Every answer is about inodes that have been read: a success carries their
\* data, an error says what is on disk.  libxfs_iread takes it that other
\* processes cannot find an inode before it is filled.
AnswersTrue == \A t \in Threads : pc[t] = "replied" => true[t]

\* A reference nobody will put again ("Done with current: make it available")
\* is left behind in four places and nowhere else, and one at a time: by
\* getattr, by a readlink that fails, by the lookup of a name that fails, and
\* by a libxfs_iget that cannot read the inode.  No step takes one away.
Surplus(n) == count[n] - Holders(n)
LeavesBehind(t, n) ==
  \/ cur[t] = n /\ pc[t] = "serve" /\ call[t] = "getattr"
  \/ cur[t] = n /\ pc[t] = "serve" /\ call[t] = "readlink" /\ (~Is(n, "link") \/ DeviceFails)
  \/ cur[t] = n /\ pc[t] = "walk" /\ pc'[t] = "replied" /\ Is(n, "dir")
  \/ got[t] = n /\ pc[t] = "fill" /\ pc'[t] = "failed"
LeaksKnown ==
  [][\A n \in Nodes : ino[n] # None =>
       \/ Surplus(n)' = Surplus(n)
       \/ Surplus(n)' = Surplus(n) + 1 /\ \E t \in Threads : LeavesBehind(t, n)]_vars
=============================================================================
