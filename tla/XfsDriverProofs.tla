-------------------------- MODULE XfsDriverProofs --------------------------
(* Proofs about XfsDriver, for every number of threads, nodes and files,   *)
(* every tree on disk, every path and every handler, devices that fail and *)
(* inodes that are corrupt included.                                       *)
(* The answers of the last part but one are those of one thread.           *)
EXTENDS XfsDriver, FiniteSetTheorems, TLAPS

Getting == {"search", "missed", "fill", "got", "failed"}

(* What a thread holds where it is; the root inode is never asked for twice. *)
Place(t) ==
  /\ pc[t] \in {"idle", "replied"} => cur[t] = None /\ got[t] = None
  /\ pc[t] \in {"walk", "serve", "listing"} => cur[t] \in Nodes /\ got[t] = None
  /\ pc[t] \in Getting =>
       /\ want[t] \in Inos /\ phase[t] \in {"root", "path", "entry"}
       /\ phase[t] = "root" => want[t] = Root /\ pc[t] \in {"search", "got"}
       /\ phase[t] # "entry" => cur[t] = None
       /\ phase[t] = "entry" => cur[t] \in Nodes
       /\ pc[t] \in {"fill", "got"} => got[t] \in Nodes
       /\ pc[t] \notin {"fill", "got"} => got[t] = None

Cached == \A n \in Nodes : Holders(n) > 0 => ino[n] # None

One(condition) == IF condition THEN 1 ELSE 0

(* The mount holds m, and every holder is counted. *)
Counted(m) ==
  /\ ino[m] = Root
  /\ \A n \in Nodes : count[n] >= Holders(n) + One(n = m)

Opened == \A f \in Files : fh[f] # None => ino[fh[f].node] = fh[f].ino

Phases == phase \in [Threads -> {"root", "path", "entry", None}]

IInv ==
  /\ TypeOK /\ Phases
  /\ \A t \in Threads : Place(t)
  /\ Cached /\ Opened /\ RootAssert
  /\ \E m \in Nodes : Counted(m)

-----------------------------------------------------------------------------
(* How many hold a node *)

CurOf(n)  == {t \in Threads : cur[t] = n}
GotOf(n)  == {t \in Threads : got[t] = n}
FileOf(n) == {f \in Files : fh[f] # None /\ fh[f].node = n}

LEMMA OneMoves ==
  ASSUME NEW A, NEW B, NEW x, IsFiniteSet(A), IsFiniteSet(B), A \ {x} = B \ {x}
  PROVE  Cardinality(B) = Cardinality(A) + One(x \in B) - One(x \in A)
<1>1. Cardinality(A) \in Nat /\ Cardinality(B) \in Nat
  BY FS_CardinalityType
<1>2. Cardinality(A \ {x}) = Cardinality(A) - One(x \in A)
  BY <1>1, FS_RemoveElement DEF One
<1>3. Cardinality(B \ {x}) = Cardinality(B) - One(x \in B)
  BY <1>1, FS_RemoveElement DEF One
<1> QED  BY <1>1, <1>2, <1>3 DEF One

LEMMA HoldersFinite ==
  ASSUME NEW n
  PROVE  /\ IsFiniteSet(CurOf(n)) /\ IsFiniteSet(GotOf(n)) /\ IsFiniteSet(FileOf(n))
         /\ Cardinality(CurOf(n)) \in Nat /\ Cardinality(GotOf(n)) \in Nat
         /\ Cardinality(FileOf(n)) \in Nat /\ Holders(n) \in Nat
         /\ Holders(n) = Cardinality(CurOf(n)) + Cardinality(GotOf(n))
                           + Cardinality(FileOf(n))
<1>1. CurOf(n) \in SUBSET Threads /\ GotOf(n) \in SUBSET Threads
      /\ FileOf(n) \in SUBSET Files
  BY DEF CurOf, GotOf, FileOf
<1>2. IsFiniteSet(Threads) /\ IsFiniteSet(Files)
  BY DriverAssumption
<1>3. IsFiniteSet(CurOf(n)) /\ IsFiniteSet(GotOf(n)) /\ IsFiniteSet(FileOf(n))
  BY <1>1, <1>2, FS_Subset
<1>4. /\ Cardinality(CurOf(n)) \in Nat /\ Cardinality(GotOf(n)) \in Nat
      /\ Cardinality(FileOf(n)) \in Nat
  BY <1>3, FS_CardinalityType
<1>5. Holders(n) = Cardinality(CurOf(n)) + Cardinality(GotOf(n)) + Cardinality(FileOf(n))
  BY DEF Holders, CurOf, GotOf, FileOf
<1> QED  BY <1>3, <1>4, <1>5

(* Whoever holds a node is among its holders. *)
LEMMA Held ==
  ASSUME NEW n
  PROVE  /\ \A t \in Threads : cur[t] = n \/ got[t] = n => Holders(n) > 0
         /\ \A f \in Files : fh[f] # None /\ fh[f].node = n => Holders(n) > 0
<1>1. ASSUME NEW t \in Threads, cur[t] = n \/ got[t] = n
      PROVE  Cardinality(CurOf(n)) # 0 \/ Cardinality(GotOf(n)) # 0
  BY <1>1, HoldersFinite, FS_EmptySet DEF CurOf, GotOf
<1>2. ASSUME NEW f \in Files, fh[f] # None, fh[f].node = n
      PROVE  Cardinality(FileOf(n)) # 0
  BY <1>2, HoldersFinite, FS_EmptySet DEF FileOf
<1> QED  BY <1>1, <1>2, HoldersFinite

Own(t, n) == One(cur[t] = n) + One(got[t] = n)
OfFile(f, n) == One(fh[f] # None /\ fh[f].node = n)
OthersKeep(t) ==
  \A u \in Threads \ {t} : /\ cur'[u] = cur[u] /\ got'[u] = got[u]
                           /\ pc'[u] = pc[u] /\ want'[u] = want[u] /\ phase'[u] = phase[u]

LEMMA HoldersMove ==
  ASSUME NEW t \in Threads, OthersKeep(t), NEW n
  PROVE  /\ fh' = fh => Holders(n)' = Holders(n) + Own(t, n)' - Own(t, n)
         /\ \A f \in Files : (\A g \in Files \ {f} : fh'[g] = fh[g]) =>
              Holders(n)' = Holders(n) + Own(t, n)' - Own(t, n)
                              + OfFile(f, n)' - OfFile(f, n)
<1>1. Cardinality(CurOf(n))' = Cardinality(CurOf(n)) + One(cur[t] = n)' - One(cur[t] = n)
  <2>1. CurOf(n) \ {t} = CurOf(n)' \ {t}
    BY DEF CurOf, OthersKeep
  <2>2. (t \in CurOf(n) <=> cur[t] = n) /\ (t \in CurOf(n)' <=> cur'[t] = n)
    BY DEF CurOf
  <2>3. IsFiniteSet(CurOf(n)) /\ IsFiniteSet(CurOf(n)')
    BY HoldersFinite, DriverAssumption, FS_Subset DEF CurOf
  <2> QED  BY <2>1, <2>2, <2>3, OneMoves DEF One
<1>2. Cardinality(GotOf(n))' = Cardinality(GotOf(n)) + One(got[t] = n)' - One(got[t] = n)
  <2>1. GotOf(n) \ {t} = GotOf(n)' \ {t}
    BY DEF GotOf, OthersKeep
  <2>2. (t \in GotOf(n) <=> got[t] = n) /\ (t \in GotOf(n)' <=> got'[t] = n)
    BY DEF GotOf
  <2>3. IsFiniteSet(GotOf(n)) /\ IsFiniteSet(GotOf(n)')
    BY HoldersFinite, DriverAssumption, FS_Subset DEF GotOf
  <2> QED  BY <2>1, <2>2, <2>3, OneMoves DEF One
<1>3. ASSUME NEW f \in Files, \A g \in Files \ {f} : fh'[g] = fh[g]
      PROVE  Cardinality(FileOf(n))' = Cardinality(FileOf(n)) + OfFile(f, n)' - OfFile(f, n)
  <2>1. FileOf(n) \ {f} = FileOf(n)' \ {f}
    BY <1>3 DEF FileOf
  <2>2. /\ f \in FileOf(n) <=> fh[f] # None /\ fh[f].node = n
        /\ f \in FileOf(n)' <=> fh'[f] # None /\ fh'[f].node = n
    BY DEF FileOf
  <2>3. IsFiniteSet(FileOf(n)) /\ IsFiniteSet(FileOf(n)')
    BY HoldersFinite, DriverAssumption, FS_Subset DEF FileOf
  <2> QED  BY <2>1, <2>2, <2>3, OneMoves DEF One, OfFile
<1>4. fh' = fh => Cardinality(FileOf(n))' = Cardinality(FileOf(n))
  BY DEF FileOf
<1>5. /\ Holders(n) = Cardinality(CurOf(n)) + Cardinality(GotOf(n)) + Cardinality(FileOf(n))
      /\ Holders(n)' = Cardinality(CurOf(n))' + Cardinality(GotOf(n))'
                         + Cardinality(FileOf(n))'
  BY DEF Holders, CurOf, GotOf, FileOf
<1>6. /\ Cardinality(CurOf(n)) \in Nat /\ Cardinality(GotOf(n)) \in Nat
      /\ Cardinality(FileOf(n)) \in Nat
  BY HoldersFinite
<1>7. Own(t, n) \in Int /\ Own(t, n)' \in Int
      /\ \A f \in Files : OfFile(f, n) \in Int /\ OfFile(f, n)' \in Int
  BY DEF Own, OfFile, One
<1>8. /\ One(cur[t] = n) \in Int /\ One(cur[t] = n)' \in Int
      /\ One(got[t] = n) \in Int /\ One(got[t] = n)' \in Int
  BY DEF One
<1>9. ASSUME fh' = fh PROVE Holders(n)' = Holders(n) + Own(t, n)' - Own(t, n)
  BY <1>1, <1>2, <1>4, <1>5, <1>6, <1>7, <1>8, <1>9 DEF Own
<1>10. ASSUME NEW f \in Files, \A g \in Files \ {f} : fh'[g] = fh[g]
       PROVE  Holders(n)' = Holders(n) + Own(t, n)' - Own(t, n)
                              + OfFile(f, n)' - OfFile(f, n)
  <2>1. Cardinality(FileOf(n))' = Cardinality(FileOf(n)) + OfFile(f, n)' - OfFile(f, n)
    BY <1>3, <1>10
  <2>2. OfFile(f, n) \in Int /\ OfFile(f, n)' \in Int
    BY <1>7
  <2> QED  BY <1>1, <1>2, <1>5, <1>6, <1>8, <2>1, <2>2 DEF Own
<1> QED  BY <1>9, <1>10

-----------------------------------------------------------------------------
(* What a step of a thread leaves behind *)

(* TypeOK, but for the sign of the counts. *)
Types ==
  /\ status \in {"mounted", "aborted", "exited", "crashed", "unmounted"}
  /\ ino \in [Nodes -> Inos \cup {None}] /\ count \in [Nodes -> Int]
  /\ filled \in [Nodes -> BOOLEAN]
  /\ fh \in [Files -> [node : Nodes, ino : Inos] \cup {None}]
  /\ pc \in [Threads -> {"idle", "search", "missed", "fill", "got", "failed",
                         "walk", "serve", "listing", "replied"}]
  /\ want \in [Threads -> Inos \cup {None}] /\ Phases
  /\ cur \in [Threads -> Nodes \cup {None}] /\ got \in [Threads -> Nodes \cup {None}]
  /\ entries \in [Threads -> SUBSET Inos] /\ true \in [Threads -> BOOLEAN]

Left(t) == Types' /\ OthersKeep(t) /\ Place(t)'

(* What the cases of LeftBehind need of the state before. *)
LEMMA Before ==
  ASSUME IInv, NEW t \in Threads
  PROVE  /\ Types /\ Place(t)
         /\ cur[t] \in Nodes => ino[cur[t]] \in Inos /\ filled[cur[t]] \in BOOLEAN
         /\ \A f \in Files : fh[f] # None => fh[f].node \in Nodes
<1>1. Types /\ Place(t)
  BY DEF IInv, TypeOK, Types
<1>2. cur[t] \in Nodes => ino[cur[t]] # None
  BY Held DEF IInv, Cached
<1> QED  BY <1>1, <1>2 DEF Types

LEMMA Answered ==
  ASSUME Types, NEW t \in Threads, NEW holds \in BOOLEAN, Return(t, holds),
         status' \in {"mounted", "aborted", "exited", "crashed", "unmounted"},
         ino' = ino, count' \in [Nodes -> Int], filled' = filled,
         fh' \in [Files -> [node : Nodes, ino : Inos] \cup {None}]
  PROVE  Left(t) /\ cur'[t] = None /\ got'[t] = None
<1>1. Types'
  BY DEF Types, Phases, Return, Goto
<1>2. OthersKeep(t)
  BY DEF Types, Phases, Return, Goto, OthersKeep
<1>3. pc'[t] = "replied" /\ cur'[t] = None /\ got'[t] = None
  BY DEF Types, Return, Goto
<1> QED  BY <1>1, <1>2, <1>3 DEF Left, Place, Getting

LEMMA Asked ==
  ASSUME Types, NEW t \in Threads, NEW i \in Inos, NEW ph \in {"root", "path", "entry"},
         Get(t, i, ph), ph = "root" => i = Root,
         IF ph = "entry" THEN cur'[t] \in Nodes ELSE cur'[t] = None, got'[t] = None
  PROVE  /\ pc' \in [Threads -> {"idle", "search", "missed", "fill", "got", "failed",
                                 "walk", "serve", "listing", "replied"}]
         /\ want' \in [Threads -> Inos \cup {None}] /\ Phases'
         /\ \A u \in Threads \ {t} :
              pc'[u] = pc[u] /\ want'[u] = want[u] /\ phase'[u] = phase[u]
         /\ Place(t)'
<1>1. pc'[t] = "search" /\ want'[t] = i /\ phase'[t] = ph
  BY DEF Get, Goto, Types, Phases
<1>2. Place(t)'
  BY <1>1 DEF Place, Getting
<1> QED  BY <1>1, <1>2 DEF Get, Goto, Types, Phases

LEMMA LeftByIget ==
  ASSUME IInv, NEW t \in Threads,
         Hit(t) \/ Miss(t) \/ Insert(t) \/ Fill(t) \/ Start(t) \/ GetFailed(t) \/ Got(t)
  PROVE  Left(t)
<1>1. Types /\ Place(t)
  BY Before
<1>2. CASE Hit(t)
  <2>1. Types'
    BY <1>1, <1>2 DEF Hit, Goto, Types, Phases
  <2>2. Place(t)'
    BY <1>1, <1>2 DEF Hit, Goto, Types, Phases, Place, Getting
  <2> QED  BY <1>1, <1>2, <2>1, <2>2 DEF Hit, Goto, Types, Left, OthersKeep
<1>3. CASE Miss(t)
  <2>1. phase[t] # "root"
    BY <1>1, <1>3 DEF Miss, Place, Getting, IInv, Counted
  <2>2. Types'
    BY <1>1, <1>3 DEF Miss, Goto, Types, Phases, cache, locals
  <2>3. Place(t)'
    BY <1>1, <1>3, <2>1 DEF Miss, Goto, Types, Phases, Place, Getting, locals
  <2> QED  BY <1>1, <1>3, <2>2, <2>3 DEF Miss, Goto, Types, Left, OthersKeep, locals
<1>4. CASE Insert(t)
  <2>1. CASE status' = "exited" /\ UNCHANGED <<cache, got, pc>>
    <3>1. Types'
      BY <1>1, <1>4, <2>1 DEF Insert, Types, Phases, cache
    <3>2. Place(t)' /\ OthersKeep(t)
      BY <1>1, <1>4, <2>1 DEF Insert, Types, Phases, Place, OthersKeep, cache
    <3> QED  BY <3>1, <3>2 DEF Left
  <2>2. ASSUME NEW n \in Nodes, ino' = [ino EXCEPT ![n] = want[t]],
               count' = [count EXCEPT ![n] = 1], filled' = [filled EXCEPT ![n] = FALSE],
               got' = [got EXCEPT ![t] = n], Goto(t, "fill"), UNCHANGED status
        PROVE  Left(t)
    <3> /\ pc[t] = "missed"
        /\ UNCHANGED <<fh, call, rest, want, phase, cur, entries, true>>
      BY <1>4 DEF Insert
    <3>1. Types'
      BY <1>1, <2>2 DEF Goto, Types, Phases
    <3>2. Place(t)'
      BY <1>1, <2>2 DEF Goto, Types, Phases, Place, Getting
    <3>3. OthersKeep(t)
      BY <1>1, <2>2 DEF Goto, Types, OthersKeep
    <3> QED  BY <3>1, <3>2, <3>3 DEF Left
  <2> QED  BY <1>4, <2>1, <2>2 DEF Insert
<1>5. CASE Fill(t)
  <2>1. Types'
    BY <1>1, <1>5 DEF Fill, FillNode, Goto, Types, Phases
  <2>2. Place(t)'
    BY <1>1, <1>5 DEF Fill, Goto, Types, Phases, Place, Getting
  <2> QED  BY <1>1, <1>5, <2>1, <2>2 DEF Fill, Goto, Types, Left, OthersKeep
<1>6. CASE Start(t)
  <2>1. Root \in Inos /\ cur'[t] = None /\ got'[t] = None
    BY <1>1, <1>6, DriverAssumption DEF Start, Place
  <2>2. /\ pc' \in [Threads -> {"idle", "search", "missed", "fill", "got", "failed",
                                "walk", "serve", "listing", "replied"}]
        /\ want' \in [Threads -> Inos \cup {None}] /\ Phases'
        /\ \A u \in Threads \ {t} :
             pc'[u] = pc[u] /\ want'[u] = want[u] /\ phase'[u] = phase[u]
        /\ Place(t)'
    BY <1>1, <1>6, <2>1, Asked DEF Start
  <2>3. Types' /\ OthersKeep(t)
    BY <1>1, <1>6, <2>2 DEF Start, Types, OthersKeep, cache
  <2> QED  BY <2>2, <2>3 DEF Left
<1>7. CASE GetFailed(t)
  BY <1>1, <1>7, Answered DEF GetFailed, Types, cache
<1>8. CASE Got(t)
  <2>1. Types'
    BY <1>1, <1>8 DEF Got, Goto, Types, Phases, Place, Getting, cache
  <2>2. pc'[t] \in {"serve", "walk"} /\ cur'[t] = got[t] /\ got'[t] = None
    BY <1>1, <1>8 DEF Got, Goto, Types
  <2>3. got[t] \in Nodes
    BY <1>1, <1>8 DEF Got, Place, Getting
  <2>4. Place(t)'
    BY <2>2, <2>3 DEF Place, Getting
  <2> QED  BY <1>1, <1>8, <2>1, <2>4 DEF Got, Goto, Types, Left, OthersKeep
<1> QED  BY <1>2, <1>3, <1>4, <1>5, <1>6, <1>7, <1>8

LEMMA PutTyped ==
  ASSUME Types, NEW n \in Nodes, Put(n)
  PROVE  count' \in [Nodes -> Int]
BY DEF Types, Put

LEMMA LeftByHandlers ==
  ASSUME IInv, NEW t \in Threads,
         NotDirectory(t) \/ LookupFails(t) \/ Getattr(t) \/ Opendir(t) \/ Open(t)
           \/ Readlink(t) \/ Listed(t) \/ Read(t)
  PROVE  Left(t) /\ cur'[t] = None /\ got'[t] = None
<1>1. Types /\ Place(t)
  BY Before
<1>2. pc[t] \in {"walk", "serve", "listing"} =>
        cur[t] \in Nodes /\ ino[cur[t]] \in Inos /\ filled[cur[t]] \in BOOLEAN
  BY <1>1, Before DEF Place
<1>3. CASE NotDirectory(t)
  <2>1. count' \in [Nodes -> Int]
    BY <1>1, <1>2, <1>3, PutTyped DEF NotDirectory
  <2> QED  BY <1>1, <1>2, <1>3, <2>1, Answered DEF NotDirectory, Types
<1>4. CASE LookupFails(t)
  BY <1>1, <1>4, Answered DEF LookupFails, Types, cache
<1>5. CASE Getattr(t)
  BY <1>1, <1>2, <1>5, Answered DEF Getattr, Types, cache
<1>6. CASE Opendir(t)
  <2>1. count' \in [Nodes -> Int]
    BY <1>1, <1>2, <1>6, PutTyped DEF Opendir, PutDirectory
  <2> QED  BY <1>1, <1>2, <1>6, <2>1, Answered DEF Opendir, Types
<1>7. CASE Open(t)
  <2>1. fh' \in [Files -> [node : Nodes, ino : Inos] \cup {None}]
    BY <1>1, <1>2, <1>7 DEF Open, Types, Unused
  <2> QED  BY <1>1, <1>2, <1>7, <2>1, Answered DEF Open, KeptForFile, Types
<1>8. CASE Readlink(t)
  <2>1. count' \in [Nodes -> Int]
    BY <1>1, <1>2, <1>8, PutTyped DEF Readlink, Types
  <2> QED  BY <1>1, <1>2, <1>8, <2>1, Answered DEF Readlink, Types
<1>9. CASE Listed(t)
  <2>1. count' \in [Nodes -> Int]
    BY <1>1, <1>2, <1>9, PutTyped DEF Listed
  <2>2. (true[t] /\ entries[t] = {}) \in BOOLEAN
    OBVIOUS
  <2> QED  BY <1>1, <1>2, <1>9, <2>1, <2>2, Answered DEF Listed, Types
<1>10. CASE Read(t)
  <2>1. PICK f \in Files \ Unused : Return(t, filled[fh[f].node])
    BY <1>10 DEF Read
  <2>2. filled[fh[f].node] \in BOOLEAN
    BY <1>1, <2>1 DEF Types, Unused
  <2> QED  BY <1>1, <1>10, <2>1, <2>2, Answered DEF Read, Types, cache
<1> QED  BY <1>3, <1>4, <1>5, <1>6, <1>7, <1>8, <1>9, <1>10

LEMMA LeftByListing ==
  ASSUME IInv, NEW t \in Threads,
         LookupFinds(t) \/ Readdir(t) \/ Entry(t) \/ EntryFailed(t) \/ EntryGot(t)
           \/ Release(t) \/ Reply(t) \/ Crash(t)
  PROVE  Left(t)
<1>1. Types /\ Place(t)
  BY Before
<1>2. pc[t] \in {"walk", "serve", "listing"} =>
        cur[t] \in Nodes /\ ino[cur[t]] \in Inos /\ filled[cur[t]] \in BOOLEAN
  BY <1>1, Before DEF Place
<1>3. CASE LookupFinds(t)
  <2>1. Child[<<ino[cur[t]], Head(rest[t])>>] \in Inos
    BY <1>3, DriverAssumption DEF LookupFinds
  <2>2. cur'[t] = None /\ got'[t] = None
    BY <1>1, <1>3 DEF LookupFinds, Types, Place
  <2>3. count' \in [Nodes -> Int]
    BY <1>1, <1>2, <1>3, PutTyped DEF LookupFinds
  <2>4. /\ pc' \in [Threads -> {"idle", "search", "missed", "fill", "got", "failed",
                                "walk", "serve", "listing", "replied"}]
        /\ want' \in [Threads -> Inos \cup {None}] /\ Phases'
        /\ \A u \in Threads \ {t} :
             pc'[u] = pc[u] /\ want'[u] = want[u] /\ phase'[u] = phase[u]
        /\ Place(t)'
    BY <1>1, <1>3, <2>1, <2>2, Asked DEF LookupFinds
  <2>5. Types' /\ OthersKeep(t)
    BY <1>1, <1>3, <2>3, <2>4 DEF LookupFinds, Types, OthersKeep
  <2> QED  BY <2>4, <2>5 DEF Left
<1>4. CASE Readdir(t)
  <2>1. EntriesOf(ino[cur[t]]) \in SUBSET Inos
    BY <1>2, <1>4, DriverAssumption DEF Readdir, EntriesOf
  <2>2. Types'
    BY <1>1, <1>2, <1>4, <2>1 DEF Readdir, Goto, Types, Phases, cache
  <2>3. Place(t)'
    BY <1>1, <1>4 DEF Readdir, Goto, Types, Place, Getting
  <2> QED  BY <1>1, <1>4, <2>2, <2>3 DEF Readdir, Goto, Types, Left, OthersKeep
<1>5. CASE Entry(t)
  <2>1. PICK i \in entries[t] : /\ entries' = [entries EXCEPT ![t] = @ \ {i}]
                                /\ Get(t, i, "entry")
    BY <1>5 DEF Entry
  <2>2. i \in Inos /\ cur'[t] \in Nodes /\ got'[t] = None
    BY <1>1, <1>5, <2>1 DEF Entry, Types, Place
  <2>3. /\ pc' \in [Threads -> {"idle", "search", "missed", "fill", "got", "failed",
                                "walk", "serve", "listing", "replied"}]
        /\ want' \in [Threads -> Inos \cup {None}] /\ Phases'
        /\ \A u \in Threads \ {t} :
             pc'[u] = pc[u] /\ want'[u] = want[u] /\ phase'[u] = phase[u]
        /\ Place(t)'
    BY <1>1, <2>1, <2>2, Asked
  <2>4. Types' /\ OthersKeep(t)
    BY <1>1, <1>5, <2>1, <2>3 DEF Entry, Types, OthersKeep, cache
  <2> QED  BY <2>3, <2>4 DEF Left
<1>6. CASE EntryFailed(t)
  <2>1. Types'
    BY <1>1, <1>6 DEF EntryFailed, Goto, Types, Phases, cache
  <2>2. Place(t)'
    BY <1>1, <1>6 DEF EntryFailed, Goto, Types, Place, Getting
  <2> QED  BY <1>1, <1>6, <2>1, <2>2 DEF EntryFailed, Goto, Types, Left, OthersKeep
<1>7. CASE EntryGot(t)
  <2>1. got[t] \in Nodes /\ cur[t] \in Nodes
    BY <1>1, <1>7 DEF EntryGot, Place, Getting
  <2>2. count' \in [Nodes -> Int]
    BY <1>1, <1>7, <2>1, PutTyped DEF EntryGot, PutEntry
  <2>3. true' \in [Threads -> BOOLEAN]
    BY <1>1, <1>7 DEF EntryGot, Types
  <2>4. Types'
    BY <1>1, <1>7, <2>2, <2>3 DEF EntryGot, Goto, Types, Phases
  <2>5. Place(t)'
    BY <1>1, <1>7, <2>1 DEF EntryGot, Goto, Types, Place, Getting
  <2> QED  BY <1>1, <1>7, <2>4, <2>5 DEF EntryGot, Goto, Types, Left, OthersKeep
<1>8. CASE Release(t)
  <2>1. count' \in [Nodes -> Int] /\ fh' \in [Files -> [node : Nodes, ino : Inos] \cup {None}]
    BY <1>1, <1>8, PutTyped DEF Release, Types, Unused
  <2>2. Types'
    BY <1>1, <1>8, <2>1 DEF Release, Types, Phases, locals
  <2> QED  BY <1>1, <1>8, <2>2 DEF Release, Left, OthersKeep, Place, locals
<1>9. CASE Reply(t)
  <2>1. Types'
    BY <1>1, <1>9 DEF Reply, Goto, Types, Phases, cache
  <2>2. Place(t)'
    BY <1>1, <1>9 DEF Reply, Goto, Types, Place, Getting
  <2> QED  BY <1>1, <1>9, <2>1, <2>2 DEF Reply, Goto, Types, Left, OthersKeep
<1>10. CASE Crash(t)
  <2>1. Types'
    BY <1>1, <1>10 DEF Crash, Types, Phases, cache, locals
  <2> QED  BY <1>1, <1>10, <2>1 DEF Crash, Left, OthersKeep, Place, locals
<1> QED  BY <1>3, <1>4, <1>5, <1>6, <1>7, <1>8, <1>9, <1>10

LEMMA LeftBehind ==
  ASSUME IInv, NEW t \in Threads, Step(t)
  PROVE  Left(t)
BY LeftByIget, LeftByHandlers, LeftByListing DEF Step

-----------------------------------------------------------------------------
(* Every step counts what it takes and gives back no more than it held *)

Balance(t) ==
  /\ ino' = ino /\ fh' = fh
  /\ \A n \in Nodes :
       /\ count'[n] - count[n] >= Own(t, n)' - Own(t, n)
       /\ Own(t, n)' > Own(t, n) => ino[n] # None

(* A thread that puts the node it has as current and keeps nothing. *)
LEMMA PutCurrent ==
  ASSUME Types, NEW t \in Threads, cur[t] \in Nodes, got[t] = None,
         Put(cur[t]) \/ count' = count, cur'[t] = None, got'[t] = None,
         ino' = ino, fh' = fh
  PROVE  Balance(t)
<1>1. None \notin Nodes
  BY DriverAssumption
<1>2. ASSUME NEW n \in Nodes
      PROVE  Own(t, n)' = 0 /\ Own(t, n) = One(cur[t] = n)
  BY <1>1 DEF Own, One
<1>3. ASSUME NEW n \in Nodes
      PROVE  count[n] \in Int /\ count'[n] \in {count[n], count[n] - One(cur[t] = n)}
  <2>1. CASE count' = count
    BY <2>1 DEF Types
  <2>2. CASE Put(cur[t])
    BY <2>2 DEF Types, Put, One
  <2> QED  BY <2>1, <2>2
<1> QED  BY <1>2, <1>3 DEF Balance, One

LEMMA NothingMoves ==
  ASSUME Types, NEW t \in Threads, ino' = ino, fh' = fh, count' = count,
         cur'[t] = cur[t], got'[t] = got[t]
  PROVE  Balance(t)
<1>1. ASSUME NEW n \in Nodes
      PROVE  Own(t, n)' = Own(t, n) /\ Own(t, n) \in Int /\ count[n] \in Int
  BY DEF Own, One, Types
<1> QED  BY <1>1 DEF Balance

LEMMA Balanced ==
  ASSUME IInv, NEW t \in Threads, Step(t), ~Open(t), ~Release(t),
         ~(Insert(t) /\ status' = status)
  PROVE  Balance(t)
<1>1. Types /\ Place(t) /\ None \notin Nodes
  BY Before, DriverAssumption
<1>2. CASE Hit(t)
  <2>1. PICK n \in Nodes : /\ ino[n] = want[t] /\ count' = [count EXCEPT ![n] = @ + 1]
                           /\ got' = [got EXCEPT ![t] = n]
    BY <1>2 DEF Hit
  <2>2. want[t] # None /\ got[t] = None /\ cur' = cur /\ ino' = ino /\ fh' = fh
    BY <1>1, <1>2, DriverAssumption DEF Hit, Place, Getting
  <2>3. ASSUME NEW k \in Nodes
        PROVE  /\ Own(t, k)' - Own(t, k) = One(k = n)
               /\ count'[k] - count[k] = One(k = n)
               /\ Own(t, k) \in Int /\ Own(t, k)' \in Int
    BY <1>1, <2>1, <2>2 DEF Own, One, Types
  <2> QED  BY <2>1, <2>2, <2>3 DEF Balance, One
<1>3. CASE Got(t)
  <2>1. /\ got[t] \in Nodes /\ cur[t] = None /\ cur'[t] = got[t] /\ got'[t] = None
        /\ UNCHANGED <<cache, fh>>
    BY <1>1, <1>3 DEF Got, Place, Getting, Types
  <2>2. ASSUME NEW k \in Nodes  PROVE Own(t, k)' = Own(t, k) /\ count[k] \in Int
    BY <1>1, <2>1 DEF Own, One, Types
  <2>3. ASSUME NEW k \in Nodes  PROVE Own(t, k) \in Int
    BY DEF Own, One
  <2> QED  BY <2>1, <2>2, <2>3 DEF Balance, cache
<1>4. CASE EntryGot(t)
  <2>1. /\ got[t] \in Nodes /\ cur'[t] = cur[t] /\ got'[t] = None
        /\ count' = [count EXCEPT ![got[t]] = @ - 1] /\ ino' = ino /\ fh' = fh
    BY <1>1, <1>4 DEF EntryGot, PutEntry, Put, Place, Getting, Types
  <2>2. ASSUME NEW k \in Nodes
        PROVE  /\ Own(t, k)' - Own(t, k) = 0 - One(k = got[t])
               /\ count'[k] - count[k] = 0 - One(k = got[t])
               /\ Own(t, k) \in Int /\ Own(t, k)' \in Int
    BY <1>1, <2>1 DEF Own, One, Types
  <2> QED  BY <2>1, <2>2 DEF Balance, One
<1>5. CASE Miss(t) \/ Fill(t) \/ Start(t) \/ Readdir(t) \/ Entry(t) \/ EntryFailed(t)
             \/ Reply(t) \/ Crash(t) \/ Read(t) \/ GetFailed(t)
  <2>1. CASE Fill(t)
    <3>1. CASE got' = got
      BY <1>1, <2>1, <3>1, NothingMoves DEF Fill
    <3>2. CASE got' = [got EXCEPT ![t] = None]
      <4>1. /\ got[t] \in Nodes /\ got'[t] = None /\ cur' = cur
            /\ UNCHANGED <<ino, count, fh>>
        BY <1>1, <2>1, <3>2 DEF Fill, Types, Place, Getting
      <4>2. ASSUME NEW k \in Nodes
            PROVE  /\ Own(t, k)' - Own(t, k) = 0 - One(k = got[t]) /\ count[k] \in Int
                   /\ Own(t, k) \in Int /\ Own(t, k)' \in Int
        BY <1>1, <4>1 DEF Own, One, Types
      <4> QED  BY <4>1, <4>2 DEF Balance, One
    <3> QED  BY <2>1, <3>1, <3>2 DEF Fill
  <2>2. CASE Read(t) \/ GetFailed(t)
    <3>1. /\ cur'[t] = None /\ got'[t] = None /\ UNCHANGED <<ino, count, fh>>
      BY <1>1, <2>2 DEF Read, GetFailed, Return, Types, cache
    <3>2. got[t] = None
      BY <1>1, <2>2 DEF Read, GetFailed, Place, Getting
    <3>3. cur[t] = None
      BY <1>1, <2>2 DEF Read, GetFailed, Place, Getting
    <3> QED  BY <1>1, <3>1, <3>2, <3>3, NothingMoves
  <2>3. CASE Miss(t) \/ Start(t) \/ Readdir(t) \/ Entry(t) \/ EntryFailed(t)
               \/ Reply(t) \/ Crash(t)
    <3>1. UNCHANGED <<ino, count, fh, cur, got>>
      BY <2>3 DEF Miss, Start, Readdir, Entry, EntryFailed, Reply, Crash, cache, locals
    <3> QED  BY <1>1, <3>1, NothingMoves
  <2> QED  BY <1>5, <2>1, <2>2, <2>3
<1>6. CASE NotDirectory(t) \/ LookupFails(t) \/ LookupFinds(t) \/ Getattr(t)
             \/ Opendir(t) \/ Readlink(t) \/ Listed(t)
  <2>1. pc[t] \in {"walk", "serve", "listing"}
    BY <1>6 DEF NotDirectory, LookupFails, LookupFinds, Getattr, Opendir, Readlink, Listed
  <2>2. cur[t] \in Nodes /\ got[t] = None
    BY <1>1, <2>1 DEF Place
  <2>3. ino' = ino /\ fh' = fh /\ (Put(cur[t]) \/ count' = count)
    BY <1>6 DEF NotDirectory, LookupFails, LookupFinds, Getattr, Opendir, PutDirectory,
                Readlink, Listed, cache
  <2>4. cur'[t] = None /\ got'[t] = None
    <3>1. CASE LookupFinds(t)
      BY <1>1, <2>2, <3>1 DEF LookupFinds, Types
    <3>2. CASE ~LookupFinds(t)
      BY <1>6, <3>2, LeftByHandlers
    <3> QED  BY <3>1, <3>2
  <2> QED  BY <1>1, <2>2, <2>3, <2>4, PutCurrent
<1>7. CASE Insert(t)
  BY <1>1, <1>7, NothingMoves DEF Insert, cache
<1> QED  BY <1>2, <1>3, <1>4, <1>5, <1>6, <1>7 DEF Step

-----------------------------------------------------------------------------
(* The references stay counted *)

References == Cached /\ Opened /\ \E m \in Nodes : Counted(m)

LEMMA OwnInt ==
  ASSUME NEW t, NEW n
  PROVE  Own(t, n) \in Int /\ Own(t, n)' \in Int
BY DEF Own, One

LEMMA KeptByBalance ==
  ASSUME IInv, NEW t \in Threads, Left(t), Balance(t)
  PROVE  References'
<1>1. ASSUME NEW n \in Nodes
      PROVE  /\ Holders(n)' = Holders(n) + Own(t, n)' - Own(t, n)
             /\ Holders(n) \in Nat /\ Holders(n)' \in Int /\ count[n] \in Int
             /\ count'[n] \in Int
  <2>1. Holders(n)' = Holders(n) + Own(t, n)' - Own(t, n)
    BY HoldersMove DEF Left, Balance
  <2>2. Holders(n) \in Nat
    BY HoldersFinite
  <2>3. Holders(n)' \in Int
    BY <2>1, <2>2, OwnInt
  <2> QED  BY <2>1, <2>2, <2>3, Before DEF Left, Types
<1>2. Cached'
  BY <1>1, OwnInt DEF IInv, Cached, Balance
<1>3. Opened'
  BY DEF IInv, Opened, Balance
<1>4. PICK m \in Nodes : Counted(m)
  BY DEF IInv
<1>5. ASSUME NEW n \in Nodes  PROVE count'[n] >= Holders(n)' + One(n = m)
  <2>1. count'[n] - count[n] >= Own(t, n)' - Own(t, n) /\ One(n = m) \in Int
    BY DEF Balance, One
  <2> QED  BY <1>1, <1>4, <2>1, OwnInt DEF Counted
<1>6. Counted(m)'
  BY <1>4, <1>5 DEF Counted, Balance
<1> QED  BY <1>2, <1>3, <1>6 DEF References

LEMMA KeptByInsert ==
  ASSUME IInv, NEW t \in Threads, Left(t), Insert(t), status' = status
  PROVE  References'
<1>1. Types /\ Place(t) /\ None \notin Inos /\ None \notin Nodes
  BY Before, DriverAssumption
<1>2. CASE UNCHANGED <<cache, got, pc>>
  <2>1. Balance(t)
    BY <1>1, <1>2, NothingMoves DEF Insert, cache
  <2> QED  BY <2>1, KeptByBalance
<1>3. ASSUME NEW k \in Nodes, ino[k] = None, ino' = [ino EXCEPT ![k] = want[t]],
             count' = [count EXCEPT ![k] = 1], got' = [got EXCEPT ![t] = k]
      PROVE  References'
  <2>1. want[t] \in Inos /\ got[t] = None /\ cur' = cur /\ fh' = fh
    BY <1>1 DEF Insert, Place, Getting
  <2>2. Holders(k) = 0
    BY <1>3, HoldersFinite DEF IInv, Cached
  <2>3. ASSUME NEW n \in Nodes
        PROVE  Own(t, n)' - Own(t, n) = One(n = k) /\ Own(t, n) \in Int /\ Own(t, n)' \in Int
    BY <1>1, <1>3, <2>1 DEF Own, One, Types
  <2>4. ASSUME NEW n \in Nodes
        PROVE  Holders(n)' = Holders(n) + One(n = k) /\ Holders(n) \in Nat
    <3>1. Holders(n)' = Holders(n) + Own(t, n)' - Own(t, n)
      BY <2>1, HoldersMove DEF Left
    <3> QED  BY <2>3, <3>1, HoldersFinite
  <2>5. Cached'
    BY <1>1, <1>3, <2>1, <2>4 DEF IInv, Cached, Types, One
  <2>6. Opened'
    <3>1. ASSUME NEW f \in Files, fh[f] # None  PROVE fh[f].node \in Nodes /\ fh[f].node # k
      BY <2>2, <3>1, Held, Before DEF IInv
    <3> QED  BY <1>1, <1>3, <2>1, <3>1 DEF IInv, Opened, Types
  <2>7. PICK m \in Nodes : Counted(m)
    BY DEF IInv
  <2>8. m # k
    BY <1>1, <1>3, <2>7, DriverAssumption DEF Counted
  <2>9. Counted(m)'
    BY <1>1, <1>3, <2>2, <2>4, <2>7, <2>8 DEF Counted, Types, One
  <2> QED  BY <2>5, <2>6, <2>9 DEF References
<1> QED  BY <1>2, <1>3 DEF Insert

LEMMA KeptByOpen ==
  ASSUME IInv, NEW t \in Threads, Left(t), Open(t)
  PROVE  References'
<1>1. Types /\ Place(t) /\ None \notin Nodes
  BY Before, DriverAssumption
<1>2. PICK f \in Unused : fh' = [fh EXCEPT ![f] = [node |-> cur[t], ino |-> ino[cur[t]]]]
  BY DEF Open
<1>3. f \in Files /\ fh[f] = None
  BY <1>2 DEF Unused
<1>4. /\ cur[t] \in Nodes /\ got[t] = None /\ cur'[t] = None /\ got'[t] = None
      /\ ino' = ino /\ count' = count
  BY <1>1, LeftByHandlers DEF Open, Place, KeptForFile
<1>5. fh'[f] = [node |-> cur[t], ino |-> ino[cur[t]]]
      /\ \A g \in Files \ {f} : fh'[g] = fh[g]
  BY <1>1, <1>2, <1>3 DEF Types
<1>6. [node |-> cur[t], ino |-> ino[cur[t]]] # None
  BY <1>4, Before, DriverAssumption
<1>7. ASSUME NEW n \in Nodes
      PROVE  Holders(n)' = Holders(n) /\ Holders(n) \in Nat
  <2>1. /\ Own(t, n)' = 0 /\ OfFile(f, n) = 0
        /\ Own(t, n) \in Int /\ Own(t, n) = OfFile(f, n)'
    BY <1>1, <1>3, <1>4, <1>5, <1>6 DEF Own, OfFile, One
  <2>2. Holders(n)' = Holders(n) + Own(t, n)' - Own(t, n) + OfFile(f, n)' - OfFile(f, n)
    BY <1>3, <1>5, HoldersMove DEF Left
  <2> QED  BY <2>1, <2>2, HoldersFinite
<1>8. Cached' /\ \E m \in Nodes : Counted(m)'
  BY <1>4, <1>7 DEF IInv, Cached, Counted
<1>9. Opened'
  BY <1>3, <1>4, <1>5 DEF IInv, Opened
<1> QED  BY <1>8, <1>9 DEF References

LEMMA KeptByRelease ==
  ASSUME IInv, NEW t \in Threads, Left(t), Release(t)
  PROVE  References'
<1>1. Types /\ Place(t) /\ None \notin Nodes
  BY Before, DriverAssumption
<1>2. PICK f \in Files \ Unused : Put(fh[f].node) /\ fh' = [fh EXCEPT ![f] = None]
  BY DEF Release
<1>3. f \in Files /\ fh[f] # None /\ fh[f].node \in Nodes
  BY <1>1, <1>2, Before DEF Unused
<1>4. /\ cur' = cur /\ got' = got /\ ino' = ino
      /\ fh'[f] = None /\ \A g \in Files \ {f} : fh'[g] = fh[g]
  BY <1>1, <1>2 DEF Release, locals, Types
<1>5. ASSUME NEW n \in Nodes
      PROVE  /\ Holders(n)' = Holders(n) - One(n = fh[f].node)
             /\ count'[n] = count[n] - One(n = fh[f].node)
             /\ Holders(n) \in Nat /\ count[n] \in Int
  <2>1. Own(t, n)' = Own(t, n) /\ Own(t, n) \in Int
    BY <1>4, OwnInt DEF Own
  <2>2. OfFile(f, n)' = 0 /\ OfFile(f, n) = One(n = fh[f].node)
    BY <1>3, <1>4 DEF OfFile, One
  <2>3. Holders(n)' = Holders(n) + Own(t, n)' - Own(t, n) + OfFile(f, n)' - OfFile(f, n)
    BY <1>3, <1>4, HoldersMove DEF Left
  <2>4. count'[n] = count[n] - One(n = fh[f].node) /\ count[n] \in Int
    BY <1>1, <1>2, <1>3 DEF Put, One, Types
  <2> QED  BY <2>1, <2>2, <2>3, <2>4, HoldersFinite DEF One
<1>6. Cached'
  BY <1>4, <1>5 DEF IInv, Cached, One
<1>7. Opened'
  BY <1>4 DEF IInv, Opened
<1>8. PICK m \in Nodes : Counted(m)
  BY DEF IInv
<1>9. Counted(m)'
  BY <1>4, <1>5, <1>8 DEF Counted, One
<1> QED  BY <1>6, <1>7, <1>9 DEF References

(* The cache makes room, the file system is unmounted. *)
LEMMA KeptByFreeing ==
  ASSUME IInv, NEW N \in SUBSET Unreferenced, Freed(N),
         UNCHANGED <<count, fh, pc, locals>>
  PROVE  References' /\ ino' \in [Nodes -> Inos \cup {None}] /\ filled' \in [Nodes -> BOOLEAN]
<1>1. Types
  BY DEF IInv, TypeOK, Types
<1>2. PICK m \in Nodes : Counted(m)
  BY DEF IInv
<1>3. ASSUME NEW n \in N  PROVE n \in Nodes /\ Holders(n) = 0 /\ n # m
  <2>1. n \in Nodes /\ count[n] = 0
    BY DEF Unreferenced
  <2> QED  BY <1>2, <2>1, HoldersFinite DEF Counted, One
<1>4. \A n : Holders(n)' = Holders(n)
  BY DEF Holders, locals
<1>5. \A n \in Nodes \ N : ino'[n] = ino[n]
  BY DEF Freed
<1>6. Cached'
  BY <1>3, <1>4, <1>5 DEF IInv, Cached
<1>7. Opened'
  <2>1. ASSUME NEW f \in Files, fh[f] # None  PROVE fh[f].node \in Nodes \ N
    BY <1>1, <1>3, <2>1, Held DEF Types
  <2> QED  BY <1>5, <2>1 DEF IInv, Opened
<1>8. Counted(m)'
  BY <1>2, <1>3, <1>4, <1>5 DEF Counted
<1> QED  BY <1>1, <1>6, <1>7, <1>8 DEF References, Freed, Types

-----------------------------------------------------------------------------
(* The invariant *)

LEMMA Initially == Init => IInv
<1> SUFFICES ASSUME Init  PROVE IInv
  OBVIOUS
<1>1. None \notin Nodes /\ Root \in Inos
  BY DriverAssumption
<1>2. PICK m \in Nodes :
        /\ ino = [n \in Nodes |-> IF n = m THEN Root ELSE None]
        /\ count = [n \in Nodes |-> IF n = m THEN 1 ELSE 0]
        /\ filled = [n \in Nodes |-> n = m]
  BY DEF Init
<1>3. TypeOK
  <2>1. /\ ino \in [Nodes -> Inos \cup {None}] /\ count \in [Nodes -> Nat]
        /\ filled \in [Nodes -> BOOLEAN]
    BY <1>1, <1>2
  <2>2. /\ pc \in [Threads -> {"idle"}] /\ want \in [Threads -> {None}]
        /\ cur \in [Threads -> {None}] /\ got \in [Threads -> {None}]
        /\ entries \in [Threads -> {{}}] /\ true \in [Threads -> {TRUE}]
        /\ fh \in [Files -> {None}] /\ status = "mounted"
    BY DEF Init
  <2> QED  BY <2>1, <2>2 DEF TypeOK
<1>4. Phases /\ \A t \in Threads : Place(t)
  BY DEF Init, Phases, Place, Getting
<1>5. ASSUME NEW n \in Nodes  PROVE Holders(n) = 0
  <2>1. CurOf(n) = {} /\ GotOf(n) = {} /\ FileOf(n) = {}
    BY <1>1 DEF Init, CurOf, GotOf, FileOf
  <2>2. /\ Cardinality(CurOf(n)) = 0 /\ Cardinality(GotOf(n)) = 0
        /\ Cardinality(FileOf(n)) = 0
    BY <2>1, FS_EmptySet
  <2> QED  BY <2>2, HoldersFinite
<1>6. Cached /\ Opened /\ RootAssert
  BY <1>5 DEF Init, Cached, Opened, RootAssert
<1>7. Counted(m)
  BY <1>2, <1>5 DEF Counted, One
<1> QED  BY <1>4, <1>6, <1>7, <1>3 DEF IInv

(* The counts are natural numbers because what holds a node is counted. *)
LEMMA Natural == Types /\ (\E m \in Nodes : Counted(m)) => TypeOK
<1> SUFFICES ASSUME Types, NEW m \in Nodes, Counted(m)  PROVE TypeOK
  OBVIOUS
<1>1. ASSUME NEW n \in Nodes  PROVE count[n] \in Nat
  <2>1. count[n] \in Int /\ Holders(n) \in Nat /\ count[n] >= Holders(n) + One(n = m)
    BY HoldersFinite DEF Counted, Types
  <2> QED  BY <2>1 DEF One
<1> QED  BY <1>1 DEF Types, TypeOK

LEMMA NotAborted ==
  ASSUME IInv, NEW t \in Threads, Step(t), status = "mounted"
  PROVE  RootAssert'
<1>1. Place(t)
  BY DEF IInv
<1>2. CASE GetFailed(t)
  BY <1>1, <1>2 DEF GetFailed, Place, Getting, RootAssert, IInv
<1>3. CASE ~GetFailed(t)
  BY <1>3 DEF Step, RootAssert, Start, Hit, Miss, Insert, Fill, Got, NotDirectory,
              LookupFails, LookupFinds, Getattr, Opendir, Open, Readlink, Readdir, Entry,
              EntryFailed, EntryGot, Listed, Read, Release, Reply, Crash
<1> QED  BY <1>2, <1>3

LEMMA Inductive == IInv /\ [Next]_vars => IInv'
<1> SUFFICES ASSUME IInv, [Next]_vars  PROVE IInv'
  OBVIOUS
<1>1. ASSUME NEW t \in Threads, Step(t), status = "mounted"  PROVE IInv'
  <2>1. Left(t)
    BY <1>1, LeftBehind
  <2>2. References'
    BY <1>1, <2>1, Balanced, KeptByBalance, KeptByInsert, KeptByOpen, KeptByRelease
  <2>3. TypeOK'
    <3>1. Types' /\ (\E m \in Nodes : Counted(m))'
      BY <2>1, <2>2 DEF Left, References
    <3> QED  BY <3>1, Natural, PTL
  <2>4. \A u \in Threads : Place(u)'
    BY <2>1 DEF Left, OthersKeep, IInv, Place
  <2> QED  BY <1>1, <2>1, <2>2, <2>3, <2>4, NotAborted DEF IInv, References, Left, Types
<1>2. ASSUME NEW N \in SUBSET Unreferenced, Freed(N), UNCHANGED <<count, fh, pc, locals>>,
             status' \in {"mounted", "unmounted"}
      PROVE  IInv'
  <2>1. References' /\ ino' \in [Nodes -> Inos \cup {None}] /\ filled' \in [Nodes -> BOOLEAN]
    BY <1>2, KeptByFreeing
  <2>2. TypeOK' /\ Phases' /\ RootAssert'
    BY <1>2, <2>1 DEF IInv, TypeOK, Phases, RootAssert, locals
  <2>3. \A u \in Threads : Place(u)'
    BY <1>2 DEF IInv, Place, locals
  <2> QED  BY <2>1, <2>2, <2>3 DEF IInv, References
<1>3. ASSUME NEW n \in Nodes, Evict(n), status = "mounted"  PROVE IInv'
  BY <1>2, <1>3 DEF Evict
<1>4. CASE Unmount
  BY <1>2, <1>4 DEF Unmount
<1>5. CASE UNCHANGED vars
  <2>1. TypeOK' /\ Phases' /\ RootAssert'
    BY <1>5 DEF IInv, TypeOK, Phases, RootAssert, vars, cache, locals
  <2>2. \A u \in Threads : Place(u)'
    BY <1>5 DEF IInv, Place, vars, cache, locals
  <2>3. \A n : Holders(n)' = Holders(n)
    BY <1>5 DEF Holders, vars, locals
  <2>4. Cached' /\ Opened' /\ \E m \in Nodes : Counted(m)'
    BY <1>5, <2>3 DEF IInv, Cached, Opened, Counted, vars, cache
  <2> QED  BY <2>1, <2>2, <2>4 DEF IInv
<1> QED  BY <1>1, <1>3, <1>4, <1>5 DEF Next, Stopped

(* The inductive invariant holds in every state the daemon reaches.        *)
THEOREM Invariant == Spec => []IInv
BY Initially, Inductive, PTL DEF Spec

(* TypeOK: every variable of the driver stays in its range, and no count of *)
(* references in cn_count is ever negative.                                 *)
THEOREM TypeCorrect == Spec => []TypeOK
BY Invariant, PTL DEF IInv

(* HeldIsCounted: no handler puts a reference twice, so that an inode that  *)
(* find_path, a handler or an open file holds is counted and cached, and the *)
(* root inode for the mount on top of them.                                  *)
THEOREM ReferencesCounted == Spec => []HeldIsCounted
<1>1. IInv => HeldIsCounted
  BY DEF IInv, Counted, Cached, One, HeldIsCounted
<1> QED  BY <1>1, Invariant, PTL

(* OpenPinned: between open and release fi->fh points to the inode the file *)
(* was opened for, which the cache may not reuse.                           *)
THEOREM OpenFilesPinned == Spec => []OpenPinned
<1>1. IInv => OpenPinned
  <2> SUFFICES ASSUME IInv, NEW f \in Files, fh[f] # None
               PROVE  ino[fh[f].node] = fh[f].ino /\ count[fh[f].node] > 0
    BY DEF OpenPinned
  <2>1. PICK m \in Nodes : Counted(m)
    BY DEF IInv
  <2>2. fh[f].node \in Nodes /\ Holders(fh[f].node) > 0
    BY Held DEF IInv, TypeOK
  <2>3. count[fh[f].node] > 0
    BY <2>1, <2>2, HoldersFinite DEF Counted, One, IInv, TypeOK
  <2> QED  BY <2>3 DEF IInv, Opened
<1> QED  BY <1>1, Invariant, PTL

(* RootAssert: the assert of find_path on the inode of the root never fails. *)
THEOREM RootAsserted == Spec => []RootAssert
BY Invariant, PTL DEF IInv

-----------------------------------------------------------------------------
(* Answers are true while one thread serves the mount and no inode is found *)
(* corrupt.  With two threads, or after a read that failed, libxfs_iget may *)
(* hand out an inode that is blank.                                         *)

Alone == \E t \in Threads : Threads = {t}

(* Blank inodes are those just inserted, which only their thread knows of.  *)
Blank(n) == ino[n] # None /\ filled[n] = FALSE
Filling(t, n) == pc[t] = "fill" /\ got[t] = n
Truthful(t) ==
  /\ pc[t] # "failed" /\ true[t] = TRUE
  /\ \A n \in Nodes : Blank(n) => Filling(t, n)

(* What the thread works on when it is not filling an inode has been read.  *)
LEMMA WorksOnFilled ==
  ASSUME IInv, NEW t \in Threads, Truthful(t), pc[t] # "fill"
  PROVE  /\ \A n \in Nodes : ~Blank(n)
         /\ cur[t] \in Nodes => filled[cur[t]] = TRUE
         /\ got[t] \in Nodes => filled[got[t]] = TRUE
         /\ \A f \in Files : fh[f] # None => filled[fh[f].node] = TRUE
<1>1. \A n \in Nodes : ~Blank(n)
  BY DEF Truthful, Filling
<1>2. \A n \in Nodes : filled[n] \in BOOLEAN
  BY Before DEF Types
<1>3. ASSUME NEW n \in Nodes, Holders(n) > 0  PROVE filled[n] = TRUE
  BY <1>1, <1>2, <1>3 DEF IInv, Cached, Blank
<1>4. \A f \in Files : fh[f] # None => fh[f].node \in Nodes
  BY Before
<1> QED  BY <1>1, <1>3, <1>4, Held

(* A reply about an inode that has been read.  *)
LEMMA TrueReply ==
  ASSUME Types, NEW t \in Threads, NEW holds, holds = TRUE, Return(t, holds),
         UNCHANGED <<ino, filled>>, \A n \in Nodes : ~Blank(n)
  PROVE  Truthful(t)'
<1>1. pc'[t] = "replied" /\ true'[t] = TRUE
  BY DEF Return, Goto, Types
<1> QED  BY <1>1 DEF Truthful, Blank

(* A step that goes on with the handler.  *)
LEMMA GoesOn ==
  ASSUME Types, NEW t \in Threads, true'[t] = TRUE, pc'[t] # "failed",
         UNCHANGED <<ino, filled>>, \A n \in Nodes : ~Blank(n)
  PROVE  Truthful(t)'
BY DEF Truthful, Blank

(* libxfs_iget fills the inode it has inserted before it returns. *)
LEMMA TruthfulByIget ==
  ASSUME ~Corrupt, IInv, NEW t \in Threads, Truthful(t), Insert(t) \/ Fill(t)
  PROVE  Truthful(t)'
<1>1. Types /\ Place(t) /\ true' = true
  BY Before DEF Insert, Fill
<1>2. CASE Insert(t)
  <2>1. \A n \in Nodes : ~Blank(n)
    BY <1>2, WorksOnFilled DEF Insert
  <2>2. CASE UNCHANGED <<cache, got, pc>>
    BY <1>1, <1>2, <2>1, <2>2, GoesOn DEF Truthful, cache
  <2>3. ASSUME NEW k \in Nodes, ino' = [ino EXCEPT ![k] = want[t]],
               filled' = [filled EXCEPT ![k] = FALSE], got' = [got EXCEPT ![t] = k],
               Goto(t, "fill")
        PROVE  Truthful(t)'
    <3>1. pc'[t] = "fill" /\ got'[t] = k
      BY <1>1, <2>3 DEF Goto, Types
    <3>2. \A n \in Nodes \ {k} : ino'[n] = ino[n] /\ filled'[n] = filled[n]
      BY <1>1, <2>3 DEF Types
    <3> QED  BY <1>1, <2>1, <3>1, <3>2 DEF Truthful, Blank, Filling
  <2> QED  BY <1>2, <2>2, <2>3 DEF Insert
<1>3. CASE Fill(t)
  <2>1. got[t] \in Nodes /\ filled' = [filled EXCEPT ![got[t]] = TRUE] /\ ino' = ino
    BY <1>1, <1>3 DEF Fill, FillNode, Place, Getting
  <2>2. pc'[t] = "got"
    BY <1>1, <1>3 DEF Fill, Goto, Types
  <2>3. ASSUME NEW n \in Nodes  PROVE ~Blank(n)'
    BY <1>1, <2>1 DEF Truthful, Blank, Filling, Types
  <2> QED  BY <1>1, <2>2, <2>3 DEF Truthful
<1> QED  BY <1>2, <1>3

(* The handlers answer about inodes that have been read. *)
LEMMA TruthfulByOthers ==
  ASSUME ~Corrupt, IInv, NEW t \in Threads, Truthful(t), Step(t), ~Insert(t), ~Fill(t)
  PROVE  Truthful(t)'
<1>1. Types /\ Place(t) /\ true[t] = TRUE
  BY Before DEF Truthful
<1>2. CASE Crash(t)
  BY <1>2 DEF Crash, Truthful, Blank, Filling, cache, locals
<1>3. CASE ~Crash(t)
  <2>1. pc[t] \notin {"fill", "failed"} /\ UNCHANGED <<ino, filled>>
    BY <1>3 DEF Step, Truthful, Start, Hit, Miss, GetFailed, Got, NotDirectory, LookupFails,
                LookupFinds, Getattr, Opendir, Open, Readlink, Readdir, Entry, EntryFailed,
                EntryGot, Listed, Read, Release, Reply, cache
  <2>2. /\ \A n \in Nodes : ~Blank(n)
        /\ cur[t] \in Nodes => filled[cur[t]] = TRUE
        /\ got[t] \in Nodes => filled[got[t]] = TRUE
        /\ \A f \in Files : fh[f] # None => filled[fh[f].node] = TRUE
    BY <2>1, WorksOnFilled
  <2>3. pc[t] \in {"walk", "serve", "listing"} => filled[cur[t]] = TRUE
    BY <1>1, <2>2 DEF Place
  <2>4. CASE NotDirectory(t) \/ LookupFails(t) \/ Getattr(t) \/ Opendir(t) \/ Open(t)
               \/ Readlink(t)
    <3>1. Return(t, filled[cur[t]]) \/ Return(t, TRUE)
      BY <2>4 DEF NotDirectory, LookupFails, Getattr, Opendir, Open, Readlink
    <3>2. filled[cur[t]] = TRUE
      BY <2>3, <2>4 DEF NotDirectory, LookupFails, Getattr, Opendir, Open, Readlink
    <3> QED  BY <1>1, <2>1, <2>2, <3>1, <3>2, TrueReply
  <2>5. CASE Listed(t)
    <3>1. Return(t, true[t] /\ entries[t] = {}) /\ entries[t] = {}
      BY <2>5 DEF Listed
    <3> QED  BY <1>1, <2>1, <2>2, <3>1, TrueReply
  <2>6. CASE Read(t)
    <3>1. PICK f \in Files \ Unused : Return(t, filled[fh[f].node])
      BY <2>6 DEF Read
    <3>2. filled[fh[f].node] = TRUE
      BY <2>2, <3>1 DEF Unused
    <3> QED  BY <1>1, <2>1, <2>2, <3>1, <3>2, TrueReply
  <2>7. CASE Start(t) \/ Hit(t) \/ Miss(t) \/ Got(t) \/ LookupFinds(t) \/ Entry(t) \/ Release(t)
    <3>1. true' = true
      BY <2>7 DEF Start, Hit, Miss, Got, LookupFinds, Entry, Release, locals
    <3>2. pc'[t] # "failed"
      BY <1>1, <2>1, <2>7 DEF Start, Hit, Miss, Got, LookupFinds, Entry, Release, Get, Goto, Types
    <3> QED  BY <1>1, <2>1, <2>2, <3>1, <3>2, GoesOn
  <2>8. CASE Readdir(t) \/ Reply(t)
    <3>1. true'[t] = TRUE /\ pc'[t] # "failed"
      <4>1. CASE Readdir(t)
        BY <1>1, <2>3, <4>1 DEF Readdir, Goto, Types
      <4>2. CASE Reply(t)
        BY <1>1, <4>2 DEF Reply, Goto, Types
      <4> QED  BY <2>8, <4>1, <4>2
    <3> QED  BY <1>1, <2>1, <2>2, <3>1, GoesOn
  <2>9. CASE EntryGot(t)
    <3>1. got[t] \in Nodes /\ filled[got[t]] = TRUE
      BY <1>1, <2>2, <2>9 DEF EntryGot, Place, Getting
    <3>2. true'[t] = TRUE /\ pc'[t] = "listing"
      BY <1>1, <2>9, <3>1 DEF EntryGot, Goto, Types
    <3> QED  BY <1>1, <2>1, <2>2, <3>2, GoesOn
  <2> QED
    BY <2>1, <2>4, <2>5, <2>6, <2>7, <2>8, <2>9, <1>3 DEF Step, GetFailed, EntryFailed
<1> QED  BY <1>2, <1>3

(* AnswersTrue: one thread, no corrupt inode: every answer, of every handler *)
(* and for every path, is about inodes that libxfs_iread has filled.         *)
THEOREM TruthTold == Alone /\ ~Corrupt => (Spec => []AnswersTrue)
<1> SUFFICES ASSUME Alone, ~Corrupt  PROVE Spec => []AnswersTrue
  OBVIOUS
<1>1. PICK t \in Threads : Threads = {t}
  BY DEF Alone
<1>2. Init => Truthful(t)
  <2> SUFFICES ASSUME Init  PROVE Truthful(t)
    OBVIOUS
  <2>1. \A n \in Nodes : ~Blank(n)
    BY DEF Init, Blank
  <2> QED  BY <2>1 DEF Init, Truthful
<1>3. IInv /\ Truthful(t) /\ [Next]_vars => Truthful(t)'
  <2> SUFFICES ASSUME IInv, Truthful(t), [Next]_vars  PROVE Truthful(t)'
    OBVIOUS
  <2>1. CASE Step(t)
    BY <2>1, TruthfulByIget, TruthfulByOthers
  <2>2. ASSUME NEW N, Freed(N), UNCHANGED <<pc, locals>>  PROVE Truthful(t)'
    <3>1. ASSUME NEW n \in Nodes, Blank(n)'  PROVE Blank(n)
      <4>1. filled[n] \in BOOLEAN
        BY DEF IInv, TypeOK
      <4>2. ino'[n] # None /\ filled'[n] = FALSE
        BY <3>1 DEF Blank
      <4>3. n \notin N /\ ino[n] # None
        BY <2>2, <4>2 DEF Freed
      <4> QED  BY <2>2, <4>1, <4>2, <4>3 DEF Freed, Blank
    <3>2. pc'[t] = pc[t] /\ true'[t] = true[t] /\ got'[t] = got[t]
      BY <2>2 DEF locals
    <3> QED  BY <3>1, <3>2 DEF Truthful, Filling, Blank
  <2>3. CASE UNCHANGED vars
    BY <2>3 DEF Truthful, Blank, Filling, vars, cache, locals
  <2> QED  BY <1>1, <2>1, <2>2, <2>3 DEF Next, Evict, Unmount, Stopped
<1>4. Truthful(t) => AnswersTrue
  BY <1>1 DEF Truthful, AnswersTrue
<1> QED  BY <1>2, <1>3, <1>4, Invariant, PTL DEF Spec

-----------------------------------------------------------------------------
(* What is left behind: the four known places, and nowhere else.  A step of *)
(* a thread changes a count by what the thread takes or gives up, or it     *)
(* gives a node up and lets the count stand.                                *)

Keeps(t, n)  == count'[n] - count[n] = Own(t, n)' - Own(t, n)
Leaves(t, n) == count'[n] - count[n] = Own(t, n)' - Own(t, n) + 1 /\ LeavesBehind(t, n)
Accounted(t) == fh' = fh /\ \A n \in Nodes : Keeps(t, n) \/ Leaves(t, n)

(* A thread that gives up the node it has as current. *)
LEMMA GivesUpCurrent ==
  ASSUME Types, NEW t \in Threads, cur[t] \in Nodes, got[t] = None,
         cur'[t] = None, got'[t] = None, fh' = fh,
         Put(cur[t]) \/ (count' = count /\ LeavesBehind(t, cur[t]))
  PROVE  Accounted(t)
<1>1. None \notin Nodes
  BY DriverAssumption
<1>2. ASSUME NEW n \in Nodes
      PROVE  Own(t, n)' - Own(t, n) = 0 - One(n = cur[t]) /\ count[n] \in Int
  BY <1>1 DEF Own, One, Types
<1>3. CASE Put(cur[t])
  <2>1. ASSUME NEW n \in Nodes  PROVE count'[n] - count[n] = 0 - One(n = cur[t])
    BY <1>3 DEF Types, Put, One
  <2> QED  BY <1>2, <2>1 DEF Accounted, Keeps
<1>4. CASE count' = count /\ LeavesBehind(t, cur[t])
  <2>1. ASSUME NEW n \in Nodes, n # cur[t]  PROVE Keeps(t, n)
    BY <1>2, <1>4, <2>1 DEF Keeps, One
  <2>2. ASSUME NEW n \in Nodes, n = cur[t]  PROVE Leaves(t, n)
    BY <1>2, <1>4, <2>2 DEF Leaves, LeavesBehind, One, Types
  <2> QED  BY <2>1, <2>2 DEF Accounted
<1> QED  BY <1>3, <1>4

(* All steps but those that give a node to a file or take it, or insert one. *)
LEMMA AccountedFor ==
  ASSUME IInv, NEW t \in Threads, Step(t), ~Open(t), ~Release(t), ~Insert(t)
  PROVE  Accounted(t)
<1>1. Types /\ Place(t) /\ None \notin Nodes
  BY Before, DriverAssumption
<1>2. \A n \in Nodes : count[n] \in Int /\ Own(t, n) \in Int /\ Own(t, n)' \in Int
  BY <1>1, OwnInt DEF Types
<1>3. CASE Hit(t)
  <2>1. PICK n \in Nodes : count' = [count EXCEPT ![n] = @ + 1] /\ got' = [got EXCEPT ![t] = n]
    BY <1>3 DEF Hit
  <2>2. got[t] = None /\ cur' = cur /\ fh' = fh
    BY <1>1, <1>3 DEF Hit, Place, Getting
  <2>3. ASSUME NEW k \in Nodes
        PROVE  Own(t, k)' - Own(t, k) = One(k = n) /\ count'[k] - count[k] = One(k = n)
    BY <1>1, <2>1, <2>2 DEF Own, One, Types
  <2> QED  BY <2>2, <2>3 DEF Accounted, Keeps
<1>4. CASE EntryGot(t)
  <2>1. /\ got[t] \in Nodes /\ cur'[t] = cur[t] /\ got'[t] = None
        /\ count' = [count EXCEPT ![got[t]] = @ - 1] /\ fh' = fh
    BY <1>1, <1>4 DEF EntryGot, PutEntry, Put, Place, Getting, Types
  <2>2. ASSUME NEW k \in Nodes
        PROVE  /\ Own(t, k)' - Own(t, k) = 0 - One(k = got[t])
               /\ count'[k] - count[k] = 0 - One(k = got[t])
    BY <1>1, <2>1 DEF Own, One, Types
  <2> QED  BY <2>1, <2>2 DEF Accounted, Keeps
<1>5. CASE NotDirectory(t) \/ Opendir(t) \/ Listed(t) \/ LookupFinds(t) \/ LookupFails(t)
             \/ Getattr(t) \/ Readlink(t)
  <2>1. pc[t] \in {"walk", "serve", "listing"} /\ fh' = fh
    BY <1>5 DEF NotDirectory, Opendir, Listed, LookupFinds, LookupFails, Getattr, Readlink
  <2>2. cur[t] \in Nodes /\ got[t] = None
    BY <1>1, <2>1 DEF Place
  <2>3. cur'[t] = None /\ got'[t] = None
    <3>1. CASE LookupFinds(t)
      BY <1>1, <2>2, <3>1 DEF LookupFinds, Types
    <3>2. CASE ~LookupFinds(t)
      BY <1>5, <3>2, LeftByHandlers
    <3> QED  BY <3>1, <3>2
  <2>4. Put(cur[t]) \/ (count' = count /\ LeavesBehind(t, cur[t]))
    <3>1. CASE NotDirectory(t) \/ Opendir(t) \/ Listed(t) \/ LookupFinds(t)
      BY <3>1 DEF NotDirectory, Opendir, PutDirectory, Listed, LookupFinds
    <3>2. CASE LookupFails(t)
      BY <1>1, <3>2 DEF LookupFails, Return, Goto, LeavesBehind, Types, cache
    <3>3. CASE Getattr(t)
      BY <3>3 DEF Getattr, LeavesBehind, cache
    <3>4. CASE Readlink(t)
      BY <3>4 DEF Readlink, LeavesBehind
    <3> QED  BY <1>5, <3>1, <3>2, <3>3, <3>4
  <2> QED  BY <1>1, <2>1, <2>2, <2>3, <2>4, GivesUpCurrent
<1>6. CASE Got(t)
  <2>1. /\ got[t] \in Nodes /\ cur[t] = None /\ cur'[t] = got[t] /\ got'[t] = None
        /\ UNCHANGED <<count, fh>>
    BY <1>1, <1>6 DEF Got, Place, Getting, Types, cache
  <2>2. ASSUME NEW k \in Nodes  PROVE Own(t, k)' = Own(t, k)
    BY <1>1, <2>1 DEF Own, One
  <2> QED  BY <1>2, <2>1, <2>2 DEF Accounted, Keeps
<1>7. CASE Fill(t)
  <2>1. got[t] \in Nodes /\ cur' = cur /\ UNCHANGED <<count, fh>> /\ pc[t] = "fill"
    BY <1>1, <1>7 DEF Fill, Place, Getting
  <2>2. CASE got' = got
    <3>1. ASSUME NEW k \in Nodes  PROVE Own(t, k)' = Own(t, k)
      BY <2>1, <2>2 DEF Own, One
    <3> QED  BY <1>2, <2>1, <3>1 DEF Accounted, Keeps
  <2>3. CASE got' = [got EXCEPT ![t] = None] /\ Goto(t, "failed")
    <3>1. got'[t] = None /\ pc'[t] = "failed"
      BY <1>1, <2>3 DEF Goto, Types
    <3>2. ASSUME NEW k \in Nodes  PROVE Own(t, k)' - Own(t, k) = 0 - One(k = got[t])
      BY <1>1, <2>1, <3>1 DEF Own, One
    <3>3. ASSUME NEW k \in Nodes, k # got[t]  PROVE Keeps(t, k)
      BY <1>2, <2>1, <3>2, <3>3 DEF Keeps, One
    <3>4. ASSUME NEW k \in Nodes, k = got[t]  PROVE Leaves(t, k)
      BY <1>2, <2>1, <3>1, <3>2, <3>4 DEF Leaves, LeavesBehind, One
    <3> QED  BY <2>1, <3>3, <3>4 DEF Accounted
  <2> QED  BY <1>7, <2>2, <2>3 DEF Fill
<1>8. CASE Read(t) \/ GetFailed(t)
  <2>1. /\ cur'[t] = None /\ got'[t] = None /\ UNCHANGED <<count, fh>>
    BY <1>1, <1>8 DEF Read, GetFailed, Return, Types, cache
  <2>2. cur[t] = None /\ got[t] = None
    <3>1. CASE Read(t)
      BY <1>1, <3>1 DEF Read, Place
    <3>2. CASE GetFailed(t)
      BY <1>1, <3>2 DEF GetFailed, Place, Getting
    <3> QED  BY <1>8, <3>1, <3>2
  <2>3. ASSUME NEW k \in Nodes  PROVE Own(t, k)' = Own(t, k)
    BY <2>1, <2>2 DEF Own, One
  <2> QED  BY <1>2, <2>1, <2>3 DEF Accounted, Keeps
<1>9. CASE Miss(t) \/ Start(t) \/ Readdir(t) \/ Entry(t) \/ EntryFailed(t) \/ Reply(t)
             \/ Crash(t)
  <2>1. UNCHANGED <<count, fh, cur, got>>
    BY <1>9 DEF Miss, Start, Readdir, Entry, EntryFailed, Reply, Crash, cache, locals
  <2>2. ASSUME NEW k \in Nodes  PROVE Own(t, k)' = Own(t, k)
    BY <2>1 DEF Own, One
  <2> QED  BY <1>2, <2>1, <2>2 DEF Accounted, Keeps
<1> QED  BY <1>3, <1>4, <1>5, <1>6, <1>7, <1>8, <1>9 DEF Step

(* What LeaksKnown asks of a node. *)
Known(n) == \/ Surplus(n)' = Surplus(n)
            \/ Surplus(n)' = Surplus(n) + 1 /\ \E t \in Threads : LeavesBehind(t, n)

LEMMA KnownByStep ==
  ASSUME IInv, NEW t \in Threads, Step(t), NEW n \in Nodes, ino[n] # None
  PROVE  Known(n)
<1>1. Types /\ Place(t) /\ Left(t) /\ OthersKeep(t) /\ None \notin Nodes
  BY Before, LeftBehind, DriverAssumption DEF Left
<1>2. /\ count[n] \in Int /\ count'[n] \in Int /\ Holders(n) \in Nat
      /\ Own(t, n) \in Int /\ Own(t, n)' \in Int
  BY <1>1, OwnInt, HoldersFinite DEF Left, Types
<1>3. CASE Accounted(t)
  <2>1. Holders(n)' = Holders(n) + Own(t, n)' - Own(t, n)
    BY <1>1, <1>3, HoldersMove DEF Accounted
  <2>2. CASE Keeps(t, n)
    BY <1>2, <2>1, <2>2 DEF Keeps, Known, Surplus
  <2>3. CASE Leaves(t, n)
    BY <1>2, <2>1, <2>3 DEF Leaves, Known, Surplus
  <2> QED  BY <1>3, <2>2, <2>3 DEF Accounted
<1>4. CASE Insert(t)
  <2>1. cur' = cur /\ fh' = fh /\ got[t] = None
    BY <1>1, <1>4 DEF Insert, Place, Getting
  <2>2. count'[n] = count[n] /\ got'[t] # n
    <3>1. CASE UNCHANGED <<cache, got, pc>>
      BY <1>1, <2>1, <3>1 DEF cache
    <3>2. ASSUME NEW k \in Nodes, ino[k] = None, count' = [count EXCEPT ![k] = 1],
                 got' = [got EXCEPT ![t] = k]
          PROVE  count'[n] = count[n] /\ got'[t] # n
      BY <1>1, <3>2 DEF Types
    <3> QED  BY <1>4, <3>1, <3>2 DEF Insert
  <2>3. Own(t, n)' = Own(t, n)
    BY <1>1, <2>1, <2>2 DEF Own, One
  <2>4. Holders(n)' = Holders(n) + Own(t, n)' - Own(t, n)
    BY <1>1, <2>1, HoldersMove
  <2> QED  BY <1>2, <2>2, <2>3, <2>4 DEF Known, Surplus
<1>5. CASE Open(t)
  <2>1. PICK f \in Unused : fh' = [fh EXCEPT ![f] = [node |-> cur[t], ino |-> ino[cur[t]]]]
    BY <1>5 DEF Open
  <2>2. /\ f \in Files /\ fh[f] = None /\ fh'[f] = [node |-> cur[t], ino |-> ino[cur[t]]]
        /\ \A g \in Files \ {f} : fh'[g] = fh[g]
    BY <1>1, <2>1 DEF Unused, Types
  <2>3. /\ cur[t] \in Nodes /\ got[t] = None /\ cur'[t] = None /\ got'[t] = None
        /\ count' = count
    BY <1>1, <1>5, LeftByHandlers DEF Open, Place, KeptForFile
  <2>4. [node |-> cur[t], ino |-> ino[cur[t]]] # None
    BY <2>3, Before, DriverAssumption
  <2>5. Own(t, n)' = 0 /\ OfFile(f, n) = 0 /\ OfFile(f, n)' = Own(t, n)
    BY <1>1, <2>2, <2>3, <2>4 DEF Own, OfFile, One
  <2>6. Holders(n)' = Holders(n) + Own(t, n)' - Own(t, n) + OfFile(f, n)' - OfFile(f, n)
    BY <1>1, <2>2, HoldersMove
  <2> QED  BY <1>2, <2>3, <2>5, <2>6 DEF Known, Surplus
<1>6. CASE Release(t)
  <2>1. PICK f \in Files \ Unused : Put(fh[f].node) /\ fh' = [fh EXCEPT ![f] = None]
    BY <1>6 DEF Release
  <2>2. /\ f \in Files /\ fh[f] # None /\ fh[f].node \in Nodes /\ fh'[f] = None
        /\ \A g \in Files \ {f} : fh'[g] = fh[g]
        /\ cur' = cur /\ got' = got
    BY <1>1, <1>6, <2>1, Before DEF Unused, Release, Types, locals
  <2>3. /\ Own(t, n)' = Own(t, n)
        /\ OfFile(f, n)' = 0 /\ OfFile(f, n) = One(n = fh[f].node)
    BY <2>2 DEF Own, OfFile, One
  <2>4. Holders(n)' = Holders(n) + Own(t, n)' - Own(t, n) + OfFile(f, n)' - OfFile(f, n)
    BY <1>1, <2>2, HoldersMove
  <2>5. Holders(n)' = Holders(n) - One(n = fh[f].node)
    BY <1>2, <2>3, <2>4 DEF One
  <2>6. count'[n] = count[n] - One(n = fh[f].node)
    BY <1>1, <2>1, <2>2 DEF Put, One, Types
  <2> QED  BY <1>2, <2>5, <2>6 DEF Known, Surplus, One
<1> QED  BY <1>3, <1>4, <1>5, <1>6, AccountedFor

(* LeaksKnown: whatever the interleaving, the failures and the handlers, a    *)
(* reference nobody will put again comes only from getattr, from a readlink   *)
(* or a lookup that fails and from an inode that cannot be read, one a step.  *)
THEOREM LeaksAreKnown == Spec => LeaksKnown
<1>1. IInv /\ [Next]_vars => [\A n \in Nodes : ino[n] # None => Known(n)]_vars
  <2> SUFFICES ASSUME IInv, [Next]_vars, NEW n \in Nodes, ino[n] # None, ~UNCHANGED vars
               PROVE  Known(n)
    OBVIOUS
  <2>1. ASSUME NEW t \in Threads, Step(t)  PROVE Known(n)
    BY <2>1, KnownByStep
  <2>2. CASE UNCHANGED <<count, fh, pc, locals>>
    <3>1. Holders(n)' = Holders(n)
      BY <2>2 DEF Holders, locals
    <3> QED  BY <2>2, <3>1 DEF Known, Surplus
  <2> QED  BY <2>1, <2>2 DEF Next, Evict, Unmount, Stopped
<1> QED  BY <1>1, Invariant, PTL DEF Spec, LeaksKnown, Known
=============================================================================
