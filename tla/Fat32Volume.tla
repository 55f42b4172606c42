---------------------------- MODULE Fat32Volume ------------------------------
(* A FAT32 volume behind the write-back block cache, as fs/storage.c reads  *)
(* and judges it: one directory, one FAT, data clusters.                    *)
(*                                                                          *)
(* An image is [dir, fat, data]. The directory is the row of its 32-byte    *)
(* places in the order of its cluster chain. A published name takes two     *)
(* places, a long entry and its short one; the temporary file has only a    *)
(* short entry. The two may lie in two sectors, and in two clusters that    *)
(* are not neighbours on the volume. The second FAT is written with the     *)
(* first and never read, so one FAT stands for both. Sizes count clusters.  *)
(* Entry 0 of the FAT is free, -1 ends a chain.                             *)
EXTENDS Integers, Sequences, SequencesExt, FiniteSets

CONSTANTS
    Names,          \* names of files
    ShortNames,     \* those that are 8.3 names, which an alias can spell
    NumClusters,    \* clusters of the data area
    NumPlaces,      \* places of the directory
    SectorPlaces,   \* places of a sector
    NoFile,         \* content of a name that is not found
    Broken          \* content of an entry whose chain is not its own

ASSUME VolumeAssumption ==
    /\ NumClusters \in Nat \ {0} /\ NumPlaces \in Nat \ {0} /\ SectorPlaces \in Nat \ {0}
    /\ ShortNames \subseteq Names /\ NoFile \notin Names /\ Broken # NoFile

Clusters == 1..NumClusters
Places == 1..NumPlaces
SectorOf(p) == (p - 1) \div SectorPlaces
Sectors == {SectorOf(p) : p \in Places}
Free == 0
End == -1

\* What a place holds. An alias is a name and a number, 0 when the alias spells
\* the name itself. The long entry carries the checksum of the alias.
Blank == [kind |-> "blank"]
Deleted == [kind |-> "deleted"]
Long(n, alias) == [kind |-> "long", name |-> n, alias |-> alias]
Short(alias, first, size) ==
    [kind |-> "short", alias |-> alias, first |-> first, size |-> size]
Plain(n) == <<n, 0>>

(* ------------------------------ reading --------------------------------- *)
Numbers(n) == [i \in 1..n |-> i]

\* The clusters the FAT links from first.
Walk(fat, first) ==
    IF first = 0 THEN <<>>
    ELSE FoldLeft(LAMBDA w, i : IF fat[w[Len(w)]] \in Clusters
                                THEN Append(w, fat[w[Len(w)]]) ELSE w,
                  <<first>>, Numbers(NumClusters - 1))

\* storage_release_fat32_chain and storage_check_chain: it ends in END.
ChainEnds(fat, first) ==
    first # 0 => LET w == Walk(fat, first) IN fat[w[Len(w)]] = End

\* What a read of the entry returns when its chain is allocated.
Content(img, e) ==
    LET w == Walk(img.fat, e.first)
    IN IF ~ChainEnds(img.fat, e.first) \/ Len(w) < e.size
       THEN Broken ELSE [i \in 1..e.size |-> img.data[w[i]]]

First(S) == CHOOSE s \in S : \A r \in S : s <= r

\* storage_visit_long_sector: the short entries before the end mark. A long
\* entry belongs to the short one that follows it.
Shown(img) ==
    {p \in Places : img.dir[p].kind = "short" /\ \A q \in 1..p : img.dir[q] # Blank}
HasLong(img, p) == p > 1 /\ img.dir[p - 1].kind = "long"

\* One long entry before the short entry of another alias, and no name of the
\* directory can be looked up.
Readable(img) ==
    \A p \in Shown(img) : HasLong(img, p) => img.dir[p - 1].alias = img.dir[p].alias

\* storage_find_long_visitor: by the long name or by the alias.
Answers(img, p, n) ==
    \/ HasLong(img, p) /\ img.dir[p - 1].name = n
    \/ n \in ShortNames /\ img.dir[p].alias = Plain(n)
EntriesOf(img, n) == {p \in Shown(img) : Answers(img, p, n)}

\* storage_find_entry_long: the first entry of that name, 0 if there is none or
\* the walk ends in an error.
Find(img, n) ==
    LET found == EntriesOf(img, n)
    IN IF found = {} \/ ~Readable(img) THEN 0 ELSE First(found)

Lookup(img, n) ==
    LET p == Find(img, n)
    IN IF ~Readable(img) THEN Broken
       ELSE IF p = 0 THEN NoFile ELSE Content(img, img.dir[p])

\* storage_find_free_fat32_cluster: from the hint to the end, then from the start.
FindFree(fat, hint, taken) ==
    LET free == {c \in Clusters : fat[c] = Free /\ c \notin taken}
        ahead == {c \in free : c >= hint}
    IN IF free = {} THEN 0 ELSE IF ahead # {} THEN First(ahead) ELSE First(free)

\* storage_select_fat32_clusters: nothing is marked yet. <<>> when too few.
Select(fat, hint, count) ==
    LET chosen == FoldLeft(LAMBDA s, i : Append(s, FindFree(fat, hint, ToSet(s))),
                           <<>>, Numbers(count))
    IN IF 0 \in ToSet(chosen) THEN <<>> ELSE chosen

\* storage_find_free_directory_slots while the directory has room: the first
\* free places that follow one another in its chain, wherever its sectors and
\* clusters end.
FindFreeSlots(img, required) ==
    First({p \in Places : p + required - 1 \in Places /\
             \A q \in p..(p + required - 1) : img.dir[q] \in {Blank, Deleted}})

\* storage_generate_alias: the name itself if it is 8.3, or numbered.
GenerateAlias(img, n) ==
    LET used == {img.dir[p].alias : p \in Shown(img)}
        numbers == {k \in 0..NumPlaces : <<n, k>> \notin used /\ (k = 0 => n \in ShortNames)}
    IN <<n, First(numbers)>>

(* ------------------------------ storage_check --------------------------- *)
ChainOf(img, p) == ToSet(Walk(img.fat, img.dir[p].first))

Dangling(img) == {p \in Shown(img) : Content(img, img.dir[p]) = Broken}
Duplicated(img) == {n \in Names : Cardinality(EntriesOf(img, n)) > 1}
Shared(img) ==
    {d \in Shown(img) \X Shown(img) :
        d[1] < d[2] /\ ChainOf(img, d[1]) \cap ChainOf(img, d[2]) # {}}
SameAlias(img) ==
    {d \in Shown(img) \X Shown(img) : d[1] < d[2] /\ img.dir[d[1]].alias = img.dir[d[2]].alias}

\* The errors storage_check finds that a later operation can turn into a loss.
\* Clusters without an entry are lost space, a warning; a chain longer than the
\* size, as the temporary file has between two updates of its entry, and FATs
\* that differ are errors to it but mislead no operation.
Consistent(img) ==
    /\ Readable(img)
    /\ Dangling(img) = {} /\ Duplicated(img) = {} /\ Shared(img) = {} /\ SameAlias(img) = {}

\* What storage_check does not look for: half a name. A long entry has its
\* short one behind it, and nothing lies beyond the end mark.
Whole(img) ==
    \A p \in Places :
        /\ img.dir[p].kind = "long" =>
              p + 1 \in Places /\ img.dir[p + 1].kind = "short"
              /\ img.dir[p + 1].alias = img.dir[p].alias
        /\ img.dir[p] = Blank => \A q \in p..NumPlaces : img.dir[q] = Blank

Orphans(img) ==
    {c \in Clusters : img.fat[c] # Free}
        \ UNION {ChainOf(img, p) : p \in Shown(img)}

(* ------------------------------ the cache ------------------------------- *)
\* Until a barrier completes the device may hold, sector by sector, any value
\* written since the last one. disk has the shape of an image, with a set of
\* values in each place.
SectorAt(img, s) == [p \in {q \in Places : SectorOf(q) = s} |-> img.dir[p]]
Clean(img) == [dir  |-> [s \in Sectors |-> {SectorAt(img, s)}],
               fat  |-> [c \in Clusters |-> {img.fat[c]}],
               data |-> [c \in Clusters |-> {img.data[c]}]]

\* The functions that choose a value of sets[x] for every x.
Mixtures(sets) ==
    LET places == DOMAIN sets
        dirty == {x \in places : Cardinality(sets[x]) > 1}
        only == [x \in places \ dirty |-> CHOOSE v \in sets[x] : TRUE]
        all == UNION {sets[x] : x \in dirty}
    IN {[x \in places |-> IF x \in dirty THEN f[x] ELSE only[x]] :
           f \in {g \in [dirty -> all] : \A x \in dirty : g[x] \in sets[x]}}

\* The volumes a power cut may leave.
Images(disk) ==
    {[dir |-> [p \in Places |-> d[SectorOf(p)][p]], fat |-> f, data |-> x] :
        d \in Mixtures(disk.dir), f \in Mixtures(disk.fat), x \in Mixtures(disk.data)}

\* A write: a place of one of the areas and its new value.
At(area, place, value) == [area |-> area, place |-> place, value |-> value]

\* The cache and the device after a row of writes: each leaves one more value
\* its sector may have.
Written(img, disk, writes) ==
    FoldLeft(LAMBDA v, w :
               LET new == [v.img EXCEPT ![w.area][w.place] = w.value]
                   sector == IF w.area = "dir" THEN SectorOf(w.place) ELSE w.place
                   value == IF w.area = "dir" THEN SectorAt(new, sector) ELSE w.value
               IN [img |-> new, disk |-> [v.disk EXCEPT ![w.area][sector] = @ \cup {value}]],
             [img |-> img, disk |-> disk], writes)
=============================================================================
