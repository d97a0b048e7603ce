-------------------------------- MODULE Fat32 -------------------------------
(***************************************************************************)
(* The FAT32 driver, src/src/file/fat32.c, from the partition table on, on *)
(* a disk that survives crashes of the machine: fat32_open with            *)
(* fat32_read, and fat32_new_file with its three separate disk writes,     *)
(* each of which may fail: nobody looks at what nvme_write returns.  A     *)
(* file is named by a model value (name and extension; the checks of their *)
(* lengths change nothing).  A cluster is one sector.  The FAT in memory   *)
(* has a 32-bit entry per index; the code allocates and searches 4 * E     *)
(* entries for each FAT sector of E entries.                               *)
(***************************************************************************)
EXTENDS Gpt, FiniteSets, FiniteSetsExt

CONSTANTS
    E,            \* FAT entries in a sector (128)
    D,            \* directory entries in a sector (16)
    High,         \* first cluster number with high bits (65536)
    PageEntries,  \* FAT entries in a page of memory (1024)
    Volume,       \* disks: the partition table; part, where the file system
                  \* is; its boot sector bpb; Root, the clusters of the root
                  \* directory; File, the clusters of each file; and of the
                  \* machine, Offset, the place of the copy of the FAT in its
                  \* page, in entries, and rejects, whether the controller
                  \* rejects a transfer that needs a second page pointer
    Name,         \* names that programs use
    MaxCrash,     \* bound: crashes
    MaxFail       \* bound: disk writes that fail

FREE == 0
EOC == 268435455        \* 0xFFFFFFF
NoEntry == [name |-> "", cluster |-> 0]

(* The first sector of the data area: behind the reserved sectors and two  *)
(* FATs.  Cluster 2 is there.                                              *)
data_start_lba(p, bpb) == p.first_lba + bpb.RsvdSecCnt + 2 * bpb.FATSz32
LastCluster(v) == v.part.last_lba - data_start_lba(v.part, v.bpb) + 2

ASSUME VolumeAssumption ==
    /\ {E, D, High, PageEntries} \subseteq Nat \ {0} /\ {MaxCrash, MaxFail} \subseteq Nat
    /\ \A v \in Volume :
          /\ LastCluster(v) \in 2..(E * v.bpb.FATSz32 - 1)
          /\ v.Root[1] = v.bpb.RootClus
          /\ \A k \in DOMAIN v.Root : v.Root[k] \in 2..LastCluster(v)
          /\ DOMAIN v.File \subseteq Name /\ Cardinality(DOMAIN v.File) <= D

VARIABLES
    vol,        \* the disk's layout
    part,       \* volume_first_lba, volume_last_lba
    disk,       \* the first FAT, the root directory and the data clusters
    FAT,        \* the copy of the FAT in memory
    op,         \* the call of fat32_new_file in progress
    last,       \* what the last open and read of a file returned
    created,    \* names for which fat32_new_file has returned success
    failed,     \* the writes that failed: a name and which of its writes
    outside,    \* a sector that is no data cluster has been written
    crashes,
    phase       \* "boot", "running", or how the kernel stopped

vars == <<vol, part, disk, FAT, op, last, created, failed, outside, crashes, phase>>

FAT_size == vol.bpb.FATSz32
Top == LastCluster(vol)
Root == vol.Root
File == vol.File
RootSet == {Root[k] : k \in DOMAIN Root}
DiskEntry == 0..(E * FAT_size - 1)
MemEntry == 0..(4 * E * FAT_size - 1)

Idle == [pc |-> "idle"]
NothingRead == [name |-> "", ret |-> 0, data |-> <<>>]
UNKNOWN == 1            \* the contents of a sector that is not in a data cluster
ZERO == 0               \* the contents of a blank cluster; cluster c holds c at first

(* The entries e of which the copy lies in the page in which the copy of   *)
(* its sector begins: nvme_read and nvme_write give the controller the     *)
(* address of that page alone.                                             *)
InFirstPage(e) ==
    (vol.Offset + e) \div PageEntries = (vol.Offset + E * (e \div E)) \div PageEntries
InOnePage(sector) == \A e \in DiskEntry : e \div E = sector => InFirstPage(e)

(* The FAT value of cluster c in a chain s.                                *)
Link(s, c) ==
    LET k == CHOOSE j \in DOMAIN s : s[j] = c
    IN  IF k = Len(s) THEN EOC ELSE s[k + 1]

(* update_FAT: the FAT of the disk, sector by sector, and zeros behind it. *)
(* What belongs into a second page stays zero, and so does the rest of its *)
(* sector if the controller rejects the command.                           *)
update_FAT(fat) ==
    [e \in MemEntry |->
        IF /\ e \in DiskEntry
           /\ IF vol.rejects THEN InOnePage(e \div E) ELSE InFirstPage(e)
        THEN fat[e] ELSE FREE]

Init == vol \in Volume /\
    LET chains == {Root} \cup {File[f] : f \in DOMAIN File}
        fat == [e \in DiskEntry |->
                  IF e < 2 THEN EOC
                  ELSE IF \E s \in chains : \E k \in DOMAIN s : s[k] = e
                  THEN Link(CHOOSE s \in chains : \E k \in DOMAIN s : s[k] = e, e) ELSE FREE]
    IN  \E slot \in [DOMAIN File -> 1..D] :
          /\ \A f, g \in DOMAIN File : slot[f] = slot[g] => f = g
          /\ disk = [fat |-> fat,
                     dir |-> [c \in RootSet |-> [k \in 1..D |->
                        IF c = Root[1] /\ \E f \in DOMAIN File : slot[f] = k
                        THEN LET f == CHOOSE g \in DOMAIN File : slot[g] = k
                             IN  [name |-> f, cluster |-> File[f][1]]
                        ELSE NoEntry]],
                     data |-> [c \in 2..Top |-> c]]
          /\ part = NoPartition /\ FAT = [e \in MemEntry |-> FREE]
          /\ op = Idle /\ last = NothingRead /\ created = {} /\ failed = {}
          /\ outside = FALSE /\ crashes = 0 /\ phase = "boot"

(* The boot sectors that fat32_init accepts.                               *)
BpbAccepted(bpb) ==
    /\ (bpb.jmpBoot[1] = 235 /\ bpb.jmpBoot[3] = 144) \/ bpb.jmpBoot[1] = 233
    /\ bpb.BytsPerSec = 512 /\ bpb.NumFATs = 2 /\ bpb.SecPerClus = 1
    /\ bpb.TotSec16 = 0 /\ bpb.FATSz16 = 0 /\ bpb.TotSec32 # 0
    /\ bpb.Signature_word = 43605

(* The machine starts: fat32_init with the partition that gpt_read found.  *)
fat32_init ==
    /\ phase = "boot"
    /\ LET p == gpt_read(vol.table)
       IN  \/ /\ p # GptPanic /\ BpbAccepted(vol.bpb)
              /\ part' = p
              /\ FAT' = update_FAT(disk.fat)
              /\ phase' = "running"
           \/ /\ p = GptPanic \/ ~BpbAccepted(vol.bpb)
              /\ phase' = "panic at boot"
              /\ UNCHANGED <<part, FAT>>
    /\ UNCHANGED <<vol, disk, op, last, created, failed, outside, crashes>>

is_ending_cluster(n) == n = EOC

(* The clusters reached from c along the FAT in memory, and where it ends. *)
Chain(c) ==
    LET w[k \in 0..(Top + 1)] ==
            IF k = 0 THEN c
            ELSE LET p == w[k - 1] IN IF p \in {FREE, EOC} THEN p ELSE FAT[p]
        len == Min({k \in 0..(Top + 1) : w[k] \in {FREE, EOC}})
    IN  [clusters |-> [k \in 1..len |-> w[k - 1]], end |-> w[len]]

RootChain == Chain(Root[1])

(* The cluster of the first entry of that name in directory cluster c, or  *)
(* 0.                                                                      *)
check_directory_entry_for_file(c, name) ==
    LET hits == {j \in 1..D : disk.dir[c][j].name = name}
    IN  IF hits = {} THEN 0 ELSE disk.dir[c][Min(hits)].cluster

(* The first cluster of the file, or 0: an entry whose cluster is 0 counts *)
(* as absent, and the search goes on in the next directory cluster.        *)
get_cluster_num(name) ==
    LET s    == RootChain.clusters
        hits == {k \in DOMAIN s : check_directory_entry_for_file(s[k], name) # 0}
    IN  IF hits = {} THEN 0 ELSE check_directory_entry_for_file(s[Min(hits)], name)

(* No entry of that name before the chain of the root directory runs into  *)
(* a free FAT entry: "broken FAT!".                                        *)
BrokenRoot(name) == get_cluster_num(name) = 0 /\ RootChain.end = FREE

(* The position, <<cluster, index>>, of the first directory entry without  *)
(* a name, or <<>>.                                                        *)
UnusedEntry ==
    LET s    == RootChain.clusters
        free(c) == {j \in 1..D : disk.dir[c][j].name = ""}
        hits == {k \in DOMAIN s : free(s[k]) # {}}
    IN  IF hits = {} THEN <<>> ELSE <<s[Min(hits)], Min(free(s[Min(hits)]))>>

(* Faulty variant: each sector is read after moving to the next cluster.   *)
fat32_read_moved(s) ==
    [ret  |-> 1,
     data |-> [k \in DOMAIN s |-> disk.data[s[Min({k + 1, Len(s)})]]]]

(* fat32_read: the clusters s of the file are read in order.  The final    *)
(* check tests the number of the last cluster, not its FAT entry.          *)
fat32_read(s) ==
    [ret  |-> IF is_ending_cluster(s[Len(s)]) THEN 0 ELSE 1,
     data |-> [k \in DOMAIN s |-> IF s[k] \in 2..Top THEN disk.data[s[k]] ELSE UNKNOWN]]

(* A program opens a file and reads all of it.  A chain that runs into a   *)
(* free entry panics: "broken FAT!"; that of the root directory does so in *)
(* fat32_new_file too.                                                     *)
fat32_open(name) ==
    LET c == get_cluster_num(name)
        s == Chain(c)
        r == fat32_read(s.clusters)
    IN  /\ phase = "running" /\ op = Idle
        /\ \/ /\ (c # 0 /\ s.end = FREE) \/ BrokenRoot(name)
              /\ phase' = "panic"
              /\ UNCHANGED <<vol, part, disk, FAT, op, last, created, failed, outside, crashes>>
           \/ /\ c # 0 /\ s.end = EOC
              /\ last' = [name |-> name, ret |-> r.ret, data |-> r.data]
              /\ UNCHANGED <<vol, part, disk, FAT, op, created, failed, outside, crashes, phase>>

(* The first entry of 0 in the oversized copy of the FAT, or 0.            *)
find_free_FAT_cluster ==
    LET free == {e \in MemEntry : FAT[e] = FREE}
    IN  IF free = {} THEN 0 ELSE Min(free)

(* fat32_new_file up to its first write: the name must be new, a cluster   *)
(* is taken in memory and an unused directory entry looked up.             *)
NewFile(name, pc) ==
    LET c == find_free_FAT_cluster
    IN  /\ phase = "running" /\ op = Idle
        /\ get_cluster_num(name) = 0 /\ ~BrokenRoot(name)
        /\ FAT' = [FAT EXCEPT ![c] = EOC]
        /\ op' = [pc |-> pc, name |-> name, cluster |-> c,
                  slot |-> UnusedEntry]
        /\ UNCHANGED <<vol, part, disk, last, created, failed, outside, crashes, phase>>

(* Faulty variant: the FAT is not written back.                            *)
fat32_new_file_no_FAT(name) == NewFile(name, "directory")

fat32_new_file(name) == NewFile(name, "FAT")

(* A disk write of the call, to d unless it fails; its result is dropped.  *)
Write(d, next) ==
    /\ phase = "running"
    /\ \/ disk' = d /\ UNCHANGED failed
       \/ /\ Cardinality(failed) < MaxFail
          /\ failed' = failed \cup {<<op.name, op.pc>>}
          /\ UNCHANGED disk
    /\ op' = next
    /\ UNCHANGED <<vol, part, FAT, last, crashes>>

(* What WriteFAT leaves in the FAT of the disk: the entries of the sector  *)
(* from the copy; what lies in a second page comes from elsewhere, junk,   *)
(* unless the controller rejects the command.                              *)
FATWritten(sector, junk) ==
    [e \in DiskEntry |->
        IF e \div E # sector \/ (vol.rejects /\ ~InOnePage(sector)) THEN disk.fat[e]
        ELSE IF InFirstPage(e) THEN FAT[e] ELSE junk[e]]

(* "Occupy one entry in the FAT": sector c / 512 is written, from byte     *)
(* c - c % 512 of the copy; these are the entries of that sector.          *)
WriteFAT ==
    LET sector == op.cluster \div (4 * E)
        second == {e \in DiskEntry : e \div E = sector /\ ~InFirstPage(e)}
    IN  /\ op.pc = "FAT"
        /\ \E junk \in [second -> {FREE, EOC}] :
              Write([disk EXCEPT !.fat = FATWritten(sector, junk)],
                    [op EXCEPT !.pc = "directory"])
        /\ UNCHANGED <<created, outside, phase>>

(* Faulty variant: the first entry of the directory sector is replaced.    *)
WriteDirectory_first ==
    /\ op.pc = "directory" /\ op.slot # <<>>
    /\ Write([disk EXCEPT !.dir[op.slot[1]][1] =
                 [name |-> op.name, cluster |-> op.cluster % High]],
             [op EXCEPT !.pc = "data"])
    /\ UNCHANGED <<created, outside, phase>>

(* The directory entry is written; it keeps the low bits of the cluster.   *)
(* With no unused entry, the entry is stored behind the buffer and the     *)
(* sector written to cluster EOC, which the disk does not have.            *)
WriteDirectory ==
    /\ op.pc = "directory"
    /\ \/ /\ op.slot # <<>>
          /\ Write([disk EXCEPT !.dir[op.slot[1]][op.slot[2]] =
                       [name |-> op.name, cluster |-> op.cluster % High]],
                   [op EXCEPT !.pc = "data"])
          /\ UNCHANGED phase
       \/ /\ op.slot = <<>>
          /\ Write(disk, [op EXCEPT !.pc = "data"])
          /\ phase' \in {"running", "overwritten"}
    /\ UNCHANGED <<created, outside>>

(* The cluster is zeroed, and fat32_new_file returns success.  Nothing     *)
(* compares the sector with the end of the partition.                      *)
WriteData ==
    /\ op.pc = "data"
    /\ \/ /\ op.cluster \in 2..Top
          /\ Write([disk EXCEPT !.data[op.cluster] = ZERO], Idle)
          /\ UNCHANGED outside
       \/ /\ op.cluster \notin 2..Top
          /\ Write(disk, Idle)
          /\ outside' = (outside \/ failed' = failed)
    /\ created' = created \cup {op.name}
    /\ UNCHANGED phase

(* The machine stops, at any moment, and is started again.                 *)
Crash ==
    /\ phase \notin {"boot", "panic at boot"} /\ crashes < MaxCrash
    /\ crashes' = crashes + 1
    /\ part' = NoPartition /\ FAT' = [e \in MemEntry |-> FREE]
    /\ op' = Idle /\ last' = NothingRead
    /\ phase' = "boot"
    /\ UNCHANGED <<vol, disk, created, failed, outside>>

Next ==
    \/ \E name \in Name : fat32_open(name) \/ fat32_new_file(name)
    \/ WriteFAT \/ WriteDirectory \/ WriteData
    \/ fat32_init \/ Crash

Spec == Init /\ [][Next]_vars

-----------------------------------------------------------------------------

TypeOK ==
    /\ disk.fat \in [DiskEntry -> 0..Top \cup {EOC}]
    /\ \A c \in RootSet : \A k \in 1..D :
          disk.dir[c][k].name \in Name \cup {""} /\ disk.dir[c][k].cluster \in MemEntry
    /\ disk.data \in [2..Top -> 0..Top]
    /\ FAT \in [MemEntry -> 0..Top \cup {EOC}]
    /\ op.pc \in {"idle", "FAT", "directory", "data"}
    /\ created \subseteq Name /\ crashes \in 0..MaxCrash
    /\ phase \in {"boot", "running", "panic", "overwritten", "panic at boot"}

(* The directory entries on the disk.                                      *)
Entries == {<<c, k>> \in RootSet \X (1..D) : disk.dir[c][k] # NoEntry}
EntryAt(e) == disk.dir[e[1]][e[2]]

(* No write for a file of that name has failed.                            *)
Sound(name) == \A w \in failed : w[1] # name

(* The whole FAT reaches memory: no sector of the copy is cut by the end   *)
(* of a page.                                                              *)
CopyWhole == \A e \in DiskEntry : InFirstPage(e)

(* The clusters that are free at first, and the others that look free in   *)
(* memory because the copy of the FAT is not whole.                        *)
FreeClusters ==
    {c \in 2..Top : \A s \in {Root} \cup {File[f] : f \in DOMAIN File} :
                         \A k \in DOMAIN s : s[k] # c}
Mistaken == {c \in 2..Top \ FreeClusters :
                IF vol.rejects THEN ~InOnePage(c \div E) ELSE ~InFirstPage(c)}

(* There are clusters for every file that may be created, and for every    *)
(* one that a crash or a failed write may waste, before the search would   *)
(* come to one that is not free or whose number has high bits.             *)
ClustersLeft ==
    \A c \in Mistaken \cup {Top + 1, High} :
        Cardinality(Name \ DOMAIN File) + MaxCrash + MaxFail
            <= Cardinality({d \in FreeClusters : d < c})

(* The volume has room in every respect: clusters, directory entries for   *)
(* all names, and a FAT of one sector and in one page.                     *)
Ample ==
    /\ Cardinality(Name) <= D * Len(Root)
    /\ Top < E
    /\ CopyWhole /\ ClustersLeft

(* On such a volume, whenever the machine crashes and whichever writes     *)
(* have failed, the directory entry of every file whose own writes have    *)
(* not failed points to a cluster that the FAT on the disk has in use; no  *)
(* two of them have the same name or the same first cluster.  So a failed  *)
(* write, of which fat32_new_file knows nothing, harms one file only.      *)
CrashConsistent ==
    /\ TypeOK
    /\ Ample =>
          LET sound == {e \in Entries : Sound(EntryAt(e).name)}
          IN  /\ \A e \in sound :
                    EntryAt(e).cluster \in 2..Top /\ disk.fat[EntryAt(e).cluster] # FREE
              /\ \A d, e \in sound : d # e =>
                    EntryAt(d).name # EntryAt(e).name /\ EntryAt(d).cluster # EntryAt(e).cluster

(* The kernel runs only with the one FAT partition of the disk: it is the  *)
(* partition with the file system, the table has no other of that type,    *)
(* and the kernel refuses to start only if one of these fails or header or *)
(* boot sector are not what it supports.                                   *)
MountsTheVolume ==
    LET entries == FlattenSeq(vol.table.sectors)
        fats    == {k \in DOMAIN entries : entries[k].guid = FAT_GUID}
    IN  /\ phase \in {"running", "panic", "overwritten"} =>
              Cardinality(fats) = 1 /\ part = vol.part
        /\ phase = "panic at boot" =>
              \/ Cardinality(fats) # 1
              \/ ~HeaderAccepted(vol.table.header) \/ ~BpbAccepted(vol.bpb)

(* Between calls the copy in memory is the FAT on the disk.  WriteFAT does *)
(* not keep this: it takes the first sector for four.                      *)
WholeCopyUpToDate == op = Idle /\ phase = "running" => FAT = update_FAT(disk.fat)

(* Reading a file gives its contents: what it held at first, on every      *)
(* volume, and zeros for a file whose creation was completed, with no      *)
(* failed write, on a volume with room.                                    *)
ReadsContents ==
    LET name == last.name
    IN  /\ name \in DOMAIN File /\ CopyWhole => last.data = File[name]
        /\ name \in created \ DOMAIN File /\ Sound(name) /\ Ample => last.data = <<ZERO>>

(* On a volume with room, a file that fat32_new_file has created without a *)
(* failed write can be found, now and after any restart, and its chain of  *)
(* clusters ends.                                                          *)
CreatedFilesOpen ==
    op = Idle /\ phase = "running" /\ Ample =>
        \A name \in created : Sound(name) =>
            get_cluster_num(name) # 0 /\ Chain(get_cluster_num(name)).end = EOC

(* Whatever the volume and whatever happens (a crash between two writes,   *)
(* failed writes, a full directory or volume, a FAT entry that was lost),  *)
(* the files that were there first keep their directory entries, and while *)
(* clusters are left that the code knows to be free, also their contents;  *)
(* then no sector outside the data clusters is written.  If the copy of    *)
(* the FAT is whole they keep their chains too, and the root directory its *)
(* own.                                                                    *)
OldFilesKept ==
    /\ outside => ~ClustersLeft
    /\ \A f \in DOMAIN File :
          /\ \E e \in Entries : EntryAt(e) = [name |-> f, cluster |-> File[f][1]]
          /\ CopyWhole \/ ClustersLeft =>
                \A k \in DOMAIN File[f] : disk.data[File[f][k]] = File[f][k]
          /\ CopyWhole =>
                \A k \in DOMAIN File[f] : disk.fat[File[f][k]] = Link(File[f], File[f][k])
    /\ CopyWhole => \A k \in DOMAIN Root : disk.fat[Root[k]] = Link(Root, Root[k])

(* Reading a file with the cluster and size that fat32_open returned       *)
(* succeeds (0).  fat32_read does not keep this.                           *)
ReadSucceeds == last.ret = 0
=============================================================================
