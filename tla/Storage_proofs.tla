--------------------------- MODULE Storage_proofs ----------------------------
(***************************************************************************)
(* Proofs about what outlives the machine: SmartPort's images, the battery *)
(* RAM and the quick save.                                                 *)
(*                                                                         *)
(* SmartPort, for every set of images and blocks: the host's files hold the *)
(* blocks the guest sees, and no block call succeeds on a medium the guest *)
(* was not told of.                                                        *)
(*                                                                         *)
(* ClockBram: for every set of addresses and bytes, what has changed since the *)
(* file was written is marked dirty; and for the chip of the code, 256 cells *)
(* and four clock bytes of eight bits, a cell or the clock changes only by a *)
(* whole transaction.                                                      *)
(*                                                                         *)
(* SnapshotFile: wherever a save was cut short, a load that finds the stream *)
(* good read every length in it where the writer put it.                   *)
(***************************************************************************)
EXTENDS SmartPort, ClockBram, SnapshotFile, SequenceTheorems, TLAPS

-----------------------------------------------------------------------------
(* Types.                                                                  *)

Path == File \cup {None}

\* A device: its image is as long as the file's, and as protected.
Device(d) ==
    /\ d \in [path : Path, img : Seq(Block), protected : BOOLEAN]
    /\ d.path = None => d.img = <<>>
    /\ d.path # None => /\ Len(d.img) = Len(Images[d.path].blocks)
                        /\ d.protected = Images[d.path].protected

Files(s) ==
    /\ s \in [File -> Seq(Block)]
    /\ \A f \in File : Len(s[f]) = Len(Images[f].blocks)

PortTypeOK ==
    /\ writeBack \in BOOLEAN /\ Files(store)
    /\ Device(disk35) /\ Device(hdd)
    /\ selectedBlock \in Nat /\ streamOffset \in 0 .. BlockBytes - 1
    /\ changed \in BOOLEAN /\ switchIo \in BOOLEAN
    /\ known \in Path
    /\ torn \subseteq Nat /\ behind35 \subseteq Nat /\ behindHdd \subseteq Nat
    /\ saved # None => saved \in [hdd : Path, disk35 : Path, known : Path]

-----------------------------------------------------------------------------
(* The operators.                                                          *)

\* One element of a sequence replaced.
LEMMA PutInSeq ==
    ASSUME NEW S, NEW s \in Seq(S), NEW k \in 1 .. Len(s), NEW v \in S
    PROVE  /\ [s EXCEPT ![k] = v] \in Seq(S)
           /\ Len([s EXCEPT ![k] = v]) = Len(s)
           /\ [s EXCEPT ![k] = v][k] = v
           /\ \A j \in 1 .. Len(s) \ {k} : [s EXCEPT ![k] = v][j] = s[j]
OBVIOUS

\* An inserted image is the file's.
LEMMA LoadedDevice ==
    ASSUME Files(store), NEW f \in File
    PROVE  /\ Device(LoadImage(f)) /\ LoadImage(f).path = f /\ f # None
           /\ LoadImage(f).img = store[f]
BY PortAssumption DEF Files, Device, LoadImage, Path

Emptied(protected) == [Empty EXCEPT !.protected = protected]

LEMMA EmptyDevice ==
    ASSUME NEW protected \in BOOLEAN
    PROVE  /\ Device(Emptied(protected))
           /\ Emptied(protected).path = None /\ Emptied(protected).img = <<>>
<1>1. Emptied(protected) = [path |-> None, img |-> <<>>, protected |-> protected]
    BY DEF Emptied, Empty
<1>2. <<>> \in Seq(Block)
    OBVIOUS
<1> DEFINE d == Emptied(protected)
<1>3. /\ d \in [path : Path, img : Seq(Block), protected : BOOLEAN]
      /\ d.path = None /\ d.img = <<>>
    BY <1>1, <1>2 DEF Path
<1> HIDE DEF d
<1>4. Device(d)
    BY <1>3 DEF Device
<1>. QED
    BY <1>3, <1>4 DEF d

\* Whether an image has blocks is the file's to say.
LEMMA LoadedByFile ==
    ASSUME NEW d, Device(d)
    PROVE  Loaded(d) <=> d.path # None /\ Loads(d.path)
<1>1. d.img \in Seq(Block) /\ (d.img # <<>> <=> Len(d.img) # 0)
    BY DEF Device
<1>2. CASE d.path = None
    BY <1>2 DEF Device, Loaded
<1>3. CASE d.path # None
    <2>1. Images[d.path].blocks \in Seq(Block) /\ Len(d.img) = Len(Images[d.path].blocks)
        BY <1>3, PortAssumption DEF Device, Path
    <2>. QED
        BY <1>1, <1>3, <2>1 DEF Loaded, Loads
<1>. QED
    BY <1>2, <1>3

\* A block of a device replaced: the device the drives write to.
Put(d, blk, b) == [d EXCEPT !.img[blk + 1] = b]

LEMMA PutDevice ==
    ASSUME NEW d, Device(d), NEW blk \in Nat, InRange(d, blk), NEW b \in Block
    PROVE  /\ Device(Put(d, blk, b))
           /\ Put(d, blk, b).path = d.path /\ Put(d, blk, b).protected = d.protected
           /\ Len(Put(d, blk, b).img) = Len(d.img)
           /\ \A k \in 1 .. Len(d.img) \ {blk + 1} : Put(d, blk, b).img[k] = d.img[k]
<1>1. d \in [path : Path, img : Seq(Block), protected : BOOLEAN] /\ blk + 1 \in 1 .. Len(d.img)
    BY DEF Device, InRange
<1> DEFINE more == [d.img EXCEPT ![blk + 1] = b]
<1>2. /\ more \in Seq(Block) /\ Len(more) = Len(d.img)
      /\ \A k \in 1 .. Len(d.img) \ {blk + 1} : more[k] = d.img[k]
    BY <1>1, PutInSeq
<1>3. Put(d, blk, b) = [d EXCEPT !.img = more]
    BY DEF Put
<1> HIDE DEF more
<1>4. /\ Put(d, blk, b) \in [path : Path, img : Seq(Block), protected : BOOLEAN]
      /\ Put(d, blk, b).path = d.path /\ Put(d, blk, b).protected = d.protected
      /\ Put(d, blk, b).img = more
    BY <1>1, <1>2, <1>3
<1>5. d.path # None
    <2>1. Len(d.img) # 0
        BY <1>1
    <2>. QED
        BY <2>1 DEF Device
<1>. QED
    BY <1>2, <1>4, <1>5 DEF Device

\* flushBlock() brings one block of one file up to date, or nothing.
LEMMA FlushOne ==
    ASSUME PortTypeOK, NEW d, Device(d), NEW blk \in Nat
    PROVE  /\ Files(FlushBlock(d, blk))
           /\ \A f \in File : f # d.path => FlushBlock(d, blk)[f] = store[f]
           /\ d.path = None \/ d.protected \/ ~writeBack \/ ~InRange(d, blk) =>
                FlushBlock(d, blk) = store
           /\ d.path # None /\ ~d.protected /\ writeBack =>
                \A k \in 1 .. Len(d.img) :
                  FlushBlock(d, blk)[d.path][k] = IF k = blk + 1 THEN d.img[k] ELSE store[d.path][k]
<1>1. CASE d.path = None \/ d.protected \/ ~writeBack \/ ~InRange(d, blk)
    <2>1. FlushBlock(d, blk) = store
        BY <1>1 DEF FlushBlock, InRange, Device
    <2>2. d.path # None /\ ~d.protected /\ writeBack =>
            \A k \in 1 .. Len(d.img) : k # blk + 1
        BY <1>1 DEF InRange, Device
    <2>. QED
        BY <2>1, <2>2, <1>1 DEF PortTypeOK
<1>2. CASE ~(d.path = None \/ d.protected \/ ~writeBack \/ ~InRange(d, blk))
    <2>1. /\ d.path \in File /\ store \in [File -> Seq(Block)] /\ d.img \in Seq(Block)
          /\ Len(store[d.path]) = Len(d.img) /\ blk + 1 \in 1 .. Len(d.img)
          /\ \A f \in File : Len(store[f]) = Len(Images[f].blocks)
        BY <1>2, SMTT(60) DEF Device, Path, PortTypeOK, Files, InRange
    <2> DEFINE flushed == [store[d.path] EXCEPT ![blk + 1] = d.img[blk + 1]]
    <2>2. store[d.path] \in Seq(Block) /\ d.img[blk + 1] \in Block
        BY <2>1
    <2>3. /\ flushed \in Seq(Block) /\ Len(flushed) = Len(store[d.path])
          /\ flushed[blk + 1] = d.img[blk + 1]
          /\ \A k \in 1 .. Len(store[d.path]) \ {blk + 1} : flushed[k] = store[d.path][k]
        BY <2>1, <2>2, PutInSeq
    <2>4. FlushBlock(d, blk) = [store EXCEPT ![d.path] = flushed]
        BY <1>2, <2>1 DEF FlushBlock, InRange
    <2> HIDE DEF flushed
    <2>5. /\ FlushBlock(d, blk) \in [File -> Seq(Block)] /\ FlushBlock(d, blk)[d.path] = flushed
          /\ \A f \in File : f # d.path => FlushBlock(d, blk)[f] = store[f]
        BY <2>1, <2>3, <2>4
    <2>6. \A f \in File : Len(FlushBlock(d, blk)[f]) = Len(Images[f].blocks)
        BY <2>1, <2>3, <2>5
    <2>7. \A k \in 1 .. Len(d.img) :
            FlushBlock(d, blk)[d.path][k] = IF k = blk + 1 THEN d.img[k] ELSE store[d.path][k]
        BY <2>1, <2>3, <2>5
    <2>. QED
        BY <1>2, <2>5, <2>6, <2>7 DEF Files
<1>. QED
    BY <1>1, <1>2

LEMMA SameSeq ==
    ASSUME NEW S, NEW s \in Seq(S), NEW t \in Seq(S), Len(s) = Len(t),
           \A k \in 1 .. Len(s) : s[k] = t[k]
    PROVE  s = t
OBVIOUS

-----------------------------------------------------------------------------
(* The host's files.                                                       *)

\* A device d holds its file of s, but for the blocks in lag.
OnFile(d, s, lag) ==
    d.path # None => \A k \in 1 .. Len(d.img) : d.img[k] = s[d.path][k] \/ k - 1 \in lag

\* The devices mirror their files; files that may not change have not.
Mirrors ==
    /\ writeBack => OnFile(disk35, store, behind35) /\ OnFile(hdd, store, torn \cup behindHdd)
    /\ \A f \in File : Images[f].protected \/ ~writeBack => store[f] = Images[f].blocks

\* A device as it was, with a file inserted, or emptied.
Inserted(d) == \E f \in File : d = LoadImage(f)
Removed(d) == \E protected \in BOOLEAN : d = Emptied(protected)

\* Inserting and removing media.
LEMMA MountKeeps ==
    ASSUME PortTypeOK, Mirrors, UNCHANGED <<writeBack, store>>,
           \/ disk35' = disk35 /\ behind35' = behind35
           \/ (Inserted(disk35') \/ Removed(disk35')) /\ behind35' = {},
           \/ hdd' = hdd /\ torn' = torn /\ behindHdd' = behindHdd
           \/ (Inserted(hdd') \/ Removed(hdd')) /\ torn' = {} /\ behindHdd' = {}
    PROVE  /\ Device(disk35') /\ Device(hdd')
           /\ torn' \subseteq Nat /\ behind35' \subseteq Nat /\ behindHdd' \subseteq Nat
           /\ Mirrors'
<1>1. Files(store)
    BY DEF PortTypeOK
<1>2. ASSUME NEW d, Inserted(d) PROVE Device(d) /\ d.path # None /\ d.img = store[d.path]
    BY <1>1, <1>2, LoadedDevice DEF Inserted
<1>3. ASSUME NEW d, Removed(d) PROVE Device(d) /\ d.path = None
    BY <1>3, EmptyDevice DEF Removed
<1>4. /\ Device(disk35') /\ Device(hdd')
      /\ torn' \subseteq Nat /\ behind35' \subseteq Nat /\ behindHdd' \subseteq Nat
    BY <1>2, <1>3 DEF PortTypeOK
<1>5. ASSUME NEW d, Inserted(d) \/ Removed(d), NEW lag PROVE OnFile(d, store, lag)
    BY <1>2, <1>3, <1>5 DEF OnFile
<1>6. writeBack => OnFile(disk35', store, behind35')
    BY <1>5 DEF Mirrors
<1>7. writeBack => OnFile(hdd', store, torn' \cup behindHdd')
    BY <1>5 DEF Mirrors
<1>8. \A f \in File : Images[f].protected \/ ~writeBack' => store'[f] = Images[f].blocks
    BY DEF Mirrors
<1>. QED
    BY <1>4, <1>6, <1>7, <1>8 DEF Mirrors

\* A block of one device brought to its file: the other device, when it has the
\* same file, is one more block behind.
LEMMA OtherHolds ==
    ASSUME NEW d, Device(d), NEW e, Device(e), NEW blk \in Nat, NEW s, NEW lag,
           OnFile(d, store, lag), e.path # None,
           \A f \in File : f # e.path => s[f] = store[f],
           \A k \in 1 .. Len(e.img) : k # blk + 1 => s[e.path][k] = store[e.path][k]
    PROVE  OnFile(d, s, IF e.path = d.path THEN lag \cup {blk} ELSE lag)
<1>1. /\ d.path # None => d.path \in File
      /\ d.path = e.path => Len(d.img) = Len(e.img)
      /\ Len(d.img) \in Nat
    BY DEF Device, Path
<1>2. CASE d.path = e.path
    <2>1. ASSUME NEW k \in 1 .. Len(d.img)
          PROVE  d.img[k] = s[d.path][k] \/ k - 1 \in lag \cup {blk}
        <3>1. k = blk + 1 => k - 1 = blk
            OBVIOUS
        <3>2. k # blk + 1 => s[d.path][k] = store[d.path][k]
            BY <1>1, <1>2
        <3>. QED
            BY <1>2, <3>1, <3>2 DEF OnFile
    <2>. QED
        BY <1>2, <2>1 DEF OnFile
<1>3. CASE d.path # e.path
    BY <1>1, <1>3 DEF OnFile
<1>. QED
    BY <1>2, <1>3

\* A block written to the 3.5" disk.
LEMMA BlockKeeps ==
    ASSUME PortTypeOK, Mirrors, NEW blk \in Nat, NEW op \in Block,
           disk35.path # None, ~disk35.protected, InRange(disk35, blk),
           disk35' = Put(disk35, blk, op), store' = FlushBlock(disk35', blk),
           behind35' = behind35 \ {blk},
           behindHdd' = IF SameFile THEN behindHdd \cup {blk} ELSE behindHdd,
           UNCHANGED <<writeBack, hdd, torn>>
    PROVE  /\ Device(disk35') /\ Files(store') /\ Mirrors'
           /\ behind35' \subseteq Nat /\ behindHdd' \subseteq Nat
<1>1. /\ Device(disk35') /\ disk35'.path = disk35.path /\ disk35'.protected = disk35.protected
      /\ Len(disk35'.img) = Len(disk35.img)
      /\ \A k \in 1 .. Len(disk35.img) \ {blk + 1} : disk35'.img[k] = disk35.img[k]
    BY PutDevice DEF PortTypeOK
<1>2. /\ Files(store')
      /\ \A f \in File : f # disk35.path => store'[f] = store[f]
      /\ ~writeBack => store' = store
      /\ writeBack =>
           \A k \in 1 .. Len(disk35'.img) :
             store'[disk35.path][k] = IF k = blk + 1 THEN disk35'.img[k] ELSE store[disk35.path][k]
    BY <1>1, FlushOne
<1>3. /\ disk35.path \in File /\ Device(hdd) /\ Device(disk35) /\ Files(store)
      /\ behind35' \subseteq Nat /\ behindHdd' \subseteq Nat
    BY DEF PortTypeOK, Device, Path
<1>4. ASSUME writeBack PROVE OnFile(disk35', store', behind35')
    <2>1. ASSUME NEW k \in 1 .. Len(disk35'.img), k # blk + 1
          PROVE  disk35'.img[k] = store'[disk35.path][k] \/ k - 1 \in behind35'
        <3>1. k - 1 # blk /\ disk35'.img[k] = disk35.img[k]
            BY <1>1, <2>1
        <3>2. store'[disk35.path][k] = store[disk35.path][k]
            BY <1>2, <1>4, <2>1
        <3>3. disk35.img[k] = store[disk35.path][k] \/ k - 1 \in behind35
            BY <1>1, <1>4, <2>1 DEF Mirrors, OnFile
        <3>. QED
            BY <3>1, <3>2, <3>3
    <2>2. ASSUME NEW k \in 1 .. Len(disk35'.img), k = blk + 1
          PROVE  disk35'.img[k] = store'[disk35.path][k]
        BY <1>2, <1>4, <2>2
    <2>. QED
        BY <1>1, <2>1, <2>2 DEF OnFile
<1>5. ASSUME writeBack PROVE OnFile(hdd', store', torn' \cup behindHdd')
    <2>1. OnFile(hdd, store, torn \cup behindHdd)
        BY <1>5 DEF Mirrors
    <2>2. \A k \in 1 .. Len(disk35.img) :
            k # blk + 1 => store'[disk35.path][k] = store[disk35.path][k]
        BY <1>1, <1>2, <1>5
    <2> DEFINE lag == torn \cup behindHdd
    <2>3. OnFile(hdd, store', IF disk35.path = hdd.path THEN lag \cup {blk} ELSE lag)
        <3>. HIDE DEF lag
        <3>1. OnFile(hdd, store, lag)
            BY <2>1 DEF lag
        <3>2. /\ Device(hdd) /\ Device(disk35) /\ disk35.path # None
              /\ \A f \in File : f # disk35.path => store'[f] = store[f]
            BY <1>2, <1>3
        <3>. QED
            BY <2>2, <3>1, <3>2, OtherHolds
    <2>4. torn' \cup behindHdd' = IF disk35.path = hdd.path THEN lag \cup {blk} ELSE lag
        BY DEF SameFile
    <2>. QED
        BY <2>3, <2>4
<1>6. ASSUME NEW f \in File, Images[f].protected \/ ~writeBack PROVE store'[f] = Images[f].blocks
    <2>1. store'[f] = store[f]
        BY <1>2, <1>3, <1>6 DEF Device
    <2>. QED
        BY <1>6, <2>1 DEF Mirrors
<1>. QED
    BY <1>1, <1>2, <1>3, <1>4, <1>5, <1>6 DEF Mirrors

\* A byte streamed to the hard disk.
LEMMA StreamKeeps ==
    ASSUME PortTypeOK, Mirrors, NEW v \in Datum, StreamWrite(v)
    PROVE  PortTypeOK' /\ Mirrors'
<1>1. /\ Device(hdd) /\ Device(disk35) /\ Files(store) /\ writeBack \in BOOLEAN
      /\ selectedBlock \in Nat /\ streamOffset \in 0 .. BlockBytes - 1 /\ torn \subseteq Nat
      /\ behind35 \subseteq Nat /\ behindHdd \subseteq Nat
      /\ BlockBytes \in Nat \ {0} /\ v \in Nat
    BY PortAssumption DEF PortTypeOK
<1>2. Loaded(hdd) /\ ~hdd.protected /\ hdd.path # None /\ hdd.path \in File
    BY <1>1 DEF StreamWrite, Loaded, Device, Path
<1>3. /\ Device(hdd') /\ hdd'.path = hdd.path /\ hdd'.protected = hdd.protected
      /\ Len(hdd'.img) = Len(hdd.img)
      /\ \A k \in 1 .. Len(hdd.img) \ {selectedBlock + 1} : hdd'.img[k] = hdd.img[k]
      /\ ~InRange(hdd, selectedBlock) => hdd' = hdd
    <2>1. CASE InRange(hdd, selectedBlock)
        <3> DEFINE more == [hdd.img[selectedBlock + 1] EXCEPT ![streamOffset + 1] = v]
        <3>1. hdd.img[selectedBlock + 1] \in Block
            BY <1>1, <2>1 DEF Device, InRange
        <3>2. more \in Block
            BY <1>1, <3>1 DEF Block
        <3>3. hdd' = Put(hdd, selectedBlock, more)
            BY <2>1 DEF StreamWrite, Put
        <3> HIDE DEF more
        <3>. QED
            BY <1>1, <2>1, <3>2, <3>3, PutDevice
    <2>2. CASE ~InRange(hdd, selectedBlock)
        BY <1>1, <2>2 DEF StreamWrite
    <2>. QED
        BY <2>1, <2>2
<1>4. /\ streamOffset' \in 0 .. BlockBytes - 1
      /\ UNCHANGED <<writeBack, disk35, selectedBlock, changed, switchIo, known, saved>>
    BY <1>1 DEF StreamWrite, Onward, flags
<1>5. CASE Onward = 0
    <2>1. /\ Files(store')
          /\ \A f \in File : f # hdd.path => store'[f] = store[f]
          /\ ~writeBack => store' = store
          /\ writeBack =>
               \A k \in 1 .. Len(hdd'.img) :
                 store'[hdd.path][k] = IF k = selectedBlock + 1 THEN hdd'.img[k]
                                       ELSE store[hdd.path][k]
        <3>1. store' = FlushBlock(hdd', selectedBlock)
            BY <1>5 DEF StreamWrite
        <3>2. /\ Files(FlushBlock(hdd', selectedBlock))
              /\ \A f \in File : f # hdd'.path => FlushBlock(hdd', selectedBlock)[f] = store[f]
              /\ ~writeBack => FlushBlock(hdd', selectedBlock) = store
              /\ writeBack =>
                   \A k \in 1 .. Len(hdd'.img) :
                     FlushBlock(hdd', selectedBlock)[hdd'.path][k] =
                       IF k = selectedBlock + 1 THEN hdd'.img[k] ELSE store[hdd'.path][k]
            <4> DEFINE d == hdd'
            <4>1. Device(d) /\ d.path # None /\ ~d.protected
                BY <1>2, <1>3
            <4> HIDE DEF d
            <4>2. /\ Files(FlushBlock(d, selectedBlock))
                  /\ \A f \in File : f # d.path => FlushBlock(d, selectedBlock)[f] = store[f]
                  /\ ~writeBack => FlushBlock(d, selectedBlock) = store
                  /\ writeBack =>
                       \A k \in 1 .. Len(d.img) :
                         FlushBlock(d, selectedBlock)[d.path][k] =
                           IF k = selectedBlock + 1 THEN d.img[k] ELSE store[d.path][k]
                BY <1>1, <4>1, FlushOne
            <4>. QED
                BY <4>2 DEF d
        <3>. QED
            BY <1>3, <3>1, <3>2
    <2>2. /\ torn' = torn \ {selectedBlock} /\ behindHdd' = behindHdd \ {selectedBlock}
          /\ behind35' = IF SameFile THEN behind35 \cup {selectedBlock} ELSE behind35
        BY <1>5 DEF StreamWrite
    <2>3. ASSUME writeBack PROVE OnFile(hdd', store', torn' \cup behindHdd')
        <3>1. ASSUME NEW k \in 1 .. Len(hdd'.img), k # selectedBlock + 1
              PROVE  hdd'.img[k] = store'[hdd.path][k] \/ k - 1 \in torn' \cup behindHdd'
            <4>1. k - 1 # selectedBlock /\ hdd'.img[k] = hdd.img[k] /\ k \in 1 .. Len(hdd.img)
                BY <1>1, <1>3, <3>1
            <4>2. store'[hdd.path][k] = store[hdd.path][k]
                BY <2>1, <2>3, <3>1
            <4>3. hdd.img[k] = store[hdd.path][k] \/ k - 1 \in torn \cup behindHdd
                BY <1>2, <2>3, <4>1 DEF Mirrors, OnFile
            <4>. QED
                BY <2>2, <4>1, <4>2, <4>3
        <3>2. ASSUME NEW k \in 1 .. Len(hdd'.img), k = selectedBlock + 1
              PROVE  hdd'.img[k] = store'[hdd.path][k]
            BY <2>1, <2>3, <3>2
        <3>. QED
            BY <1>3, <3>1, <3>2 DEF OnFile
    <2>4. ASSUME writeBack PROVE OnFile(disk35', store', behind35')
        <3>1. \A k \in 1 .. Len(hdd.img) :
                k # selectedBlock + 1 => store'[hdd.path][k] = store[hdd.path][k]
            BY <1>3, <2>1, <2>4
        <3>2. OnFile(disk35, store, behind35)
            BY <2>4 DEF Mirrors
        <3>3. OnFile(disk35, store',
                    IF hdd.path = disk35.path THEN behind35 \cup {selectedBlock} ELSE behind35)
            BY <1>1, <1>2, <2>1, <3>1, <3>2, OtherHolds
        <3>4. disk35' = disk35
            BY <1>4
        <3>. QED
            BY <2>2, <3>3, <3>4 DEF SameFile
    <2>5. ASSUME NEW f \in File, Images[f].protected \/ ~writeBack
          PROVE  store'[f] = Images[f].blocks
        <3>1. store'[f] = store[f]
            BY <1>1, <1>2, <2>1, <2>5 DEF Device
        <3>. QED
            BY <2>5, <3>1 DEF Mirrors
    <2>6. torn' \subseteq Nat /\ behind35' \subseteq Nat /\ behindHdd' \subseteq Nat
        BY <1>1, <2>2
    <2>7. Mirrors'
        BY <1>4, <2>3, <2>4, <2>5 DEF Mirrors
    <2>. QED
        BY <1>1, <1>3, <1>4, <2>1, <2>6, <2>7 DEF PortTypeOK
<1>6. CASE Onward # 0
    <2>1. /\ store' = store /\ torn' = torn \cup {selectedBlock} /\ behindHdd' = behindHdd
          /\ behind35' = behind35
        BY <1>6 DEF StreamWrite, drift
    <2>2. ASSUME writeBack, NEW k \in 1 .. Len(hdd'.img)
          PROVE  hdd'.img[k] = store'[hdd.path][k] \/ k - 1 \in torn' \cup behindHdd'
        <3>1. /\ k \in 1 .. Len(hdd.img) /\ Len(hdd.img) \in Nat
              /\ hdd.img[k] = store[hdd.path][k] \/ k - 1 \in torn \cup behindHdd
            BY <1>1, <1>2, <1>3, <2>2 DEF Mirrors, OnFile, Device
        <3>2. CASE k = selectedBlock + 1
            BY <1>1, <2>1, <3>2
        <3>3. CASE k # selectedBlock + 1
            BY <1>1, <1>3, <2>1, <3>1, <3>3
        <3>. QED
            BY <3>2, <3>3
    <2>3. writeBack => OnFile(hdd', store', torn' \cup behindHdd')
        BY <1>3, <2>2 DEF OnFile
    <2>4. Mirrors'
        BY <1>4, <2>1, <2>3 DEF Mirrors
    <2>5. torn' \subseteq Nat
        BY <1>1, <2>1
    <2>. QED
        BY <1>1, <1>3, <1>4, <2>1, <2>4, <2>5 DEF PortTypeOK
<1>. QED
    BY <1>5, <1>6

\* A block call of the guest.
LEMMA BlockIoKeeps ==
    ASSUME PortTypeOK, Mirrors, NEW blk \in 0 .. MaxBlock, NEW op \in {<<>>} \cup Contents,
           BlockIo(blk, op)
    PROVE  PortTypeOK' /\ Mirrors'
<1>1. /\ UNCHANGED <<writeBack, hdd, selectedBlock, streamOffset, changed, torn, saved>>
      /\ blk \in Nat /\ Device(disk35) /\ disk35.path \in Path
    BY PortAssumption DEF BlockIo, PortTypeOK, Device
<1>2. CASE UNCHANGED <<store, disk35, drift>>
    <2>1. switchIo' \in BOOLEAN /\ known' \in Path
        BY <1>1 DEF BlockIo, PortTypeOK
    <2>. QED
        BY <1>1, <1>2, <2>1 DEF PortTypeOK, Mirrors, drift
<1>3. CASE /\ ~switchIo /\ op # <<>> /\ WriteAnswer(disk35, blk) = "ok"
           /\ disk35' = Put(disk35, blk, op) /\ store' = FlushBlock(disk35', blk)
           /\ behind35' = behind35 \ {blk}
           /\ behindHdd' = IF SameFile THEN behindHdd \cup {blk} ELSE behindHdd
           /\ UNCHANGED <<switchIo, known>>
    <2>1. ~disk35.protected /\ InRange(disk35, blk) /\ disk35.path # None
        BY <1>1, <1>3 DEF WriteAnswer, Device, InRange
    <2>2. op \in Block
        BY <1>3, PortAssumption
    <2>3. /\ Device(disk35') /\ Files(store') /\ Mirrors'
          /\ behind35' \subseteq Nat /\ behindHdd' \subseteq Nat
        BY <1>1, <1>3, <2>1, <2>2, BlockKeeps
    <2>. QED
        BY <1>1, <1>3, <2>3 DEF PortTypeOK
<1>4. UNCHANGED <<store, disk35, drift>>
      \/ /\ ~switchIo /\ op # <<>> /\ WriteAnswer(disk35, blk) = "ok"
         /\ disk35' = Put(disk35, blk, op) /\ store' = FlushBlock(disk35', blk)
         /\ behind35' = behind35 \ {blk}
         /\ behindHdd' = IF SameFile THEN behindHdd \cup {blk} ELSE behindHdd
         /\ UNCHANGED <<switchIo, known>>
    BY DEF BlockIo, Put
<1>. QED
    BY <1>2, <1>3, <1>4

\* Every other step of PortNext: the media it inserts and removes.
Mounts ==
    /\ UNCHANGED <<writeBack, store>>
    /\ \/ disk35' = disk35 /\ behind35' = behind35
       \/ (Inserted(disk35') \/ Removed(disk35')) /\ behind35' = {}
    /\ \/ hdd' = hdd /\ torn' = torn /\ behindHdd' = behindHdd
       \/ (Inserted(hdd') \/ Removed(hdd')) /\ torn' = {} /\ behindHdd' = {}
    /\ selectedBlock' \in Nat /\ streamOffset' \in 0 .. BlockBytes - 1
    /\ changed' \in BOOLEAN /\ switchIo' \in BOOLEAN /\ known' \in Path
    /\ saved' # None => saved' \in [hdd : Path, disk35 : Path, known : Path]

LEMMA MountsKeep ==
    ASSUME PortTypeOK, Mirrors, Mounts
    PROVE  PortTypeOK' /\ Mirrors'
<1>1. /\ Device(disk35') /\ Device(hdd') /\ Mirrors'
      /\ torn' \subseteq Nat /\ behind35' \subseteq Nat /\ behindHdd' \subseteq Nat
    BY MountKeeps DEF Mounts
<1>. QED
    BY <1>1 DEF Mounts, PortTypeOK

LEMMA OthersMount ==
    ASSUME PortTypeOK, Mirrors,
           \/ \E unit \in 0 .. 2 : Status(unit)
           \/ ControlEject
           \/ \E blk \in 0 .. MaxBlock : SelectBlock(blk)
           \/ StreamRead \/ Reset \/ EjectDisk35 \/ LoadOther \/ SaveState \/ LoadState
           \/ \E f \in HardDisks : LoadHdd(f)
           \/ \E f \in Floppies : LoadDisk35(f) \/ SwapDisk35(f)
    PROVE  Mounts
<1>1. /\ disk35.path \in Path /\ hdd.path \in Path
      /\ disk35.protected \in BOOLEAN /\ hdd.protected \in BOOLEAN
      /\ selectedBlock \in Nat /\ streamOffset \in 0 .. BlockBytes - 1
      /\ changed \in BOOLEAN /\ switchIo \in BOOLEAN /\ known \in Path
      /\ saved # None => saved \in [hdd : Path, disk35 : Path, known : Path]
    BY DEF PortTypeOK, Device
<1>2. /\ BlockBytes \in Nat \ {0} /\ MaxBlock \in Nat
      /\ HardDisks \subseteq File /\ Floppies \subseteq File
    BY PortAssumption
<1>3. 0 \in 0 .. BlockBytes - 1 /\ Onward \in 0 .. BlockBytes - 1
    BY <1>1, <1>2 DEF Onward
<1>4. ASSUME NEW f \in File
      PROVE  Inserted(LoadImage(f)) /\ LoadImage(f).path = f /\ f # None /\ f \in Path
    BY PortAssumption DEF Inserted, LoadImage, Path
<1>5. ASSUME NEW d, d.protected \in BOOLEAN
      PROVE  Removed(Without(d)) /\ Without(d).path = None
    BY <1>5 DEF Removed, Emptied, Without, Empty
<1>6. None \in Path
    BY DEF Path
<1> DEFINE Still35 == disk35' = disk35 /\ behind35' = behind35
           StillHdd == /\ hdd' = hdd /\ torn' = torn /\ behindHdd' = behindHdd
                       /\ UNCHANGED <<selectedBlock, streamOffset>>
           New35 == (Inserted(disk35') \/ Removed(disk35')) /\ behind35' = {}
           NewHdd == /\ (Inserted(hdd') \/ Removed(hdd')) /\ torn' = {} /\ behindHdd' = {}
                     /\ selectedBlock' = 0 /\ streamOffset' = 0
<1>a. Remount35(Without(disk35)) => New35 /\ disk35'.path = None
    BY <1>1, <1>5 DEF Remount35
<1>b. EjectHdd => NewHdd
    BY <1>1, <1>5 DEF EjectHdd, RemountHdd
<1>c. ASSUME NEW f \in File
      PROVE  /\ Remount35(LoadImage(f)) => New35 /\ disk35'.path = f
             /\ RemountHdd(LoadImage(f)) => NewHdd
    BY <1>4 DEF Remount35, RemountHdd
<1>d. (Still35 \/ New35) /\ (StillHdd \/ NewHdd) /\ UNCHANGED <<writeBack, store>>
      /\ changed' \in BOOLEAN /\ switchIo' \in BOOLEAN /\ known' \in Path
      /\ (saved' # None => saved' \in [hdd : Path, disk35 : Path, known : Path])
      => Mounts
    BY <1>1, <1>3 DEF Mounts
<1>. HIDE DEF Still35, StillHdd, New35, NewHdd
<1>7. CASE \E unit \in 0 .. 2 : Status(unit)
    BY <1>1, <1>7 DEF Status, devices, drift, Mounts
<1>8. CASE ControlEject \/ EjectDisk35
    BY <1>1, <1>8, <1>a, <1>d DEF ControlEject, EjectDisk35, StillHdd
<1>9. CASE \E blk \in 0 .. MaxBlock : SelectBlock(blk)
    BY <1>1, <1>2, <1>3, <1>9 DEF SelectBlock, flags, drift, Mounts
<1>10. CASE StreamRead
    BY <1>1, <1>3, <1>10 DEF StreamRead, flags, drift, Mounts
<1>11. CASE Reset
    BY <1>1, <1>11 DEF Reset, Booted, devices, drift, Mounts
<1>13. CASE LoadOther
    <2>1. New35 /\ NewHdd /\ Booted /\ disk35'.path = None /\ UNCHANGED <<writeBack, store, saved>>
        BY <1>13, <1>a, <1>b DEF LoadOther
    <2>. QED
        BY <1>1, <1>6, <1>d, <2>1 DEF Booted
<1>14. CASE SaveState
    BY <1>1, <1>14 DEF SaveState, devices, drift, flags, Mounts
<1>15. CASE \E f \in HardDisks : LoadHdd(f)
    <2>1. PICK f \in HardDisks : LoadHdd(f)
        BY <1>15
    <2>2. /\ NewHdd /\ Still35 /\ UNCHANGED <<writeBack, store, saved>>
          /\ Booted \/ UNCHANGED <<changed, switchIo, known>>
        BY <1>2, <1>c, <2>1 DEF LoadHdd, flags, Still35
    <2>3. changed' \in BOOLEAN /\ switchIo' \in BOOLEAN /\ known' \in Path
        BY <1>1, <2>2 DEF Booted, Still35
    <2>. QED
        BY <1>1, <1>d, <2>2, <2>3
<1>16. CASE \E f \in Floppies : LoadDisk35(f)
    <2>1. PICK f \in Floppies : LoadDisk35(f)
        BY <1>16
    <2>2. /\ New35 /\ disk35'.path = f /\ f \in Path /\ UNCHANGED <<writeBack, store, saved>>
          /\ \/ EjectHdd /\ Booted
             \/ StillHdd /\ UNCHANGED <<changed, switchIo, known>>
        BY <1>2, <1>4, <1>c, <2>1 DEF LoadDisk35, flags, StillHdd
    <2>3. changed' \in BOOLEAN /\ switchIo' \in BOOLEAN /\ known' \in Path
        BY <1>1, <2>2 DEF Booted
    <2>. QED
        BY <1>1, <1>b, <1>d, <2>2, <2>3
<1>17. CASE \E f \in Floppies : SwapDisk35(f)
    <2>1. PICK f \in Floppies : SwapDisk35(f)
        BY <1>17
    <2>2. New35 /\ StillHdd /\ UNCHANGED <<writeBack, store, known, saved>>
          /\ changed' = TRUE /\ switchIo' = TRUE
        BY <1>2, <1>c, <2>1 DEF SwapDisk35, StillHdd
    <2>. QED
        BY <1>1, <1>d, <2>2
<1>18. CASE LoadState
    <2>1. /\ UNCHANGED <<writeBack, store, saved>> /\ changed' = FALSE /\ switchIo' = FALSE
          /\ known' = saved.known /\ saved # None
          /\ saved.hdd \in Path /\ saved.disk35 \in Path /\ saved.known \in Path
        BY <1>1, <1>18 DEF LoadState
    <2>2. Still35 \/ New35
        <3>1. CASE saved.disk35 = disk35.path
            BY <1>18, <3>1 DEF LoadState, Still35
        <3>2. CASE saved.disk35 # disk35.path /\ saved.disk35 = None
            BY <1>18, <1>a, <3>2 DEF LoadState
        <3>3. CASE saved.disk35 # disk35.path /\ saved.disk35 # None
            BY <1>18, <1>c, <2>1, <3>3 DEF LoadState, Path
        <3>. QED
            BY <3>1, <3>2, <3>3
    <2>3. StillHdd \/ NewHdd
        <3>1. CASE saved.hdd = hdd.path
            BY <1>18, <3>1 DEF LoadState, StillHdd
        <3>2. CASE saved.hdd # hdd.path /\ saved.hdd = None
            BY <1>18, <1>b, <3>2 DEF LoadState, EjectHdd
        <3>3. CASE saved.hdd # hdd.path /\ saved.hdd # None
            BY <1>18, <1>c, <2>1, <3>3 DEF LoadState, Path
        <3>. QED
            BY <3>1, <3>2, <3>3
    <2>. QED
        BY <1>1, <1>d, <2>1, <2>2, <2>3
<1>. QED
    BY <1>7, <1>8, <1>9, <1>10, <1>11, <1>13, <1>14, <1>15, <1>16, <1>17, <1>18

LEMMA PortStart == PortInit => PortTypeOK /\ Mirrors
<1> SUFFICES ASSUME PortInit PROVE PortTypeOK /\ Mirrors
    OBVIOUS
<1>1. PICK protected \in BOOLEAN : protected = FALSE
    OBVIOUS
<1>2. Emptied(protected) = [path |-> None, img |-> <<>>, protected |-> protected]
    BY DEF Empty, Emptied
<1>3. Emptied(protected) = Empty
    BY <1>1, <1>2 DEF Empty
<1>4. /\ Device(disk35) /\ disk35.path = None
      /\ Device(hdd) /\ hdd.path = None
    BY <1>3, EmptyDevice DEF PortInit
<1>5. Files(store) /\ \A f \in File : store[f] = Images[f].blocks
    BY PortAssumption DEF PortInit, Files
<1>6. 0 \in 0 .. BlockBytes - 1
    BY PortAssumption
<1>. QED
    BY <1>4, <1>5, <1>6 DEF PortInit, PortTypeOK, Mirrors, OnFile, Path

LEMMA PortStep == PortTypeOK /\ Mirrors /\ [PortNext]_portVars => PortTypeOK' /\ Mirrors'
<1> SUFFICES ASSUME PortTypeOK, Mirrors, [PortNext]_portVars PROVE PortTypeOK' /\ Mirrors'
    OBVIOUS
<1>1. CASE UNCHANGED portVars
    BY <1>1 DEF portVars, devices, drift, flags, PortTypeOK, Mirrors
<1>2. CASE \E blk \in 0 .. MaxBlock, op \in {<<>>} \cup Contents : BlockIo(blk, op)
    BY <1>2, BlockIoKeeps
<1>3. CASE \E v \in Datum : StreamWrite(v)
    BY <1>3, StreamKeeps
<1>4. ASSUME PortNext,
             ~(\E blk \in 0 .. MaxBlock, op \in {<<>>} \cup Contents : BlockIo(blk, op)),
             ~(\E v \in Datum : StreamWrite(v))
      PROVE  PortTypeOK' /\ Mirrors'
    <2>1. \/ \E unit \in 0 .. 2 : Status(unit)
          \/ ControlEject
          \/ \E blk \in 0 .. MaxBlock : SelectBlock(blk)
          \/ StreamRead \/ Reset \/ EjectDisk35 \/ LoadOther \/ SaveState \/ LoadState
          \/ \E f \in HardDisks : LoadHdd(f)
          \/ \E f \in Floppies : LoadDisk35(f) \/ SwapDisk35(f)
        BY <1>4 DEF PortNext
    <2>. QED
        BY <2>1, OthersMount, MountsKeep
<1>. QED
    BY <1>1, <1>2, <1>3, <1>4

THEOREM PortInvariant == PortSpec => [](PortTypeOK /\ Mirrors)
    BY PortStart, PortStep, PTL DEF PortSpec

\* After any sequence of block calls, streamed bytes, mounts, swaps, ejects,
\* resets, saves and loads, one file in both devices included, the host's files
\* hold the blocks the guest sees, but for hard-disk blocks written in part and
\* those the other device of the same file wrote last, and files that may not
\* change have not (ProDosHdd::flushBlock).
THEOREM WriteThroughHolds == PortSpec => []WriteThrough
<1>1. ASSUME PortTypeOK, Mirrors PROVE WriteThrough
    <2>1. Device(disk35) /\ Device(hdd)
        BY <1>1 DEF PortTypeOK
    <2>2. Loaded(disk35) => disk35.path # None
        BY <2>1, LoadedByFile
    <2>3. Loaded(hdd) => hdd.path # None
        BY <2>1, LoadedByFile
    <2>4. DOMAIN hdd.img = 1 .. Len(hdd.img) /\ DOMAIN disk35.img = 1 .. Len(disk35.img)
        BY <2>1 DEF Device
    <2>. QED
        BY <1>1, <2>2, <2>3, <2>4 DEF WriteThrough, Mirrors, OnFile
<1>. QED
    BY <1>1, PortInvariant, PTL

-----------------------------------------------------------------------------
(* Disk switches.                                                          *)

\* With no switch pending the guest knows the medium, and so does the guest of
\* the quick save.
Told ==
    /\ ~switchIo /\ Loaded(disk35) => known = disk35.path
    /\ saved # None /\ saved.disk35 # None /\ Loads(saved.disk35) => saved.known = saved.disk35

LEMMA ToldStep ==
    ASSUME ~SavePending
    PROVE  PortTypeOK /\ PortTypeOK' /\ Told /\ [PortNext]_portVars => Told'
<1> SUFFICES ASSUME PortTypeOK, PortTypeOK', Told, [PortNext]_portVars PROVE Told'
    OBVIOUS
<1>1. /\ Loaded(disk35) <=> disk35.path # None /\ Loads(disk35.path)
      /\ Loaded(disk35)' <=> disk35'.path # None /\ Loads(disk35'.path)
    <2>1. Device(disk35) /\ Device(disk35)'
        BY DEF PortTypeOK
    <2>2. ASSUME NEW d, Device(d) PROVE d.img # <<>> <=> d.path # None /\ Loads(d.path)
        BY <2>2, LoadedByFile DEF Loaded
    <2>3. Device(disk35')
        BY <2>1 DEF Device
    <2>. QED
        BY <2>1, <2>2, <2>3 DEF Loaded
<1>2. disk35.path = disk35'.path => (Loaded(disk35)' <=> Loaded(disk35))
    BY <1>1
<1>3. UNCHANGED saved \/ SaveState
    BY DEF PortNext, portVars, BlockIo, Status, ControlEject, SelectBlock, StreamRead, StreamWrite,
           Reset, EjectDisk35, LoadOther, LoadState, LoadHdd, LoadDisk35, SwapDisk35
<1>4. CASE UNCHANGED <<switchIo, known, saved>> /\ disk35'.path = disk35.path
    BY <1>2, <1>4 DEF Told
<1>5. CASE UNCHANGED saved /\ (switchIo' \/ known' = disk35'.path \/ ~Loaded(disk35)')
    BY <1>5 DEF Told
<1>6. CASE SaveState
    <2>1. /\ ~switchIo /\ saved' = [hdd |-> hdd.path, disk35 |-> disk35.path, known |-> known]
          /\ UNCHANGED <<disk35, switchIo, known>>
        BY <1>6 DEF SaveState, devices, flags
    <2>. QED
        BY <1>1, <2>1 DEF Told
<1>7. CASE LoadState
    <2>1. UNCHANGED saved /\ known' = saved.known /\ saved # None
        BY <1>7 DEF LoadState
    <2>2. disk35'.path = saved.disk35
        <3>1. saved.disk35 # None => saved.disk35 \in File
            BY <2>1 DEF PortTypeOK, Path
        <3>2. Without(disk35).path = None
            BY DEF Without, Empty
        <3>. QED
            BY <1>7, <3>1, <3>2 DEF LoadState, LoadImage, Remount35
    <2>. QED
        BY <1>1, <2>1, <2>2 DEF Told
<1>8. CASE UNCHANGED portVars
    BY <1>4, <1>8 DEF portVars, devices, flags
<1>9. CASE \E blk \in 0 .. MaxBlock, op \in {<<>>} \cup Contents : BlockIo(blk, op)
    <2>1. PICK blk \in 0 .. MaxBlock, op \in {<<>>} \cup Contents : BlockIo(blk, op)
        BY <1>9
    <2>2. UNCHANGED saved
        BY <2>1 DEF BlockIo
    <2>3. disk35'.path = disk35.path
        <3>1. Put(disk35, blk, op).path = disk35.path
            BY DEF Put, PortTypeOK, Device
        <3>. QED
            BY <2>1, <3>1 DEF BlockIo, Put
    <2>4. known' = disk35'.path \/ UNCHANGED <<switchIo, known>>
        BY <2>1 DEF BlockIo
    <2>. QED
        BY <1>4, <1>5, <2>2, <2>3, <2>4
<1>10. CASE \E unit \in 0 .. 2 : Status(unit)
    BY <1>4, <1>10 DEF Status, devices
<1>11. CASE ControlEject \/ EjectDisk35 \/ \E f \in Floppies : SwapDisk35(f)
    BY <1>5, <1>11 DEF ControlEject, EjectDisk35, SwapDisk35
<1>12. CASE \/ \E blk \in 0 .. MaxBlock : SelectBlock(blk)
            \/ StreamRead
            \/ \E v \in Datum : StreamWrite(v)
    BY <1>4, <1>12 DEF SelectBlock, StreamRead, StreamWrite, flags
<1>13. CASE Reset \/ LoadOther
    BY <1>5, <1>13 DEF Reset, LoadOther, Booted
<1>14. CASE \E f \in HardDisks : LoadHdd(f)
    BY <1>4, <1>5, <1>14 DEF LoadHdd, Booted, flags
<1>15. CASE \E f \in Floppies : LoadDisk35(f)
    <2>1. PICK f \in Floppies : LoadDisk35(f)
        BY <1>15
    <2>2. CASE Loads(f)
        BY <1>5, <2>1, <2>2 DEF LoadDisk35, Booted
    <2>3. CASE ~Loads(f)
        <3>1. disk35'.path = f /\ UNCHANGED saved
            BY <2>1 DEF LoadDisk35, LoadImage, Remount35
        <3>. QED
            BY <1>1, <1>5, <2>3, <3>1
    <2>. QED
        BY <2>2, <2>3
<1>. QED
    BY <1>6, <1>7, <1>8, <1>9, <1>10, <1>11, <1>12, <1>13, <1>14, <1>15 DEF PortNext

\* Only a block call on the medium is answered "ok".
LEMMA FreshStep ==
    ASSUME PortTypeOK, Told, PortNext PROVE ReplyFresh
<1> SUFFICES ASSUME reply' = "ok" PROVE known = disk35.path
    BY DEF ReplyFresh
<1>1. PICK blk \in 0 .. MaxBlock, op \in {<<>>} \cup Contents : BlockIo(blk, op)
    BY DEF PortNext, Status, ControlEject, SelectBlock, StreamRead, StreamWrite, Reset, EjectDisk35,
           LoadOther, SaveState, LoadState, LoadHdd, LoadDisk35, SwapDisk35, Booted
<1>2. ~switchIo /\ (ReadAnswer(disk35, blk) = "ok" \/ WriteAnswer(disk35, blk) = "ok")
    BY <1>1 DEF BlockIo
<1>3. InRange(disk35, blk)
    BY <1>2 DEF ReadAnswer, WriteAnswer
<1>4. Loaded(disk35)
    <2>1. Len(disk35.img) # 0 /\ disk35.img \in Seq(Block)
        BY <1>3, PortAssumption DEF InRange, PortTypeOK, Device
    <2>. QED
        BY <2>1 DEF Loaded
<1>. QED
    BY <1>2, <1>4 DEF Told

\* A machine that is never quick-saved with a disk switch pending answers no
\* block call from a medium its guest was not told of: whatever is swapped,
\* ejected, loaded and polled in between, the first call says "disk switched"
\* (IIgsMemory.h:232-239).
THEOREM NoStaleIoHolds == ASSUME ~SavePending PROVE PortSpec => NoStaleIo
<1>1. PortInit => Told
    BY DEF PortInit, Told, Empty, Loaded
<1>2. PortTypeOK /\ PortTypeOK' /\ Told /\ [PortNext]_portVars => Told'
    BY ToldStep
<1>3. PortTypeOK /\ Told /\ [PortNext]_portVars => [ReplyFresh]_portVars
    BY FreshStep
<1>. QED
    BY <1>1, <1>2, <1>3, PortInvariant, PTL DEF PortSpec, NoStaleIo

-----------------------------------------------------------------------------
(* The battery RAM's file.                                                 *)

\* What has changed since the file was written is marked dirty.
THEOREM BatteryKeptHolds == ClockSpec => []BatteryKept
<1> USE DEF BatteryKept
<1>1. ClockInit => BatteryKept
  BY DEF ClockInit, Restored, NoFile
<1>2. BatteryKept /\ [ClockNext]_clockVars => BatteryKept'
  <2> SUFFICES ASSUME BatteryKept, [ClockNext]_clockVars PROVE BatteryKept'
    OBVIOUS
  <2>1. ASSUME UNCHANGED <<bram, rtcOffset, bramDirty, bramFile, replaced>>
        PROVE  BatteryKept'
    BY <2>1 DEF Restored
  <2>2. ASSUME NEW f, Restart(f) PROVE BatteryKept'
    BY <2>2 DEF Restart, Restored, Blank
  <2>3. ASSUME NEW opens \in BOOLEAN, Frame(opens) PROVE BatteryKept'
    <3>1. CASE UNCHANGED <<bramFile, bramDirty, replaced>>
      BY <2>1, <2>3, <3>1 DEF Frame
    <3>2. CASE bramFile' = Written
      BY <2>3, <3>2 DEF Frame, Restored, Written
    <3>. QED
      BY <2>3, <3>1, <3>2 DEF Frame, SaveBram
  <2>4. ASSUME NEW rd \in BOOLEAN, Strobe(rd) PROVE BatteryKept'
    <3>1. CASE CommandStrobe(rd) \/ AddressStrobe
      BY <2>1, <2>4, <3>1 DEF Strobe, CommandStrobe, AddressStrobe, battery
    <3>2. CASE DataStrobe(rd)
      <4>1. CASE UNCHANGED battery
        BY <2>1, <2>4, <4>1 DEF Strobe, battery
      <4>2. CASE ~ bramDirty' /\ ~ UNCHANGED battery
        <5>1. ~ bramDirty /\ bram' = bram /\ clkSrc # "seconds"
          BY <3>2, <4>2 DEF DataStrobe
        <5>2. rtcOffset' = rtcOffset
          BY <3>2, <4>2, <5>1 DEF DataStrobe
        <5>. QED
          BY <2>4, <5>1, <5>2 DEF Strobe, Restored
      <4>. QED
        BY <4>1, <4>2
    <3>. QED
      BY <2>4, <3>1, <3>2 DEF Strobe
  <2>5. CASE UNCHANGED clockVars
    BY <2>1, <2>5 DEF clockVars, battery
  <2>6. ASSUME NEW v \in Bytes, WriteData(v) PROVE BatteryKept'
    BY <2>1, <2>6 DEF WriteData, battery
  <2>7. CASE ResetChip
    BY <2>1, <2>7 DEF ResetChip, battery
  <2>8. ASSUME NEW t \in HostTimes, HostClock(t) PROVE BatteryKept'
    BY <2>1, <2>8 DEF HostClock, battery
  <2>9. ASSUME NEW s \in Snapshots, LoadSnapshot(s) PROVE BatteryKept'
    BY <2>9 DEF LoadSnapshot
  <2>. QED
    BY <2>2, <2>3, <2>4, <2>5, <2>6, <2>7, <2>8, <2>9 DEF ClockNext, Quit, Killed
<1>. QED
  BY <1>1, <1>2, PTL DEF ClockSpec

-----------------------------------------------------------------------------
(* The chip of the code: 256 cells, bytes of eight bits, a counter of four. *)

TheChip == Addresses = 0 .. 255 /\ Radix = 256 /\ ClockBytes = 4
ChipByte == 0 .. 255

\* The fields of a command byte.
LEMMA CommandFields ==
    ASSUME NEW cmd \in ChipByte
    PROVE  /\ Reg(cmd) \in 0 .. 3 /\ Op(cmd) \in 0 .. 7
           /\ (cmd \div 4) % 16 = 4 * (Op(cmd) % 4) + Reg(cmd)
           /\ 32 * (cmd % 8) \in 0 .. 224
           /\ (cmd \div 4) % 32 \in 0 .. 31
BY SMTT(60) DEF Reg, Op, ChipByte

\* A transaction of one byte or two names a cell of the chip.
LEMMA NamedCell ==
    ASSUME NEW bytes \in Seq(ChipByte), Len(bytes) \in 1 .. 2
    PROVE  Named(bytes) \in 0 .. 255
<1>1. bytes[1] \in ChipByte /\ (Len(bytes) = 2 => bytes[2] \in ChipByte)
  OBVIOUS
<1>2. \A c, d \in ChipByte : 32 * (c % 8) + ((d \div 4) % 32) \in 0 .. 255
  BY DEF ChipByte
<1>3. \A c \in ChipByte : 16 + Reg(c) \in 0 .. 255 /\ (c \div 4) % 16 \in 0 .. 255
  BY DEF ChipByte, Reg
<1> DEFINE c == bytes[1]
           d == bytes[2]
<1>4. Named(bytes) = IF Len(bytes) = 2 THEN 32 * (c % 8) + ((d \div 4) % 32)
                     ELSE IF Op(c) = 2 THEN 16 + Reg(c) ELSE (c \div 4) % 16
  BY DEF Named
<1>5. c \in ChipByte /\ (Len(bytes) = 2 => d \in ChipByte)
  BY <1>1
<1> HIDE DEF c, d
<1>. QED
  BY <1>2, <1>3, <1>4, <1>5

\* A whole number is a multiple of the counter's width and a rest, in one way.
LEMMA CounterRest ==
    ASSUME NEW n \in Int
    PROVE  /\ n % 4294967296 \in Int /\ 0 <= n % 4294967296 /\ n % 4294967296 < 4294967296
           /\ n \div 4294967296 \in Int
           /\ n = 4294967296 * (n \div 4294967296) + (n % 4294967296)
BY SMT

LEMMA RestUnique ==
    ASSUME NEW q \in Int, NEW r \in Int, 0 <= r, r < 4294967296,
           NEW n \in Int, n = 4294967296 * q + r
    PROVE  n % 4294967296 = r
BY SMT

\* The counter's places, in the chip of the code.
LEMMA Widths ==
    ASSUME TheChip
    PROVE  /\ Place(0) = 1 /\ Place(1) = 256 /\ Place(2) = 65536 /\ Place(3) = 16777216
           /\ Wrap = 4294967296
<1>1. Place(0) = 1 /\ Place(1) = Radix /\ Place(2) = Radix * Radix
      /\ Place(3) = Radix * Radix * Radix /\ Place(4) = Radix * Radix * Radix * Radix
  BY DEF Place
<1>2. 256 * 256 = 65536 /\ 256 * 256 * 256 = 16777216 /\ 256 * 256 * 256 * 256 = 4294967296
  BY SMT
<1>. QED
  BY <1>1, <1>2, SMT DEF TheChip, Wrap

LEMMA SecondsRange ==
    ASSUME TheChip, rtcOffset \in Int, hostTime \in Nat
    PROVE  rtcSeconds \in Int /\ 0 <= rtcSeconds /\ rtcSeconds < 4294967296
BY Widths, CounterRest, SMT DEF rtcSeconds

\* The four bytes of a counter of 32 bits, in one way.
LEMMA FourBytes ==
    ASSUME NEW s \in Int, 0 <= s, s < 4294967296
    PROVE  \E b0, b1, b2, b3 \in ChipByte :
             s = b0 + 256 * b1 + 65536 * b2 + 16777216 * b3
<1> DEFINE b0 == s % 256
           q1 == s \div 256
           b1 == q1 % 256
           q2 == q1 \div 256
           b2 == q2 % 256
           b3 == q2 \div 256
<1>1. b0 \in ChipByte /\ q1 \in Int /\ 0 <= q1 /\ q1 < 16777216 /\ s = 256 * q1 + b0
  BY SMT DEF ChipByte
<1> HIDE DEF b0, q1
<1>2. b1 \in ChipByte /\ q2 \in Int /\ 0 <= q2 /\ q2 < 65536 /\ q1 = 256 * q2 + b1
  BY <1>1, SMT DEF ChipByte
<1> HIDE DEF b1, q2
<1>3. b2 \in ChipByte /\ b3 \in ChipByte /\ q2 = 256 * b3 + b2
  BY <1>2, SMT DEF ChipByte
<1> HIDE DEF b2, b3
<1>4. s = b0 + 256 * b1 + 65536 * b2 + 16777216 * b3
  BY <1>1, <1>2, <1>3, SMT DEF ChipByte
<1>. QED
  BY <1>1, <1>2, <1>3, <1>4, SMT

LEMMA BytesOf ==
    ASSUME NEW b0 \in ChipByte, NEW b1 \in ChipByte, NEW b2 \in ChipByte, NEW b3 \in ChipByte,
           NEW s, s = b0 + 256 * b1 + 65536 * b2 + 16777216 * b3
    PROVE  /\ s \in Int /\ 0 <= s /\ s < 4294967296
           /\ (s \div 1) % 256 = b0 /\ (s \div 256) % 256 = b1
           /\ (s \div 65536) % 256 = b2 /\ (s \div 16777216) % 256 = b3
<1>1. s \in Int /\ 0 <= s /\ s < 4294967296
  BY SMT DEF ChipByte
<1>2. s \div 16777216 = b3 /\ b3 % 256 = b3
  BY <1>1, SMT DEF ChipByte
<1>3. s \div 65536 = b2 + 256 * b3 /\ (b2 + 256 * b3) % 256 = b2
  BY <1>1, SMT DEF ChipByte
<1>4. s \div 256 = b1 + 256 * (b2 + 256 * b3)
  BY <1>1, SMT DEF ChipByte
<1>5. (b1 + 256 * (b2 + 256 * b3)) % 256 = b1
  BY SMT DEF ChipByte
<1>6. s \div 1 = s /\ s % 256 = b0
  BY <1>1, SMT DEF ChipByte
<1>. QED
  BY <1>1, <1>2, <1>3, <1>4, <1>5, <1>6, SMT

LEMMA ClockByte ==
    ASSUME TheChip, rtcOffset \in Int, hostTime \in Nat, NEW n \in 0 .. 3
    PROVE  rtcByte(n) \in ChipByte
<1>1. PICK b0, b1, b2, b3 \in ChipByte :
        rtcSeconds = b0 + 256 * b1 + 65536 * b2 + 16777216 * b3
  BY SecondsRange, FourBytes, SMTT(60)
<1>2. \A i \in 0 .. 3 : rtcByte(i) = (rtcSeconds \div Place(i)) % 256
  BY Zenon DEF rtcByte, TheChip
<1>3. rtcByte(0) = b0 /\ rtcByte(1) = b1 /\ rtcByte(2) = b2 /\ rtcByte(3) = b3
  BY <1>1, <1>2, BytesOf, Widths, SMT
<1>. QED
  BY <1>3, SMT

\* A set clock's offset is a number.
LEMMA OffsetSet ==
    ASSUME TheChip, rtcOffset \in Int, hostTime \in Nat, NEW k \in 0 .. 3, NEW v \in ChipByte
    PROVE  rtcWriteByte(k, v) \in Int
<1>1. rtcByte(k) \in Int /\ v \in Int
  BY ClockByte, SMT DEF ChipByte
<1>2. Place(k) \in Int
  BY Widths, SMT
<1>3. rtcOffset + (v - rtcByte(k)) * Place(k) \in Int
  BY <1>1, <1>2, SMT
<1>. QED
  BY <1>3, Widths, CounterRest, SMT DEF rtcWriteByte

\* The offset moves the counter by what is added to it, its width's multiples
\* apart.
LEMMA Shifted ==
    ASSUME NEW h \in Int, NEW o \in Int, NEW d \in Int, NEW s \in Int,
           s = (h + o) % 4294967296, 0 <= s + d, s + d < 4294967296
    PROVE  (h + ((o + d) % 4294967296)) % 4294967296 = s + d
<1>1. PICK q1 \in Int : h + o = 4294967296 * q1 + s
  BY CounterRest, SMT
<1>2. PICK q2 \in Int, r \in Int : o + d = 4294967296 * q2 + r /\ r = (o + d) % 4294967296
  BY CounterRest, SMT
<1>3. h + r = 4294967296 * (q1 - q2) + (s + d)
  BY <1>1, <1>2, SMT
<1>4. (h + r) % 4294967296 = s + d
  BY <1>3, RestUnique, SMT
<1>. QED
  BY <1>2, <1>4, SMT

\* A clock byte set reads back at once, and the other bytes read as before.
LEMMA SecondsSet ==
    ASSUME TheChip, rtcOffset \in Int, hostTime \in Nat, hostTime' = hostTime,
           NEW k \in 0 .. 3, NEW v \in ChipByte, rtcOffset' = rtcWriteByte(k, v)
    PROVE  \A n \in 0 .. 3 : rtcByte(n)' = IF n = k THEN v ELSE rtcByte(n)
<1> DEFINE s == rtcSeconds
           t == rtcSeconds'
           d == (v - rtcByte(k)) * Place(k)
<1>1. s \in Int /\ 0 <= s /\ s < 4294967296 /\ s = (hostTime + rtcOffset) % 4294967296
  BY SecondsRange, Widths, SMT DEF rtcSeconds
<1>2. t = (hostTime + ((rtcOffset + d) % 4294967296)) % 4294967296
  BY Widths, SMT DEF rtcSeconds, rtcWriteByte
<1>3. \A n \in 0 .. 3 : /\ rtcByte(n) = (s \div Place(n)) % 256
                        /\ rtcByte(n)' = (t \div Place(n)) % 256
  BY Zenon DEF rtcByte, TheChip
<1> HIDE DEF s, t
<1>4. PICK b0, b1, b2, b3 \in ChipByte :
        s = b0 + 256 * b1 + 65536 * b2 + 16777216 * b3
  BY <1>1, FourBytes, SMT
<1>5. /\ rtcByte(0) = b0 /\ rtcByte(1) = b1 /\ rtcByte(2) = b2 /\ rtcByte(3) = b3
  BY <1>3, <1>4, BytesOf, Widths, SMT
<1>6. ASSUME NEW c0 \in ChipByte, NEW c1 \in ChipByte, NEW c2 \in ChipByte, NEW c3 \in ChipByte,
             s + d = c0 + 256 * c1 + 65536 * c2 + 16777216 * c3, d \in Int
      PROVE  /\ rtcByte(0)' = c0 /\ rtcByte(1)' = c1 /\ rtcByte(2)' = c2 /\ rtcByte(3)' = c3
  <2> HIDE DEF d
  <2>1. s + d \in Int /\ 0 <= s + d /\ s + d < 4294967296
    BY <1>6, BytesOf, SMT
  <2>2. t = s + d
    BY <1>1, <1>2, <1>6, <2>1, Shifted, SMT
  <2>. QED
    BY <1>3, <1>6, <2>2, BytesOf, Widths, SMT
<1>7. CASE k = 0
  <2>1. d = v - b0
    BY <1>5, <1>7, Widths, SMT DEF ChipByte
  <2>2. d \in Int /\ s + d = v + 256 * b1 + 65536 * b2 + 16777216 * b3
    BY <1>4, <2>1, SMT DEF ChipByte
  <2> HIDE DEF d
  <2>. QED
    BY <1>5, <1>6, <1>7, <2>2, SMT
<1>8. CASE k = 1
  <2>1. d = (v - b1) * 256
    BY <1>5, <1>8, Widths, SMT DEF ChipByte
  <2>2. d \in Int /\ s + d = b0 + 256 * v + 65536 * b2 + 16777216 * b3
    BY <1>4, <2>1, SMT DEF ChipByte
  <2> HIDE DEF d
  <2>. QED
    BY <1>5, <1>6, <1>8, <2>2, SMT
<1>9. CASE k = 2
  <2>1. d = (v - b2) * 65536
    BY <1>5, <1>9, Widths, SMT DEF ChipByte
  <2>2. d \in Int /\ s + d = b0 + 256 * b1 + 65536 * v + 16777216 * b3
    BY <1>4, <2>1, SMT DEF ChipByte
  <2> HIDE DEF d
  <2>. QED
    BY <1>5, <1>6, <1>9, <2>2, SMT
<1>10. CASE k = 3
  <2>1. d = (v - b3) * 16777216
    BY <1>5, <1>10, Widths, SMT DEF ChipByte
  <2>2. d \in Int /\ s + d = b0 + 256 * b1 + 65536 * b2 + 16777216 * v
    BY <1>4, <2>1, SMT DEF ChipByte
  <2> HIDE DEF d
  <2>. QED
    BY <1>5, <1>6, <1>10, <2>2, SMT
<1>. QED
  BY <1>7, <1>8, <1>9, <1>10, SMT

-----------------------------------------------------------------------------
(* The transaction.                                                        *)

\* Registers, memory and file, and what the chip remembers of its transaction,
\* in the chip of the code.
ChipTypeOK ==
    /\ Remembers(clkState, clkSrc, clkAddr, clkReg, sent)
    /\ clkData \in ChipByte /\ clkReg \in 0 .. 3 /\ sent \in Seq(ChipByte)
    /\ clkAddr \in 0 .. 255
    /\ clkInternal \in [0 .. 1 -> ChipByte]
    /\ bram \in [0 .. 255 -> ChipByte] /\ rtcOffset \in Int
    /\ hostTime \in Nat

SavedOK == bramFile.whole => bramFile.bram \in [0 .. 255 -> ChipByte] /\ bramFile.offset \in Int

LEMMA ChipInit == ASSUME TheChip, ClockInit PROVE ChipTypeOK /\ SavedOK
<1>1. Remembers(clkState, clkSrc, clkAddr, clkReg, sent)
  BY DEF ClockInit, Remembers
<1>2. ~ NoFile.whole /\ bramFile = NoFile
  BY DEF ClockInit, NoFile
<1>3. bram = [a \in 0 .. 255 |-> 0] /\ rtcOffset = 0
  BY <1>2 DEF ClockInit, Restored, Blank, TheChip
<1>4. /\ clkData \in ChipByte /\ clkReg \in 0 .. 3 /\ sent \in Seq(ChipByte)
      /\ clkAddr \in 0 .. 255 /\ clkInternal \in [0 .. 1 -> ChipByte]
      /\ bram \in [0 .. 255 -> ChipByte] /\ rtcOffset \in Int /\ hostTime \in Nat
  BY <1>3 DEF ClockInit, ChipByte
<1>. QED
  BY <1>1, <1>2, <1>4 DEF ChipTypeOK, SavedOK

\* What the assumption on the constants says of the chip of the code.
LEMMA GuestBytes ==
    ASSUME TheChip
    PROVE  /\ Bytes \subseteq ChipByte /\ HostTimes \subseteq Nat
           /\ \A s \in Snapshots :
                /\ Remembers(s.state, s.src, s.addr, s.reg, s.sent)
                /\ s.data \in ChipByte /\ s.reg \in 0 .. 3 /\ s.addr \in 0 .. 255
                /\ s.sent \in Seq(ChipByte) /\ s.internal \in [0 .. 1 -> ChipByte]
                /\ s.bram \in [0 .. 255 -> ChipByte]
<1>1. 0 .. Radix - 1 = ChipByte
  <2>1. Radix - 1 = 255
    BY DEF TheChip
  <2>. QED
    BY <2>1 DEF ChipByte
<1>2. Addresses = 0 .. 255
  BY DEF TheChip
<1>3. Bytes \subseteq ChipByte /\ HostTimes \subseteq Nat
  BY <1>1, ClockAssumption, Zenon
<1>4. ASSUME NEW s \in Snapshots
      PROVE  /\ Remembers(s.state, s.src, s.addr, s.reg, s.sent)
             /\ s.data \in ChipByte /\ s.reg \in 0 .. 3 /\ s.addr \in 0 .. 255
             /\ s.sent \in Seq(ChipByte) /\ s.internal \in [0 .. 1 -> ChipByte]
             /\ s.bram \in [0 .. 255 -> ChipByte]
  <2>1. /\ Remembers(s.state, s.src, s.addr, s.reg, s.sent)
        /\ s.reg \in 0 .. 3 /\ s.addr \in 0 .. 255
    BY ClockAssumption, SMTT(60)
  <2>2. s.data \in ChipByte /\ s.sent \in Seq(ChipByte)
    BY <1>1, ClockAssumption, Zenon
  <2>3. s.internal \in [0 .. 1 -> ChipByte]
    BY <1>1, ClockAssumption, Zenon
  <2>4. s.bram \in [0 .. 255 -> ChipByte]
    BY <1>1, <1>2, ClockAssumption, Zenon
  <2>. QED
    BY <2>1, <2>2, <2>3, <2>4, Zenon
<1>. QED
  BY <1>3, <1>4, Zenon

LEMMA AppendFacts ==
    ASSUME NEW C, NEW s \in Seq(C), NEW c \in C
    PROVE  /\ Append(s, c) \in Seq(C) /\ Append(s, c) # <<>>
           /\ Len(Append(s, c)) = Len(s) + 1
           /\ 1 \in 1 .. Len(s) => Append(s, c)[1] = s[1]
           /\ Append(s, c)[Len(s) + 1] = c
<1>1. Append(s, c) \in Seq(C) /\ Append(s, c) # <<>>
  BY AppendProperties, Zenon
<1>2. Len(Append(s, c)) = Len(s) + 1
  OBVIOUS
<1>3. \A i \in 1 .. Len(s) : Append(s, c)[i] = s[i]
  OBVIOUS
<1>4. Append(s, c)[Len(s) + 1] = c
  OBVIOUS
<1>. QED
  BY <1>1, <1>2, <1>3, <1>4, Zenon

\* The second byte of a transaction.
LEMMA SecondByte ==
    ASSUME NEW s \in Seq(ChipByte), NEW c \in ChipByte, Len(s) = 1
    PROVE  /\ Append(s, c) \in Seq(ChipByte) /\ Len(Append(s, c)) = 2
           /\ Append(s, c)[1] = s[1] /\ Append(s, c)[2] = c
           /\ Append(s, c) # <<>>
<1>1. /\ Append(s, c) \in Seq(ChipByte) /\ Append(s, c) # <<>>
      /\ Len(Append(s, c)) = Len(s) + 1 /\ Append(s, c)[Len(s) + 1] = c
      /\ 1 \in 1 .. Len(s) => Append(s, c)[1] = s[1]
  BY AppendFacts, ZenonT(60)
<1> DEFINE t == Append(s, c)
<1> HIDE DEF t
<1>2. 1 \in 1 .. Len(s) /\ Len(s) + 1 = 2
  OBVIOUS
<1>. QED
  BY <1>1, <1>2, Zenon

LEMMA ChipStep ==
    ASSUME TheChip, ChipTypeOK /\ SavedOK, [ClockNext]_clockVars PROVE (ChipTypeOK /\ SavedOK)'
<1>1. ASSUME NEW v \in Bytes, WriteData(v) PROVE (ChipTypeOK /\ SavedOK)'
  <2>1. v \in ChipByte
    BY GuestBytes
  <2>. QED
    BY <1>1, <2>1, SMTT(60) DEF WriteData, ChipTypeOK, SavedOK, battery, Remembers
<1>2. ASSUME NEW rd \in BOOLEAN, Strobe(rd) PROVE (ChipTypeOK /\ SavedOK)'
  <2>1. SavedOK' /\ hostTime' \in Nat
    BY <1>2 DEF Strobe, SavedOK, ChipTypeOK
  <2>2. CASE CommandStrobe(rd)
    <3>1. /\ UNCHANGED <<clkData, clkInternal, bram, rtcOffset>>
      BY <2>2 DEF CommandStrobe, battery
    <3>2. CASE rd
      <4>1. UNCHANGED <<clkState, clkSrc, clkAddr, clkReg, sent>>
        BY <2>2, <3>2 DEF CommandStrobe
      <4>. QED
        BY <2>1, <3>1, <4>1 DEF ChipTypeOK, Remembers
    <3>3. CASE ~ rd
      <4> DEFINE cmd == clkData
      <4>0. cmd \in ChipByte
        BY DEF ChipTypeOK
      <4>1. /\ Reg(cmd) \in 0 .. 3 /\ Op(cmd) \in 0 .. 7
            /\ (cmd \div 4) % 16 = 4 * (Op(cmd) % 4) + Reg(cmd)
            /\ 32 * (cmd % 8) \in 0 .. 224
        BY <4>0, CommandFields, Zenon
      <4>2. /\ sent' # <<>> /\ Len(sent') = 1 /\ sent'[1] = cmd
            /\ sent' \in Seq(ChipByte)
        <5>1. sent' = <<cmd>>
          BY <2>2, <3>3 DEF CommandStrobe
        <5> HIDE DEF cmd
        <5>. QED
          BY <4>0, <5>1
      <4>3. CASE Extended(cmd)
        <5>1. /\ clkState' = "addr" /\ clkSrc' = "bram"
              /\ clkAddr' = 32 * (cmd % 8) /\ clkReg' = clkReg
          BY <2>2, <3>3, <4>3 DEF CommandStrobe, Extended
        <5>2. Remembers(clkState, clkSrc, clkAddr, clkReg, sent)'
          BY <4>2, <4>3, <5>1 DEF Remembers
        <5>3. clkAddr' \in 0 .. 255
          BY <4>1, <5>1
        <5>. QED
          BY <2>1, <3>1, <4>1, <4>2, <5>1, <5>2, <5>3 DEF ChipTypeOK
      <4>4. CASE ~ Extended(cmd) /\ Op(cmd) \in {0, 3}
        <5>1. /\ clkState' = "data" /\ clkReg' = Reg(cmd)
              /\ clkSrc' = (IF Op(cmd) = 0 THEN "seconds" ELSE "internal")
          BY <2>2, <3>3, <4>4 DEF CommandStrobe
        <5>2. clkAddr' = clkAddr
          BY <2>2, <3>3, <4>4 DEF CommandStrobe
        <5>3. Remembers(clkState, clkSrc, clkAddr, clkReg, sent)'
          BY <4>2, <4>4, <5>1 DEF Remembers
        <5>. QED
          BY <2>1, <3>1, <4>1, <4>2, <5>1, <5>2, <5>3 DEF ChipTypeOK
      <4>5. CASE Op(cmd) = 2
        <5>1. clkState' = "data" /\ clkSrc' = "bram" /\ clkAddr' = 16 + Reg(cmd) /\ clkReg' = clkReg
          BY <2>2, <3>3, <4>5 DEF CommandStrobe, Extended
        <5>2. Named(sent') = clkAddr'
          BY <4>2, <4>5, <5>1 DEF Named
        <5>3. Remembers(clkState, clkSrc, clkAddr, clkReg, sent)'
          BY <4>2, <5>1, <5>2 DEF Remembers
        <5>4. clkAddr' \in 0 .. 255
          BY <4>1, <5>1
        <5>. QED
          BY <2>1, <3>1, <4>1, <4>2, <5>1, <5>3, <5>4 DEF ChipTypeOK
      <4>6. CASE Op(cmd) \in {1, 4, 5, 6, 7}
        <5>1. /\ clkState' = "data" /\ clkSrc' = "bram" /\ clkReg' = clkReg
              /\ clkAddr' = 4 * (Op(cmd) % 4) + Reg(cmd)
          BY <2>2, <3>3, <4>6 DEF CommandStrobe, Extended
        <5>2. Named(sent') = clkAddr'
          BY <4>1, <4>2, <4>6, <5>1 DEF Named
        <5>3. Remembers(clkState, clkSrc, clkAddr, clkReg, sent)'
          BY <4>2, <5>1, <5>2 DEF Remembers
        <5>4. clkAddr' \in 0 .. 255
          BY <4>1, <4>6, <5>1
        <5>. QED
          BY <2>1, <3>1, <4>1, <4>2, <5>1, <5>3, <5>4 DEF ChipTypeOK
      <4>. QED
        BY <4>1, <4>3, <4>4, <4>5, <4>6
    <3>. QED
      BY <3>2, <3>3
  <2>3. CASE AddressStrobe
    <3>1. /\ UNCHANGED <<clkSrc, clkData, clkReg, clkInternal, bram, rtcOffset>>
          /\ clkState' = "data" /\ clkAddr' = clkAddr + ((clkData \div 4) % 32)
          /\ sent' = Append(sent, clkData) /\ clkState = "addr"
      BY <2>3 DEF AddressStrobe, battery
    <3>2. Len(sent) = 1 /\ clkAddr = 32 * (sent[1] % 8) /\ clkSrc = "bram"
      BY <3>1 DEF ChipTypeOK, Remembers
    <3>3. /\ sent' \in Seq(ChipByte) /\ Len(sent') = 2 /\ sent'[1] = sent[1]
          /\ sent'[2] = clkData /\ sent' # <<>>
      <4>1. sent \in Seq(ChipByte) /\ clkData \in ChipByte
        BY DEF ChipTypeOK
      <4>. QED
        BY <3>1, <3>2, <4>1, SecondByte
    <3>4. clkAddr' = Named(sent')
      BY <3>1, <3>2, <3>3 DEF Named
    <3>5. clkAddr' \in 0 .. 255
      <4>1. Named(sent') \in 0 .. 255
        BY <3>3, NamedCell
      <4>. QED
        BY <3>4, <4>1
    <3>6. Remembers(clkState, clkSrc, clkAddr, clkReg, sent)'
      BY <3>1, <3>2, <3>3, <3>4 DEF Remembers
    <3>. QED
      BY <2>1, <3>1, <3>3, <3>5, <3>6 DEF ChipTypeOK
  <2>4. CASE DataStrobe(rd)
    <3>1. clkState' = "idle" /\ sent' = <<>> /\ UNCHANGED <<clkSrc, clkAddr, clkReg>>
      BY <2>4 DEF DataStrobe
    <3>2. Remembers(clkState, clkSrc, clkAddr, clkReg, sent)'
      BY <3>1 DEF Remembers, ChipTypeOK
    <3>3. CASE rd
      <4>1. UNCHANGED <<clkInternal, bram, rtcOffset>>
        BY <2>4, <3>3 DEF DataStrobe, battery
      <4>2. clkData' \in ChipByte
        <5>1. CASE clkSrc = "seconds"
          <6>1. clkData' = rtcByte(clkReg)
            BY <2>4, <3>3, <5>1 DEF DataStrobe
          <6>. QED
            BY <6>1, ClockByte DEF ChipTypeOK
        <5>2. CASE clkSrc = "internal"
          <6>1. clkData' = clkInternal[clkReg % 2]
            BY <2>4, <3>3, <5>2 DEF DataStrobe
          <6>2. clkReg % 2 \in 0 .. 1
            BY DEF ChipTypeOK
          <6>. QED
            BY <6>1, <6>2 DEF ChipTypeOK
        <5>3. CASE clkSrc = "bram"
          <6>1. clkData' = bram[clkAddr]
            BY <2>4, <3>3, <5>3 DEF DataStrobe
          <6>. QED
            BY <6>1 DEF ChipTypeOK
        <5>. QED
          BY <5>1, <5>2, <5>3 DEF ChipTypeOK, Remembers
      <4>. QED
        BY <2>1, <3>1, <3>2, <4>1, <4>2 DEF ChipTypeOK
    <3>4. CASE ~ rd
      <4>1. bram' \in [0 .. 255 -> ChipByte]
        <5>1. bram' = bram \/ bram' = [bram EXCEPT ![clkAddr] = clkData]
          BY <2>4, <3>4 DEF DataStrobe
        <5>. QED
          BY <5>1, ZenonT(60) DEF ChipTypeOK
      <4>2. rtcOffset' \in Int
        <5>1. rtcOffset' = rtcOffset \/ rtcOffset' = rtcWriteByte(clkReg, clkData)
          BY <2>4, <3>4 DEF DataStrobe
        <5>2. rtcWriteByte(clkReg, clkData) \in Int
          BY OffsetSet DEF ChipTypeOK
        <5>. QED
          BY <5>1, <5>2 DEF ChipTypeOK
      <4>3. clkInternal' \in [0 .. 1 -> ChipByte] /\ clkData' = clkData
        <5>1. /\ clkData' = clkData
              /\ \/ clkInternal' = clkInternal
                 \/ clkInternal' = [clkInternal EXCEPT ![clkReg % 2] = clkData]
          BY <2>4, <3>4 DEF DataStrobe
        <5>. QED
          BY <5>1, ZenonT(60) DEF ChipTypeOK
      <4>. QED
        BY <2>1, <3>1, <3>2, <4>1, <4>2, <4>3 DEF ChipTypeOK
    <3>. QED
      BY <3>3, <3>4
  <2>. QED
    BY <1>2, <2>2, <2>3, <2>4 DEF Strobe
<1>3. CASE ResetChip
  <2>1. Remembers(clkState, clkSrc, clkAddr, clkReg, sent)'
    BY <1>3 DEF ResetChip, Remembers, ChipTypeOK
  <2>2. clkData' \in ChipByte /\ sent' \in Seq(ChipByte)
    BY <1>3 DEF ResetChip, ChipByte
  <2>. QED
    BY <1>3, <2>1, <2>2 DEF ResetChip, ChipTypeOK, SavedOK, battery
<1>4. ASSUME NEW f, Restart(f), f.whole => f.bram \in [0 .. 255 -> ChipByte] /\ f.offset \in Int
      PROVE  (ChipTypeOK /\ SavedOK)'
  <2>1. bram' \in [0 .. 255 -> ChipByte] /\ rtcOffset' \in Int
    <3>1. CASE f.whole
      BY <1>4, <3>1 DEF Restart, Restored
    <3>2. CASE ~ f.whole
      <4>1. bram' = Blank /\ rtcOffset' = 0
        BY <1>4, <3>2 DEF Restart, Restored
      <4>. QED
        BY <4>1 DEF Blank, TheChip, ChipByte
    <3>. QED
      BY <3>1, <3>2
  <2>2. Remembers(clkState, clkSrc, clkAddr, clkReg, sent)'
    BY <1>4 DEF Restart, Remembers
  <2>3. SavedOK'
    BY <1>4 DEF Restart, SavedOK
  <2>4. /\ clkData' \in ChipByte /\ clkReg' \in 0 .. 3 /\ sent' \in Seq(ChipByte)
        /\ clkAddr' \in 0 .. 255 /\ clkInternal' \in [0 .. 1 -> ChipByte]
    <3>1. /\ clkData' = 0 /\ clkReg' = 0 /\ sent' = <<>> /\ clkAddr' = 0
          /\ clkInternal' = [r \in 0 .. 1 |-> 0]
      BY <1>4 DEF Restart
    <3>. QED
      BY <3>1 DEF ChipByte
  <2>. QED
    BY <1>4, <2>1, <2>2, <2>3, <2>4 DEF Restart, ChipTypeOK
<1>5. /\ Written.whole => Written.bram \in [0 .. 255 -> ChipByte] /\ Written.offset \in Int
      /\ bramFile.whole => bramFile.bram \in [0 .. 255 -> ChipByte] /\ bramFile.offset \in Int
      /\ \A f \in CutFiles : f.whole => f.bram \in [0 .. 255 -> ChipByte] /\ f.offset \in Int
  BY SMTT(60) DEF Written, NoFile, CutFiles, SavedOK, ChipTypeOK
<1>6. CASE Quit \/ Killed
  BY <1>4, <1>5, <1>6 DEF Quit, Killed
<1>7. ASSUME NEW t \in HostTimes, HostClock(t) PROVE (ChipTypeOK /\ SavedOK)'
  <2>1. t \in Nat
    BY ClockAssumption
  <2>. QED
    BY <1>7, <2>1, SMTT(60) DEF HostClock, ChipTypeOK, SavedOK, Remembers, battery, chip
<1>8. ASSUME NEW s \in Snapshots, LoadSnapshot(s) PROVE (ChipTypeOK /\ SavedOK)'
  <2>1. Remembers(s.state, s.src, s.addr, s.reg, s.sent)
    BY <1>8, ClockAssumption
  <2>2. /\ s.data \in ChipByte /\ s.reg \in 0 .. 3 /\ s.sent \in Seq(ChipByte)
        /\ s.addr \in 0 .. 255 /\ s.internal \in [0 .. 1 -> ChipByte]
        /\ s.bram \in [0 .. 255 -> ChipByte]
    BY <1>8, GuestBytes
  <2>3. Remembers(clkState, clkSrc, clkAddr, clkReg, sent)'
    BY <1>8, <2>1 DEF LoadSnapshot, Remembers
  <2>. QED
    BY <1>8, <2>2, <2>3 DEF LoadSnapshot, ChipTypeOK, SavedOK
<1>9. ASSUME NEW opens \in BOOLEAN, Frame(opens) PROVE (ChipTypeOK /\ SavedOK)'
  <2>1. ChipTypeOK'
    BY <1>9 DEF Frame, ChipTypeOK, Remembers, chip
  <2>2. bramFile' = bramFile \/ bramFile' = Written
    BY <1>9 DEF Frame, SaveBram
  <2>. QED
    BY <1>5, <2>1, <2>2 DEF SavedOK
<1>10. CASE UNCHANGED clockVars
  BY <1>10, SMTT(60) DEF clockVars, ChipTypeOK, SavedOK, Remembers, battery, chip
<1>. QED
  BY <1>1, <1>2, <1>3, <1>6, <1>7, <1>8, <1>9, <1>10 DEF ClockNext

\* In every state of the chip of the code, registers and memory are in range and
\* the chip remembers what the bytes sent since it was idle told it.
THEOREM ChipTypeCorrect == ASSUME TheChip PROVE ClockSpec => []ChipTypeOK
<1>1. ClockInit => ChipTypeOK /\ SavedOK
  BY ChipInit
<1>2. (ChipTypeOK /\ SavedOK) /\ [ClockNext]_clockVars => (ChipTypeOK /\ SavedOK)'
  BY ChipStep
<1>. QED
  BY <1>1, <1>2, PTL DEF ClockSpec

\* What a data strobe writes is what the transaction named.
LEMMA StrobeExact ==
    ASSUME TheChip, ChipTypeOK, NEW rd \in BOOLEAN, Strobe(rd) PROVE TransactionStep
<1>1. CASE CommandStrobe(rd) \/ AddressStrobe
  BY <1>1 DEF CommandStrobe, AddressStrobe, battery, TransactionStep
<1>2. CASE DataStrobe(rd)
  <2>1. /\ sent # <<>>
        /\ clkSrc = "bram" => clkAddr = Named(sent)
        /\ clkSrc = "seconds" => Len(sent) = 1 /\ Op(sent[1]) = 0 /\ clkReg = Reg(sent[1])
    BY <1>2 DEF DataStrobe, ChipTypeOK, Remembers
  <2>2. clkAddr \in Addresses
    BY DEF ChipTypeOK, TheChip
  <2>3. ASSUME bram' # bram
        PROVE  /\ sent # <<>> /\ Named(sent) \in Addresses
               /\ bram' = [bram EXCEPT ![Named(sent)] = clkData]
    <3>1. clkSrc = "bram" /\ bram' = [bram EXCEPT ![clkAddr] = clkData]
      BY <1>2, <2>3 DEF DataStrobe, battery
    <3>. QED
      BY <2>1, <2>2, <3>1
  <2>4. ASSUME rtcOffset' # rtcOffset
        PROVE  /\ Len(sent) = 1 /\ Op(sent[1]) = 0
               /\ \A n \in 0 .. ClockBytes - 1 :
                    rtcByte(n)' = IF n = Reg(sent[1]) THEN clkData ELSE rtcByte(n)
    <3>1. clkSrc = "seconds" /\ rtcOffset' = rtcWriteByte(clkReg, clkData)
      BY <1>2, <2>4 DEF DataStrobe, battery
    <3>2. hostTime' = hostTime
      BY DEF Strobe
    <3>3. \A n \in 0 .. 3 : rtcByte(n)' = IF n = clkReg THEN clkData ELSE rtcByte(n)
      BY <3>1, <3>2, SecondsSet DEF ChipTypeOK
    <3>4. 0 .. ClockBytes - 1 = 0 .. 3
      BY DEF TheChip
    <3>. QED
      BY <2>1, <3>1, <3>3, <3>4
  <2>. QED
    BY <2>3, <2>4 DEF TransactionStep
<1>. QED
  BY <1>1, <1>2 DEF Strobe

\* A battery cell or the clock changes only by the data strobe of a whole
\* transaction, and only what its bytes named (clockStrobe()).
THEOREM TransactionsExactHolds == ASSUME TheChip PROVE ClockSpec => TransactionsExact
<1>1. ASSUME ChipTypeOK, [ClockNext]_clockVars PROVE [TransactionStep]_clockVars
  <2>1. ASSUME NEW f, Restart(f) PROVE TransactionStep
    <3>1. Restored(f) = [bram |-> Restored(f).bram, offset |-> Restored(f).offset]
      BY DEF Restored
    <3>2. Fresh'
      BY <2>1, <3>1 DEF Restart, Fresh
    <3>. QED
      BY <3>2 DEF TransactionStep
  <2>2. ASSUME NEW s \in Snapshots, LoadSnapshot(s) PROVE TransactionStep
    BY <2>2 DEF LoadSnapshot, TransactionStep
  <2>3. ASSUME UNCHANGED <<bram, rtcOffset>> PROVE TransactionStep
    BY <2>3 DEF TransactionStep
  <2>4. ASSUME NEW v \in Bytes, WriteData(v) PROVE TransactionStep
    BY <2>3, <2>4 DEF WriteData, battery
  <2>5. ASSUME NEW opens \in BOOLEAN, Frame(opens) PROVE TransactionStep
    BY <2>3, <2>5 DEF Frame
  <2>6. ASSUME NEW t \in HostTimes, HostClock(t) PROVE TransactionStep
    BY <2>3, <2>6 DEF HostClock, battery
  <2>7. CASE ResetChip
    BY <2>3, <2>7 DEF ResetChip, battery
  <2>8. CASE Quit \/ Killed
    BY <2>1, <2>8 DEF Quit, Killed
  <2>9. CASE ClockNext
    BY <1>1, <2>2, <2>4, <2>5, <2>6, <2>7, <2>8, <2>9, StrobeExact DEF ClockNext
  <2>. QED
    BY <1>1, <2>9
<1>2. ClockSpec => []ChipTypeOK
  BY ChipTypeCorrect
<1>. QED
  BY <1>1, <1>2, PTL DEF ClockSpec, TransactionsExact

-----------------------------------------------------------------------------
(* The quick save: cells, pieces of the stream, positions.                 *)

CellSeq == Seq(Nat)
ChannelState == [wr : [0 .. 15 -> Nat], regPtr : Nat, rx : CellSeq, tx : CellSeq]
PathOrNone == {NoDisk} \cup {<<f>> : f \in Disks}
MachineState ==
    [cpu : Nat, memory : Nat, registers : Nat, doc : Nat, media : [Drive -> PathOrNone],
     chan : [Channel -> ChannelState]]

\* The stream of a machine, and where a channel is in it.
Opening(m) == <<kVersion, m.cpu, fastRamKB, m.memory, m.registers, m.doc>>
RegisterCells(ch) == [r \in 1 .. 16 |-> ch.wr[r - 1]]
ChannelOf(ch) == RegisterCells(ch) \o <<ch.regPtr>> \o putQueue(ch.rx) \o putQueue(ch.tx)
StreamOf(m) ==
    Opening(m) \o ChannelOf(m.chan[0]) \o ChannelOf(m.chan[1])
    \o putStr(m.media["hdd"]) \o putStr(m.media["disk35"]) \o putStr(m.media["sony2"])

\* What a save writes is the stream of the machine.
LEMMA StreamIs == Stream = StreamOf(Machine)
BY DEF Stream, StreamOf, Machine, ChannelCells, ChannelOf, RegisterCells, Opening

\* From position at on, the file holds u as far as it goes.
Holds(at, u) == \A i \in 1 .. Len(u) : (at - 1) + i <= Len(file) => file[(at - 1) + i] = u[i]
Position == Nat \ {0}

\* Two pieces of a stream put one after the other.
LEMMA Joined ==
    ASSUME NEW u \in CellSeq, NEW v \in CellSeq
    PROVE  /\ u \o v \in CellSeq /\ Len(u \o v) = Len(u) + Len(v) /\ Len(u) \in Nat
BY ConcatProperties, LenProperties DEF CellSeq

\* A file that holds two pieces one after the other holds each.
LEMMA HoldsSplit ==
    ASSUME file \in CellSeq, NEW u \in CellSeq, NEW v \in CellSeq, NEW at \in Position,
           Holds(at, u \o v)
    PROVE  Holds(at, u) /\ Holds(at + Len(u), v)
<1>1. /\ Len(u \o v) = Len(u) + Len(v) /\ Len(u) \in Nat /\ Len(v) \in Nat
      /\ \A i \in 1 .. Len(u) : (u \o v)[i] = u[i]
      /\ \A i \in 1 .. Len(v) : (u \o v)[Len(u) + i] = v[i]
  BY DEF CellSeq
<1>2. Holds(at, u)
  BY <1>1 DEF Holds, Position
<1>3. ASSUME NEW i \in 1 .. Len(v), (at + Len(u) - 1) + i <= Len(file)
      PROVE  file[(at + Len(u) - 1) + i] = v[i]
  <2>1. Len(u) + i \in 1 .. Len(u \o v)
    BY <1>1
  <2>2. (at - 1) + (Len(u) + i) = (at + Len(u) - 1) + i
    BY <1>1 DEF Position
  <2>. QED
    BY <2>1, <2>2, <1>1, <1>3 DEF Holds
<1>4. Holds(at + Len(u), v)
  BY <1>1, <1>3 DEF Holds, Position
<1>. QED
  BY <1>2, <1>4

\* A string or queue read from the file, wherever it is.
LEMMA RunType ==
    ASSUME file \in CellSeq, NEW at \in Position
    PROVE  /\ Count(at) \in Nat /\ Run(at).next = at + 1 + Count(at)
           /\ Run(at).next \in Position /\ Run(at).cells \in CellSeq
           /\ \A i \in Position : Cell(i, 0) \in Nat
<1>1. \A i \in Position : Cell(i, 0) \in Nat
  BY DEF Cell, Position, CellSeq
<1>2. Count(at) \in Nat
  BY <1>1 DEF Count
<1>3. \A i \in 1 .. Count(at) : at + i \in Position
  BY <1>2 DEF Position
<1>4. Run(at).cells \in CellSeq
  BY <1>1, <1>2, <1>3 DEF Run, CellSeq
<1>. QED
  BY <1>1, <1>2, <1>4 DEF Run, Position

\* One that is all there is the one written.
LEMMA RunReads ==
    ASSUME file \in CellSeq, NEW at \in Position, NEW q \in CellSeq, Len(q) <= MaxCount,
           Holds(at, putQueue(q)), StreamGood(Run(at).next)
    PROVE  Run(at).next = at + 1 + Len(q) /\ Run(at).cells = q
<1>1. /\ Count(at) \in Nat /\ Run(at).next = at + 1 + Count(at)
      /\ Run(at).cells = [i \in 1 .. Count(at) |-> Cell(at + i, 0)]
  BY RunType DEF Run
<1>2. at + Count(at) <= Len(file) /\ Len(file) \in Nat /\ Len(q) \in Nat
  BY <1>1 DEF StreamGood, Position, CellSeq
<1>3. /\ Len(putQueue(q)) = 1 + Len(q) /\ putQueue(q)[1] = Len(q)
      /\ \A i \in 1 .. Len(q) : putQueue(q)[1 + i] = q[i]
  BY <1>2 DEF putQueue, CellSeq
<1>4. Count(at) = Len(q)
  <2>1. 1 \in 1 .. Len(putQueue(q)) /\ (at - 1) + 1 = at /\ at <= Len(file)
    BY <1>1, <1>2, <1>3 DEF Position
  <2>2. file[at] = Len(q)
    BY <2>1, <1>3 DEF Holds
  <2>. QED
    BY <2>1, <2>2 DEF Count, Cell
<1>5. ASSUME NEW i \in 1 .. Len(q)
      PROVE  Cell(at + i, 0) = q[i]
  <2>1. 1 + i \in 1 .. Len(putQueue(q)) /\ (at - 1) + (1 + i) = at + i /\ at + i <= Len(file)
    BY <1>2, <1>3, <1>4, SMTT(60) DEF Position
  <2>2. file[at + i] = q[i]
    BY <2>1, <1>3 DEF Holds
  <2>. QED
    BY <2>1, <2>2 DEF Cell
<1>6. Run(at).cells = [i \in 1 .. Len(q) |-> q[i]]
  BY <1>1, <1>4, <1>5
<1>7. q = [i \in 1 .. Len(q) |-> q[i]]
  BY DEF CellSeq
<1>. QED
  BY <1>1, <1>4, <1>6, <1>7

\* The arithmetic of the positions.
LEMMA Positions ==
    ASSUME NEW n \in Nat, NEW m \in Nat, NEW at \in Position
    PROVE  /\ (18 + n) + (1 + m) = 19 + n + m
           /\ at + 18 + n = at + (18 + n)
           /\ (at + 18 + n) + 1 + m = at + 19 + n + m
           /\ at + 19 + n + m = at + (19 + n + m)
           /\ at + 17 + 1 + n = at + 18 + n
           /\ at + 1 + n = at + (1 + n)
BY DEF Position

\* A string or queue in the file takes a cell more than it has.
LEMMA PutIs ==
    ASSUME NEW q \in CellSeq
    PROVE  /\ putQueue(q) \in CellSeq /\ Len(putQueue(q)) = 1 + Len(q)
           /\ putStr(q) = putQueue(q) /\ Len(q) \in Nat
BY DEF putQueue, putStr, CellSeq

\* The pieces of a channel in the file, and their lengths.
LEMMA ChannelParts ==
    ASSUME NEW ch \in ChannelState
    PROVE  /\ RegisterCells(ch) \in CellSeq /\ Len(RegisterCells(ch)) = 16
           /\ <<ch.regPtr>> \in CellSeq /\ Len(<<ch.regPtr>>) = 1
           /\ ch.rx \in CellSeq /\ ch.tx \in CellSeq
           /\ RegisterCells(ch) \o <<ch.regPtr>> \in CellSeq
           /\ Len(RegisterCells(ch) \o <<ch.regPtr>>) = 17
           /\ RegisterCells(ch) \o <<ch.regPtr>> \o putQueue(ch.rx) \in CellSeq
           /\ Len(RegisterCells(ch) \o <<ch.regPtr>> \o putQueue(ch.rx)) = 18 + Len(ch.rx)
           /\ ChannelOf(ch) \in CellSeq
           /\ Len(ChannelOf(ch)) = 19 + Len(ch.rx) + Len(ch.tx)
<1>1. ch.wr \in [0 .. 15 -> Nat] /\ ch.regPtr \in Nat /\ ch.rx \in CellSeq /\ ch.tx \in CellSeq
  BY DEF ChannelState
<1>2. \A r \in 1 .. 16 : r - 1 \in 0 .. 15
  OBVIOUS
<1>3. RegisterCells(ch) \in CellSeq /\ Len(RegisterCells(ch)) = 16
  <2>1. RegisterCells(ch) \in [1 .. 16 -> Nat]
    BY <1>1, <1>2 DEF RegisterCells
  <2>2. RegisterCells(ch) \in Seq(Nat)
    BY <2>1, SeqDef
  <2>. QED
    BY <2>1, <2>2, LenProperties DEF CellSeq
<1> DEFINE a == RegisterCells(ch)
           b == <<ch.regPtr>>
           ab == a \o b
           c == putQueue(ch.rx)
           abc == ab \o c
           d == putQueue(ch.tx)
           abcd == abc \o d
<1>4. b \in CellSeq /\ Len(b) = 1
  BY <1>1 DEF CellSeq
<1>5. c \in CellSeq /\ Len(c) = 1 + Len(ch.rx) /\ d \in CellSeq /\ Len(d) = 1 + Len(ch.tx)
  BY <1>1, PutIs
<1> HIDE DEF a, b, c, d
<1>6. Len(ch.rx) \in Nat /\ Len(ch.tx) \in Nat
  BY <1>1, PutIs
<1>7. ab \in CellSeq /\ Len(ab) = 17
  <2>1. ab \in CellSeq /\ Len(ab) = Len(a) + Len(b)
    BY <1>3, <1>4, Joined, Zenon DEF a
  <2>. QED
    BY <2>1, <1>3, <1>4 DEF a
<1> HIDE DEF ab
<1>8. abc \in CellSeq /\ Len(abc) = 18 + Len(ch.rx)
  <2>1. abc \in CellSeq /\ Len(abc) = Len(ab) + Len(c)
    BY <1>5, <1>7, Joined, Zenon
  <2>. QED
    BY <2>1, <1>6, <1>5, <1>7
<1> HIDE DEF abc
<1>9. abcd \in CellSeq /\ Len(abcd) = 19 + Len(ch.rx) + Len(ch.tx)
  <2>1. abcd \in CellSeq /\ Len(abcd) = Len(abc) + Len(d)
    BY <1>5, <1>8, Joined, Zenon
  <2> HIDE DEF abcd
  <2>2. Len(abc) + Len(d) = (18 + Len(ch.rx)) + (1 + Len(ch.tx))
    BY <1>5, <1>8
  <2>3. (18 + Len(ch.rx)) + (1 + Len(ch.tx)) = 19 + Len(ch.rx) + Len(ch.tx)
    <3>1. 1 \in Position
      BY DEF Position
    <3>. QED
      BY <1>6, <3>1, Positions, Zenon
  <2>. QED
    BY <2>1, <2>2, <2>3
<1>. QED
  BY <1>1, <1>3, <1>4, <1>7, <1>8, <1>9 DEF a, ab, abc, b, c, d, ChannelOf

\* A channel read from the file, wherever it is.
LEMMA ChannelType ==
    ASSUME file \in CellSeq, chan \in [Channel -> ChannelState], NEW c \in Channel,
           NEW at \in Position
    PROVE  /\ ReadChannel(c, at).state \in ChannelState
           /\ ReadChannel(c, at).next \in Position
           /\ ReadChannel(c, at).next >= at + 19
           /\ Run(at + 17).next >= at + 18
           /\ Run(at + 17).next \in Position
           /\ Run(at + 17).next < ReadChannel(c, at).next
           /\ ReadChannel(c, at).next = Run(Run(at + 17).next).next
<1> DEFINE rx == Run(at + 17)
           tx == Run(rx.next)
<1>1. at + 17 \in Position
  BY DEF Position
<1>2. /\ rx.next \in Position /\ rx.next >= at + 18 /\ rx.cells \in CellSeq
  BY <1>1, RunType DEF Position
<1>3. /\ tx.next \in Position /\ tx.next >= rx.next + 1 /\ tx.cells \in CellSeq
  BY <1>2, RunType DEF Position
<1>4. ASSUME NEW n \in Position, NEW old \in Nat PROVE Cell(n, old) \in Nat
  BY DEF Cell, Position, CellSeq
<1>5. [r \in 0 .. 15 |-> Cell(at + r, chan[c].wr[r])] \in [0 .. 15 -> Nat]
  <2>1. ASSUME NEW r \in 0 .. 15 PROVE at + r \in Position /\ chan[c].wr[r] \in Nat
    BY DEF Position, ChannelState
  <2>. QED
    BY <2>1, <1>4
<1>6. Cell(at + 16, chan[c].regPtr) \in Nat
  <2>1. at + 16 \in Position /\ chan[c].regPtr \in Nat
    BY DEF Position, ChannelState
  <2>. QED
    BY <2>1, <1>4
<1> HIDE DEF rx, tx
<1>7. ReadChannel(c, at) =
        [state |-> [wr |-> [r \in 0 .. 15 |-> Cell(at + r, chan[c].wr[r])],
                    regPtr |-> Cell(at + 16, chan[c].regPtr),
                    rx |-> rx.cells, tx |-> tx.cells],
         next |-> tx.next]
  BY DEF ReadChannel, rx, tx
<1>8. ReadChannel(c, at).state \in ChannelState /\ ReadChannel(c, at).next = tx.next
  BY <1>2, <1>3, <1>5, <1>6, <1>7, SMTT(60) DEF ChannelState
<1>9. tx.next >= at + 19
  BY <1>2, <1>3 DEF Position
<1>10. rx.next < tx.next
  BY <1>2, <1>3 DEF Position
<1>. QED
  BY <1>2, <1>3, <1>8, <1>9, <1>10 DEF rx, tx

\* One that is all there is the one written, however much of it was cut.
LEMMA ChannelReads ==
    ASSUME file \in CellSeq, chan \in [Channel -> ChannelState], NEW c \in Channel,
           NEW at \in Position, NEW ch \in ChannelState,
           Len(ch.rx) <= MaxCount, Len(ch.tx) <= MaxCount,
           Holds(at, ChannelOf(ch)), StreamGood(ReadChannel(c, at).next)
    PROVE  /\ ReadChannel(c, at).state = ch
           /\ ReadChannel(c, at).next = at + Len(ChannelOf(ch))
<1> DEFINE rx == Run(at + 17)
           tx == Run(rx.next)
           a == RegisterCells(ch)
           b == <<ch.regPtr>>
           ab == a \o b
           abc == ab \o putQueue(ch.rx)
<1>1. /\ a \in CellSeq /\ Len(a) = 16 /\ b \in CellSeq /\ Len(b) = 1
      /\ ab \in CellSeq /\ Len(ab) = 17
      /\ abc \in CellSeq /\ Len(abc) = 18 + Len(ch.rx)
      /\ ch.rx \in CellSeq /\ ch.tx \in CellSeq
      /\ Len(ChannelOf(ch)) = 19 + Len(ch.rx) + Len(ch.tx)
  BY ChannelParts
<1>2. /\ putQueue(ch.rx) \in CellSeq /\ putQueue(ch.tx) \in CellSeq
      /\ Len(ch.rx) \in Nat /\ Len(ch.tx) \in Nat
  BY <1>1, PutIs
<1>3. Holds(at, abc) /\ Holds(at + Len(abc), putQueue(ch.tx))
  <2>1. Holds(at, abc \o putQueue(ch.tx))
    BY DEF ChannelOf
  <2> HIDE DEF abc
  <2>. QED
    BY <2>1, <1>1, <1>2, HoldsSplit
<1>4. Holds(at, ab) /\ Holds(at + 17, putQueue(ch.rx))
  <2> HIDE DEF ab
  <2>. QED
    BY <1>1, <1>2, <1>3, HoldsSplit DEF abc
<1>5. Holds(at, a) /\ Holds(at + 16, b)
  <2> HIDE DEF a, b
  <2>. QED
    BY <1>1, <1>4, HoldsSplit DEF ab
<1>6. /\ ReadChannel(c, at).next = tx.next /\ rx.next >= at + 18 /\ rx.next \in Position
      /\ rx.next < tx.next /\ tx.next \in Position
  BY ChannelType
<1>7. StreamGood(tx.next) /\ StreamGood(rx.next) /\ Len(file) \in Nat
  BY <1>6, SMTT(60) DEF StreamGood, Position, CellSeq
<1>8. rx.next = at + 18 + Len(ch.rx) /\ rx.cells = ch.rx
  <2>1. at + 17 \in Position
    BY DEF Position
  <2>2. rx.next = at + 17 + 1 + Len(ch.rx) /\ rx.cells = ch.rx
    BY <2>1, <1>1, <1>4, <1>7, RunReads
  <2> HIDE DEF rx
  <2>. QED
    BY <2>2, <1>2 DEF Position
<1>9. tx.next = at + 19 + Len(ch.rx) + Len(ch.tx) /\ tx.cells = ch.tx
  <2> HIDE DEF rx, abc
  <2>3. at + 18 + Len(ch.rx) = at + (18 + Len(ch.rx))
    BY <1>2, Positions, Zenon
  <2>1. rx.next = at + Len(abc)
    BY <1>1, <2>3, <1>8
  <2>2. tx.next = rx.next + 1 + Len(ch.tx) /\ tx.cells = ch.tx
    BY <2>1, <1>1, <1>3, <1>6, <1>7, RunReads
  <2> HIDE DEF tx
  <2>4. tx.next = (at + 18 + Len(ch.rx)) + 1 + Len(ch.tx)
    BY <2>2, <1>8
  <2>5. (at + 18 + Len(ch.rx)) + 1 + Len(ch.tx) = at + 19 + Len(ch.rx) + Len(ch.tx)
    BY <1>2, Positions, ZenonT(60)
  <2>. QED
    BY <2>2, <2>4, <2>5
<1>10. ASSUME NEW r \in 0 .. 15 PROVE Cell(at + r, chan[c].wr[r]) = ch.wr[r]
  <2>1. r + 1 \in 1 .. Len(a) /\ (at - 1) + (r + 1) = at + r /\ at + r <= Len(file)
    BY <1>1, <1>6, <1>7 DEF Position, StreamGood
  <2>2. file[at + r] = a[r + 1]
    BY <2>1, <1>5 DEF Holds
  <2>3. a[r + 1] = ch.wr[r]
    <3>1. r + 1 \in 1 .. 16 /\ (r + 1) - 1 = r
      OBVIOUS
    <3>2. a[r + 1] = ch.wr[(r + 1) - 1]
      BY <3>1, Zenon DEF RegisterCells
    <3>. QED
      BY <3>1, <3>2
  <2>. QED
    BY <2>1, <2>2, <2>3 DEF Cell
<1>11. Cell(at + 16, chan[c].regPtr) = ch.regPtr
  <2>1. 1 \in 1 .. Len(b) /\ ((at + 16) - 1) + 1 = at + 16 /\ at + 16 <= Len(file)
    BY <1>1, <1>6, <1>7 DEF Position, StreamGood
  <2> HIDE DEF b
  <2>4. \A i \in 1 .. Len(b) : ((at + 16) - 1) + i <= Len(file) => file[((at + 16) - 1) + i] = b[i]
    BY <1>5, Zenon DEF Holds
  <2>2. file[at + 16] = b[1]
    BY <2>1, <2>4, Zenon
  <2>3. b[1] = ch.regPtr
    BY DEF b
  <2>. QED
    BY <2>1, <2>2, <2>3 DEF Cell
<1>12. ReadChannel(c, at).state = [wr |-> [r \in 0 .. 15 |-> Cell(at + r, chan[c].wr[r])],
                    regPtr |-> Cell(at + 16, chan[c].regPtr), rx |-> rx.cells, tx |-> tx.cells]
  BY DEF ReadChannel
<1>13. ch = [wr |-> ch.wr, regPtr |-> ch.regPtr, rx |-> ch.rx, tx |-> ch.tx]
       /\ ch.wr = [r \in 0 .. 15 |-> ch.wr[r]]
  BY DEF ChannelState
<1>14. [r \in 0 .. 15 |-> Cell(at + r, chan[c].wr[r])] = ch.wr
  BY <1>10, <1>13
<1>15. ReadChannel(c, at).state = ch
  BY <1>8, <1>9, <1>11, <1>12, <1>13, <1>14, Zenon
<1> HIDE DEF tx
<1>16. ReadChannel(c, at).next = at + Len(ChannelOf(ch))
  <2>1. at + 19 + Len(ch.rx) + Len(ch.tx) = at + (19 + Len(ch.rx) + Len(ch.tx))
    BY <1>2, Positions, ZenonT(60)
  <2>. QED
    BY <1>1, <1>6, <1>9, <2>1
<1>. QED
  BY <1>15, <1>16

\* The positions a load goes through.
AtChannelA == ReadChannel(0, 7).next
AtHdd == ReadChannel(1, AtChannelA).next
AtDisk35 == Run(AtHdd).next
AtSony2 == Run(AtDisk35).next

\* A path is of numbers, and of a length that is believed.
LEMMA PathCells ==
    ASSUME NEW p \in PathOrNone
    PROVE  p \in CellSeq /\ Len(p) <= MaxCount
<1>1. CASE p = <<>>
  BY <1>1, FileAssumption DEF CellSeq
<1>2. CASE \E f \in Disks : p = <<f>>
  BY <1>2, FileAssumption DEF CellSeq
<1>. QED
  BY <1>1, <1>2 DEF PathOrNone, NoDisk

\* The stream of a machine is numbers.
LEMMA StreamCells ==
    ASSUME NEW m \in MachineState
    PROVE  /\ Opening(m) \in CellSeq /\ Len(Opening(m)) = 6
           /\ m.chan[0] \in ChannelState /\ m.chan[1] \in ChannelState
           /\ \A d \in Drive : m.media[d] \in PathOrNone
           /\ StreamOf(m) \in CellSeq
<1>1. /\ m.cpu \in Nat /\ m.memory \in Nat /\ m.registers \in Nat /\ m.doc \in Nat
      /\ m.media \in [Drive -> PathOrNone] /\ m.chan \in [Channel -> ChannelState]
  BY DEF MachineState
<1>2. Opening(m) \in CellSeq /\ Len(Opening(m)) = 6
  BY <1>1 DEF Opening, kVersion, fastRamKB, CellSeq
<1>3. m.chan[0] \in ChannelState /\ m.chan[1] \in ChannelState
  BY <1>1 DEF Channel
<1>4. \A d \in Drive : m.media[d] \in PathOrNone
  BY <1>1
<1> DEFINE h == putStr(m.media["hdd"])
           d == putStr(m.media["disk35"])
           s == putStr(m.media["sony2"])
           b == ChannelOf(m.chan[0])
           a == ChannelOf(m.chan[1])
<1>5. h \in CellSeq /\ d \in CellSeq /\ s \in CellSeq
  BY <1>4, PathCells, PutIs DEF Drive
<1>6. a \in CellSeq /\ b \in CellSeq
  BY <1>3, ChannelParts
<1>7. StreamOf(m) = Opening(m) \o b \o a \o h \o d \o s
  BY DEF StreamOf
<1> HIDE DEF a, b, h, d, s
<1>8. Opening(m) \o b \in CellSeq
  BY <1>2, <1>6, Joined, Zenon
<1>9. Opening(m) \o b \o a \in CellSeq
  BY <1>8, <1>6, Joined, Zenon
<1>10. Opening(m) \o b \o a \o h \in CellSeq
  BY <1>9, <1>5, Joined, Zenon
<1>11. Opening(m) \o b \o a \o h \o d \in CellSeq
  BY <1>10, <1>5, Joined, Zenon
<1>12. StreamOf(m) \in CellSeq
  BY <1>11, <1>5, <1>7, Joined, Zenon
<1>. QED
  BY <1>2, <1>3, <1>4, <1>12

\* A load that finds the stream good up to the second drive's path read the
\* machine that was saved.
LEMMA LoadReads ==
    ASSUME file \in CellSeq, chan \in [Channel -> ChannelState], NEW m \in MachineState,
           Believed(m), Holds(1, StreamOf(m)), StreamGood(AtSony2)
    PROVE  /\ Cell(4, memory) = m.memory /\ Cell(5, registers) = m.registers
           /\ Cell(6, doc) = m.doc /\ file[2] = m.cpu
           /\ ReadChannel(0, 7).state = m.chan[0]
           /\ ReadChannel(1, AtChannelA).state = m.chan[1]
           /\ Run(AtHdd).cells = m.media["hdd"]
           /\ Run(AtDisk35).cells = m.media["disk35"]
<1> DEFINE H == Opening(m)
           b == ChannelOf(m.chan[0])
           a == ChannelOf(m.chan[1])
           h == putQueue(m.media["hdd"])
           d == putQueue(m.media["disk35"])
           s == putQueue(m.media["sony2"])
           Hb == H \o b
           Hba == Hb \o a
           Hbah == Hba \o h
           Hbahd == Hbah \o d
<1>1. /\ H \in CellSeq /\ Len(H) = 6 /\ m.chan[0] \in ChannelState /\ m.chan[1] \in ChannelState
      /\ m.media["hdd"] \in CellSeq /\ Len(m.media["hdd"]) <= MaxCount
      /\ m.media["disk35"] \in CellSeq /\ Len(m.media["disk35"]) <= MaxCount
      /\ m.media["sony2"] \in CellSeq
  BY StreamCells, PathCells DEF Drive
<1>2. /\ b \in CellSeq /\ a \in CellSeq /\ h \in CellSeq /\ d \in CellSeq /\ s \in CellSeq
      /\ Len(h) = 1 + Len(m.media["hdd"]) /\ Len(d) = 1 + Len(m.media["disk35"])
  BY <1>1, ChannelParts, PutIs
<1>3. StreamOf(m) = Hbahd \o s
  BY <1>1, PutIs DEF StreamOf
<1> HIDE DEF H, b, a, h, d, s
<1>4. Hb \in CellSeq /\ Len(Hb) = Len(H) + Len(b) /\ Len(b) \in Nat
  BY <1>1, <1>2, Joined, Zenon
<1> HIDE DEF Hb
<1>5. Hba \in CellSeq /\ Len(Hba) = Len(Hb) + Len(a) /\ Len(a) \in Nat
  BY <1>2, <1>4, Joined, Zenon
<1> HIDE DEF Hba
<1>6. Hbah \in CellSeq /\ Len(Hbah) = Len(Hba) + Len(h) /\ Len(h) \in Nat
  BY <1>2, <1>5, Joined, Zenon
<1> HIDE DEF Hbah
<1>7. Hbahd \in CellSeq
  BY <1>2, <1>6, Joined, Zenon
<1> HIDE DEF Hbahd
<1>8. 1 \in Position /\ 7 \in Position
  BY DEF Position
<1>9. Holds(1, Hbahd)
  BY <1>2, <1>3, <1>7, <1>8, HoldsSplit, SMTT(60)
<1>10. Holds(1, Hbah) /\ Holds(1 + Len(Hbah), d)
  BY <1>2, <1>6, <1>8, <1>9, HoldsSplit, Zenon DEF Hbahd
<1>11. Holds(1, Hba) /\ Holds(1 + Len(Hba), h)
  BY <1>2, <1>5, <1>8, <1>10, HoldsSplit, Zenon DEF Hbah
<1>12. Holds(1, Hb) /\ Holds(1 + Len(Hb), a)
  BY <1>2, <1>4, <1>8, <1>11, HoldsSplit, Zenon DEF Hba
<1>13. Holds(1, H) /\ Holds(1 + Len(H), b)
  BY <1>1, <1>2, <1>8, <1>12, HoldsSplit, Zenon DEF Hb
<1>14. 0 \in Channel /\ 1 \in Channel
  BY DEF Channel
<1>15. AtChannelA \in Position /\ AtChannelA >= 26
  BY <1>8, <1>14, ChannelType DEF AtChannelA
<1>16. AtHdd \in Position /\ AtHdd >= AtChannelA + 19
  BY <1>14, <1>15, ChannelType DEF AtHdd
<1>17. AtDisk35 \in Position /\ AtDisk35 >= AtHdd + 1
  BY <1>16, RunType DEF AtDisk35, Position
<1>18. AtSony2 \in Position /\ AtSony2 >= AtDisk35 + 1
  BY <1>17, RunType DEF AtSony2, Position
<1>19. /\ StreamGood(AtChannelA) /\ StreamGood(AtHdd) /\ StreamGood(AtDisk35)
       /\ 6 <= Len(file) /\ Len(file) \in Nat
  BY <1>15, <1>16, <1>17, <1>18 DEF StreamGood, Position, CellSeq
<1>20. /\ Len(m.chan[0].rx) <= MaxCount /\ Len(m.chan[0].tx) <= MaxCount
       /\ Len(m.chan[1].rx) <= MaxCount /\ Len(m.chan[1].tx) <= MaxCount
  BY <1>14 DEF Believed
<1>21. ReadChannel(0, 7).state = m.chan[0] /\ AtChannelA = 7 + Len(b)
  <2>1. Holds(7, b)
    BY <1>1, <1>13
  <2>. QED
    BY <2>1, <1>1, <1>8, <1>14, <1>19, <1>20, ChannelReads DEF AtChannelA, b
<1>22. ReadChannel(1, AtChannelA).state = m.chan[1] /\ AtHdd = AtChannelA + Len(a)
  <2>1. AtChannelA = 1 + Len(Hb)
    BY <1>1, <1>4, <1>21
  <2>2. Holds(AtChannelA, a)
    BY <2>1, <1>12, Zenon
  <2>. QED
    BY <2>2, <1>1, <1>14, <1>15, <1>19, <1>20, ChannelReads DEF AtHdd, a
<1>23. Run(AtHdd).cells = m.media["hdd"] /\ AtDisk35 = AtHdd + Len(h)
  <2>1. AtHdd = 1 + Len(Hba)
    BY <1>1, <1>4, <1>5, <1>21, <1>22
  <2>2. Holds(AtHdd, h)
    BY <2>1, <1>11, Zenon
  <2>3. /\ Run(AtHdd).cells = m.media["hdd"]
        /\ AtDisk35 = AtHdd + 1 + Len(m.media["hdd"])
    BY <2>2, <1>1, <1>16, <1>19, RunReads DEF AtDisk35, h
  <2>4. AtHdd + 1 + Len(m.media["hdd"]) = AtHdd + Len(h)
    <3>1. Len(m.media["hdd"]) \in Nat
      BY <1>1, PutIs
    <3>2. AtHdd + 1 + Len(m.media["hdd"]) = AtHdd + (1 + Len(m.media["hdd"]))
      BY <3>1, <1>16, Positions, Zenon
    <3>. QED
      BY <3>2, <1>2
  <2>. QED
    BY <2>3, <2>4
<1>24. Run(AtDisk35).cells = m.media["disk35"]
  <2>1. AtDisk35 = 1 + Len(Hbah)
    BY <1>1, <1>4, <1>5, <1>6, <1>21, <1>22, <1>23
  <2>2. Holds(AtDisk35, d)
    BY <2>1, <1>10, Zenon
  <2>. QED
    BY <2>2, <1>1, <1>17, RunReads DEF AtSony2, d
<1>25. /\ file[2] = m.cpu /\ file[4] = m.memory /\ file[5] = m.registers /\ file[6] = m.doc
  <2>1. \A i \in 1 .. 6 : file[i] = H[i]
    BY <1>1, <1>13, <1>19 DEF Holds
  <2>2. H[2] = m.cpu /\ H[4] = m.memory /\ H[5] = m.registers /\ H[6] = m.doc
    BY DEF H, Opening
  <2>. QED
    BY <2>1, <2>2
<1>. QED
  BY <1>19, <1>21, <1>22, <1>23, <1>24, <1>25 DEF Cell

\* Every quick save is empty, of an earlier version, or what the writer got
\* through of the machine last saved.
FileOK ==
    \/ file \in {<<>>, <<OldVersion, 0>>}
    \/ \E n \in 0 .. Len(StreamOf(kept)) : file = SubSeq(StreamOf(kept), 1, n)
FileInv == Machine \in MachineState /\ kept \in MachineState /\ FileOK

\* A file the reader does not refuse holds the stream of the saved machine, as
\* far as it goes.
LEMMA FileFacts ==
    ASSUME FileInv
    PROVE  /\ file \in CellSeq
           /\ Refused \/ Holds(1, StreamOf(kept))
<1>1. CASE file = <<>>
  BY <1>1 DEF CellSeq, Refused, StreamGood
<1>2. CASE file = <<OldVersion, 0>>
  BY <1>2 DEF CellSeq, Refused, StreamGood, OldVersion
<1>3. ASSUME NEW n \in 0 .. Len(StreamOf(kept)), file = SubSeq(StreamOf(kept), 1, n)
      PROVE  file \in CellSeq /\ Holds(1, StreamOf(kept))
  <2> DEFINE s == StreamOf(kept)
  <2>1. s \in Seq(Nat) /\ Len(s) \in Nat
    BY StreamCells DEF FileInv, CellSeq
  <2> HIDE DEF s
  <2>2. n \in 0 .. Len(s) /\ file = SubSeq(s, 1, n)
    BY <1>3 DEF s
  <2>3. /\ file \in Seq(Nat) /\ Len(file) = n
        /\ \A i \in 1 .. n : file[i] = s[i]
    BY <2>1, <2>2
  <2>4. ASSUME NEW i \in 1 .. Len(s), (1 - 1) + i <= Len(file)
        PROVE  file[(1 - 1) + i] = s[i]
    BY <2>1, <2>2, <2>3, <2>4
  <2>. QED
    BY <2>3, <2>4 DEF Holds, CellSeq, s
<1>. QED
  BY <1>1, <1>2, <1>3 DEF FileInv, FileOK

\* The invariant holds at the start.
LEMMA FileStart == FileInit => FileInv
<1>. SUFFICES ASSUME FileInit PROVE FileInv
  OBVIOUS
<1>1. <<>> \in CellSeq
  BY DEF CellSeq
<1>2. SccReset \in [Channel -> ChannelState]
  BY <1>1 DEF SccReset, Cleared, ChannelState
<1>3. [d \in Drive |-> NoDisk] \in [Drive -> PathOrNone]
  BY DEF PathOrNone
<1>4. Machine \in MachineState
  BY <1>2, <1>3 DEF FileInit, Machine, MachineState
<1>. QED
  BY <1>4 DEF FileInit, FileInv, FileOK

\* The guest's accesses leave a channel.
LEMMA SerialType ==
    ASSUME chan \in [Channel -> ChannelState], SccAccess
    PROVE  chan' \in [Channel -> ChannelState]
<1>. SUFFICES ASSUME NEW c \in Ports, CmdWrite(c) \/ CmdRead(c) \/ DataRead(c) \/ DataWrite(c)
              PROVE  chan' \in [Channel -> ChannelState]
  BY DEF SccAccess
<1>1. c \in Channel
  BY FileAssumption
<1>2. \A d \in Channel : /\ chan[d] \in ChannelState
                        /\ chan[d].wr \in [0 .. 15 -> Nat] /\ chan[d].regPtr \in Nat
                        /\ chan[d].rx \in Seq(Nat) /\ chan[d].tx \in Seq(Nat)
  BY DEF ChannelState, CellSeq
<1>3. CASE CmdWrite(c)
  <2>1. PICK v \in Commands : chan' = Latched(c, v)
    BY <1>3 DEF CmdWrite
  <2>2. v \in Nat /\ v % 16 \in Nat
    BY FileAssumption
  <2>3. CASE chan[c].regPtr = 0
    <3>1. chan' = [chan EXCEPT ![c].regPtr = v % 16]
      BY <2>1, <2>3 DEF Latched
    <3>2. [chan[c] EXCEPT !.regPtr = v % 16] \in ChannelState
      BY <1>1, <2>2 DEF ChannelState
    <3>. QED
      BY <3>1, <3>2, <1>1
  <2>4. CASE chan[c].regPtr # 0
    <3> DEFINE stored == [chan[c] EXCEPT !.wr[chan[c].regPtr] = v, !.regPtr = 0]
    <3>1. stored \in ChannelState
      BY <1>1, <1>2, <2>2 DEF ChannelState
    <3>2. Cleared \in ChannelState
      BY DEF Cleared, ChannelState, CellSeq
    <3>3. chan' = [d \in Channel |->
                    IF chan[c].regPtr = 9 /\ d \in ClearedBy(v) THEN Cleared
                    ELSE IF d = c THEN stored ELSE chan[d]]
      BY <2>1, <2>4 DEF Latched
    <3> HIDE DEF stored
    <3>. QED
      BY <3>1, <3>2, <3>3, <1>2
  <2>. QED
    BY <2>3, <2>4
<1>4. CASE CmdRead(c)
  <2>1. [chan[c] EXCEPT !.regPtr = 0] \in ChannelState
    BY <1>1 DEF ChannelState
  <2>. QED
    BY <2>1, <1>1, <1>4 DEF CmdRead
<1>5. CASE DataRead(c)
  <2>1. Tail(chan[c].rx) \in Seq(Nat)
    BY <1>1, <1>2, <1>5 DEF DataRead
  <2>2. [chan[c] EXCEPT !.rx = Tail(chan[c].rx)] \in ChannelState
    BY <2>1, <1>1 DEF ChannelState, CellSeq
  <2>3. chan' = [chan EXCEPT ![c] = [chan[c] EXCEPT !.rx = Tail(chan[c].rx)]]
    BY <1>5, <1>1 DEF DataRead
  <2>. QED
    BY <2>2, <2>3, <1>1
<1>6. CASE DataWrite(c)
  <2>1. PICK b \in Letters :
          chan' = [chan EXCEPT ![c].tx = Append(@, b),
                               ![c].rx = IF Looped(c) THEN Append(@, b) ELSE @]
    BY <1>6 DEF DataWrite
  <2>2. Append(chan[c].tx, b) \in Seq(Nat) /\ Append(chan[c].rx, b) \in Seq(Nat)
    BY <1>1, <1>2, FileAssumption
  <2> DEFINE rx == IF Looped(c) THEN Append(chan[c].rx, b) ELSE chan[c].rx
  <2>3. rx \in Seq(Nat)
    BY <2>2, <1>1, <1>2
  <2>4. chan' = [chan EXCEPT ![c] = [chan[c] EXCEPT !.tx = Append(chan[c].tx, b), !.rx = rx]]
    BY <2>1, <1>1, <1>2
  <2> HIDE DEF rx
  <2>5. [chan[c] EXCEPT !.tx = Append(chan[c].tx, b), !.rx = rx] \in ChannelState
    BY <2>2, <2>3, <1>1 DEF ChannelState, CellSeq
  <2>. QED
    BY <2>4, <2>5, <1>1
<1>. QED
  BY <1>3, <1>4, <1>5, <1>6

\* A medium found by its path, or the one that was mounted.
LEMMA RemountedType ==
    ASSUME media \in [Drive -> PathOrNone], NEW d \in Drive, NEW p
    PROVE  /\ Remounted(d, p) \in PathOrNone
           /\ p \in PathOrNone => Remounted(d, p) = p
BY DEF Remounted, PathOrNone, NoDisk

\* A load leaves a machine, and when it says that all is well the saved one.
LEMMA LoadLeaves ==
    ASSUME FileInv, QuickLoad
    PROVE  /\ Machine' \in MachineState /\ LoadStep
<1>1. CASE Refused /\ result' = "refused" /\ UNCHANGED <<machineVars, iwm35, file, kept>>
  <2>1. Machine' = Machine
    BY <1>1 DEF machineVars, Machine
  <2>2. LoadStep
    BY <1>1 DEF LoadStep, machineVars
  <2>. QED
    BY <2>1, <2>2 DEF FileInv
<1>2. CASE ~Refused
  <2> DEFINE b == ReadChannel(0, 7)
             a == ReadChannel(1, AtChannelA)
             hddRun == Run(AtHdd)
             disk35Run == Run(AtDisk35)
             sony2Run == Run(AtSony2)
  <2>1. /\ memory' = Cell(4, memory) /\ registers' = Cell(5, registers) /\ doc' = Cell(6, doc)
        /\ chan' = [c \in Channel |-> IF c = 0 THEN b.state ELSE a.state]
        /\ \/ /\ StreamGood(AtSony2) /\ result' = "ok"
              /\ media' = [hdd |-> Remounted("hdd", hddRun.cells),
                           disk35 |-> Remounted("disk35", disk35Run.cells),
                           sony2 |-> IF iwm35 THEN Remounted("sony2", sony2Run.cells)
                                     ELSE media["sony2"]]
              /\ DriveLines /\ cpu' = file[2]
           \/ /\ ~StreamGood(AtSony2) /\ result' = "failed"
              /\ UNCHANGED <<media, lines, cpu>>
        /\ UNCHANGED kept
    BY <1>2 DEF QuickLoad, AtChannelA, AtHdd, AtDisk35, AtSony2
  <2>2. /\ file \in CellSeq /\ Holds(1, StreamOf(kept)) /\ kept \in MachineState
        /\ cpu \in Nat /\ memory \in Nat /\ registers \in Nat /\ doc \in Nat
        /\ media \in [Drive -> PathOrNone] /\ chan \in [Channel -> ChannelState]
    BY <1>2, FileFacts DEF FileInv, Machine, MachineState
  <2>3. \A n \in {2, 4, 5, 6} : n <= Len(file) => file[n] \in Nat
    BY <2>2 DEF CellSeq
  <2>4. memory' \in Nat /\ registers' \in Nat /\ doc' \in Nat
    BY <2>1, <2>2, <2>3 DEF Cell
  <2>5. cpu' \in Nat
    <3>1. 3 <= Len(file)
      BY <1>2, <2>2 DEF Refused, StreamGood, CellSeq
    <3>. QED
      BY <2>1, <2>2, <2>3, <3>1 DEF CellSeq
  <2>6. chan' \in [Channel -> ChannelState]
    <3>1. 7 \in Position /\ 0 \in Channel /\ 1 \in Channel
      BY DEF Position, Channel
    <3>2. b.state \in ChannelState /\ AtChannelA \in Position
      BY <2>2, <3>1, ChannelType DEF AtChannelA
    <3>3. a.state \in ChannelState
      BY <2>2, <3>1, <3>2, ChannelType
    <3> HIDE DEF a, b
    <3>. QED
      BY <2>1, <3>2, <3>3
  <2> HIDE DEF hddRun, disk35Run, sony2Run
  <2>7. media' \in [Drive -> PathOrNone]
    <3>1. /\ Remounted("hdd", hddRun.cells) \in PathOrNone
          /\ Remounted("disk35", disk35Run.cells) \in PathOrNone
          /\ Remounted("sony2", sony2Run.cells) \in PathOrNone
          /\ media["sony2"] \in PathOrNone
      BY <2>2, RemountedType DEF Drive
    <3>2. CASE UNCHANGED media
      BY <2>2, <3>2
    <3>3. CASE media' = [hdd |-> Remounted("hdd", hddRun.cells),
                         disk35 |-> Remounted("disk35", disk35Run.cells),
                         sony2 |-> IF iwm35 THEN Remounted("sony2", sony2Run.cells)
                                   ELSE media["sony2"]]
      <4> DEFINE x == Remounted("hdd", hddRun.cells)
                 y == Remounted("disk35", disk35Run.cells)
                 z == IF iwm35 THEN Remounted("sony2", sony2Run.cells) ELSE media["sony2"]
      <4>1. x \in PathOrNone /\ y \in PathOrNone /\ z \in PathOrNone
        BY <3>1
      <4>2. media' = [hdd |-> x, disk35 |-> y, sony2 |-> z]
        BY <3>3
      <4> HIDE DEF x, y, z
      <4>. QED
        BY <4>1, <4>2 DEF Drive
    <3>. QED
      BY <2>1, <3>2, <3>3
  <2>8. Machine' \in MachineState
    BY <2>4, <2>5, <2>6, <2>7 DEF Machine, MachineState
  <2>9. CASE result' = "failed"
    BY <2>1, <2>8, <2>9 DEF LoadStep
  <2>10. CASE result' = "ok"
    <3>1. SUFFICES ASSUME Believed(kept)
                   PROVE  /\ \A f \in {"cpu", "memory", "registers", "doc", "chan"} :
                               Machine'[f] = kept[f]
                          /\ \A d \in {"hdd", "disk35"} : media'[d] = kept.media[d]
                          /\ lines'.timers = registers' /\ lines'.adb.registers = registers'
                          /\ DocPending(doc') => lines'.doc
      BY <2>8, <2>10 DEF LoadStep
    <3>2. /\ memory' = kept.memory /\ registers' = kept.registers /\ doc' = kept.doc
          /\ cpu' = kept.cpu /\ b.state = kept.chan[0] /\ a.state = kept.chan[1]
          /\ hddRun.cells = kept.media["hdd"] /\ disk35Run.cells = kept.media["disk35"]
      BY <2>1, <2>2, <2>10, <3>1, LoadReads DEF hddRun, disk35Run
    <3>3. chan' = kept.chan
      <4>1. kept.chan \in [Channel -> ChannelState]
        BY <2>2 DEF MachineState
      <4>2. \A c \in Channel : c = 0 \/ c = 1
        BY DEF Channel
      <4> HIDE DEF a, b
      <4>. QED
        BY <2>1, <3>2, <4>1, <4>2
    <3>4. media'["hdd"] = kept.media["hdd"] /\ media'["disk35"] = kept.media["disk35"]
      <4>1. kept.media["hdd"] \in PathOrNone /\ kept.media["disk35"] \in PathOrNone
        BY <2>2, StreamCells DEF Drive
      <4>2. /\ Remounted("hdd", hddRun.cells) = kept.media["hdd"]
            /\ Remounted("disk35", disk35Run.cells) = kept.media["disk35"]
        BY <2>2, <3>2, <4>1, RemountedType DEF Drive
      <4>. QED
        BY <2>1, <2>10, <4>2
    <3>5. /\ lines'.timers = registers' /\ lines'.adb.registers = registers'
          /\ DocPending(doc') => lines'.doc
      <4>1. DriveLines
        BY <2>1, <2>10
      <4>. QED
        BY <4>1 DEF DriveLines
    <3>. QED
      BY <2>1, <2>10, <3>2, <3>3, <3>4, <3>5 DEF Machine
  <2>. QED
    <3>1. result' = "ok" \/ result' = "failed"
      BY <2>1
    <3>. QED
      BY <3>1, <2>8, <2>9, <2>10
<1>. QED
  <2>1. (Refused /\ result' = "refused" /\ UNCHANGED <<machineVars, iwm35, file, kept>>) \/ ~Refused
    BY DEF QuickLoad
  <2>. QED
    BY <2>1, <1>1, <1>2

\* A save starts a new file.
LEMMA SaveLeaves ==
    ASSUME FileInv, QuickSave
    PROVE  FileInv'
<1>1. UNCHANGED machineVars /\ kept' = Machine
  BY DEF QuickSave
<1>2. Machine' = Machine
  BY <1>1 DEF machineVars, Machine
<1>3. PICK n \in 0 .. Len(Stream) : file' = SubSeq(Stream, 1, n)
  BY DEF QuickSave
<1>4. FileOK'
  BY <1>1, <1>3, StreamIs DEF FileOK
<1>. QED
  BY <1>1, <1>2, <1>4 DEF FileInv

\* Every step keeps the invariant, and every load is honest.
LEMMA FileStep == FileInv /\ [FileNext]_fileVars => FileInv' /\ [LoadStep]_fileVars
<1>. SUFFICES ASSUME FileInv, [FileNext]_fileVars
              PROVE  FileInv' /\ [LoadStep]_fileVars
  OBVIOUS
<1>1. /\ cpu \in Nat /\ memory \in Nat /\ registers \in Nat /\ doc \in Nat
      /\ media \in [Drive -> PathOrNone] /\ chan \in [Channel -> ChannelState]
  BY DEF FileInv, Machine, MachineState
<1>2. CASE QuickSave
  BY <1>2, SaveLeaves DEF QuickSave, LoadStep
<1>3. CASE QuickLoad
  <2>1. UNCHANGED <<file, kept>>
    BY <1>3 DEF QuickLoad
  <2>2. FileOK'
    BY <2>1 DEF FileOK, FileInv
  <2>. QED
    BY <1>3, <2>1, <2>2, LoadLeaves DEF FileInv
<1>4. ASSUME UNCHANGED <<file, kept>>, Machine' \in MachineState, result' = "none"
      PROVE  FileInv' /\ LoadStep
  BY <1>4 DEF FileInv, FileOK, LoadStep
<1>5. CASE Execute
  <2>1. cpu' \in Nat /\ memory' \in Nat /\ registers' \in Nat /\ doc' \in Nat
    BY <1>5, FileAssumption DEF Execute
  <2>2. Machine' \in MachineState
    BY <1>1, <1>5, <2>1 DEF Execute, Machine, MachineState
  <2>. QED
    BY <1>4, <1>5, <2>2 DEF Execute
<1>6. CASE Serial
  <2>1. chan' \in [Channel -> ChannelState]
    BY <1>1, <1>6, SerialType DEF Serial
  <2>2. Machine' \in MachineState
    BY <1>1, <1>6, <2>1 DEF Serial, Machine, MachineState
  <2>. QED
    BY <1>4, <1>6, <2>2 DEF Serial
<1>7. CASE ResetMachine
  <2>1. SccReset \in [Channel -> ChannelState]
    BY DEF SccReset, Cleared, ChannelState, CellSeq
  <2>2. Machine' \in MachineState
    BY <1>1, <1>7, <2>1 DEF ResetMachine, Machine, MachineState
  <2>. QED
    BY <1>4, <1>7, <2>2 DEF ResetMachine
<1>8. CASE Mount
  <2>1. PICK d \in Drive, p \in PathOrNone : media' = [media EXCEPT ![d] = p]
    BY <1>8 DEF Mount, PathOrNone
  <2>2. media' \in [Drive -> PathOrNone]
    BY <1>1, <2>1
  <2>3. Machine' \in MachineState
    BY <1>1, <1>8, <2>2 DEF Mount, Machine, MachineState
  <2>. QED
    BY <1>4, <1>8, <2>3 DEF Mount
<1>9. CASE UNCHANGED fileVars
  BY <1>9 DEF fileVars, machineVars, FileInv, FileOK, Machine
<1>. QED
  BY <1>2, <1>3, <1>5, <1>6, <1>7, <1>8, <1>9 DEF FileNext

\* A load says honestly whether the machine is the one that was saved, for every
\* limit on the queues and every place a save may be cut, with what LoadHonest
\* leaves out: queues over the limit, the second Sony drive and the lines of
\* the DOC and of the ADB's mode.
THEOREM LoadHonestHolds == FileSpec => LoadHonest
<1>1. FileInit => FileInv
  BY FileStart
<1>2. FileInv /\ [FileNext]_fileVars => FileInv' /\ [LoadStep]_fileVars
  BY FileStep
<1>. QED
  BY <1>1, <1>2, PTL DEF FileSpec, LoadHonest
=============================================================================
