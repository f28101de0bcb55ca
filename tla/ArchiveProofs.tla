----------------------------- MODULE ArchiveProofs -----------------------------
(***************************************************************************)
(* Whatever an archive holds and whatever goes wrong while it is written,  *)
(* its file is absent or the archive last reported written, unless the     *)
(* power failed; and every save and every asset reads back as it was.      *)
(***************************************************************************)
EXTENDS Archive, SequenceTheorems, WellFoundedInduction, TLAPS

(* FileIsWhole made inductive: once flushed, the temporary holds the bytes   *)
(* that are to replace the file, until it does.                              *)
WholeInv ==
    /\ disk = [path |-> disk.path, tmp |-> disk.tmp]
    /\ FileIsWhole
    /\ stage \in {"flushed", "removed"} => disk.tmp = bytes

(* A stop forgets the write under way; of the file it may take a part only   *)
(* when the power fails.                                                     *)
LEMMA StopKeepsWhole ==
    ASSUME WholeInv, Crash \/ PowerLoss
    PROVE  WholeInv'
<1>1. CASE Crash
    BY <1>1 DEF Crash, Restarted, WholeInv, FileIsWhole
<1>2. CASE PowerLoss
    <2>1. /\ disk' = [path |-> disk'.path, tmp |-> disk'.tmp]
          /\ disk'.path \in {disk.path, Lost}
        BY <1>2 DEF PowerLoss
    <2> QED BY <1>2, <2>1 DEF PowerLoss, Restarted, WholeInv, FileIsWhole
<1> QED BY <1>1, <1>2

(* So does every step of Archive::write_file, whether it succeeds or fails.  *)
LEMMA WriteKeepsWhole ==
    ASSUME WholeInv,
           WriteOpen \/ WriteAndFlush \/ WriteFails \/ RemoveOld \/ Rename \/ RenameFails
    PROVE  WholeInv'
<1>1. CASE WriteOpen
    BY <1>1 DEF WriteOpen, WholeInv, FileIsWhole
<1>2. CASE WriteAndFlush
    BY <1>2 DEF WriteAndFlush, WholeInv, FileIsWhole
<1>3. CASE WriteFails
    BY <1>3 DEF WriteFails, WholeInv, FileIsWhole
<1>4. CASE RemoveOld
    BY <1>4 DEF RemoveOld, WholeInv, FileIsWhole
<1>5. CASE Rename
    BY <1>5 DEF Rename, WholeInv, FileIsWhole
<1>6. CASE RenameFails
    BY <1>6 DEF RenameFails, WholeInv, FileIsWhole
<1> QED BY <1>1, <1>2, <1>3, <1>4, <1>5, <1>6

(* What is done to the archive in memory touches no file.                    *)
LEMMA NextKeepsWhole ==
    ASSUME WholeInv, [Next]_vars
    PROVE  WholeInv'
<1>1. ASSUME UNCHANGED file PROVE WholeInv'
    BY <1>1 DEF file, WholeInv, FileIsWhole
<1>2. ASSUME NEW d \in Doc, Save(d) PROVE UNCHANGED file
    BY <1>2 DEF Save
<1>3. ASSUME NEW x \in Name, NEW b \in Bytes, PutAsset(x, b) PROVE UNCHANGED file
    BY <1>3 DEF PutAsset, file
<1>4. ASSUME NEW d \in Doc, NEW x \in SUBSET Name, NEW assets \in [x -> Bytes], Import(d, assets)
      PROVE  UNCHANGED file
    BY <1>4 DEF Import
<1>5. CASE Reopen
    BY <1>1, <1>5 DEF Reopen, file
<1>6. CASE UNCHANGED vars
    BY <1>1, <1>6 DEF vars, file
<1> QED BY <1>1, <1>2, <1>3, <1>4, <1>5, <1>6, StopKeepsWhole, WriteKeepsWhole DEF Next

(* Archive::write_file: for any archive and any sequence of saves, imports,   *)
(* failures and crashes, the file is absent or what was last reported         *)
(* written, whole; only a power loss can damage it.                           *)
THEOREM FileStaysWhole == Spec => []FileIsWhole
<1>1. Init => WholeInv
    BY DEF Init, WholeInv, FileIsWhole
<1>2. WholeInv => FileIsWhole
    BY DEF WholeInv
<1> QED BY <1>1, <1>2, NextKeepsWhole, PTL DEF Spec

-----------------------------------------------------------------------------
(* What is saved loads back. *)

(* Archive s gives back the documents docs, one per save: each save is filed *)
(* under its document's name, with all its blocks, and every asset has its   *)
(* block.                                                                    *)
Gives(s, docs) ==
    /\ s = [saves |-> s.saves, blocks |-> s.blocks, assets |-> s.assets]
    /\ docs \in Seq(Doc) /\ s.saves \in Seq(Entry)
    /\ Len(s.saves) = Len(docs) /\ Len(docs) <= MaxSaves
    /\ s.blocks \subseteq Block
    /\ s.assets \in [Name -> Bytes \union {None}]
    /\ \A i \in 1..Len(docs) :
          /\ s.saves[i].recipe = docs[i]
          /\ s.saves[i].version = version_name(docs[i])
          /\ s.saves[i].content \in {None, docs[i]}
          /\ BlocksOf(docs[i]) \subseteq s.blocks
    /\ \A x \in Name : s.assets[x] # None => [bytes |-> s.assets[x]] \in s.blocks

(* The bytes some sound archive is written as.                               *)
Sound(b) == \E s, docs : Gives(s, docs) /\ b = to_bytes(s)
SoundFile(b) == b \in {Absent, Torn, Lost} \/ Sound(b)

(* The archive in memory gives back what was saved, and so does every file   *)
(* it may start from again.                                                  *)
LoadInv ==
    /\ Gives(a, log)
    /\ stage \in {"idle", "open", "flushed", "removed"}
    /\ stage = "idle" <=> bytes = None
    /\ bytes # None => Sound(bytes)
    /\ cached \subseteq {"path", "tmp"}
    /\ disk = [path |-> disk.path, tmp |-> disk.tmp]
    /\ SoundFile(disk.path) /\ SoundFile(disk.tmp)

(* Of the places in a list that are looked at, there is a newest.            *)
LEMMA NewestExists ==
    ASSUME NEW n \in Nat, NEW is \in SUBSET (1..n), is # {}
    PROVE  Newest(is) \in is
<1> DEFINE T == {n - i : i \in is}
<1>0. \A i \in is : i \in Nat /\ i <= n /\ n - i \in Nat
    OBVIOUS
<1>1. T \in SUBSET Nat /\ T # {}
    BY <1>0
<1>2. PICK t \in T : \A u \in T : ~(<<u, t>> \in OpToRel(<, Nat))
    BY <1>1, WFMin, NatLessThanWellFounded
<1>3. \A u \in T : ~(u < t)
    BY <1>1, <1>2 DEF OpToRel
<1>4. PICK i \in is : t = n - i
    OBVIOUS
<1>5. \A j \in is : j <= i
    <2> SUFFICES ASSUME NEW j \in is PROVE j <= i
        OBVIOUS
    <2>1. ~(n - j < n - i)
        BY <1>3, <1>4
    <2> QED BY <1>0, <2>1
<1> QED BY <1>5 DEF Newest

(* A document's blocks are blocks.                                           *)
LEMMA BlocksAreBlocks ==
    ASSUME NEW d \in Doc
    PROVE  BlocksOf(d) \subseteq Block /\ version_name(d) \in Version
<1>1. d.runes \in SUBSET Rune /\ d.glyphs \in Glyph /\ d.config \in Config
    BY DEF Doc
<1>2. /\ [rest |-> remainder_of(d)] \in [rest : Glyph \X Config]
      /\ [manifest |-> d] \in [manifest : Doc]
      /\ \A r \in d.runes : [rune |-> r] \in [rune : Rune]
    BY <1>1 DEF remainder_of
<1> QED BY <1>1, <1>2 DEF BlocksOf, Block, version_name, Version

(* Archive::save adds the document, unless it is the last one again.         *)
LEMMA SavedGives ==
    ASSUME NEW s, NEW docs, Gives(s, docs), Len(docs) < MaxSaves, NEW d \in Doc
    PROVE  \/ /\ Gives(Saved(s, d), Append(docs, d))
              /\ Len(Saved(s, d).saves) = Len(s.saves) + 1
           \/ /\ Gives(Saved(s, d), docs)
              /\ Len(Saved(s, d).saves) = Len(s.saves)
              /\ docs # <<>> /\ Last(docs) = d
<1> DEFINE entry == [version |-> version_name(d), content |-> d, recipe |-> d]
<1>1. CASE s.saves # <<>> /\ Last(s.saves).content = d
    <2>1. Saved(s, d) = s
        BY <1>1 DEF Saved
    <2>2. Len(docs) \in Nat /\ Len(docs) # 0 /\ docs # <<>>
        BY <1>1, EmptySeq, LenProperties DEF Gives
    <2>3. Last(s.saves).content \in {None, Last(docs)}
        BY <2>2 DEF Gives, Last
    <2>4. d # None
        BY NoneAssumption
    <2> QED BY <1>1, <2>1, <2>2, <2>3, <2>4
<1>2. CASE ~(s.saves # <<>> /\ Last(s.saves).content = d)
    <2> DEFINE t == [saves  |-> Append(s.saves, entry), blocks |-> s.blocks \union BlocksOf(d),
                     assets |-> s.assets]
    <2>1. Saved(s, d) = t
        BY <1>2 DEF Saved
    <2>2. entry \in Entry
        BY BlocksAreBlocks DEF Entry
    <2>3. /\ Append(s.saves, entry) \in Seq(Entry)
          /\ Len(Append(s.saves, entry)) = Len(s.saves) + 1
          /\ \A i \in 1..Len(s.saves) : Append(s.saves, entry)[i] = s.saves[i]
          /\ Append(s.saves, entry)[Len(s.saves) + 1] = entry
        BY <2>2, AppendProperties DEF Gives
    <2>4. /\ Append(docs, d) \in Seq(Doc)
          /\ Len(Append(docs, d)) = Len(docs) + 1
          /\ \A i \in 1..Len(docs) : Append(docs, d)[i] = docs[i]
          /\ Append(docs, d)[Len(docs) + 1] = d
        BY AppendProperties DEF Gives
    <2>5. Len(docs) \in Nat /\ Len(s.saves) = Len(docs)
        BY LenProperties DEF Gives
    <2>6. t.blocks \subseteq Block
        BY BlocksAreBlocks DEF Gives
    <2>7. \A i \in 1..Len(docs) + 1 :
            /\ t.saves[i].recipe = Append(docs, d)[i]
            /\ t.saves[i].version = version_name(Append(docs, d)[i])
            /\ t.saves[i].content \in {None, Append(docs, d)[i]}
            /\ BlocksOf(Append(docs, d)[i]) \subseteq t.blocks
        <3> SUFFICES ASSUME NEW i \in 1..Len(docs) + 1
                     PROVE  /\ t.saves[i].recipe = Append(docs, d)[i]
                            /\ t.saves[i].version = version_name(Append(docs, d)[i])
                            /\ t.saves[i].content \in {None, Append(docs, d)[i]}
                            /\ BlocksOf(Append(docs, d)[i]) \subseteq t.blocks
            OBVIOUS
        <3>1. CASE i \in 1..Len(docs)
            BY <3>1, <2>3, <2>4, <2>5 DEF Gives
        <3>2. CASE i = Len(docs) + 1
            BY <3>2, <2>3, <2>4, <2>5
        <3> QED BY <2>5, <3>1, <3>2
    <2>8. Gives(t, Append(docs, d))
        BY <2>3, <2>4, <2>5, <2>6, <2>7, ArchiveAssumption DEF Gives
    <2> QED BY <2>1, <2>3, <2>8
<1> QED BY <1>1, <1>2

(* Putting assets leaves every document loadable.                            *)
LEMMA PutGives ==
    ASSUME NEW s, NEW docs, Gives(s, docs),
           NEW xs \in SUBSET Name, NEW assets \in [xs -> Bytes]
    PROVE  Gives(PutAll(s, assets), docs)
<1> DEFINE now == [x \in Name |-> IF x \in xs THEN assets[x] ELSE s.assets[x]]
           put == {[bytes |-> assets[x]] : x \in xs}
<1>1. PutAll(s, assets) = [saves |-> s.saves, blocks |-> s.blocks \union put, assets |-> now]
    BY DEF PutAll
<1>2. now \in [Name -> Bytes \union {None}]
    BY DEF Gives
<1>3. put \subseteq Block
    BY DEF Block
<1>4. \A x \in Name : now[x] # None => [bytes |-> now[x]] \in s.blocks \union put
    BY DEF Gives
<1> QED BY <1>1, <1>2, <1>3, <1>4 DEF Gives

LEMMA PutOneGives ==
    ASSUME NEW s, NEW docs, Gives(s, docs), NEW x \in Name, NEW b \in Bytes
    PROVE  Gives(put_asset(s, x, b), docs)
<1>1. put_asset(s, x, b) =
        [saves |-> s.saves, blocks |-> s.blocks \union {[bytes |-> b]},
         assets |-> [s.assets EXCEPT ![x] = b]]
    BY DEF put_asset
<1>2. [bytes |-> b] \in Block
    BY DEF Block
<1> QED BY <1>1, <1>2 DEF Gives

(* What is written reads back: to_bytes, then from_bytes.                    *)
LEMMA ReadBackGives ==
    ASSUME NEW s, NEW docs, Gives(s, docs)
    PROVE  Gives(from_bytes(to_bytes(s)), docs)
<1> DEFINE t == from_bytes(to_bytes(s))
<1>1. DOMAIN s.saves = 1..Len(docs) /\ Len(docs) \in Nat
    BY LenProperties DEF Gives
<1>2. /\ t = [saves |-> t.saves, blocks |-> t.blocks, assets |-> t.assets]
      /\ t.blocks = s.blocks /\ t.assets = s.assets
      /\ t.saves = [i \in 1..Len(docs) |->
                      [version |-> s.saves[i].version, content |-> None,
                       recipe |-> s.saves[i].recipe]]
    BY <1>1 DEF from_bytes, to_bytes
<1>3. \A i \in 1..Len(docs) : s.saves[i] \in Entry
    BY <1>1, ElementOfSeq DEF Gives
<1>4. \A i \in 1..Len(docs) : t.saves[i] \in Entry
    BY <1>2, <1>3 DEF Entry
<1>5. t.saves \in Seq(Entry) /\ Len(t.saves) = Len(docs)
    BY <1>1, <1>2, <1>4, SeqDef
<1> HIDE DEF t
<1>6. \A i \in 1..Len(docs) :
        /\ t.saves[i].recipe = docs[i]
        /\ t.saves[i].version = version_name(docs[i])
        /\ t.saves[i].content \in {None, docs[i]}
    BY <1>2 DEF Gives
<1>7. Gives(t, docs)
    BY <1>2, <1>5, <1>6 DEF Gives
<1> QED BY <1>7 DEF t

(* An archive that gives the documents back loads each of them.              *)
LEMMA GivenLoads ==
    ASSUME NEW s, NEW docs, Gives(s, docs)
    PROVE  /\ DOMAIN docs = 1..Len(docs)
           /\ \A i \in 1..Len(docs) : load_at(s, i) = docs[i]
           /\ \A i \in 1..Len(docs) :
                load(s, version_name(docs[i])) =
                  docs[Newest({j \in 1..Len(docs) : version_name(docs[j]) = version_name(docs[i])})]
           /\ \A x \in Name : get_asset(s, x) = s.assets[x]
<1>1. DOMAIN s.saves = 1..Len(docs) /\ DOMAIN docs = 1..Len(docs) /\ Len(docs) \in Nat
    BY LenProperties DEF Gives
<1>2. \A i \in 1..Len(docs) : load_at(s, i) = docs[i]
    BY DEF load_at, LoadManifest, Gives
<1>3. ASSUME NEW i \in 1..Len(docs)
      PROVE  load(s, version_name(docs[i])) =
               docs[Newest({j \in 1..Len(docs) : version_name(docs[j]) = version_name(docs[i])})]
    <2> DEFINE is == {j \in 1..Len(docs) : version_name(docs[j]) = version_name(docs[i])}
    <2>1. {j \in DOMAIN s.saves : s.saves[j].version = version_name(docs[i])} = is
        BY <1>1 DEF Gives
    <2>2. i \in is
        OBVIOUS
    <2>3. Newest(is) \in 1..Len(docs)
        BY <1>1, <2>2, NewestExists
    <2> HIDE DEF is
    <2>4. load(s, version_name(docs[i])) = load_at(s, Newest(is))
        BY <2>1, <2>2 DEF load
    <2>5. load(s, version_name(docs[i])) = docs[Newest(is)]
        BY <1>2, <2>3, <2>4
    <2> QED BY <2>5 DEF is
<1>4. \A x \in Name : get_asset(s, x) = s.assets[x]
    BY DEF get_asset, Gives
<1> QED BY <1>1, <1>2, <1>3, <1>4

(* What an archive is written as is a file, and no file is None.             *)
LEMMA SoundIsAFile ==
    ASSUME NEW b, Sound(b)
    PROVE  b # None
<1>1. PICK s, docs : Gives(s, docs) /\ b = to_bytes(s)
    BY DEF Sound
<1>2. DOMAIN s.saves = 1..Len(s.saves) /\ Len(s.saves) \in Nat
    BY <1>1, LenProperties DEF Gives
<1>3. \A i \in 1..Len(s.saves) : s.saves[i] \in Entry
    BY <1>1, <1>2, ElementOfSeq DEF Gives
<1>4. \A i \in 1..Len(s.saves) :
        [version |-> s.saves[i].version, recipe |-> s.saves[i].recipe]
            \in [version : Version, recipe : Doc]
    BY <1>3 DEF Entry
<1>5. [i \in DOMAIN s.saves |->
        [version |-> s.saves[i].version, recipe |-> s.saves[i].recipe]]
            \in Seq([version : Version, recipe : Doc])
    BY <1>2, <1>4, SeqDef
<1>6. b \in File
    BY <1>1, <1>5 DEF to_bytes, File, Gives
<1> QED BY <1>6, NoneAssumption

(* A new archive gives nothing back.                                         *)
LEMMA EmptyGives == Gives(Empty, <<>>)
<1>1. <<>> \in Seq(Doc) /\ <<>> \in Seq(Entry) /\ Len(<<>>) = 0
    BY EmptySeq
<1> QED BY <1>1, ArchiveAssumption DEF Gives, Empty

(* Archive::save and miga import in LoadInv: the document is on record, once. *)
LEMMA SaveKeepsLoads ==
    ASSUME LoadInv, NEW d \in Doc, NEW xs \in SUBSET Name, NEW assets \in [xs -> Bytes],
           Save(d) \/ Import(d, assets)
    PROVE  LoadInv'
<1>1. Len(log) < MaxSaves /\ Len(a.saves) \in Nat
    BY LenProperties DEF LoadInv, Gives, Save, Import
<1>2. a' = Saved(a, d) \/ a' = PutAll(Saved(a, d), assets)
    BY DEF Save, Import
<1>3. a'.saves = Saved(a, d).saves
    BY <1>2 DEF PutAll
<1>4. ASSUME NEW docs, Gives(Saved(a, d), docs) PROVE Gives(a', docs)
    BY <1>2, <1>4, PutGives
<1>5. log' = Logged(d)
    BY DEF Save, Import
<1>6. Gives(a', log')
    <2>1. CASE /\ Gives(Saved(a, d), Append(log, d))
               /\ Len(Saved(a, d).saves) = Len(a.saves) + 1
        BY <2>1, <1>1, <1>3, <1>4, <1>5 DEF Logged
    <2>2. CASE /\ Gives(Saved(a, d), log)
               /\ Len(Saved(a, d).saves) = Len(a.saves)
               /\ log # <<>> /\ Last(log) = d
        BY <2>2, <1>3, <1>4, <1>5 DEF Logged
    <2> QED BY <1>1, <2>1, <2>2, SavedGives DEF LoadInv
<1>7. UNCHANGED file
    BY DEF Save, Import
<1> QED BY <1>6, <1>7 DEF LoadInv, file

(* A step of write_file touches neither the archive nor what was saved, and    *)
(* puts nothing in a file that is not the archive it was given.                *)
LEMMA WriteKeepsLoads ==
    ASSUME LoadInv,
           WriteOpen \/ WriteAndFlush \/ WriteFails \/ RemoveOld \/ Rename \/ RenameFails
    PROVE  LoadInv'
<1>0. \A b : Sound(b) => b # None
    BY SoundIsAFile
<1>a. UNCHANGED <<a, log>>
    BY DEF WriteOpen, WriteAndFlush, WriteFails, RemoveOld, Rename, RenameFails
<1>1. CASE WriteOpen
    <2>1. Sound(to_bytes(a))
        BY DEF LoadInv, Sound
    <2> QED BY <1>0, <1>1, <2>1 DEF WriteOpen, LoadInv, SoundFile
<1>2. CASE WriteAndFlush
    BY <1>2 DEF WriteAndFlush, LoadInv, SoundFile
<1>3. CASE WriteFails
    BY <1>3 DEF WriteFails, LoadInv, SoundFile
<1>4. CASE RemoveOld
    BY <1>4 DEF RemoveOld, LoadInv, SoundFile
<1>5. CASE Rename
    BY <1>5 DEF Rename, LoadInv, SoundFile
<1>6. CASE RenameFails
    BY <1>6 DEF RenameFails, LoadInv, SoundFile
<1> QED BY <1>1, <1>2, <1>3, <1>4, <1>5, <1>6

(* What a sound file starts again from gives back all it holds, which is then *)
(* what was saved.                                                            *)
LEMMA RestartGives ==
    ASSUME NEW d, SoundFile(d.path), Restarted(d)
    PROVE  Gives(a', log')
<1>1. \E docs : Gives(a', docs)
    <2>1. CASE d.path \in {Absent, Torn, Lost}
        BY <2>1, EmptyGives DEF Restarted
    <2>2. CASE d.path \notin {Absent, Torn, Lost}
        <3>1. PICK s, docs : Gives(s, docs) /\ d.path = to_bytes(s)
            BY <2>2 DEF SoundFile, Sound
        <3>2. a' = from_bytes(to_bytes(s))
            BY <2>2, <3>1 DEF Restarted
        <3> QED BY <3>1, <3>2, ReadBackGives
    <2> QED BY <2>1, <2>2
<1>2. PICK docs : Gives(a', docs)
    BY <1>1
<1>3. /\ DOMAIN a'.saves = 1..Len(docs) /\ DOMAIN docs = 1..Len(docs)
      /\ docs = [i \in 1..Len(docs) |-> docs[i]]
    BY <1>2, LenProperties DEF Gives
<1>4. \A i \in 1..Len(docs) : a'.saves[i].recipe = docs[i]
    BY <1>2 DEF Gives
<1>5. log' = [i \in 1..Len(docs) |-> a'.saves[i].recipe]
    BY <1>3 DEF Restarted
<1>6. log' = docs
    BY <1>3, <1>4, <1>5
<1> QED BY <1>2, <1>6

(* A stop of the process or of the machine.                                  *)
LEMMA StopKeepsLoads ==
    ASSUME LoadInv, Crash \/ PowerLoss
    PROVE  LoadInv'
<1>1. CASE Crash
    <2>1. Gives(a', log')
        BY <1>1, RestartGives DEF Crash, LoadInv
    <2> QED BY <1>1, <2>1 DEF Crash, Restarted, LoadInv
<1>2. CASE PowerLoss
    <2>1. /\ disk' = [path |-> disk'.path, tmp |-> disk'.tmp]
          /\ disk'.path \in {disk.path, Lost} /\ disk'.tmp \in {disk.tmp, Lost}
        BY <1>2 DEF PowerLoss
    <2>2. SoundFile(disk'.path) /\ SoundFile(disk'.tmp)
        BY <2>1 DEF LoadInv, SoundFile
    <2>3. Restarted(disk')
        BY <1>2 DEF PowerLoss
    <2>4. Gives(a', log')
        BY <2>2, <2>3, RestartGives
    <2> QED BY <1>2, <2>1, <2>2, <2>3, <2>4 DEF PowerLoss, Restarted, LoadInv
<1> QED BY <1>1, <1>2

LEMMA NextKeepsLoads ==
    ASSUME LoadInv, [Next]_vars
    PROVE  LoadInv'
<1>1. ASSUME NEW d \in Doc, Save(d) PROVE LoadInv'
    <2>1. [x \in {} |-> None] \in [{} -> Bytes]
        OBVIOUS
    <2> QED BY <1>1, <2>1, SaveKeepsLoads
<1>2. ASSUME NEW x \in Name, NEW b \in Bytes, PutAsset(x, b) PROVE LoadInv'
    <2>1. Gives(a', log')
        BY <1>2, PutOneGives DEF PutAsset, LoadInv
    <2> QED BY <1>2, <2>1 DEF PutAsset, LoadInv, file
<1>3. ASSUME NEW d \in Doc, NEW x \in SUBSET Name, NEW assets \in [x -> Bytes], Import(d, assets)
      PROVE  LoadInv'
    BY <1>3, SaveKeepsLoads
<1>4. CASE Reopen
    <2>1. Gives(a', log')
        BY <1>4, ReadBackGives DEF Reopen, LoadInv
    <2> QED BY <1>4, <2>1 DEF Reopen, LoadInv, file
<1>5. CASE UNCHANGED vars
    BY <1>5 DEF vars, LoadInv
<1> QED BY <1>1, <1>2, <1>3, <1>4, <1>5, WriteKeepsLoads, StopKeepsLoads DEF Next

(* Archive::save, load, to_bytes and from_bytes: for any documents and assets,  *)
(* and any sequence of saves, imports, writes, failures and stops, every        *)
(* document saved loads back whole, in its place and by its version, from       *)
(* memory and from the bytes the archive is written as.                         *)
THEOREM EverySaveLoads == Spec => []LoadsWhatWasSaved
<1>1. Init => LoadInv
    <2> SUFFICES ASSUME Init PROVE LoadInv
        OBVIOUS
    <2>1. Gives(a, log)
        BY EmptyGives DEF Init
    <2> QED BY <2>1 DEF Init, LoadInv, SoundFile
<1>2. LoadInv => LoadsWhatWasSaved
    <2> SUFFICES ASSUME LoadInv PROVE LoadsWhatWasSaved
        OBVIOUS
    <2>1. Gives(a, log) /\ Gives(from_bytes(to_bytes(a)), log)
        BY ReadBackGives DEF LoadInv
    <2>2. DOMAIN log = 1..Len(log) /\ DOMAIN a.saves = 1..Len(a.saves)
        BY <2>1, LenProperties DEF Gives
    <2>3. \A i \in DOMAIN a.saves : a.saves[i] \in Entry
        BY <2>1, <2>2, ElementOfSeq DEF Gives
    <2>4. TypeOK
        BY <2>1, <2>2, <2>3 DEF TypeOK, IsArchive, Gives, LoadInv
    <2>5. Len(a.saves) = Len(log)
        BY <2>1 DEF Gives
    <2>6. \A i \in 1..Len(log) :
            load_at(a, i) = log[i] /\ load_at(from_bytes(to_bytes(a)), i) = log[i]
        BY <2>1, GivenLoads
    <2>7. \A i \in 1..Len(log) :
            load(a, version_name(log[i])) =
              log[Newest({j \in 1..Len(log) : version_name(log[j]) = version_name(log[i])})]
        BY <2>1, GivenLoads
    <2>8. \A x \in Name : get_asset(a, x) = a.assets[x]
        BY <2>1, GivenLoads
    <2> QED BY <2>2, <2>4, <2>5, <2>6, <2>7, <2>8 DEF LoadsWhatWasSaved
<1> QED BY <1>1, <1>2, NextKeepsLoads, PTL DEF Spec

=============================================================================
