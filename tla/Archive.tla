-------------------------------- MODULE Archive --------------------------------
(***************************************************************************)
(* The archive (archive.cpp), its block store and container (store/), the  *)
(* import of .miga bundles and the file it all lands in (miga.cpp): saves  *)
(* that share blocks, loading them back, writing the file through a        *)
(* temporary beside it, and a process or a machine that stops in between.  *)
(*                                                                         *)
(* A document is the runes of its mantles, its glyphs and whatever else    *)
(* the application keeps. A version names the runes and glyphs, a content  *)
(* digest the whole document. A block's key is its hash, so a block is its *)
(* content; a manifest and an asset are one block each.                    *)
(***************************************************************************)
EXTENDS Naturals, SequencesExt

CONSTANTS
    Rune, Glyph, Config,   \* what documents are made of
    Name, Bytes,  \* assets
    None,         \* no document, no bytes
    Absent, Torn, Lost, \* what a file is when it is not an archive's bytes: not
                  \* there, written in part, or with parts missing after a power loss
    Happens,      \* of "reopen", "write", "import", "crash", "fail", "power"
    MaxSaves      \* bound: saves in the archive

ASSUME ArchiveAssumption == MaxSaves \in Nat \ {0}

VARIABLES
    a,        \* the Archive in memory
    log,      \* the documents saved, in order: what a.saves should give back
    stage,    \* how far write_file has got: "idle", "open", "flushed", "removed"
    bytes,    \* what write_file is writing
    disk,     \* disk.path and disk.tmp: Absent, Torn, Lost, or an archive's bytes
    cached,   \* the files whose bytes the operating system may not have put on disk
    wrote     \* the archive write_file last reported written, or None

vars == <<a, log, stage, bytes, disk, cached, wrote>>

Doc == [runes : SUBSET Rune, glyphs : Glyph, config : Config]

(* The slice a version names is the mantles and the glyphs. *)
Version == (SUBSET Rune) \X Glyph
version_name(d) == <<d.runes, d.glyphs>>

(* The document without its mantles. *)
remainder_of(d) == <<d.glyphs, d.config>>

Block == [rest : Glyph \X Config] \union [rune : Rune] \union [manifest : Doc] \union [bytes : Bytes]
Entry == [version : Version, content : Doc \union {None}, recipe : Doc]
File ==
    [index  : [saves  : Seq([version : Version, recipe : Doc]),
               assets : [Name -> Bytes \union {None}]],
     blocks : SUBSET Block]

ASSUME NoneAssumption == None \notin Doc /\ None \notin Bytes /\ None \notin File

IsArchive(s) ==
    /\ DOMAIN s.saves = 1 .. Len(s.saves) /\ Len(s.saves) <= MaxSaves
    /\ \A i \in DOMAIN s.saves : s.saves[i] \in Entry
    /\ s.blocks \subseteq Block
    /\ s.assets \in [Name -> Bytes \union {None}]

(* write_file holds bytes exactly while it runs, and whatever is in memory or *)
(* in a file is an archive.                                                   *)
TypeOK ==
    /\ IsArchive(a)
    /\ stage \in {"idle", "open", "flushed", "removed"}
    /\ stage = "idle" <=> bytes = None
    /\ cached \subseteq {"path", "tmp"}

Empty == [saves |-> <<>>, blocks |-> {}, assets |-> [x \in Name |-> None]]

Init ==
    /\ a = Empty /\ log = <<>>
    /\ stage = "idle" /\ bytes = None
    /\ disk = [path |-> Absent, tmp |-> Absent]
    /\ cached = {} /\ wrote = None

-----------------------------------------------------------------------------
(* Saving and loading. *)

(* The blocks one save puts: the rest, one per rune, and the manifest. *)
BlocksOf(d) == {[rest |-> remainder_of(d)], [manifest |-> d]} \union {[rune |-> r] : r \in d.runes}

(* Mutant of Saved: documents are told apart by their version. *)
SavedUnlessSameVersion(s, d) ==
    IF s.saves # <<>> /\ Last(s.saves).version = version_name(d) THEN s
    ELSE [s EXCEPT !.saves = Append(@, [version |-> version_name(d), content |-> d, recipe |-> d]),
                   !.blocks = @ \union BlocksOf(d)]

(* Archive::save: nothing when the document is the one saved last. *)
Saved(s, d) ==
    IF s.saves # <<>> /\ Last(s.saves).content = d THEN s
    ELSE [saves  |-> Append(s.saves, [version |-> version_name(d), content |-> d, recipe |-> d]),
          blocks |-> s.blocks \union BlocksOf(d),
          assets |-> s.assets]

(* Archive::load_manifest: every block must be there, and the document must   *)
(* still have the name it is filed under.                                     *)
LoadManifest(s, save) ==
    IF BlocksOf(save.recipe) \subseteq s.blocks /\ version_name(save.recipe) = save.version
    THEN save.recipe ELSE None

load_at(s, i) == LoadManifest(s, s.saves[i])

Newest(is) == CHOOSE i \in is : \A j \in is : j <= i

(* Archive::load: the newest save under the name. *)
load(s, v) ==
    LET is == {i \in DOMAIN s.saves : s.saves[i].version = v}
    IN  IF is = {} THEN None ELSE load_at(s, Newest(is))

put_asset(s, x, b) ==
    [saves |-> s.saves, blocks |-> s.blocks \union {[bytes |-> b]},
     assets |-> [s.assets EXCEPT ![x] = b]]

get_asset(s, x) ==
    IF s.assets[x] # None /\ [bytes |-> s.assets[x]] \in s.blocks THEN s.assets[x] ELSE None

(* Archive::to_bytes: the index and every block. The index has no room for a *)
(* save's content digest.                                                    *)
to_bytes(s) ==
    [index  |-> [saves  |-> [i \in DOMAIN s.saves |->
                              [version |-> s.saves[i].version, recipe |-> s.saves[i].recipe]],
                 assets |-> s.assets],
     blocks |-> s.blocks]

(* Archive::from_bytes: every save comes back without its content digest. *)
from_bytes(b) ==
    [saves  |-> [i \in DOMAIN b.index.saves |->
                  [version |-> b.index.saves[i].version, content |-> None,
                   recipe  |-> b.index.saves[i].recipe]],
     blocks |-> b.blocks,
     assets |-> b.index.assets]

-----------------------------------------------------------------------------
file == <<stage, bytes, disk, cached, wrote>>

(* The document is on record unless saving it again added nothing. *)
Logged(d) ==
    IF log # <<>> /\ Last(log) = d /\ Len(a'.saves) = Len(a.saves) THEN log ELSE Append(log, d)

Save(d) ==
    /\ stage = "idle"
    /\ Len(a.saves) < MaxSaves
    /\ a' = Saved(a, d)
    /\ log' = Logged(d)
    /\ UNCHANGED file

PutAsset(x, b) ==
    /\ stage = "idle"
    /\ a' = put_asset(a, x, b)
    /\ UNCHANGED <<log, file>>

(* Assets of a bundle, one after the other. *)
PutAll(s, assets) ==
    [saves  |-> s.saves,
     blocks |-> s.blocks \union {[bytes |-> assets[x]] : x \in DOMAIN assets},
     assets |-> [x \in Name |-> IF x \in DOMAIN assets THEN assets[x] ELSE s.assets[x]]]

(* import_miga into this archive. The state is saved first, then each asset is put *)
(* as it decodes. The import stops at one that does not and is refused, but what   *)
(* it did until then stays: assets are the ones before that.                       *)
Import(d, assets) ==
    /\ "import" \in Happens
    /\ stage = "idle"
    /\ Len(a.saves) < MaxSaves
    /\ a' = PutAll(Saved(a, d), assets)
    /\ log' = Logged(d)
    /\ UNCHANGED file

(* The archive written to bytes and read back, as through a file. *)
Reopen ==
    /\ "reopen" \in Happens
    /\ stage = "idle"
    /\ a' = from_bytes(to_bytes(a))
    /\ UNCHANGED <<log, file>>

-----------------------------------------------------------------------------
(* write_file, one step per call that touches the disk, and what can go wrong. *)

WriteOpen ==
    /\ "write" \in Happens
    /\ stage = "idle"
    /\ stage' = "open" /\ bytes' = to_bytes(a)
    /\ disk' = [disk EXCEPT !.tmp = Torn]
    /\ UNCHANGED <<a, log, cached, wrote>>

WriteAndFlush ==
    /\ stage = "open"
    /\ stage' = "flushed"
    /\ disk' = [disk EXCEPT !.tmp = bytes]
    /\ cached' = cached \union {"tmp"}
    /\ UNCHANGED <<a, log, bytes, wrote>>

(* Mutant of WriteFails: what was written is put in place all the same. *)
WriteFailsAndRenames ==
    /\ "fail" \in Happens
    /\ stage = "open"
    /\ stage' = "idle" /\ bytes' = None
    /\ disk' = [path |-> disk.tmp, tmp |-> Absent]
    /\ cached' = cached \ {"tmp"}
    /\ UNCHANGED <<a, log, wrote>>

(* A short write or a failed flush: the temporary is removed. *)
WriteFails ==
    /\ "fail" \in Happens
    /\ stage = "open"
    /\ stage' = "idle" /\ bytes' = None
    /\ disk' = [disk EXCEPT !.tmp = Absent]
    /\ cached' = cached \ {"tmp"}
    /\ UNCHANGED <<a, log, wrote>>

RemoveOld ==
    /\ stage = "flushed"
    /\ stage' = "removed"
    /\ disk' = [disk EXCEPT !.path = Absent]
    /\ cached' = cached \ {"path"}
    /\ UNCHANGED <<a, log, bytes, wrote>>

Rename ==
    /\ stage = "removed"
    /\ stage' = "idle" /\ bytes' = None
    /\ disk' = [path |-> disk.tmp, tmp |-> Absent]
    /\ cached' = IF "tmp" \in cached THEN {"path"} ELSE {}
    /\ wrote' = bytes
    /\ UNCHANGED <<a, log>>

(* The rename fails: the temporary is removed here too. *)
RenameFails ==
    /\ "fail" \in Happens
    /\ stage = "removed"
    /\ stage' = "idle" /\ bytes' = None
    /\ disk' = [disk EXCEPT !.tmp = Absent]
    /\ cached' = cached \ {"tmp"}
    /\ UNCHANGED <<a, log, wrote>>

(* The process starts again from the file (read_file), or from nothing when *)
(* there is none or container_read finds it damaged.                        *)
Restarted(d) ==
    /\ a' = IF d.path \in {Absent, Torn, Lost} THEN Empty ELSE from_bytes(d.path)
    /\ log' = [i \in DOMAIN a'.saves |-> a'.saves[i].recipe]
    /\ stage' = "idle" /\ bytes' = None
    /\ UNCHANGED wrote

(* The process stops. What it wrote is with the operating system. *)
Crash ==
    /\ "crash" \in Happens
    /\ UNCHANGED <<disk, cached>>
    /\ Restarted(disk)

(* The machine stops: of a file whose bytes were still in the cache, any part *)
(* may be missing.                                                            *)
PowerLoss ==
    /\ "power" \in Happens
    /\ disk' \in [path : {disk.path} \union (IF "path" \in cached THEN {Lost} ELSE {}),
                  tmp  : {disk.tmp} \union (IF "tmp" \in cached THEN {Lost} ELSE {})]
    /\ cached' = {}
    /\ Restarted(disk')

Next ==
    \/ \E d \in Doc : Save(d)
    \/ \E x \in Name, b \in Bytes : PutAsset(x, b)
    \/ \E d \in Doc, x \in SUBSET Name : \E assets \in [x -> Bytes] : Import(d, assets)
    \/ Reopen \/ WriteOpen \/ WriteAndFlush \/ WriteFails \/ RemoveOld \/ Rename \/ RenameFails
    \/ Crash \/ PowerLoss

Spec == Init /\ [][Next]_vars

-----------------------------------------------------------------------------
(* Properties. *)

(* Every document ever saved loads back whole, by its place and, the newest of *)
(* its name, by its version, also from the bytes the archive is written as;    *)
(* and every asset reads back as last put. Sharing blocks, skipping repeated   *)
(* saves and closing and reopening the archive lose nothing (Archive::save).   *)
LoadsWhatWasSaved ==
    /\ TypeOK
    /\ Len(a.saves) = Len(log)
    /\ \A x \in Name : get_asset(a, x) = a.assets[x]
    /\ \A i \in DOMAIN log :
          /\ load_at(a, i) = log[i] /\ load_at(from_bytes(to_bytes(a)), i) = log[i]
          /\ load(a, version_name(log[i])) =
                log[Newest({j \in DOMAIN log : version_name(log[j]) = version_name(log[i])})]

(* Unless the power failed, the file is absent or holds, whole, the archive    *)
(* write_file last reported written, whatever failed or stopped on the way     *)
(* (Archive::write_file).                                                      *)
FileIsWhole == disk.path \in {Absent, wrote, Lost}

(* Once write_file has reported success there is an archive in the file        *)
(* whenever no write is under way, whatever failed or stopped a later one.     *)
ArchiveIsNeverLost == wrote # None /\ stage = "idle" => disk.path # Absent

=============================================================================
