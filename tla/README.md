# VoidPalabra in TLA+

VoidPalabra is a C++20 library that keeps documents on several devices: a replicated
document (CRDT) with conflicts kept as values, a sync session that carries it between
two devices over an unreliable transport, a graph of what was said and in which order, an archive
of saved versions, and a binding to Reticulum links. This directory models
the parts that keep state or compute something a test can hardly cover, checks them with TLC,
and proves the central invariants with TLAPS. Paths below are relative to the repository.

## 1. The system

### Inventory

| Part (code) | State | Operations | What is hard | What makes it correct |
|---|---|---|---|---|
| Documents: observed-remove sets (`src/crdt/orset.cpp`, `document.cpp`) | per place a map of tags to values, and retired tags | `enrich`, `join`, `flatten`, `set_field`, `add_tag`, `remove_tag` | joins in any order; a tag that means two things | join commutes; `flatten(enrich(x)) = x` |
| Replica (`src/crdt/replica.cpp`) | id, Lamport counter, document; what was saved last | `create`, `fork`, `observe`, `merge`, `resolve`, `to_bytes`, `from_bytes` | crashes between minting, saving and sending; forks; repeated and overtaken documents | a tag names one add everywhere; no false identity collision; nothing said is lost |
| Conflicts, policies (`conflict.cpp`, `policy.cpp`) | none, read off the document | `conflicts`, `resolve`, `live_of` | removal against edit; nested removals | a merge never takes an unseen edit without a word; `observe` settles nothing that was not shown |
| Anomalies, export, provenance (`anomaly.cpp`, `export.cpp`, `provenance.cpp`) | none | `anomalies`, `exportable`, `writers` | rules that each device kept and a merge broke; a part withheld beside a part shared | reports agree with what is shown; withholding changes nothing else; removals travel |
| Sync session (`src/sync/session.cpp`): documents, files, presence | handshake, export, acked, merged, refused, wants, presence numbers | `start`, `tick`, `receive`, `close`, `fetch`, `set_fetch`, `publish_presence` | restarts, lost, late and repeated frames, sharing that changes, timeouts racing answers | `in_sync` is true; sessions converge; a missing file is tracked and not waited for without end |
| History (`src/utterance/history.cpp`, `utterance.cpp`) | utterances by hash, index of children | `record`, `receive`, `absorb`, `to_json`, `from_json` | delivery in any order; an index beside the graph | ancestry is what the author had; heads name the cut; one causal timeline |
| Archive (`src/archive`, `src/store`) | saves, shared blocks, assets; a file | `save`, `load*`, `put_asset`, `import_miga`, `write_file`, `read_file` | sharing of blocks; stopping between two steps of a write | each save loads back; the file is whole |
| Node and SyncLinks (`src/reticulum/node.cpp`, `sync_links.cpp`) | links, outboxes, transfers, events; sessions by link | `open`, `send`, `close`, `loop`, `poll`; `handle`, `tick` | callbacks, one transfer at a time, lost proofs, exceptions, polled events | promises kept in order; sessions follow links; nothing pends for ever |
| Sequences (`src/crdt/sequence.cpp`) | a tree of elements, dead ids | `seq_init`, `seq_insert`, `seq_erase`, `seq_read` | concurrent runs at one spot, tombstones | one order, runs stay together, an element lands where it was typed |
| Links (`src/canonical/links.cpp`) | none | `quotient`, `check_links` | union-find, capacities per class, an explicit-stack search | smallest equivalence; ends counted once; exact cycles |

The application drives everything on one thread: it *observes* its state into the replica,
*saves* the replica, *sends* the delta or the document, *merges* what arrives and *splices* `flatten()`
back. A `Session` holds a reference to the replica and returns frames for the host to send;
`SyncLinks` creates a session when `Node` reports a link and routes frames between the two.
`exportable` decides what a session sends. `Archive` and `History` are used by the application beside the replica.

### Modules

| Module | Models | State | Actions |
|---|---|---|---|
| `OrSetDoc` | documents, join, reading under a policy, flatten, conflicts, the deltas of `observe` and `resolve` | - (operators) | - |
| `Replica` (extends `OrSetDoc`) | the loop of `replica.hpp` on several devices | `rep`, `disk`, `outbox`, `air`, `used` | `Create Fork Observe ObserveRefused Resolve Merge Send Lose Save Crash` |
| `Knowledge` | what replicas promise: devices that know, keep and say facts | `known`, `kept`, `said` | `Make Learn Copy Keep Say Fade FallBack` |
| `ReplicaKnowledge` | the refinement mapping from `Replica` to `Knowledge` | | |
| `Documents` (extends `Replica`) | enrich and the direct edits, anomalies, export, provenance over forks of a replica | + `edits` | `EditOn MergeFrom` |
| `Session` | the documents half of a session at both ends, and the transport | `doc saved share sess net` and counters | `Start Edit Tick Receive Close Withhold Save Crash Lose` |
| `SessionFiles` | the files half at the end that lacks files | `wants`, `named`, `have`, policy, `net` ... | `Edit HearDoc HearHello HearAckOrWant Tick Supply FindElsewhere Fetch SetFetch Answer HearContent HearAbsent Lose Close` |
| `Presence` | presence, publisher and watcher | numbers, `live`, `shown`, `frames` | `Publish Restart HearRestart HearPresence Expire LosePresence` |
| `History` | history graphs of several peers | `graph`, `file`, `minted`, `said`; `before` remembers what its author had | `Record Receive Absorb Save Reopen` |
| `NodeLink` | one link in `Node`, in microReticulum, and its session | `n`, `session`, `owed`, `begun` | `Loop LoopThrows Open Handle Tick Close`; `LoopThrows` cuts `loop()` short at any of its steps that can throw (`CutShort`) |
| `Archive` | archive, blocks, container, import, file | `a log stage bytes disk cached wrote` | `Save PutAsset Import Reopen`, the steps of `write_file`, `Crash PowerLoss` |
| `Sequence` | the tree-ordered list on several devices | `elem nodes dead typed resets` | `Insert Erase Reset Merge` |
| `Links` | `check_links` step by step | the edges, the union-find forest, the search's frames | `Hold CheckLinks Unite Fused Begin Descend Look Leave Done` |

`MC*` modules give the constants for TLC. `*Proofs` modules hold theorems. A definition whose comment begins
*Mutant of X* is a deliberately broken variant of `X`, kept beside it: substituted for `X` it
makes a run's property fail, which shows that the property can see that kind of mistake. No specification uses one.

### How the code is abstracted

* **A document is flat**: the set of every add and of every retired tag, each with the path of the set it is in.
  An interior node of the JSON tree exists exactly when something is beneath it. `OrSet::adds` is a map; on a tag both sides hold,
  `Join` keeps the right-hand value, as the assignment in `orset.cpp:164` does.
* **Values, names and hashes** are model values or small numbers; numbers where the code sorts by bytes. SHA-256 is
  injective: a digest is what it is the digest of.
* **In `Session` a document is a set of facts** and merging is union; that honest replicas merge like that is what `ImplementsKnowledge` says of `Replica`.
* **Time** is nondeterminism: `Tick` takes the set of timers that have run out. What needs the relation of two clocks is left out (see section 6).
* **Validation** is a verdict taken as input (`Malformed`): the theorem on `in_sync` holds for any verdicts, while the runs have no malformed fact.
* **In `Sequence`** the frames of one list of siblings, which lie next to each other on the stack of `seq_order`, are one frame, and the stages 1 and 2 of a node, between which nothing else happens, are one turn of the loop.
* **In `Links`** a label pattern is the set of labels it matches, and one capacity rule and one acyclic rule stand for each list of
  rules, since the code treats rules one by one. The capacity modelled is one that counts `through_equivalence`.

## 2. Runs

Ten runs pass and two show a disagreement with a comment. Every property of a passing run has a mutant that breaks it.

| Run | Question | Bounds |
|---|---|---|
| `replica_loop` | Do replicas that follow the loop ever raise a false alarm, reuse a tag or forget what was said? | two devices, two ids, one glyph declaration; counters up to three on one device and two on the other, four tags, one message under way or two while there are at most two tags; whole documents and deltas |
| `documents` | Do flatten, observe, conflicts, anomalies, export and provenance tell one story about every document? | two forks, three edits in all, of which one may be made before the document is shared; a mantle, two runes, a declaration, an edge, content under Latest; any merges |
| `session_restart` | Is `in_sync` ever a lie, and is sharing asked again? | one fact, three session starts, one step's frames under way each way, one repeat; crashes, closing, timeouts, changing shares; edits and merges saved before frames leave |
| `session_live` | Do sessions shake hands and converge? | one fact, three session starts; losses, crashes; edits saved before frames leave, merges later or never |
| `history` | Is the graph right, whatever the order of delivery? | two peers, three utterances, batches and inboxes of two, damaged files |
| `spheres` | Can a missing file be lost track of otherwise than by an ack or a want, and does waiting end? Is the newest payload shown, and does presence end? | two files, one damaged at the peer, two attempts, coalesced edits, losses, repeats, settings that change; two sessions of the publisher, four payloads each. The two halves share no state: in a behaviour one of them moves |
| `files_missed` (violation) | Is every missing file asked for as soon as it is known? | one file, one attempt, nothing lost |
| `node_link` | Does a link keep what it promised, and does it let go? | three messages, an outbox of two, three unpolled events |
| `archive` | Does each save load back, is the file whole? | two saves that share a version, one asset, imports, failures, crashes, power losses |
| `archive_lost` (violation) | Is there always an archive? | the same with crashes only |
| `sequence` | Do lists converge without mixing runs? | two devices, four elements, one erased, one reset; ids of one device ascend (`IdsAscend`; the proofs hold for any order) |
| `links` | Are quotients, capacities and cycles exact? | five runes of which two share a name, three links, of which two may differ by their notes only (`NotesTellParallelsApart`: the second note only beside the same link with the first) |

What the properties say, and why it could be otherwise:

* `NoFalseCollision`: `merge` refuses a document in which a tag under its own id is unknown or names something
  else. Late, repeated and echoed documents all carry such tags; the check is right only while everything under an id
  outside the device has been saved by the device that owns the id. `TagsAreUnique` is the other half, through crashes, refused
  observations and forks. `JoinCommutes` (checked by `documents`) holds of all documents of the loop because of it. (It does not hold of all documents, see section 5.)
* `ImplementsKnowledge`: the loop implements `Knowledge` with *facts of a document* as its adds and retired tags.
* `ObservingOwnOutputIsSilent`, `ObservedIsShown`, `ConflictsSurviveObserving` are the two rules of `observe`
  (`replica.hpp:138-160`) and the round trip. They relate four computations -- flatten, the comparison in `observe`, the
  retirements and join -- on every document that two forks reach.
* `MergeReportsLostEdits` and `BrokenLinksAreExplained` compare the document before and after a merge: what stopped being visible must be reported. A link whose
  rune was removed must be reported as broken by a removal, one whose rune was renamed as broken by a renaming: a `Cause` that knows only one of the two breaks the property
  (`CauseRenamed`, `CauseRemoved`). Left out are names in conflict, names settled by a policy, and a rune removed while it showed another name.
* `AnomaliesMatchTheState`, `ExportShowsTheSharedPart`, `RemovalsTravel`, `WritersExplainTheReading`: two readings of one document, or of the document
  and of a peer that merged part of it, agree.
* `InSyncIsTrue`: `in_sync()` implies that the peer's replica holds everything shared. `ShareIsAskedAgain`: a session whose replica moved sends
  nothing withheld at that moment.
* `Converges`: sessions that stay open end up in sync or with a refusal, and in sync is then the truth, also of a peer that restarted without what it had acknowledged: a session
  that kept what it remembered of the one before would be wrong for good (`MetRemembers`), one that sent a state only once would never get there (`TickSettledSendsOnce`). `HandshakeCompletes`: a hello is answered whenever it is repeated. See fairness.
* `AncestryIsKnowledge`: an utterance's ancestors are what its author had when it was said. `HeadsNameTheCut`: graphs with equal heads are equal.
  `ReceivePlacesAll`: afterwards no utterance handed back could be placed. `WrittenLoadsBack`: an undamaged file loads as the graph that was written.
  `TimelineIsCausal`: the timeline contains everything once, never an effect before its cause, in an order that depends on the graph only.
* `OnlyAckOrWantMisses`, `CautiousAsksNothingNew`, `WaitingEnds`: the wants table against the document, the user's setting and time. `KnownIsTracked` says that a session which is not
  stale has every missing file in its table. It does fail: an ack or a want between an edit and the tick has the revision marked as seen. `OnlyAckOrWantMisses` says that it fails in no other way, and
  `MissingIsAskedFor`, the promise of `sync.hpp:183`, is shown violated by `files_missed`. `ShowsTheNewest`, `PresenceEnds`: the payload shown against the newest that came, and a silent peer.
* `SessionFollowsLink`, `PromisesAreKept`: sessions exist exactly on links that are up, once events are polled; a message `send` said yes to is transferred in
  order or the link is gone. `OpeningEnds`, `QueueMoves`, `EndedSessionEndsLink`: nothing pends for ever.
* `LoadsWhatWasSaved` keeps a log of the saved documents and compares it with what the archive gives back, before and after writing. `FileIsWhole`: at every
  step of `write_file`, the path holds the last archive reported written, or nothing, unless the power failed.
* `AllReadOneOrder`, `RunsDoNotInterleave`, `InsertsLandWhereTyped`: the order is one for all documents, runs typed at one spot by two devices stay together, and an
  element reads back between the neighbours it was typed between.
* `QuotientIsSmallest`, `CapacityIsOfTheClass`, `CyclesAreExact` compare the algorithms with their set-theoretic definitions (transitive closures).

**Why the bounds suffice.** They are chosen so that each hazard of `PROJECT.json` happens within them: an
add that crosses a removal, a tag minted after a crash, an acknowledgement overtaken by an edit and by a restart, a second message behind a full outbox, a diamond
in the history's graph, a capacity exceeded only by a class, a component closed while another is open. The mutants give evidence that they do. What is proved in section 4 needs no bound.

Where the bounds do not reach: with room for one step's frames each way, the hello of a new session pushes out what the old one had under way, so no acknowledgement from before a restart arrives after it. In `session_restart` what is merged is saved
first, so a restart takes nothing back; in `session_live` it does. That `last_merged_` is cleared with the session (`session.cpp:268`) makes a difference only with four sessions or two facts, beyond what either run can hold.

**Fairness.** `session_live`: the host ticks and its timers run out (weak); a transport handed frames of one kind again and again delivers one of them
(strong, per kind), which is the least under which resending helps at all. That a device starts a session again is not assumed: `Converges` speaks of sessions that stay open. `spheres`: a tick that finds the outstanding requests late recurs, and one that finds the presence late. `node_link`:
the host calls `loop`, `poll` and `tick`; requests and parts end in microReticulum, by success or failure; proofs need not come. The fairness of loops is strong because the bound on unpolled events, which
the code does not have, disables them. Users' actions, crashes and losses are never fair.

## 3. Plan

In the order of weight: `OrSetDoc` and `Replica`, then `Session`, which rests on them; the refinement to `Knowledge`; `SessionFiles` and `NodeLink`, where
timeouts meet late answers; `Documents`, which composes editing, merging, export and the reports; `History`, `Archive`, `Sequence`, `Links`, `Presence`. All of these are there. Next would be: a stream reader
whose frames do not depend on how the stream is cut; keepalive timing with a clock at each end; policies parsed and looked up by pattern.

## 4. Proofs

All theorems hold for any values of the constants that satisfy the named assumptions of the modules, that is for any number of devices, objects, messages and tags.
Most assumptions type the constants. The ones with content: `ParentAssumption` (objects nest at most two deep: mantles and glyphs at the root, runes in mantles),
`PlaceAssumption` (fixed and keyed registers differ, places are finitely many), `PolicyAssumption` (a glyph's descriptor declares no join; see section 5), `VisitAssumption` (observation visits places in some order),
`TreeAssumption` (a rune's name is a fixed field), `HistoryAssumption` (hashes are finitely many and ordered), `ForkAssumption` (the document the forks start from has an author that none of them is), `PeerAssumption` (two ends), `NoneAssumption`, `NodeAssumption` (marks for "nothing" are not data).

* `DocumentsProofs` begins with lemmas about the operators of `OrSetDoc`, on which its proofs about `Replica` and `Documents` rest. Among them: joining documents in which tags are unique is union; numbering writes is injective
  (`RankIsInjective`, so tags minted by one observation differ); what an observation adds, retires and keeps; when flattening after an observation gives the state observed. They rest on `Sound`,
  what the documents of replicas have in common: a tag names one add (`OneAddPerTag`), an object that was ever present had its fixed registers written (`FixedAreWritten`), and
  a write of a fixed register is retired only for a later one (`FixedAreReplaced`; so the latest of them is live).
* It then proves, of `Replica`, `TypeCorrect`, `CounterStaysAhead`, `NoFalseAlarm`, `TagsNameOneAdd`, `OrderDoesNotMatter`, all from `InductiveInvariant == Spec => []IInv`.
  `NoFalseCollision` is not inductive: whether a document under way can be accepted depends on what was saved when it
  was sent. `IInv` adds that ids are held once (`IdsAreHeldOnce`), tags come from ids in use, counters are ahead of tags, the saved replica is part of the one in memory, a replica knows the add
  behind each tag of its own (`OwnTagsKnown`), and -- the heart -- what the world holds under a replica's id, that replica has saved (`AwayIsSaved`). There is one lemma per action.
  `ReplicasImplementKnowledge == Spec => ImplementsKnowledge`, by initial state and one lemma per action (observing *makes*, merging *learns*, saving *keeps*, sending *says*, forking *copies*, a crash *falls back*),
  strengthened by `OutboxIsKnown`: an unsent delta is part of the document. `NothingSaidIsEverLost`: whatever may still arrive somewhere, some device has on disk.
* And, of `Documents`, all ten properties of the run `documents`, from `ForksStaySound == SpecForked => []DInv`. Beside soundness of every document, `DInv` says that
  what carries a fork's id that fork has (`OwnWritesKept`; so a number it mints is new everywhere), its counter has passed every tag it has seen (`CountersPassed`; so
  an edit outranks all it replaces), documents give one tag one meaning (`DocumentsAgree`; so joins commute and preserve soundness), and a writer's later write of a register has retired its earlier
  ones (`WritersReplace`; so a conflict has one side per writer). The readings are then theorems about sound documents: each of `WhatIsObservedIsShown`, `OwnOutputIsSilent`,
  `ObservingSettlesNothing`, `RemovalsAreExported`, `ExportsShowTheSharedPart`, `AnomaliesAreOfTheState`, `WritersAreExplained` proves its property of every state in `DInv`, and `LostEditsAreReported`,
  `BrokenLinksAreReported` of every merge between two such states. Proving found conditions that the small runs did not: the clause of `PolicyAssumption`, the parent in `RemovalsTravel` and the policies in `BrokenLinksAreExplained` (section 5).
* `SessionProofs`: `InSyncNeverLies == ... Spec => []InSyncIsTrue` for a host that saves a merge before its acknowledgement leaves, and edits before they are sent (`SavesFirst`). The strengthening `IInv` says what each
  remembered digest is worth: `acked` and `merged` are held by the peer, an export is held by its owner, a frame's digest by its sender, and an export that is not stale covers what is shared.
  `WithheldStaysWithheld == Spec => ShareIsAskedAgain` needs no assumption on saving.
* `SessionFilesProofs`: `OnlyPassedFilesAreMissed == Spec => OnlyAckOrWantMisses`, for any host and transport; strengthened by `FilesInv`: a session that is still connecting has not yet looked at the document.
  `CautiousWaitsToBeTold == Spec => CautiousAsksNothingNew` follows action by action from the types, for any host.
  Its last section is about `Presence`: `NewestIsShown == PresenceSpec => []ShowsTheNewest`, strengthened by `NewestInv`: in the publisher's first session every frame carries its number, and `presence_in_` is the number of the payload shown.
* `ArchiveProofs`: `FileStaysWhole == Spec => []FileIsWhole`, strengthened by: from the flush to the rename, the temporary holds the bytes being written.
  `EverySaveLoads == Spec => []LoadsWhatWasSaved`, strengthened by `LoadInv`: the archive gives back the documents logged (each entry is filed under its document's version, with all its blocks), and so does some log for every file that is not torn.
* `NodeLinkProofs`: `SessionsFollowLinks == Spec => []SessionFollowsLink` and `WhatIsPromisedIsKept == Spec => PromisesAreKept`, for any outbox limit, from `Inv`: the outbox is what is owed
  while the link is up, RNS is busy only with the transfer Node has in flight, and (`Told`) the events still to be polled tell the host of every link that came up or went since it last looked.
* `HistoryProofs`: all five properties of the run `history`, for any number of peers and utterances and any order of delivery, from `HInvAlways == Spec => []HInv`. `HInv` says of every
  utterance that what its author had is its parents and what their authors had, and not itself (`SaidAfter`: causality has no cycle); and of every graph that it holds no utterance without its
  ancestors, that its index of children matches the parents, and that each utterance is a head or behind one (`Closed`). The operators that loop in the code (`ancestors`, `linear_extension`,
  `receive`) are functions of the number of turns taken, so each loop has an invariant proved for every turn, and a measure that shows it ends: in `receive`, a batch kept for another round
  is shorter by at least one, and a round that places nothing is the last. Then `AncestryIsWhatWasKnown`: a walk over parents finds just what the author had;
  `HeadsStandForAll`: two graphs with the same heads hold the same utterances; `TimelinesAgree`: the timeline holds each utterance once, after its parents, and two peers with the same utterances read the same one;
  `WhatCanBePlacedIs`: `receive` leaves over only what lacks a parent, in whatever order the batch came; `WhatIsWrittenLoads`: what `to_json` writes, `from_json` rebuilds.
  Induction over turns is cited from the least element of a set of naturals, as lemmas of the module (`StepsRepeat`, `EveryNatural`).

* `LinksProofs`: all three properties of the run `links`, for any document, labels, slot and limit, from `LInvAlways == Spec => []LInv`. `FuseInv` says that the forest has no cycle, since a parent is
  never greater (`Descending`), that runes with one root are tied by the links, and that a link already united has both ends under one root. `Find` goes up to the one root in the least set that holds the rune and is closed under parents, and any
  function that is the same for a rune and its parent is `Find` (`FindIs`): this stands in for an induction over the path. `SearchInv` is the invariant of the explicit-stack search: the stack holds what is not closed in the order it was met;
  a frame leads to everything above it, and what is on the stack leads back to a frame (`FramesLead`, `StackLeadsBack`); `low` is reached, and nothing looked at from the frames leads below it (`LowIsReached`, `LowIsLeast`); what has been closed
  consists of whole components that no arc leaves (`ClosedIsWhole`). Then `QuotientIsTheEquivalence`: runes share a name exactly when links tie them; `CapacityCountsTheClass`: ends are counted once, over the
  class; `CyclesAreComponents`: reported are exactly the strongly connected sets on a cycle.
* `SequenceProofs`: all three properties of the run `sequence`, for any number of devices, elements, erasures and resets. The order of elements is first a relation on the nodes of a tree: `Up(E, a)` is the least set that holds `a` and, with each node, its
  parent, and `Lt(E, a, b)` compares the siblings where the ways up from `a` and `b` part, or the side on which one hangs under the other. It depends only on what is above the two nodes, so a document that holds its nodes' parents
  has the order of the whole tree. The traversal in `seq_order` is a function of the turns taken; its invariant (`Going`) says what the stack still stands for and that the list so far lies before all of that; every turn makes `Progress` by one, two turns
  for each node, so the traversal ends with everything listed (`OrderLists`). A set has one list in the order of a tree (`ListsAreOne`). The invariant of the system, `SequenceInv`, is the type invariant and, for each element, that its
  writer had seen its parent and all above it, and that it hangs to the right under the element it was typed after: the slot `seq_insert` chooses has nothing between (`SlotIsRight`).
  From these follow `OneOrderForAll`: every document reads its elements in the order all elements have; `TypingAtOneSpot`: what stands between an element and the one it was typed after hangs under the latter too, so its writer had seen
  the latter; `TypedIsRead`: an insertion reads back one past the element it was typed after and moves nothing else (`InsertLands`).

Every invariant and every action property of a passing run, and the refinement, is stated by a theorem. Only model-checked: the liveness properties (`Converges`, `HandshakeCompletes`, `WaitingEnds`, `PresenceEnds`, `OpeningEnds`, `QueueMoves`,
`EndedSessionEndsLink`), since TLAPS proves none under fairness.

## 5. Where code and text disagree

Two are runs. `archive_lost`: `Archive::write_file` removes the archive before it renames the temporary (`src/archive/miga.cpp:108-110`); a crash in between leaves none, although
`archive.hpp:131` says that a crash costs the save, never the archive.
`files_missed`: `session.cpp:338` (an ack) and `345` (a want) refresh the export, which marks the replica's revision as seen without looking for new files. Unless a tick has looked since the document moved, the next one
finds nothing new, and a missing file is not asked for until the document moves again, although `sync.hpp:183` promises it "as soon as it is known". A host cannot rule this out: `SyncLinks` handles several events between two ticks, and edits may be coalesced.

These were met while reading and are stated around in the models, never assumed away silently:

* `miga.cpp:102` flushes to the operating system, not to the disk: after a power loss the renamed file can be torn (`FileIsWhole` excludes power losses; `read_file` refuses such a file).
* `miga.cpp:62`: an import refused for its second asset has already added the save and the first; `miga.cpp:4` says it is refused entirely.
* `archive.cpp:157` compares with a digest that is not written to the file: the first save after reopening repeats an identical one (`archive.hpp:84`).
* `session.cpp:339` takes an acknowledgement without looking at `m.session`: one sent before the peer's restart counts after it. `InSyncIsTrue` holds nevertheless if the peer saves what it merges before it
  acknowledges; without that assumption it does not (`session.cpp:5`).
* `session.cpp:66` asks `share` again only when the replica has moved; `sync.hpp:56` says every time anything is about to be sent. Hence the form of `ShareIsAskedAgain`.
* `session.cpp:373` asks again without end for a file whose bytes never match. Hence `\ Damaged` in `WaitingEnds`.
* `session.cpp:392` keeps the presence number across the publisher's restart: new payloads are dropped until they pass it. Hence `session = 1` in `ShowsTheNewest`.
* `replica.cpp:298`: deltas out of order can leave a rune without a value for a fixed register, which `flatten` shows as null and `observe` records as an edit (`replica.hpp:146`, `165`). `documents` merges whole documents.
* `replica.cpp:393` reads a glyph's descriptor under the policy, `document.cpp:500` without. They differ under a policy that declares a join for `descriptor`, and `observe` then undoes what was not shown; hence the last clause of `PolicyAssumption`.
* `orset.cpp:164` and `document.cpp:100`: joining commutes for every input -- not if one tag means two things. The loop never produces such documents (proved). `replica.cpp:88` keeps one place per tag, so of a tag reused at two places `merge` compares one.
* `export.cpp:101-103` sends the removal of a withheld mantle but nothing of the runes inside; `sync.hpp:66` speaks of every removal; hence `Parent[o] \notin Private` in `RemovalsTravel`. `export.cpp:82` withholds the name shown now, not those a rune held before.
* A link whose rune was renamed on one device and removed on another, so that it last showed the other name, or whose name lost to another under a policy, is not reported as broken (`anomaly.cpp:165-197`): the name is then neither removed nor retired. See the exceptions in `BrokenLinksAreExplained`.

## 6. Not modelled

* **Validation** (`validate.cpp`), **canonical encoding, decoding, SHA-256**, **bindings and references**, **journal**: conversions and structural checks without state, covered by the repository's conformance vectors.
* **Wire format and stream reader** (`wire.cpp`), **HDLC framing and pipe** (`node.cpp:703-745`, `pipe.hpp`), **UDP**, **rooted file system**, **crypto and entropy**: byte-level or I/O. Frames are values here, and the transport loses, repeats and reorders them.
* **Keepalive timing** in `node.cpp:253-291` relates clocks at both ends; announces, discovery, and the identity on disk belong to microReticulum or to start-up. `NodeLink` keeps the watchdog's decision as an input. An exception out of microReticulum within `send` leaves things as they were (`node.cpp:586`); one thrown after a Resource has been registered is not modelled.
* **The chunker** (`chunk.cpp`): an asset is one block in `Archive`.
* **Policy parsing and pattern lookup** (`policy.cpp:124-158`): a place has its policy as a constant; `Pick` and `Max` are defined in `OrSetDoc`, and the runs use `Conflict` and `Latest`.
* **Lamport ceiling**: counters beyond it come from documents no replica wrote, which are not generated.
* **Conformance runner, tools, vendored code.**

## 7. Running

`tlc -workers 2 -config MCSessionLive.cfg MCSession` runs one configuration; `PROJECT.json` lists the module of each `.cfg`. The longest, `spheres`, takes about three minutes. `tlapm LinksProofs.tla` checks the proofs of one module; `SequenceProofs` and `DocumentsProofs` take longest, a few minutes.
