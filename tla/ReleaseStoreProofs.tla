------------------------- MODULE ReleaseStoreProofs -------------------------
(***************************************************************************)
(* What holds of the releases of a product (ReleaseStore.tla), for any     *)
(* retention and any number of builds, packs, cleanings and deaths: the    *)
(* types, that pairs belong together, that a shipped release holds what it *)
(* declares, that pins stay, and that no step takes the last good release. *)
(*                                                                         *)
(* Pairs.  While nobody died, sums without a zip are about to be deleted   *)
(* (SumsHaveZip), so a pack that is not forced writes both files anew      *)
(* (PackIsNew); a packer that dies leaves no pair.  After one death a zip  *)
(* may meet sums that were left behind, until the same pack replaces them. *)
(*                                                                         *)
(* Shipped releases.  An app in dist is the latest build (DistIsLatest),   *)
(* and a zip has the hashes of its id and an app that is not older         *)
(* (ZipsDeclare).  So a zip that was there under the id of an accepted     *)
(* build can only hold that build.                                         *)
(*                                                                         *)
(* The last good release.  The files of a newer build have the later       *)
(* manifests (AgesInOrder), and a pack brings the newest build, so what    *)
(* counts as newer than the newest release that verifies are packs that    *)
(* died and the one under way (GoodInv).  A plan takes a release only if   *)
(* KeepLast, or KeepNewest, are newer.                                     *)
(***************************************************************************)
EXTENDS ReleaseStore, FiniteSetTheorems, NaturalsInduction, WellFoundedInduction, TLAPS

-----------------------------------------------------------------------------
(* The invariants.                                                         *)

WithId == {"zip", "hash", "sums", "verify"}
Writing == packer.pc \in {"zip", "hash", "sums"}

TInv == TypeOK /\ (packer.pc \in WithId => packer.id \in Ids)

\* A packer packs what is in dist, and hashes the zip it has written.
WritesDist == Writing => Packable
HashesZip == At("sums") /\ packer.id \in DOMAIN zips => packer.hashed = zips[packer.id]
ZipIsThere == ~mixed /\ At("sums") => packer.id \in DOMAIN zips

NotMixed == ~mixed => ~Packing \/ \A c \in Cleaners : ~Cleaning(c)
NotForced == ~forced => ~packer.force

\* Housekeeping plans both files of a release and deletes the zip first; retention deletes the sums first.
HousePlan == \A id \in Ids : <<"zip", id>> \in cleaner["housekeeping"] => <<"sums", id>> \in cleaner["housekeeping"]
RetentionPlanned ==
    ~mixed => \A id \in DOMAIN sums :
                  <<"zip", id>> \in cleaner["retention"] => <<"sums", id>> \in cleaner["retention"]
SumsHaveZip ==
    crashes = 0 /\ ~mixed => \A id \in DOMAIN sums \ DOMAIN zips : <<"sums", id>> \in cleaner["housekeeping"]

PackIsNew == crashes = 0 /\ ~forced /\ ~mixed /\ Writing => packer.id \notin DOMAIN sums

PInv ==
    /\ WritesDist /\ HashesZip /\ ZipIsThere /\ NotMixed /\ NotForced
    /\ HousePlan /\ RetentionPlanned /\ SumsHaveZip /\ PackIsNew
    /\ PairsBelongTogether

DistIsLatest == dist.app \in {0, builds} /\ dist.hashes <= builds /\ (At("seal") => dist.app = builds)
ZipsDeclare ==
    \A id \in DOMAIN zips : /\ zips[id].hashes = id.hashes
                            /\ id.hashes <= zips[id].app /\ zips[id].app <= builds

\* What is accepted is the latest build, and goes under its id.
AcceptedIsLatest ==
    packer.gated => /\ packer.pc \in {"pack"} \cup WithId
                    /\ dist.app = builds /\ dist.hashes = builds
IdIsDist == packer.pc \in WithId => packer.id.hashes = dist.hashes

ShippedAreThere == \A id \in shipped : Complete(id)
PackIsNotShipped == ~forced /\ Writing => packer.id \notin shipped

HInv ==
    /\ WritesDist /\ NotForced /\ DistIsLatest /\ ZipsDeclare /\ AcceptedIsLatest /\ IdIsDist
    /\ ShippedAreThere /\ PackIsNotShipped
    /\ ShippedHoldsWhatItDeclares

PinsAreKept ==
    ~swept => /\ cleaner["housekeeping"] = {}
              /\ \A id \in pinned : <<"zip", id>> \notin cleaner["retention"] /\ <<"sums", id>> \notin cleaner["retention"]

NInv == PinsAreKept /\ PinnedStays

-----------------------------------------------------------------------------
(* Types.                                                                  *)

Locals == [pc : PackerPcs, accept : BOOLEAN, gated : BOOLEAN, force : BOOLEAN, id : Ids \cup {NoId}, hashed : Contents]

\* A store of files: what is in dist/releases under an id.
Store(files) == \A id \in DOMAIN files : id \in Ids /\ files[id] \in Contents

LEMMA Parts ==
    ASSUME TInv
    PROVE  /\ dist \in Contents /\ Store(zips) /\ Store(sums) /\ packer \in Locals
           /\ pinned \subseteq Ids /\ shipped \subseteq Ids
           /\ cleaner \in [Cleaners -> SUBSET Files]
           /\ builds \in Nat /\ packs \in Nat /\ crashes \in Nat /\ cleanings \in Nat
           /\ mixed \in BOOLEAN /\ forced \in BOOLEAN /\ swept \in BOOLEAN
           /\ packer.pc \in WithId => packer.id \in Ids
BY DEF TInv, TypeOK, Locals, Store

LEMMA PutStore ==
    ASSUME NEW files, Store(files), NEW id \in Ids, NEW file \in Contents
    PROVE  /\ Store(Put(files, id, file)) /\ DOMAIN Put(files, id, file) = DOMAIN files \cup {id}
           /\ Put(files, id, file)[id] = file
           /\ \A other \in DOMAIN files : other # id => Put(files, id, file)[other] = files[other]
BY DEF Store, Put

LEMMA RemoveStore ==
    ASSUME NEW files, NEW id
    PROVE  /\ Store(files) => Store(Remove(files, id))
           /\ DOMAIN Remove(files, id) = DOMAIN files \ {id}
           /\ \A other \in DOMAIN files \ {id} : Remove(files, id)[other] = files[other]
BY DEF Store, Remove, Restrict

\* The packer goes to pc, and keeps what it was told.
Goes(pc) == packer'.pc = pc /\ packer'.accept = packer.accept /\ packer'.force = packer.force

LEMMA GotoGoes ==
    ASSUME packer \in Locals, NEW pc \in PackerPcs, Goto(pc)
    PROVE  /\ packer' \in Locals /\ Goes(pc) /\ packer'.gated = packer.gated
           /\ packer'.id = packer.id /\ packer'.hashed = packer.hashed
BY DEF Locals, Goto, Goes

LEMMA GatedGoes ==
    ASSUME packer \in Locals, packer' = [packer EXCEPT !.pc = "pack", !.gated = TRUE]
    PROVE  packer' \in Locals /\ Goes("pack") /\ packer'.gated
BY DEF Locals, Goes, PackerPcs

LEMMA IdGoes ==
    ASSUME packer \in Locals, NEW pc \in PackerPcs, NEW id \in Ids, packer' = [packer EXCEPT !.pc = pc, !.id = id]
    PROVE  packer' \in Locals /\ Goes(pc) /\ packer'.gated = packer.gated /\ packer'.id = id
BY DEF Locals, Goes

LEMMA HashedGoes ==
    ASSUME packer \in Locals, NEW pc \in PackerPcs, NEW c \in Contents, packer' = [packer EXCEPT !.pc = pc, !.hashed = c]
    PROVE  /\ packer' \in Locals /\ Goes(pc) /\ packer'.gated = packer.gated /\ packer'.id = packer.id
           /\ packer'.hashed = c
BY DEF Locals, Goes

LEMMA IdleType == Idle \in Locals
<1>1. Nothing \in Contents
  BY BoundsAssumption DEF Nothing, Contents
<1> QED BY <1>1 DEF Idle, Locals, PackerPcs

LEMMA StopGoes ==
    ASSUME Stop
    PROVE  packer' \in Locals /\ packer'.pc = "off" /\ ~packer'.gated /\ ~packer'.force
BY IdleType DEF Stop, Idle

LEMMA CurrentIdType ==
    ASSUME dist \in Contents, Packable
    PROVE  CurrentId \in Ids
BY BoundsAssumption DEF Contents, Packable, CurrentId, Ids

LEMMA TypesOf ==
    ASSUME dist' \in Contents, Store(zips)', Store(sums)', packer' \in Locals,
           packer'.pc \in WithId => packer'.id \in Ids,
           pinned' \subseteq Ids, shipped' \subseteq Ids, cleaner' \in [Cleaners -> SUBSET Files],
           builds' \in Nat, packs' \in Nat, crashes' \in Nat, cleanings' \in Nat,
           mixed' \in BOOLEAN, forced' \in BOOLEAN, swept' \in BOOLEAN
    PROVE  TInv'
BY DEF TInv, TypeOK, Locals, Store

LEMMA PipelineTypes ==
    ASSUME TInv, Pipeline \/ StartPack
    PROVE  TInv'
<1> /\ dist \in Contents /\ Store(zips) /\ Store(sums) /\ packer \in Locals
    /\ pinned \subseteq Ids /\ shipped \subseteq Ids /\ cleaner \in [Cleaners -> SUBSET Files]
    /\ builds \in Nat /\ packs \in Nat /\ crashes \in Nat /\ cleanings \in Nat
    /\ mixed \in BOOLEAN /\ forced \in BOOLEAN /\ swept \in BOOLEAN
    /\ packer.pc \in WithId => packer.id \in Ids
    /\ MaxBuilds \in Nat
  BY Parts, BoundsAssumption
<1> USE DEF releases, counters, history, Store
<1>1. ASSUME NEW pc \in {"build", "pack"}, NEW accept \in BOOLEAN, NEW force \in BOOLEAN, Begin(pc, accept, force)
      PROVE  TInv'
  <2>1. packer' \in Locals /\ packer'.pc = pc
    BY <1>1, IdleType DEF Begin, Locals, PackerPcs
  <2>2. UNCHANGED <<dist, zips, sums, shipped, pinned, cleaner, builds, packs, crashes, cleanings, swept>>
    BY <1>1 DEF Begin
  <2>3. mixed' \in BOOLEAN /\ forced' \in BOOLEAN
    BY <1>1 DEF Begin
  <2> QED BY <2>1, <2>2, <2>3, TypesOf DEF WithId
<1>2. CASE StartPipeline \/ StartPack
  BY <1>1, <1>2 DEF StartPipeline, StartPack
<1>3. CASE BuildApp
  <2>1. packer' \in Locals /\ packer'.pc = "seal"
    BY <1>3, GotoGoes DEF BuildApp, PackerPcs, Goes
  <2>2. dist' \in Contents /\ builds' \in Nat
    BY <1>3 DEF BuildApp, Contents
  <2>3. UNCHANGED <<zips, sums, shipped, pinned, cleaner, packs, crashes, cleanings, mixed, forced, swept>>
    BY <1>3 DEF BuildApp
  <2> QED BY <2>1, <2>2, <2>3, TypesOf DEF WithId
<1>4. CASE BuildFails \/ AcceptFails
  <2>1. packer' \in Locals /\ packer'.pc = "off"
    BY <1>4, StopGoes DEF BuildFails, AcceptFails
  <2>2. dist' = dist \/ dist' = [dist EXCEPT !.app = 0]
    BY <1>4 DEF BuildFails, AcceptFails
  <2>3. dist' \in Contents
    BY <2>2 DEF Contents
  <2>4. UNCHANGED <<zips, sums, shipped, pinned, cleaner, builds, packs, crashes, cleanings, mixed, forced, swept>>
    BY <1>4 DEF BuildFails, AcceptFails
  <2> QED BY <2>1, <2>3, <2>4, TypesOf DEF WithId
<1>5. CASE Seal
  <2>1. packer' \in Locals /\ packer'.pc \in {"accept", "pack"}
    BY <1>5, GotoGoes DEF Seal, PackerPcs, Goes
  <2>2. dist' \in Contents
    BY <1>5 DEF Seal, Contents
  <2>3. UNCHANGED <<zips, sums, shipped, pinned, cleaner, builds, packs, crashes, cleanings, mixed, forced, swept>>
    BY <1>5 DEF Seal
  <2> QED BY <2>1, <2>2, <2>3, TypesOf DEF WithId
<1>6. CASE Accept
  <2>1. packer' \in Locals /\ packer'.pc = "pack"
    BY <1>6, GatedGoes DEF Accept, Goes
  <2>2. dist' = dist \/ dist' = [dist EXCEPT !.report = dist.app]
    BY <1>6 DEF Accept
  <2>3. dist' \in Contents
    BY <2>2 DEF Contents
  <2>4. UNCHANGED <<zips, sums, shipped, pinned, cleaner, builds, packs, crashes, cleanings, mixed, forced, swept>>
    BY <1>6 DEF Accept
  <2> QED BY <2>1, <2>3, <2>4, TypesOf DEF WithId
<1> QED BY <1>2, <1>3, <1>4, <1>5, <1>6 DEF Pipeline

LEMMA PackTypes ==
    ASSUME TInv, Pack
    PROVE  TInv'
<1> /\ dist \in Contents /\ Store(zips) /\ Store(sums) /\ packer \in Locals
    /\ pinned \subseteq Ids /\ shipped \subseteq Ids /\ cleaner \in [Cleaners -> SUBSET Files]
    /\ builds \in Nat /\ packs \in Nat /\ crashes \in Nat /\ cleanings \in Nat
    /\ mixed \in BOOLEAN /\ forced \in BOOLEAN /\ swept \in BOOLEAN
    /\ packer.pc \in WithId => packer.id \in Ids
  BY Parts
<1> USE DEF releases, counters, history
<1>1. CASE StartPack
  BY <1>1, PipelineTypes
<1>2. CASE PackFails \/ Crash
  <2>1. packer' \in Locals /\ packer'.pc = "off" /\ crashes' \in Nat
    BY <1>2, StopGoes DEF PackFails, Crash
  <2>2. UNCHANGED <<dist, zips, sums, shipped, pinned, cleaner, builds, packs, cleanings, mixed, forced, swept>>
    BY <1>2 DEF PackFails, Crash
  <2> QED BY <2>1, <2>2, TypesOf DEF WithId, Store
<1>3. CASE SkipExisting \/ WriteManifest
  <2>1. CurrentId \in Ids
    BY <1>3, CurrentIdType DEF SkipExisting, WriteManifest
  <2>2. \E pc \in {"verify", "zip"} : packer' = [packer EXCEPT !.pc = pc, !.id = CurrentId]
    BY <1>3 DEF SkipExisting, WriteManifest
  <2>3. packer' \in Locals /\ packer'.id \in Ids
    BY <2>1, <2>2, IdGoes DEF PackerPcs
  <2>4. dist' \in Contents /\ packs' \in Nat
    <3>1. CASE SkipExisting
      BY <3>1 DEF SkipExisting
    <3>2. CASE WriteManifest
      <4>1. packs + 1 \in 0..MaxPacks /\ packs' = packs + 1
        BY <3>2, BoundsAssumption DEF WriteManifest
      <4> QED BY <3>2, <4>1 DEF WriteManifest, Contents
    <3> QED BY <1>3, <3>1, <3>2
  <2>5. UNCHANGED <<zips, sums, shipped, pinned, cleaner, builds, crashes, cleanings, mixed, forced, swept>>
    BY <1>3 DEF SkipExisting, WriteManifest
  <2> QED BY <2>3, <2>4, <2>5, TypesOf DEF Store
<1>4. CASE WriteZip
  <2>1. packer' \in Locals /\ packer'.id = packer.id /\ packer.id \in Ids
    BY <1>4, GotoGoes DEF WriteZip, PackerPcs, At, WithId
  <2>2. Store(zips')
    BY <1>4, <2>1, PutStore DEF WriteZip
  <2>3. UNCHANGED <<dist, sums, shipped, pinned, cleaner, builds, packs, crashes, cleanings, mixed, forced, swept>>
    BY <1>4 DEF WriteZip
  <2> QED BY <2>1, <2>2, <2>3, TypesOf DEF Store
<1>5. CASE Hash
  <2>1. zips[packer.id] \in Contents /\ packer.id \in Ids
    BY <1>5 DEF Hash, Store, At, WithId
  <2>2. packer' \in Locals /\ packer'.id = packer.id
    BY <1>5, <2>1, HashedGoes DEF Hash, PackerPcs
  <2>3. UNCHANGED <<dist, zips, sums, shipped, pinned, cleaner, builds, packs, crashes, cleanings, mixed, forced, swept>>
    BY <1>5 DEF Hash
  <2> QED BY <2>1, <2>2, <2>3, TypesOf DEF Store
<1>6. CASE WriteSums
  <2>1. packer' \in Locals /\ packer'.id = packer.id /\ packer.id \in Ids
    BY <1>6, GotoGoes DEF WriteSums, PackerPcs, At, WithId
  <2>2. Store(sums')
    <3>1. packer.hashed \in Contents
      BY DEF Locals
    <3> QED BY <1>6, <2>1, <3>1, PutStore DEF WriteSums
  <2>3. UNCHANGED <<dist, zips, shipped, pinned, cleaner, builds, packs, crashes, cleanings, mixed, forced, swept>>
    BY <1>6 DEF WriteSums
  <2> QED BY <2>1, <2>2, <2>3, TypesOf DEF Store
<1>7. CASE Verify
  <2>1. packer' \in Locals /\ packer'.pc = "off" /\ packer.id \in Ids
    BY <1>7, StopGoes DEF Verify, At, WithId
  <2>2. UNCHANGED <<dist, zips, sums, pinned, cleaner, builds, packs, crashes, cleanings, mixed, forced, swept>>
    BY <1>7 DEF Verify
  <2>3. shipped' \subseteq Ids
    BY <1>7, <2>1 DEF Verify
  <2> QED BY <2>1, <2>2, <2>3, TypesOf DEF WithId, Store
<1> QED BY <1>1, <1>2, <1>3, <1>4, <1>5, <1>6, <1>7 DEF Pack

\* What the cleaners and the operator do: nothing to dist, the packer, builds and packs.
Clean ==
    \/ StartRetention \/ StartHousekeeping
    \/ \E c \in Cleaners : CleanerDies(c) \/ \E id \in Ids : Delete(c, id)
    \/ \E id \in Ids : Pin(id)
    \/ UNCHANGED vars

LEMMA PlanType ==
    ASSUME TInv
    PROVE  RetentionPlan \in SUBSET Files /\ \A cutoff : {"zip", "sums"} \X Old(cutoff) \in SUBSET Files
BY Parts DEF RetentionPlan, Old, Files, Store

LEMMA StartFacts ==
    ASSUME cleaner \in [Cleaners -> SUBSET Files], NEW c \in Cleaners, NEW p \in SUBSET Files, StartCleaning(c, p)
    PROVE  /\ cleaner' \in [Cleaners -> SUBSET Files] /\ cleaner'[c] = p
           /\ \A other \in Cleaners \ {c} : cleaner'[other] = cleaner[other]
           /\ mixed' = (mixed \/ Packing) /\ cleanings' = cleanings + 1
           /\ UNCHANGED <<dist, zips, sums, shipped, pinned, packer, builds, packs, crashes, forced>>
BY DEF StartCleaning, releases

\* A delete takes one file of a release out of the plan and out of the store.
Deletes(c, id, file) ==
    /\ <<file, id>> \in cleaner[c] /\ (file = First(c) \/ <<First(c), id>> \notin cleaner[c])
    /\ cleaner' \in [Cleaners -> SUBSET Files] /\ cleaner'[c] = cleaner[c] \ {<<file, id>>}
    /\ \A other \in Cleaners \ {c} : cleaner'[other] = cleaner[other]
    /\ Store(zips') /\ Store(sums')
    /\ DOMAIN zips' = DOMAIN zips \ (IF file = "zip" THEN {id} ELSE {})
    /\ DOMAIN sums' = DOMAIN sums \ (IF file = "sums" THEN {id} ELSE {})
    /\ \A other \in DOMAIN zips' : zips'[other] = zips[other]
    /\ \A other \in DOMAIN sums' : sums'[other] = sums[other]
    /\ shipped' = shipped \ {id}
    /\ UNCHANGED <<dist, pinned, packer, builds, packs, crashes, cleanings, mixed, forced, swept>>

LEMMA DeleteFacts ==
    ASSUME TInv, NEW c \in Cleaners, NEW id \in Ids, Delete(c, id)
    PROVE  \E file \in {"zip", "sums"} : Deletes(c, id, file)
<1> cleaner \in [Cleaners -> SUBSET Files] /\ Store(zips) /\ Store(sums)
  BY Parts
<1>1. PICK file \in {"zip", "sums"} :
        /\ <<file, id>> \in cleaner[c] /\ (file = First(c) \/ <<First(c), id>> \notin cleaner[c])
        /\ cleaner' = [cleaner EXCEPT ![c] = cleaner[c] \ {<<file, id>>}]
        /\ zips' = IF file = "zip" THEN Remove(zips, id) ELSE zips
        /\ sums' = IF file = "sums" THEN Remove(sums, id) ELSE sums
        /\ shipped' = shipped \ {id}
        /\ UNCHANGED <<dist, pinned, packer, counters, history>>
  BY DEF Delete
<1>2. /\ cleaner' \in [Cleaners -> SUBSET Files] /\ cleaner'[c] = cleaner[c] \ {<<file, id>>}
      /\ \A other \in Cleaners \ {c} : cleaner'[other] = cleaner[other]
  BY <1>1
<1>3. /\ Store(zips') /\ DOMAIN zips' = DOMAIN zips \ (IF file = "zip" THEN {id} ELSE {})
      /\ \A other \in DOMAIN zips' : zips'[other] = zips[other]
  BY <1>1, RemoveStore
<1>4. /\ Store(sums') /\ DOMAIN sums' = DOMAIN sums \ (IF file = "sums" THEN {id} ELSE {})
      /\ \A other \in DOMAIN sums' : sums'[other] = sums[other]
  BY <1>1, RemoveStore
<1> QED BY <1>1, <1>2, <1>3, <1>4 DEF counters, history, Deletes

\* A cleaner that dies forgets its plan.
LEMMA DiesFacts ==
    ASSUME TInv, NEW c \in Cleaners, CleanerDies(c)
    PROVE  /\ cleaner' \in [Cleaners -> SUBSET Files] /\ cleaner'[c] = {}
           /\ \A other \in Cleaners \ {c} : cleaner'[other] = cleaner[other]
           /\ crashes' = crashes + 1 /\ crashes' # 0
           /\ UNCHANGED <<dist, zips, sums, shipped, pinned, packer, builds, packs, cleanings, mixed, forced, swept>>
BY Parts DEF CleanerDies, releases, history

LEMMA CleanTypes ==
    ASSUME TInv, Clean
    PROVE  TInv'
<1> /\ dist \in Contents /\ Store(zips) /\ Store(sums) /\ packer \in Locals
    /\ pinned \subseteq Ids /\ shipped \subseteq Ids /\ cleaner \in [Cleaners -> SUBSET Files]
    /\ builds \in Nat /\ packs \in Nat /\ crashes \in Nat /\ cleanings \in Nat
    /\ mixed \in BOOLEAN /\ forced \in BOOLEAN /\ swept \in BOOLEAN
    /\ packer.pc \in WithId => packer.id \in Ids
  BY Parts
<1>1. ASSUME NEW c \in Cleaners, NEW p \in SUBSET Files, StartCleaning(c, p), swept' \in BOOLEAN
      PROVE  TInv'
  <2>1. /\ cleaner' \in [Cleaners -> SUBSET Files] /\ mixed' = (mixed \/ Packing) /\ cleanings' = cleanings + 1
        /\ UNCHANGED <<dist, zips, sums, shipped, pinned, packer, builds, packs, crashes, forced>>
    BY ONLY <1>1, StartFacts, cleaner \in [Cleaners -> SUBSET Files]
  <2>2. Store(zips)' /\ Store(sums)'
    BY <2>1 DEF Store
  <2> QED BY <1>1, <2>1, <2>2, TypesOf
<1>2. CASE StartRetention \/ StartHousekeeping
  BY <1>1, <1>2, PlanType DEF StartRetention, StartHousekeeping, Cleaners
<1>3. CASE \E c \in Cleaners : CleanerDies(c)
  BY <1>3, DiesFacts, TypesOf DEF Store
<1>4. CASE \E c \in Cleaners : \E id \in Ids : Delete(c, id)
  <2>1. PICK c \in Cleaners, id \in Ids : Delete(c, id)
    BY <1>4
  <2>2. PICK file \in {"zip", "sums"} : Deletes(c, id, file)
    BY <2>1, DeleteFacts
  <2> QED BY <2>2, TypesOf DEF Deletes
<1>5. CASE (\E id \in Ids : Pin(id)) \/ UNCHANGED vars
  BY <1>5, TypesOf DEF Pin, vars, releases, counters, history, Store
<1> QED BY <1>2, <1>3, <1>4, <1>5 DEF Clean

LEMMA NextSplits == Next \/ UNCHANGED vars => Pipeline \/ Pack \/ Clean
BY DEF Next, Clean

LEMMA TypesStep == TInv /\ [Next]_vars => TInv'
BY NextSplits, PipelineTypes, PackTypes, CleanTypes

LEMMA TypesInit == Init => TInv
<1> SUFFICES ASSUME Init PROVE TInv
  OBVIOUS
<1>1. Nothing \in Contents
  BY BoundsAssumption DEF Nothing, Contents
<1>2. DOMAIN zips = {} /\ DOMAIN sums = {}
  BY DEF Init
<1>3. packer \in Locals /\ packer.pc = "off"
  BY IdleType DEF Init, Idle
<1>4. TypeOK
  <2>1. cleaner \in [Cleaners -> SUBSET Files] /\ dist \in Contents
    BY <1>1 DEF Init
  <2>2. {builds, packs, crashes, cleanings} \subseteq Nat /\ {mixed, forced, swept} \subseteq BOOLEAN
    <3>1. builds \in Nat /\ packs \in Nat /\ crashes \in Nat /\ cleanings \in Nat
      BY DEF Init
    <3>2. mixed \in BOOLEAN /\ forced \in BOOLEAN /\ swept \in BOOLEAN
      BY DEF Init
    <3> QED BY ONLY <3>1, <3>2
  <2>3. pinned \subseteq Ids /\ shipped \subseteq Ids
    BY DEF Init
  <2> QED BY <1>2, <1>3, <2>1, <2>2, <2>3 DEF TypeOK, Locals
<1> QED BY <1>3, <1>4 DEF TInv, WithId

\* Whatever fails half-way, and whoever deletes meanwhile, dist, the releases, the packer's locals and the cleaners'
\* plans keep their types: what is under an id in dist/releases is a zip or sums of that kind, or not there.
THEOREM StoreTypeCorrect == Spec => []TypeOK
<1>1. TInv => TypeOK
  BY DEF TInv
<1> QED BY <1>1, TypesInit, TypesStep, PTL DEF Spec

-----------------------------------------------------------------------------
(* Pins.                                                                   *)

LEMMA PackerKeepsFiles ==
    ASSUME TInv, Pipeline \/ Pack
    PROVE  /\ UNCHANGED <<pinned, cleaner, swept>>
           /\ DOMAIN zips \subseteq DOMAIN zips' /\ DOMAIN sums \subseteq DOMAIN sums'
<1> USE DEF releases, counters, history
<1>1. CASE Pipeline
  BY <1>1 DEF Pipeline, StartPipeline, Begin, BuildApp, BuildFails, Seal, Accept, AcceptFails
<1>2. CASE StartPack \/ PackFails \/ SkipExisting \/ WriteManifest
  BY <1>2 DEF StartPack, Begin, PackFails, SkipExisting, WriteManifest
<1>3. CASE WriteZip \/ WriteSums
  BY <1>3 DEF WriteZip, WriteSums, Put
<1>4. CASE Hash \/ Verify \/ Crash
  BY <1>4 DEF Hash, Verify, Crash
<1> QED BY <1>1, <1>2, <1>3, <1>4 DEF Pack

LEMMA PinsPacker ==
    ASSUME TInv, NInv, Pipeline \/ Pack
    PROVE  NInv'
BY PackerKeepsFiles DEF NInv, PinsAreKept, PinnedStays, Complete

LEMMA PinsClean ==
    ASSUME TInv, NInv, Clean
    PROVE  NInv'
<1> cleaner \in [Cleaners -> SUBSET Files] /\ {"retention", "housekeeping"} = Cleaners /\ pinned \subseteq Ids
  BY Parts DEF Cleaners
<1>1. CASE StartRetention
  <2>1. StartCleaning("retention", RetentionPlan) /\ RetentionPlan \in SUBSET Files /\ swept' = swept
    BY <1>1, PlanType DEF StartRetention
  <2>2. /\ cleaner'["retention"] = RetentionPlan /\ cleaner'["housekeeping"] = cleaner["housekeeping"]
        /\ UNCHANGED <<zips, sums, pinned>>
    BY <2>1, StartFacts
  <2>3. \A id \in pinned : <<"zip", id>> \notin RetentionPlan /\ <<"sums", id>> \notin RetentionPlan
    BY DEF RetentionPlan, Kept
  <2> QED BY <2>1, <2>2, <2>3 DEF NInv, PinsAreKept, PinnedStays, Complete
<1>2. CASE StartHousekeeping
  BY <1>2 DEF StartHousekeeping, NInv, PinsAreKept, PinnedStays
<1>3. ASSUME NEW c \in Cleaners, CleanerDies(c)
      PROVE  NInv'
  BY <1>3, DiesFacts DEF NInv, PinsAreKept, PinnedStays, Complete, Cleaners
<1>4. ASSUME NEW c \in Cleaners, NEW id \in Ids, Delete(c, id)
      PROVE  NInv'
  <2>1. PICK file \in {"zip", "sums"} : Deletes(c, id, file)
    BY <1>4, DeleteFacts
  <2>2. PinsAreKept'
    BY <2>1 DEF Deletes, NInv, PinsAreKept, Cleaners
  <2>3. ~swept => id \notin pinned
    BY <2>1 DEF Deletes, NInv, PinsAreKept, Cleaners
  <2>4. PinnedStays'
    BY <2>1, <2>3 DEF Deletes, NInv, PinnedStays, Complete
  <2> QED BY <2>2, <2>4 DEF NInv
<1>5. ASSUME NEW id \in Ids, Pin(id)
      PROVE  NInv'
  <2>1. cleaner["retention"] = {} /\ pinned' = pinned \cup {id} /\ Complete(id) /\ UNCHANGED <<zips, sums, cleaner, swept>>
    BY <1>5 DEF Pin, Cleaning, releases, history
  <2>2. PinsAreKept'
    BY <2>1 DEF NInv, PinsAreKept
  <2>3. PinnedStays'
    BY <2>1 DEF NInv, PinnedStays, Complete
  <2> QED BY <2>2, <2>3 DEF NInv
<1>6. CASE UNCHANGED vars
  BY <1>6 DEF vars, NInv, PinsAreKept, PinnedStays, Complete
<1> QED BY <1>1, <1>2, <1>3, <1>4, <1>5, <1>6 DEF Clean

\* What is pinned stays complete: retention plans no pinned release (plan_dist_releases), nothing is pinned while it
\* deletes, and a packer only replaces files.
THEOREM PinsStay == Spec => []PinnedStays
<1>1. Init => NInv
  BY DEF Init, NInv, PinsAreKept, PinnedStays, Cleaners
<1>2. TInv /\ NInv /\ [Next]_vars => NInv'
  BY NextSplits, PinsPacker, PinsClean
<1>3. NInv => PinnedStays
  BY DEF NInv
<1> QED BY <1>1, <1>2, <1>3, TypesInit, TypesStep, PTL DEF Spec

-----------------------------------------------------------------------------
(* Pairs.                                                                  *)

\* When PairsBelongTogether promises something.
Promised == crashes = 0 \/ (crashes = 1 /\ ~forced /\ ~mixed)

PairsEqual == \A id \in DOMAIN zips \cap DOMAIN sums : ~BeingPacked(id) => sums[id] = zips[id]

LEMMA PairsDef == PairsBelongTogether <=> (Promised => PairsEqual)
BY DEF PairsBelongTogether, Promised, PairsEqual

\* What happens up to the pack: a packer and a cleaner that work at once are noticed, and so is a forced repack.
LEMMA PrepareFacts ==
    ASSUME TInv, NotMixed, NotForced, Pipeline \/ StartPack
    PROVE  /\ UNCHANGED <<zips, sums, shipped, cleaner, crashes>>
           /\ ~Writing /\ ~Writing'
           /\ (mixed => mixed') /\ (forced => forced') /\ NotMixed' /\ NotForced'
<1> packer \in Locals
  BY Parts
<1> USE DEF releases, counters, history, Writing, At
<1>1. ASSUME NEW pc \in {"build", "pack"}, NEW accept, NEW force \in BOOLEAN, Begin(pc, accept, force)
      PROVE  /\ UNCHANGED <<zips, sums, shipped, cleaner, crashes>>
             /\ ~Writing /\ ~Writing'
             /\ (mixed => mixed') /\ (forced => forced') /\ NotMixed' /\ NotForced'
  <2>1. packer'.pc = pc /\ packer'.force = force
    BY <1>1 DEF Begin, Idle
  <2> QED BY <1>1, <2>1 DEF Begin, Packing, NotMixed, NotForced, Cleaning
<1>2. CASE StartPipeline \/ StartPack
  BY <1>1, <1>2 DEF StartPipeline, StartPack
<1>3. ASSUME UNCHANGED <<zips, sums, shipped, cleaner, crashes, mixed, forced>>,
             packer.pc \in {"build", "seal", "accept"}, packer'.pc \in {"off", "seal", "accept", "pack"},
             packer'.force => packer.force
      PROVE  /\ UNCHANGED <<zips, sums, shipped, cleaner, crashes>>
             /\ ~Writing /\ ~Writing'
             /\ (mixed => mixed') /\ (forced => forced') /\ NotMixed' /\ NotForced'
  BY <1>3 DEF Packing, NotMixed, NotForced, Cleaning
<1>4. CASE BuildApp
  <2>1. Goes("seal")
    BY <1>4, GotoGoes DEF BuildApp, PackerPcs
  <2> QED BY <1>3, <1>4, <2>1 DEF BuildApp, Goes
<1>5. CASE BuildFails \/ AcceptFails
  <2>1. packer'.pc = "off" /\ ~packer'.force
    BY <1>5, StopGoes DEF BuildFails, AcceptFails
  <2> QED BY <1>3, <1>5, <2>1 DEF BuildFails, AcceptFails
<1>6. CASE Seal
  <2>1. Goes("accept") \/ Goes("pack")
    BY <1>6, GotoGoes DEF Seal, PackerPcs
  <2> QED BY <1>3, <1>6, <2>1 DEF Seal, Goes
<1>7. CASE Accept
  <2>1. Goes("pack")
    BY <1>7, GatedGoes DEF Accept
  <2> QED BY <1>3, <1>7, <2>1 DEF Accept, Goes
<1> QED BY <1>2, <1>4, <1>5, <1>6, <1>7 DEF Pipeline

LEMMA PairsPrepare ==
    ASSUME TInv, PInv, Pipeline \/ StartPack
    PROVE  PInv'
<1>1. /\ UNCHANGED <<zips, sums, shipped, cleaner, crashes>> /\ ~Writing /\ ~Writing'
      /\ (mixed => mixed') /\ (forced => forced') /\ NotMixed' /\ NotForced'
  BY PrepareFacts DEF PInv
<1>2. PairsBelongTogether'
  BY <1>1 DEF PInv, PairsBelongTogether, BeingPacked, Writing
<1>3. WritesDist' /\ HashesZip' /\ ZipIsThere' /\ PackIsNew'
  BY <1>1 DEF WritesDist, HashesZip, ZipIsThere, PackIsNew, Writing, At
<1>4. HousePlan' /\ RetentionPlanned' /\ SumsHaveZip'
  BY <1>1 DEF PInv, HousePlan, RetentionPlanned, SumsHaveZip
<1> QED BY <1>1, <1>2, <1>3, <1>4 DEF PInv

\* A packer that stops, in front of a step that writes, leaves no pair that does not belong together.
LEMMA PairsStop ==
    ASSUME TInv, PInv, PackFails \/ Verify \/ Crash
    PROVE  PInv'
<1>1. /\ packer'.pc = "off" /\ ~packer'.force /\ ~Writing'
      /\ UNCHANGED <<dist, zips, sums, cleaner, mixed, forced>>
  BY StopGoes DEF PackFails, Verify, Crash, releases, history, Writing
<1>2. crashes' = crashes \/ (Crash /\ crashes' = crashes + 1 /\ crashes \in Nat)
  BY Parts DEF PackFails, Verify, Crash, counters
<1>3. /\ NotMixed' /\ NotForced' /\ WritesDist' /\ HashesZip' /\ ZipIsThere' /\ PackIsNew'
      /\ HousePlan' /\ RetentionPlanned'
  <2>1. NotMixed' /\ NotForced' /\ HashesZip' /\ ZipIsThere'
    BY <1>1 DEF NotMixed, NotForced, HashesZip, ZipIsThere, Packing, At
  <2>2. WritesDist' /\ PackIsNew'
    BY <1>1 DEF WritesDist, PackIsNew
  <2>3. HousePlan' /\ RetentionPlanned'
    BY <1>1 DEF PInv, HousePlan, RetentionPlanned
  <2> QED BY <2>1, <2>2, <2>3
<1>4. SumsHaveZip'
  <2>1. crashes' = 0 => crashes = 0
    BY ONLY <1>2
  <2> QED BY <1>1, <2>1 DEF PInv, SumsHaveZip
<1>5. PairsBelongTogether'
  <2> SUFFICES ASSUME Promised' PROVE PairsEqual'
    BY DEF PairsBelongTogether, Promised, PairsEqual
  <2>1. Promised
    BY <1>1, <1>2 DEF Promised
  <2>2. PairsEqual
    BY <2>1, PairsDef DEF PInv
  <2>3. CASE Verify
    BY <1>1, <2>2, <2>3 DEF Verify, At, PairsEqual, BeingPacked
  <2>4. CASE PackFails
    <3>1. ASSUME NEW id \in DOMAIN zips \cap DOMAIN sums PROVE ~BeingPacked(id)
      BY <2>4 DEF PackFails, BeingPacked, PInv, WritesDist, Writing, At
    <3> QED BY <1>1, <2>2, <3>1 DEF PairsEqual
  <2>5. CASE Crash
    <3>1. crashes = 0 /\ ~forced /\ ~mixed
      BY <1>1, <1>2, <2>5, Parts DEF Promised, Crash
    <3>2. ASSUME NEW id \in DOMAIN zips \cap DOMAIN sums PROVE ~BeingPacked(id)
      BY <3>1 DEF PInv, PackIsNew, BeingPacked, Writing
    <3> QED BY <1>1, <2>2, <3>2 DEF PairsEqual
  <2> QED BY <2>3, <2>4, <2>5
<1> QED BY <1>3, <1>4, <1>5 DEF PInv

\* A pack that is not forced finds at most one of the two files; the one can only be the zip, when nobody died.
LEMMA PairsManifest ==
    ASSUME TInv, PInv, SkipExisting \/ WriteManifest
    PROVE  PInv'
<1>1. packer \in Locals /\ Packable /\ CurrentId \in Ids /\ At("pack") /\ dist \in Contents
  BY Parts, CurrentIdType DEF SkipExisting, WriteManifest
<1>2. /\ UNCHANGED <<zips, sums, cleaner, crashes, mixed, forced>>
      /\ packer'.pc \in {"verify", "zip"} /\ (packer'.pc = "zip" => ~Existing)
      /\ packer'.id = CurrentId /\ packer'.force = packer.force
  <2>1. CASE SkipExisting
    BY <1>1, <2>1, IdGoes DEF SkipExisting, Goes, PackerPcs, releases, counters, history
  <2>2. CASE WriteManifest
    BY <1>1, <2>2, IdGoes DEF WriteManifest, Goes, PackerPcs, releases, history
  <2> QED BY <2>1, <2>2
<1>3. Packable'
  <2>1. dist' = dist \/ dist' = [dist EXCEPT !.manifest = packs + 1]
    BY DEF SkipExisting, WriteManifest
  <2> QED BY <1>1, <2>1 DEF Packable, Contents
<1>4. NotMixed' /\ NotForced' /\ WritesDist' /\ HashesZip' /\ ZipIsThere'
  BY <1>1, <1>2, <1>3 DEF PInv, NotMixed, NotForced, WritesDist, HashesZip, ZipIsThere, Packing, Cleaning, At
<1>5. HousePlan' /\ RetentionPlanned' /\ SumsHaveZip'
  BY <1>2 DEF PInv, HousePlan, RetentionPlanned, SumsHaveZip
<1>6. PackIsNew'
  <2> SUFFICES ASSUME crashes = 0, ~forced, ~mixed, ~Existing
               PROVE  CurrentId \notin DOMAIN sums
    BY <1>2 DEF PackIsNew, Writing
  <2>1. ~Complete(CurrentId)
    BY DEF Existing, PInv, NotForced
  <2>2. cleaner["housekeeping"] = {}
    BY <1>1 DEF PInv, NotMixed, Packing, At, Cleaning, Cleaners
  <2> QED BY <2>1, <2>2 DEF Complete, PInv, SumsHaveZip
<1>7. PairsBelongTogether'
  BY <1>1, <1>2 DEF PInv, PairsBelongTogether, BeingPacked, At
<1> QED BY <1>4, <1>5, <1>6, <1>7 DEF PInv

LEMMA PairsZip ==
    ASSUME TInv, PInv, WriteZip
    PROVE  PInv'
<1>1. packer \in Locals /\ At("zip") /\ packer.id \in Ids /\ Store(zips) /\ dist \in Contents
  BY Parts DEF WriteZip, At, WithId
<1>2. /\ UNCHANGED <<dist, sums, cleaner, crashes, mixed, forced>>
      /\ packer'.pc = "hash" /\ packer'.id = packer.id /\ packer'.force = packer.force
  BY <1>1, GotoGoes DEF WriteZip, Goes, PackerPcs, counters, history
<1>3. /\ DOMAIN zips' = DOMAIN zips \cup {packer.id}
      /\ \A other \in DOMAIN zips : other # packer.id => zips'[other] = zips[other]
  <2>1. zips' = Put(zips, packer.id, dist)
    BY DEF WriteZip
  <2> QED BY ONLY <2>1 DEF Put
<1>4. NotMixed' /\ NotForced' /\ WritesDist' /\ HashesZip' /\ ZipIsThere'
  BY <1>1, <1>2 DEF WriteZip, PInv, NotMixed, NotForced, WritesDist, HashesZip, ZipIsThere, Packing, Packable, Cleaning, Writing, At
<1>5. HousePlan' /\ RetentionPlanned' /\ SumsHaveZip' /\ PackIsNew'
  BY <1>1, <1>2, <1>3 DEF PInv, HousePlan, RetentionPlanned, SumsHaveZip, PackIsNew, Writing, At
<1>6. PairsBelongTogether'
  BY <1>1, <1>2, <1>3 DEF PInv, PairsBelongTogether, BeingPacked, At
<1> QED BY <1>4, <1>5, <1>6 DEF PInv

LEMMA PairsHash ==
    ASSUME TInv, PInv, Hash
    PROVE  PInv'
<1>1. packer \in Locals /\ At("hash") /\ packer.id \in DOMAIN zips /\ zips[packer.id] \in Contents
  BY Parts DEF Hash, Store
<1>2. /\ UNCHANGED <<dist, zips, sums, cleaner, crashes, mixed, forced>>
      /\ packer'.pc = "sums" /\ packer'.id = packer.id /\ packer'.force = packer.force
      /\ packer'.hashed = zips[packer.id]
  BY <1>1, HashedGoes DEF Hash, Goes, PackerPcs, releases, counters, history
<1>3. NotMixed' /\ NotForced' /\ WritesDist' /\ HashesZip' /\ ZipIsThere'
  BY <1>1, <1>2 DEF Hash, PInv, NotMixed, NotForced, WritesDist, HashesZip, ZipIsThere, Packing, Packable, Cleaning, Writing, At
<1>4. HousePlan' /\ RetentionPlanned' /\ SumsHaveZip' /\ PackIsNew'
  BY <1>1, <1>2 DEF PInv, HousePlan, RetentionPlanned, SumsHaveZip, PackIsNew, Writing, At
<1>5. PairsBelongTogether'
  BY <1>1, <1>2 DEF PInv, PairsBelongTogether, BeingPacked, At
<1> QED BY <1>3, <1>4, <1>5 DEF PInv

LEMMA PairsSums ==
    ASSUME TInv, PInv, WriteSums
    PROVE  PInv'
<1>1. packer \in Locals /\ At("sums") /\ packer.id \in Ids /\ Store(sums) /\ packer.hashed \in Contents
  BY Parts DEF WriteSums, At, WithId, Locals
<1>2. /\ UNCHANGED <<dist, zips, cleaner, crashes, mixed, forced>>
      /\ packer'.pc = "verify" /\ packer'.force = packer.force
  BY <1>1, GotoGoes DEF WriteSums, Goes, PackerPcs, counters, history
<1>3. /\ DOMAIN sums' = DOMAIN sums \cup {packer.id} /\ sums'[packer.id] = packer.hashed
      /\ \A other \in DOMAIN sums : other # packer.id => sums'[other] = sums[other]
  <2>1. sums' = Put(sums, packer.id, packer.hashed)
    BY DEF WriteSums
  <2> QED BY ONLY <1>1, <2>1, PutStore
<1>4. NotMixed' /\ NotForced' /\ WritesDist' /\ HashesZip' /\ ZipIsThere' /\ PackIsNew' /\ HousePlan'
  BY <1>1, <1>2 DEF PInv, NotMixed, NotForced, WritesDist, HashesZip, ZipIsThere, PackIsNew, HousePlan, Packing, Cleaning, Writing, At
<1>5. ~mixed => cleaner["housekeeping"] = {} /\ cleaner["retention"] = {}
  BY <1>1 DEF PInv, NotMixed, Packing, At, Cleaning, Cleaners
<1>6. RetentionPlanned'
  BY <1>2, <1>5 DEF RetentionPlanned
<1>7. SumsHaveZip'
  BY <1>1, <1>2, <1>3 DEF PInv, SumsHaveZip, ZipIsThere
<1>8. PairsBelongTogether'
  BY <1>1, <1>2, <1>3 DEF PInv, PairsBelongTogether, HashesZip, BeingPacked, At
<1> QED BY <1>4, <1>6, <1>7, <1>8 DEF PInv

LEMMA PairsStartCleaning ==
    ASSUME TInv, PInv, NEW c \in Cleaners, NEW plan \in SUBSET Files, StartCleaning(c, plan),
           \/ c = "retention" /\ \A id \in DOMAIN sums : <<"zip", id>> \in plan => <<"sums", id>> \in plan
           \/ c = "housekeeping" /\ \A id \in Ids : <<"zip", id>> \in plan => <<"sums", id>> \in plan
    PROVE  PInv'
<1>1. /\ cleaner'[c] = plan /\ \A other \in Cleaners \ {c} : cleaner'[other] = cleaner[other]
      /\ mixed' = (mixed \/ Packing) /\ UNCHANGED <<dist, zips, sums, packer, crashes, forced>>
  BY Parts, StartFacts
<1>2. /\ WritesDist' /\ HashesZip' /\ ZipIsThere' /\ NotMixed' /\ NotForced' /\ PackIsNew'
  BY <1>1 DEF PInv, WritesDist, HashesZip, ZipIsThere, NotMixed, NotForced, PackIsNew, Writing, Packable, At, Packing
<1>3. HousePlan' /\ RetentionPlanned'
  <2>1. CASE c = "retention"
    BY <1>1, <2>1 DEF PInv, HousePlan, RetentionPlanned, Cleaners
  <2>2. CASE c = "housekeeping"
    BY <1>1, <2>2 DEF PInv, HousePlan, RetentionPlanned, Cleaners
  <2> QED BY <2>1, <2>2 DEF Cleaners
<1>4. SumsHaveZip'
  <2> SUFFICES ASSUME crashes = 0, ~mixed, NEW id \in DOMAIN sums \ DOMAIN zips
               PROVE  <<"sums", id>> \in cleaner'["housekeeping"]
    BY <1>1 DEF SumsHaveZip
  <2>1. <<"sums", id>> \in cleaner["housekeeping"]
    BY DEF PInv, SumsHaveZip
  <2>2. c = "retention"
    BY <2>1 DEF StartCleaning, Cleaning
  <2> QED BY <1>1, <2>1, <2>2 DEF Cleaners
<1>5. PairsBelongTogether'
  BY <1>1 DEF PInv, PairsBelongTogether, BeingPacked
<1> QED BY <1>2, <1>3, <1>4, <1>5 DEF PInv

LEMMA PairsDelete ==
    ASSUME TInv, PInv, NEW c \in Cleaners, NEW id \in Ids, NEW file \in {"zip", "sums"}, Deletes(c, id, file)
    PROVE  PInv'
<1>1. /\ <<file, id>> \in cleaner[c] /\ (file = First(c) \/ <<First(c), id>> \notin cleaner[c])
      /\ cleaner'[c] = cleaner[c] \ {<<file, id>>}
      /\ \A other \in Cleaners \ {c} : cleaner'[other] = cleaner[other]
      /\ UNCHANGED <<dist, packer, crashes, mixed, forced>>
  BY DEF Deletes
<1>2. /\ DOMAIN zips' = DOMAIN zips \ (IF file = "zip" THEN {id} ELSE {})
      /\ DOMAIN sums' = DOMAIN sums \ (IF file = "sums" THEN {id} ELSE {})
      /\ \A other \in DOMAIN zips' : zips'[other] = zips[other]
      /\ \A other \in DOMAIN sums' : sums'[other] = sums[other]
  BY DEF Deletes
<1>3. \A other \in DOMAIN sums : other \in Ids
  BY Parts DEF Store
<1>4. ~mixed => ~Packing
  BY <1>1 DEF PInv, NotMixed, Cleaning
<1>5. WritesDist' /\ HashesZip' /\ NotMixed' /\ NotForced'
  <2>1. WritesDist' /\ NotForced'
    BY <1>1 DEF PInv, WritesDist, NotForced, Writing, Packable, At
  <2>2. HashesZip'
    BY <1>1, <1>2 DEF PInv, HashesZip, At
  <2>3. NotMixed'
    BY <1>1, <1>4 DEF NotMixed, Packing
  <2> QED BY <2>1, <2>2, <2>3
<1>6. ZipIsThere' /\ PackIsNew'
  BY <1>1, <1>4 DEF ZipIsThere, PackIsNew, Writing, Packing, At
<1>7. HousePlan'
  <2>1. CASE c = "retention"
    BY <1>1, <2>1 DEF PInv, HousePlan, Cleaners
  <2>2. CASE c = "housekeeping"
    BY <1>1, <2>2 DEF PInv, HousePlan, First
  <2> QED BY <2>1, <2>2 DEF Cleaners
<1>8. RetentionPlanned'
  <2>1. CASE c = "retention"
    <3>1. DOMAIN sums' = DOMAIN sums \ (IF file = "sums" THEN {id} ELSE {})
      BY <1>2
    <3> QED BY <1>1, <2>1, <3>1 DEF PInv, RetentionPlanned
  <2>2. CASE c = "housekeeping"
    BY <1>1, <1>2, <2>2 DEF PInv, RetentionPlanned, Cleaners
  <2> QED BY <2>1, <2>2 DEF Cleaners
<1>9. SumsHaveZip'
  <2> SUFFICES ASSUME crashes = 0, ~mixed, NEW other \in DOMAIN sums' \ DOMAIN zips'
               PROVE  <<"sums", other>> \in cleaner'["housekeeping"]
    BY <1>1 DEF SumsHaveZip
  <2>1. other \in DOMAIN sums /\ other \in Ids
    BY <1>2, <1>3
  <2>2. CASE other \notin DOMAIN zips
    <3>1. <<"sums", other>> \in cleaner["housekeeping"]
      BY <2>1, <2>2 DEF PInv, SumsHaveZip
    <3> QED BY <1>1, <1>2, <3>1 DEF Cleaners
  <2>3. CASE other \in DOMAIN zips
    <3>1. file = "zip" /\ id = other
      BY <1>2, <2>3
    <3>2. CASE c = "retention"
      BY <1>1, <2>1, <3>1, <3>2 DEF First, PInv, RetentionPlanned
    <3>3. CASE c = "housekeeping"
      BY <1>1, <2>1, <3>1, <3>3 DEF PInv, HousePlan
    <3> QED BY <3>2, <3>3 DEF Cleaners
  <2> QED BY <2>2, <2>3
<1>10. PairsBelongTogether'
  BY <1>1, <1>2 DEF PInv, PairsBelongTogether, BeingPacked
<1> QED BY <1>5, <1>6, <1>7, <1>8, <1>9, <1>10 DEF PInv

LEMMA PairsDies ==
    ASSUME TInv, PInv, NEW c \in Cleaners, CleanerDies(c)
    PROVE  PInv'
<1>1. /\ cleaner'[c] = {} /\ \A other \in Cleaners \ {c} : cleaner'[other] = cleaner[other]
      /\ crashes' = crashes + 1 /\ crashes' # 0
      /\ UNCHANGED <<dist, zips, sums, packer, mixed, forced>>
  BY DiesFacts
<1>2. WritesDist' /\ HashesZip' /\ ZipIsThere' /\ NotForced' /\ SumsHaveZip' /\ PackIsNew'
  BY <1>1 DEF PInv, WritesDist, HashesZip, ZipIsThere, NotForced, SumsHaveZip, PackIsNew, Writing, Packable, At
<1>3. NotMixed' /\ HousePlan' /\ RetentionPlanned'
  BY <1>1 DEF PInv, NotMixed, HousePlan, RetentionPlanned, Packing, Cleaning, Cleaners
<1>4. PairsBelongTogether'
  <2>1. crashes' = 1 => crashes = 0
    BY <1>1, Parts
  <2> QED BY <1>1, <2>1 DEF PInv, PairsBelongTogether, BeingPacked
<1> QED BY <1>2, <1>3, <1>4 DEF PInv

LEMMA PairsClean ==
    ASSUME TInv, PInv, Clean
    PROVE  PInv'
<1>1. CASE StartRetention
  <2>1. StartCleaning("retention", RetentionPlan) /\ RetentionPlan \in SUBSET Files
    BY <1>1, PlanType DEF StartRetention
  <2>2. \A id \in DOMAIN sums : <<"zip", id>> \in RetentionPlan => <<"sums", id>> \in RetentionPlan
    BY DEF RetentionPlan
  <2> QED BY <2>1, <2>2, PairsStartCleaning DEF Cleaners
<1>2. CASE StartHousekeeping
  <2>1. PICK cutoff \in 1..MaxPacks : StartCleaning("housekeeping", {"zip", "sums"} \X Old(cutoff))
    BY <1>2 DEF StartHousekeeping
  <2>2. {"zip", "sums"} \X Old(cutoff) \in SUBSET Files
    BY PlanType
  <2>3. \A id \in Ids : <<"zip", id>> \in {"zip", "sums"} \X Old(cutoff) => <<"sums", id>> \in {"zip", "sums"} \X Old(cutoff)
    OBVIOUS
  <2> QED BY <2>1, <2>2, <2>3, PairsStartCleaning DEF Cleaners
<1>3. CASE \E c \in Cleaners : CleanerDies(c)
  BY <1>3, PairsDies
<1>4. CASE \E c \in Cleaners : \E id \in Ids : Delete(c, id)
  <2>1. PICK c \in Cleaners, id \in Ids : Delete(c, id)
    BY <1>4
  <2>2. PICK file \in {"zip", "sums"} : Deletes(c, id, file)
    BY <2>1, DeleteFacts
  <2> QED BY <2>2, PairsDelete
<1>5. CASE (\E id \in Ids : Pin(id)) \/ UNCHANGED vars
  <2>1. UNCHANGED <<dist, zips, sums, packer, cleaner, crashes, mixed, forced>>
    BY <1>5 DEF Pin, vars, releases, counters, history
  <2>2. WritesDist' /\ HashesZip' /\ ZipIsThere' /\ NotMixed' /\ NotForced'
    BY <2>1 DEF PInv, WritesDist, HashesZip, ZipIsThere, NotMixed, NotForced, Writing, Packable, At, Packing, Cleaning
  <2>3. HousePlan' /\ RetentionPlanned' /\ SumsHaveZip' /\ PackIsNew'
    BY <2>1 DEF PInv, HousePlan, RetentionPlanned, SumsHaveZip, PackIsNew, Writing
  <2>4. PairsBelongTogether'
    BY <2>1 DEF PInv, PairsBelongTogether, BeingPacked
  <2> QED BY <2>2, <2>3, <2>4 DEF PInv
<1> QED BY <1>1, <1>2, <1>3, <1>4, <1>5 DEF Clean

LEMMA PairsStep == TInv /\ PInv /\ [Next]_vars => PInv'
<1>1. TInv /\ PInv /\ Pack => PInv'
  BY PairsPrepare, PairsStop, PairsManifest, PairsZip, PairsHash, PairsSums DEF Pack
<1>2. TInv /\ PInv /\ Pipeline => PInv'
  BY PairsPrepare
<1> QED BY <1>1, <1>2, PairsClean, NextSplits

LEMMA PairsInit == Init => PInv
<1> SUFFICES ASSUME Init PROVE PInv
  OBVIOUS
<1>1. /\ packer.pc = "off" /\ ~packer.force /\ DOMAIN zips = {} /\ DOMAIN sums = {}
      /\ \A c \in Cleaners : cleaner[c] = {}
  BY DEF Init, Idle
<1> QED BY <1>1 DEF PInv, WritesDist, HashesZip, ZipIsThere, NotMixed, NotForced, HousePlan, RetentionPlanned,
                    SumsHaveZip, PackIsNew, PairsBelongTogether, Writing, Packing, At, Cleaners

\* The zip and the sums of a release that nobody is packing belong together, though each is written on its own, as
\* long as nobody died; and after one death too, if no repack was forced and no one packed while another deleted.
THEOREM PairsBelong == Spec => []PairsBelongTogether
<1>1. PInv => PairsBelongTogether
  BY DEF PInv
<1> QED BY <1>1, PairsInit, PairsStep, TypesInit, TypesStep, PTL DEF Spec

-----------------------------------------------------------------------------
(* Shipped releases.                                                       *)

\* What a step keeps that touches neither the files of dist nor those of the releases.
LEMMA ShippedKept ==
    ASSUME TInv, HInv, UNCHANGED <<dist, zips, sums, builds>>, shipped' \subseteq shipped, forced => forced'
    PROVE  ZipsDeclare' /\ ShippedAreThere' /\ ShippedHoldsWhatItDeclares'
BY DEF HInv, ZipsDeclare, ShippedAreThere, ShippedHoldsWhatItDeclares, Complete

LEMMA ShippedPrepare ==
    ASSUME TInv, HInv, NotMixed, Pipeline \/ StartPack
    PROVE  HInv'
<1> packer \in Locals /\ dist \in Contents /\ builds \in Nat
  BY Parts
<1>1. /\ UNCHANGED <<zips, sums, shipped>> /\ ~Writing' /\ (forced => forced') /\ NotForced'
  BY PrepareFacts DEF HInv
<1>2. WritesDist' /\ PackIsNotShipped'
  BY <1>1 DEF WritesDist, PackIsNotShipped
<1>3. CASE StartPipeline \/ StartPack
  <2>1. /\ packer'.pc \in {"build", "pack"} /\ ~packer'.gated /\ UNCHANGED <<dist, builds>>
    BY <1>3 DEF StartPipeline, StartPack, Begin, Idle, counters
  <2>2. DistIsLatest' /\ AcceptedIsLatest' /\ IdIsDist'
    BY <2>1 DEF HInv, DistIsLatest, AcceptedIsLatest, IdIsDist, At, WithId
  <2> QED BY <1>1, <1>2, <2>1, <2>2, ShippedKept DEF HInv
<1>4. CASE BuildApp
  <2>1. packer'.pc = "seal" /\ packer'.gated = packer.gated /\ ~packer.gated
    BY <1>4, GotoGoes DEF BuildApp, Goes, PackerPcs, HInv, AcceptedIsLatest, At, WithId
  <2>2. builds' = builds + 1 /\ dist' = [dist EXCEPT !.app = builds + 1]
    BY <1>4 DEF BuildApp
  <2>3. dist'.app = builds' /\ dist'.hashes = dist.hashes /\ dist.hashes \in Int
    BY <2>2 DEF Contents
  <2>4. DistIsLatest' /\ AcceptedIsLatest' /\ IdIsDist'
    BY <2>1, <2>2, <2>3 DEF HInv, DistIsLatest, AcceptedIsLatest, IdIsDist, At, WithId
  <2>5. ZipsDeclare'
    <3>1. \A id \in DOMAIN zips : zips[id].app \in Int
      BY Parts DEF Store, Contents
    <3> QED BY <1>1, <2>2, <3>1 DEF HInv, ZipsDeclare
  <2>6. ShippedAreThere' /\ ShippedHoldsWhatItDeclares'
    BY <1>1 DEF HInv, ShippedAreThere, ShippedHoldsWhatItDeclares, Complete
  <2> QED BY <1>1, <1>2, <2>4, <2>5, <2>6 DEF HInv
<1>5. ASSUME UNCHANGED builds, dist'.app \in {0, builds}, dist'.hashes <= builds, packer'.pc \notin WithId \cup {"seal"},
             packer'.gated => packer'.pc = "pack" /\ dist'.app = builds /\ dist'.hashes = builds
      PROVE  HInv'
  <2>1. DistIsLatest' /\ AcceptedIsLatest' /\ IdIsDist'
    BY <1>5 DEF DistIsLatest, AcceptedIsLatest, IdIsDist, At
  <2>2. ZipsDeclare' /\ ShippedAreThere' /\ ShippedHoldsWhatItDeclares'
    BY <1>1, <1>5 DEF HInv, ZipsDeclare, ShippedAreThere, ShippedHoldsWhatItDeclares, Complete
  <2> QED BY <1>1, <1>2, <2>1, <2>2 DEF HInv
<1>6. CASE BuildFails \/ AcceptFails
  <2>1. packer'.pc = "off" /\ ~packer'.gated /\ builds' = builds
    BY <1>6, StopGoes DEF BuildFails, AcceptFails, counters
  <2>2. dist' = dist \/ dist' = [dist EXCEPT !.app = 0]
    BY <1>6 DEF BuildFails, AcceptFails
  <2>3. dist'.app \in {0, dist.app} /\ dist'.hashes = dist.hashes
    BY <2>2 DEF Contents
  <2> QED BY <1>5, <2>1, <2>3 DEF HInv, DistIsLatest, WithId
<1>7. CASE Seal
  <2>1. packer'.pc \in {"accept", "pack"} /\ packer'.gated = packer.gated /\ ~packer.gated /\ builds' = builds
    BY <1>7, GotoGoes DEF Seal, Goes, PackerPcs, HInv, AcceptedIsLatest, At, WithId, counters
  <2>2. dist'.app = dist.app /\ dist'.hashes = dist.app
    BY <1>7 DEF Seal, Contents
  <2> QED BY <1>5, <2>1, <2>2 DEF HInv, DistIsLatest, WithId
<1>8. CASE Accept
  <2>1. packer'.pc = "pack" /\ builds' = builds
    BY <1>8, GatedGoes DEF Accept, Goes, counters
  <2>2. dist'.app = dist.app /\ dist'.hashes = dist.hashes
    <3>1. dist' = dist \/ dist' = [dist EXCEPT !.report = dist.app]
      BY <1>8 DEF Accept
    <3> QED BY <3>1 DEF Contents
  <2>3. dist.app = builds /\ dist.hashes = builds
    BY <1>8 DEF Accept, HInv, DistIsLatest
  <2> QED BY <1>5, <2>1, <2>2, <2>3 DEF WithId
<1> QED BY <1>3, <1>4, <1>6, <1>7, <1>8 DEF Pipeline

\* The pack up to its end: the app, its hashes and the build's number stay.
LEMMA ShippedPack ==
    ASSUME TInv, HInv, SkipExisting \/ WriteManifest \/ WriteZip \/ Hash \/ WriteSums
    PROVE  HInv'
<1> packer \in Locals /\ dist \in Contents /\ builds \in Nat /\ Store(zips) /\ Store(sums)
  BY Parts
<1>1. dist'.app = dist.app /\ dist'.hashes = dist.hashes
  <2>1. dist' = dist \/ dist' = [dist EXCEPT !.manifest = packs + 1]
    BY DEF SkipExisting, WriteManifest, WriteZip, Hash, WriteSums
  <2> QED BY <2>1 DEF Contents
<1>2. UNCHANGED <<builds, forced, shipped>>
  BY DEF SkipExisting, WriteManifest, WriteZip, Hash, WriteSums, counters, history, releases
<1>3. /\ packer.pc \in {"pack"} \cup WithId /\ packer'.pc \in WithId
      /\ packer'.gated = packer.gated /\ packer'.force = packer.force
      /\ packer'.id = IF packer.pc = "pack" THEN CurrentId ELSE packer.id
      /\ (packer.pc # "pack" => Writing)
  <2>1. CASE SkipExisting \/ WriteManifest
    <3>1. CurrentId \in Ids /\ packer.pc = "pack"
      BY <2>1, CurrentIdType DEF SkipExisting, WriteManifest, At
    <3>2. \E pc \in {"verify", "zip"} : packer' = [packer EXCEPT !.pc = pc, !.id = CurrentId]
      BY <2>1 DEF SkipExisting, WriteManifest
    <3> QED BY <3>1, <3>2, IdGoes DEF PackerPcs, WithId, Goes
  <2>2. CASE WriteZip \/ WriteSums
    BY <2>2, GotoGoes DEF WriteZip, WriteSums, At, PackerPcs, WithId, Goes, Writing
  <2>3. CASE Hash
    <3>1. zips[packer.id] \in Contents
      BY <2>3 DEF Hash, Store
    <3> QED BY <2>3, <3>1, HashedGoes DEF Hash, At, PackerPcs, WithId, Goes, Writing
  <2> QED BY <2>1, <2>2, <2>3
<1>4. DistIsLatest' /\ AcceptedIsLatest' /\ NotForced'
  BY <1>1, <1>2, <1>3 DEF HInv, DistIsLatest, AcceptedIsLatest, NotForced, At, WithId
<1>5. IdIsDist'
  BY <1>1, <1>3 DEF HInv, IdIsDist, CurrentId, WithId
<1>6. WritesDist'
  <2>1. Packable
    BY DEF SkipExisting, WriteManifest, WriteZip, Hash, WriteSums, HInv, WritesDist, Writing, At
  <2> QED BY <1>1, <2>1 DEF WritesDist, Packable
<1>7. PackIsNotShipped'
  <2>1. CASE WriteManifest
    <3>1. ~forced => ~Complete(CurrentId)
      BY <2>1 DEF WriteManifest, Existing, HInv, NotForced
    <3> QED BY <1>2, <1>3, <2>1, <3>1 DEF WriteManifest, At, HInv, ShippedAreThere, PackIsNotShipped
  <2>2. CASE SkipExisting
    <3>1. packer'.pc = "verify"
      BY <2>2 DEF SkipExisting, Locals
    <3> QED BY <3>1 DEF PackIsNotShipped, Writing
  <2>3. CASE WriteZip \/ Hash \/ WriteSums
    <3>1. packer.pc # "pack"
      BY <2>3 DEF WriteZip, Hash, WriteSums, At
    <3> QED BY <1>2, <1>3, <3>1 DEF HInv, PackIsNotShipped
  <2> QED BY <2>1, <2>2, <2>3
<1>8. ZipsDeclare' /\ ShippedAreThere' /\ ShippedHoldsWhatItDeclares'
  <2>1. CASE WriteZip
    <3>1. packer.id \in Ids /\ packer.pc \in WithId /\ Packable /\ Writing
      BY <2>1, Parts DEF WriteZip, At, WithId, Writing
    <3>2. zips' = Put(zips, packer.id, dist) /\ sums' = sums
      BY <2>1 DEF WriteZip
    <3>3. /\ DOMAIN zips' = DOMAIN zips \cup {packer.id} /\ zips'[packer.id] = dist
          /\ \A other \in DOMAIN zips : other # packer.id => zips'[other] = zips[other]
      BY ONLY <3>2 DEF Put
    <3>4. dist.hashes = packer.id.hashes /\ packer.id.hashes <= dist.app /\ dist.app <= builds
      BY <3>1 DEF HInv, IdIsDist, DistIsLatest, Packable
    <3>5. ZipsDeclare'
      BY <1>2, <3>3, <3>4 DEF HInv, ZipsDeclare
    <3>6. ~forced => packer.id \notin shipped
      BY <3>1 DEF HInv, PackIsNotShipped
    <3>7. ShippedAreThere' /\ ShippedHoldsWhatItDeclares'
      BY <1>2, <3>2, <3>3, <3>6 DEF HInv, ShippedAreThere, ShippedHoldsWhatItDeclares, Complete
    <3> QED BY <3>5, <3>7
  <2>2. CASE WriteSums
    <3>1. zips' = zips /\ DOMAIN sums \subseteq DOMAIN sums'
      BY <2>2 DEF WriteSums, Put
    <3> QED BY <1>2, <3>1 DEF HInv, ZipsDeclare, ShippedAreThere, ShippedHoldsWhatItDeclares, Complete
  <2>3. CASE SkipExisting \/ WriteManifest \/ Hash
    <3>1. zips' = zips /\ sums' = sums
      BY <2>3 DEF SkipExisting, WriteManifest, Hash, releases
    <3> QED BY <1>2, <3>1 DEF HInv, ZipsDeclare, ShippedAreThere, ShippedHoldsWhatItDeclares, Complete
  <2> QED BY <2>1, <2>2, <2>3
<1> QED BY <1>4, <1>5, <1>6, <1>7, <1>8 DEF HInv

LEMMA ShippedStop ==
    ASSUME TInv, HInv, PackFails \/ Verify \/ Crash
    PROVE  HInv'
<1>1. /\ packer'.pc = "off" /\ ~packer'.gated /\ ~packer'.force
      /\ UNCHANGED <<dist, zips, sums, builds, forced>>
  BY StopGoes DEF PackFails, Verify, Crash, releases, counters, history
<1>2. /\ WritesDist' /\ NotForced' /\ DistIsLatest' /\ AcceptedIsLatest' /\ IdIsDist' /\ PackIsNotShipped'
  BY <1>1 DEF HInv, WritesDist, NotForced, DistIsLatest, AcceptedIsLatest, IdIsDist, PackIsNotShipped, Writing, WithId, At
<1>3. CASE Verify
  <2>1. /\ packer.pc = "verify" /\ ZipsDeclare'
        /\ shipped' \subseteq shipped \cup {packer.id}
        /\ (packer.id \in shipped' \ shipped => packer.gated /\ Verifies(packer.id))
    BY <1>1, <1>3 DEF Verify, At, HInv, ZipsDeclare
  <2>2. ShippedAreThere'
    BY <1>1, <2>1 DEF HInv, ShippedAreThere, Verifies, Complete
  <2>3. ASSUME packer.id \in shipped' \ shipped
        PROVE  zips[packer.id].app = zips[packer.id].hashes
    <3>1. packer.gated /\ packer.id \in DOMAIN zips
      BY <2>1, <2>3 DEF Verifies, Complete
    <3>2. packer.id.hashes = builds
      BY <2>1, <3>1 DEF HInv, AcceptedIsLatest, IdIsDist, WithId
    <3>3. zips[packer.id].app \in Int /\ builds \in Int
      BY <3>1, Parts DEF Store, Contents
    <3> QED BY <3>1, <3>2, <3>3 DEF HInv, ZipsDeclare
  <2>4. ShippedHoldsWhatItDeclares'
    BY <1>1, <2>1, <2>3 DEF HInv, ShippedHoldsWhatItDeclares
  <2> QED BY <1>2, <2>1, <2>2, <2>4 DEF HInv
<1>4. CASE PackFails \/ Crash
  <2>1. shipped' = shipped
    BY <1>4 DEF PackFails, Crash, releases
  <2> QED BY <1>1, <1>2, <2>1, ShippedKept DEF HInv
<1> QED BY <1>3, <1>4

LEMMA ShippedClean ==
    ASSUME TInv, HInv, Clean
    PROVE  HInv'
<1>1. ASSUME UNCHANGED <<dist, packer, builds, forced>>, shipped' \subseteq shipped,
             ZipsDeclare', ShippedAreThere', ShippedHoldsWhatItDeclares'
      PROVE  HInv'
  BY <1>1 DEF HInv, WritesDist, NotForced, DistIsLatest, AcceptedIsLatest, IdIsDist, PackIsNotShipped, Writing, Packable, At
<1>2. CASE StartRetention \/ StartHousekeeping \/ (\E c \in Cleaners : CleanerDies(c)) \/ (\E id \in Ids : Pin(id)) \/ UNCHANGED vars
  <2>1. UNCHANGED <<dist, zips, sums, shipped, packer, builds, forced>>
    BY <1>2 DEF StartRetention, StartHousekeeping, StartCleaning, CleanerDies, Pin, vars, releases, counters, history
  <2> QED BY <1>1, <2>1, ShippedKept
<1>3. CASE \E c \in Cleaners : \E id \in Ids : Delete(c, id)
  <2>1. PICK c \in Cleaners, id \in Ids : Delete(c, id)
    BY <1>3
  <2>2. PICK file \in {"zip", "sums"} : Deletes(c, id, file)
    BY <2>1, DeleteFacts
  <2>3. UNCHANGED <<dist, packer, builds, forced>> /\ shipped' \subseteq shipped
    BY <2>2 DEF Deletes
  <2>4. ZipsDeclare' /\ ShippedAreThere' /\ ShippedHoldsWhatItDeclares'
    BY <2>2 DEF Deletes, HInv, ZipsDeclare, ShippedAreThere, ShippedHoldsWhatItDeclares, Complete
  <2> QED BY <1>1, <2>3, <2>4
<1> QED BY <1>2, <1>3 DEF Clean

LEMMA ShippedStep == TInv /\ PInv /\ HInv /\ [Next]_vars => HInv'
<1>1. TInv /\ PInv /\ HInv /\ Pack => HInv'
  BY ShippedPrepare, ShippedPack, ShippedStop DEF Pack, PInv
<1>2. TInv /\ PInv /\ HInv /\ Pipeline => HInv'
  BY ShippedPrepare DEF PInv
<1> QED BY <1>1, <1>2, ShippedClean, NextSplits

LEMMA ShippedInit == Init => HInv
<1> SUFFICES ASSUME Init PROVE HInv
  OBVIOUS
<1>1. /\ packer.pc = "off" /\ ~packer.force /\ ~packer.gated /\ DOMAIN zips = {} /\ shipped = {}
      /\ dist.app = 0 /\ dist.hashes = 0 /\ builds = 0
  BY DEF Init, Idle, Nothing
<1> QED BY <1>1 DEF HInv, WritesDist, NotForced, DistIsLatest, ZipsDeclare, AcceptedIsLatest, IdIsDist, ShippedAreThere,
                    PackIsNotShipped, ShippedHoldsWhatItDeclares, Writing, At, WithId

\* A release shipped by a pipeline with acceptance holds the app that its hashes.json declares for as long as it is
\* there, whatever builds fail half-way later, and whoever packs, dies and deletes; only a forced repack may change it.
THEOREM ShippedHolds == Spec => []ShippedHoldsWhatItDeclares
<1>1. HInv => ShippedHoldsWhatItDeclares
  BY DEF HInv
<1> QED BY <1>1, PairsInit, PairsStep, ShippedInit, ShippedStep, TypesInit, TypesStep, PTL DEF Spec
-----------------------------------------------------------------------------
(* The last good release.                                                  *)

\* The newest build is what dist declares, and a pack of it goes under its id.
SealsNew == dist.hashes <= builds /\ (At("seal") => dist.app = builds /\ dist.hashes < builds)
PacksCurrent == packer.pc \in WithId => packer.id = CurrentId

\* Of one build there is one release; that of the build in dist is the newest, and there is none of a build that
\* is being accepted.
OnePerBuild == \A id, other \in Present : id.hashes = other.hashes => id = other
DistIsNewest ==
    \A id \in Present : /\ id.hashes <= dist.hashes
                        /\ id.hashes = dist.hashes => id = CurrentId /\ ~At("accept")

\* The files of a newer build have the later manifests, those of a pack the latest.
Ordered(files, others) ==
    \A id \in DOMAIN files, other \in DOMAIN others :
        id.hashes < other.hashes => files[id].manifest < others[other].manifest
AgesInOrder == Ordered(zips, zips) /\ Ordered(zips, sums) /\ Ordered(sums, zips) /\ Ordered(sums, sums)
ManifestIsLast ==
    /\ dist.manifest = packs
    /\ \A id \in DOMAIN zips : zips[id].manifest <= packs
    /\ \A id \in DOMAIN sums : sums[id].manifest <= packs
    /\ Writing => /\ \A id \in DOMAIN zips : zips[id].manifest < packs \/ (~At("zip") /\ id = packer.id)
                  /\ \A id \in DOMAIN sums : sums[id].manifest < packs

\* Nobody plans to delete the release of the newest build, so the packer finds the zip that it has written.
PlansAreOld == \A c \in Cleaners : \A file \in cleaner[c] : file[2].hashes < dist.hashes
ZipIsWritten ==
    /\ packer.pc \in {"hash", "sums"} => packer.id \in DOMAIN zips /\ zips[packer.id] = dist
    /\ At("sums") => packer.hashed = dist
NewIsIncomplete == ~forced /\ At("zip") => ~Complete(packer.id)

\* Once a build was accepted, later packs carry a report.
ReportsStay == \A id \in DOMAIN zips : zips[id].report # 0 => dist.report # 0

AgeInv ==
    /\ IsFiniteSet(Present)
    /\ SealsNew /\ PacksCurrent /\ OnePerBuild /\ DistIsNewest /\ AgesInOrder /\ ManifestIsLast
    /\ PlansAreOld /\ ZipIsWritten /\ NewIsIncomplete /\ ReportsStay

\* The newest release that verifies, and what is newer: packs that died, and the one under way.
NewestGood(good) == Verifies(good) /\ \A id \in Present : Verifies(id) => id.hashes <= good.hashes
NewerThan(good) == {id \in Present : id.hashes > good.hashes}
UnderWay == IF packer.pc \in {"hash", "sums"} THEN 1 ELSE 0
KeepsEnough == ~forced /\ KeepLast > crashes + 1 /\ KeepNewest > crashes + 1

GoodInv ==
    KeepsEnough =>
        \A good \in Present : NewestGood(good) =>
            /\ Cardinality(NewerThan(good)) <= crashes + UnderWay
            /\ \A c \in Cleaners : \A file \in cleaner[c] : file[2].hashes < good.hashes

LEMMA Numbers ==
    ASSUME TInv
    PROVE  /\ Present \subseteq Ids /\ MaxBuilds \in Nat /\ \A id \in Ids : id.hashes \in 1..MaxBuilds
           /\ \A id \in DOMAIN zips : zips[id] \in Contents /\ zips[id].manifest \in Int
           /\ \A id \in DOMAIN sums : sums[id] \in Contents /\ sums[id].manifest \in Int
           /\ dist \in Contents /\ dist.app \in Int /\ dist.hashes \in Int /\ dist.report \in Int /\ dist.manifest \in Int
           /\ builds \in Nat /\ packs \in Nat /\ crashes \in Nat
           /\ KeepLast \in Nat \ {0} /\ KeepNewest \in Nat
<1> /\ dist \in Contents /\ Store(zips) /\ Store(sums) /\ builds \in Nat /\ packs \in Nat /\ crashes \in Nat
    /\ MaxBuilds \in Nat /\ MaxPacks \in Nat
  BY Parts, BoundsAssumption
<1>1. \A file \in Contents : file.app \in Int /\ file.hashes \in Int /\ file.report \in Int /\ file.manifest \in Int
  BY DEF Contents
<1>2. Present \subseteq Ids /\ \A id \in Ids : id.hashes \in 1..MaxBuilds
  BY DEF Present, Store, Ids
<1> QED BY <1>1, <1>2, KeepAssumption DEF Store

\* A release is as old as one of its files.
LEMMA AgeIsOfFile ==
    ASSUME TInv, NEW id \in Present
    PROVE  \/ id \in DOMAIN zips /\ Age(id) = zips[id].manifest
           \/ id \in DOMAIN sums /\ Age(id) = sums[id].manifest
<1> DEFINE Ages == {zips[i].manifest : i \in {id} \cap DOMAIN zips} \cup {sums[i].manifest : i \in {id} \cap DOMAIN sums}
<1>1. \E x \in Ages : \A y \in Ages : x >= y
  <2>1. Ages \subseteq Int /\ Ages # {}
    BY Numbers DEF Present
  <2>2. \A x, y, z \in Ages : x = y \/ y = z \/ x = z
    OBVIOUS
  <2> HIDE DEF Ages
  <2>3. PICK x \in Ages : TRUE
    BY <2>1
  <2>4. CASE \A y \in Ages : x >= y
    BY <2>4
  <2>5. CASE \E y \in Ages : ~(x >= y)
    <3>1. PICK y \in Ages : ~(x >= y)
      BY <2>5
    <3>2. y > x
      BY <2>1, <3>1
    <3>3. \A z \in Ages : y >= z
      BY <2>1, <2>2, <3>2
    <3> QED BY <3>3
  <2> QED BY <2>4, <2>5
<1>2. Age(id) \in Ages
  <2>1. Age(id) = CHOOSE x \in Ages : \A y \in Ages : x >= y
    BY DEF Age, Max
  <2> HIDE DEF Ages
  <2> QED BY <1>1, <2>1
<1> QED BY <1>2

\* What is newer by age is newer by build.
LEMMA LaterIsNewer ==
    ASSUME TInv, AgeInv, NEW id \in Present, NEW other \in Present
    PROVE  /\ Age(other) > Age(id) => other.hashes > id.hashes
           /\ id \in DOMAIN zips /\ other \in DOMAIN zips /\ zips[other].manifest > zips[id].manifest
                  => other.hashes > id.hashes
<1> id.hashes \in Int /\ other.hashes \in Int
  BY Numbers
<1>1. CASE other.hashes = id.hashes
  <2>1. other = id
    BY <1>1 DEF AgeInv, OnePerBuild
  <2>2. Age(id) \in Int
    BY AgeIsOfFile, Numbers
  <2> QED BY <2>1, <2>2, Numbers
<1>2. CASE other.hashes < id.hashes
  <2>1. AgesInOrder
    BY DEF AgeInv
  <2>2. id \in DOMAIN zips /\ other \in DOMAIN zips => zips[other].manifest < zips[id].manifest
    BY <1>2, <2>1 DEF AgesInOrder, Ordered
  <2>3. Age(other) < Age(id)
    BY <1>2, <2>1, AgeIsOfFile DEF AgesInOrder, Ordered
  <2>4. Age(id) \in Int /\ Age(other) \in Int
    BY AgeIsOfFile, Numbers
  <2> QED BY <2>2, <2>3, <2>4, Numbers
<1> QED BY <1>1, <1>2

\* What is planned has as many newer builds as are kept.
LEMMA PlanFacts ==
    ASSUME TInv, AgeInv
    PROVE  /\ \A file \in RetentionPlan : file[2] \in Present /\ Cardinality(NewerThan(file[2])) >= KeepLast
           /\ \A cutoff : \A file \in {"zip", "sums"} \X Old(cutoff) :
                  file[2] \in Present /\ Cardinality(NewerThan(file[2])) >= KeepNewest
<1> IsFiniteSet(Present) /\ Present \subseteq Ids /\ KeepLast \in Nat /\ KeepNewest \in Nat
  BY Numbers DEF AgeInv
<1>1. ASSUME NEW id \in Present, NEW n \in Nat, NEW S \in SUBSET NewerThan(id), Cardinality(S) >= n
      PROVE  Cardinality(NewerThan(id)) >= n
  <2>1. IsFiniteSet(NewerThan(id))
    BY FS_Subset DEF NewerThan
  <2>2. IsFiniteSet(S) /\ Cardinality(S) <= Cardinality(NewerThan(id))
    BY <2>1, FS_Subset
  <2> QED BY <1>1, <2>1, <2>2, FS_CardinalityType
<1>2. ASSUME NEW file \in RetentionPlan
      PROVE  file[2] \in Present /\ Cardinality(NewerThan(file[2])) >= KeepLast
  <2>1. file[2] \in Present /\ file[2] \notin Kept
    BY DEF RetentionPlan, Present
  <2>2. ~(Cardinality(Newer(file[2])) < KeepLast)
    BY <2>1 DEF Kept
  <2>3. Newer(file[2]) \subseteq NewerThan(file[2])
    BY <2>1, LaterIsNewer DEF Newer, NewerThan
  <2>4. Cardinality(Newer(file[2])) \in Nat
    BY FS_Subset, FS_CardinalityType DEF Newer
  <2>5. Cardinality(Newer(file[2])) >= KeepLast
    BY <2>2, <2>4
  <2> QED BY <1>1, <2>1, <2>3, <2>5
<1>3. ASSUME NEW cutoff, NEW file \in {"zip", "sums"} \X Old(cutoff)
      PROVE  file[2] \in Present /\ Cardinality(NewerThan(file[2])) >= KeepNewest
  <2> DEFINE id == file[2]
             S == {other \in DOMAIN zips : zips[other].manifest > zips[id].manifest}
  <2>1. id \in DOMAIN zips /\ Cardinality(S) >= KeepNewest
    BY DEF Old
  <2>2. id \in Present /\ S \subseteq NewerThan(id)
    BY <2>1, LaterIsNewer DEF Present, NewerThan
  <2> HIDE DEF S
  <2> QED BY <1>1, <2>1, <2>2
<1> QED BY <1>2, <1>3

\* What a step keeps that changes neither the releases nor the manifests, and writes nothing else than before.
LEMMA AgesKept ==
    ASSUME TInv, AgeInv, TInv', UNCHANGED <<zips, sums, packs>>, \A c \in Cleaners : cleaner'[c] \subseteq cleaner[c],
           dist'.manifest = dist.manifest, dist'.hashes >= dist.hashes, dist.report # 0 => dist'.report # 0,
           Writing' => Writing /\ UNCHANGED dist /\ packer'.id = packer.id /\ (At("zip")' <=> At("zip")),
           SealsNew', PacksCurrent', DistIsNewest', At("sums")' => packer'.hashed = dist', forced => forced'
    PROVE  AgeInv'
<1>1. Present' = Present
  BY DEF Present
<1>2. IsFiniteSet(Present)' /\ OnePerBuild' /\ AgesInOrder' /\ ReportsStay'
  BY <1>1 DEF AgeInv, OnePerBuild, AgesInOrder, Ordered, ReportsStay
<1>3. ManifestIsLast'
  BY DEF AgeInv, ManifestIsLast
<1>4. PlansAreOld'
  <2>1. \A c \in Cleaners : \A file \in cleaner[c] : file[2].hashes \in Int
    <3>1. \A c \in Cleaners : cleaner[c] \in SUBSET Files
      BY Parts
    <3> QED BY <3>1, Numbers DEF Files
  <2>2. dist.hashes \in Int /\ dist'.hashes \in Int
    <3>1. dist \in Contents /\ dist' \in Contents
      BY Parts DEF TInv, TypeOK
    <3> QED BY <3>1 DEF Contents
  <2> QED BY <2>1, <2>2 DEF AgeInv, PlansAreOld
<1>5. ZipIsWritten' /\ NewIsIncomplete'
  BY DEF AgeInv, ZipIsWritten, NewIsIncomplete, Writing, At, Complete
<1> QED BY <1>2, <1>3, <1>4, <1>5 DEF AgeInv

LEMMA AgesPrepare ==
    ASSUME TInv, PInv, AgeInv, Pipeline \/ StartPack
    PROVE  AgeInv'
<1> /\ dist \in Contents /\ dist.app \in Int /\ dist.hashes \in Int /\ builds \in Int /\ packer \in Locals
    /\ Present \subseteq Ids /\ \A id \in Ids : id.hashes \in Int
  BY Numbers, Parts
<1>1. /\ UNCHANGED <<zips, sums, cleaner>> /\ ~Writing' /\ (forced => forced') /\ TInv' /\ Present' = Present
  BY PrepareFacts, PipelineTypes DEF PInv, Present
<1>2. ~At("sums")' /\ packs' = packs
  BY <1>1 DEF Writing, At, Pipeline, StartPipeline, StartPack, Begin, BuildApp, BuildFails, Seal, Accept, AcceptFails, counters
<1>3. ASSUME dist'.manifest = dist.manifest, dist'.hashes >= dist.hashes, dist.report # 0 => dist'.report # 0,
             SealsNew', DistIsNewest', packer'.pc \notin WithId
      PROVE  AgeInv'
  <2>1. PacksCurrent'
    BY <1>3 DEF PacksCurrent
  <2> QED BY <1>1, <1>2, <1>3, <2>1, AgesKept
<1>4. CASE StartPipeline \/ StartPack
  <2>1. packer'.pc \in {"build", "pack"} /\ UNCHANGED <<dist, builds>>
    BY <1>4 DEF StartPipeline, StartPack, Begin, Idle, counters
  <2>2. SealsNew' /\ DistIsNewest'
    BY <1>1, <2>1 DEF AgeInv, SealsNew, DistIsNewest, CurrentId, At
  <2> QED BY <1>3, <2>1, <2>2 DEF WithId
<1>5. CASE BuildApp
  <2>1. packer'.pc = "seal" /\ builds' = builds + 1 /\ dist' = [dist EXCEPT !.app = builds + 1]
    BY <1>5, GotoGoes DEF BuildApp, Goes, PackerPcs
  <2>2. dist'.app = builds' /\ dist'.hashes = dist.hashes /\ dist'.report = dist.report /\ dist'.manifest = dist.manifest
    BY <2>1 DEF Contents
  <2>3. SealsNew' /\ DistIsNewest'
    BY <1>1, <2>1, <2>2 DEF AgeInv, SealsNew, DistIsNewest, CurrentId, At
  <2> QED BY <1>3, <2>1, <2>2, <2>3 DEF WithId
<1>6. CASE BuildFails \/ AcceptFails
  <2>1. packer'.pc = "off" /\ builds' = builds /\ (dist' = dist \/ dist' = [dist EXCEPT !.app = 0])
    BY <1>6, StopGoes DEF BuildFails, AcceptFails, counters
  <2>2. dist'.hashes = dist.hashes /\ dist'.report = dist.report /\ dist'.manifest = dist.manifest
    BY <2>1 DEF Contents
  <2>3. SealsNew' /\ DistIsNewest'
    BY <1>1, <2>1, <2>2 DEF AgeInv, SealsNew, DistIsNewest, CurrentId, At
  <2> QED BY <1>3, <2>1, <2>2, <2>3 DEF WithId
<1>7. CASE Seal
  <2>1. packer'.pc \in {"accept", "pack"} /\ builds' = builds /\ dist' = [dist EXCEPT !.hashes = dist.app]
    BY <1>7, GotoGoes DEF Seal, Goes, PackerPcs, counters
  <2>2. dist'.hashes = dist.app /\ dist'.report = dist.report /\ dist'.manifest = dist.manifest
    BY <2>1 DEF Contents
  <2>3. dist.app = builds /\ dist.hashes < builds
    BY <1>7 DEF Seal, AgeInv, SealsNew
  <2>4. SealsNew' /\ DistIsNewest'
    BY <1>1, <2>1, <2>2, <2>3 DEF AgeInv, SealsNew, DistIsNewest, At
  <2> QED BY <1>3, <2>1, <2>2, <2>3, <2>4 DEF WithId
<1>8. CASE Accept
  <2>1. packer'.pc = "pack" /\ builds' = builds /\ dist.app # 0 /\ (dist' = dist \/ dist' = [dist EXCEPT !.report = dist.app])
    BY <1>8, GatedGoes DEF Accept, Goes, counters
  <2>2. dist'.hashes = dist.hashes /\ dist'.manifest = dist.manifest /\ (dist.report # 0 => dist'.report # 0)
    BY <2>1 DEF Contents
  <2>3. SealsNew' /\ DistIsNewest'
    <3>1. \A id \in Present : id.hashes <= dist.hashes /\ id.hashes # dist.hashes
      BY <1>8 DEF Accept, AgeInv, DistIsNewest
    <3> QED BY <1>1, <2>1, <2>2, <3>1 DEF AgeInv, SealsNew, DistIsNewest, At
  <2> QED BY <1>3, <2>1, <2>2, <2>3 DEF WithId
<1> QED BY <1>4, <1>5, <1>6, <1>7, <1>8 DEF Pipeline

LEMMA AgesStay ==
    ASSUME TInv, PInv, AgeInv, PackFails \/ SkipExisting \/ Hash \/ Verify \/ Crash
    PROVE  AgeInv'
<1> packer \in Locals /\ dist.hashes \in Int
  BY Parts, Numbers
<1>1. UNCHANGED <<dist, zips, sums, cleaner, builds, packs, forced>> /\ TInv' /\ Present' = Present
  BY PackTypes DEF Pack, PackFails, SkipExisting, Hash, Verify, Crash, releases, counters, history, Present
<1>2. ASSUME packer'.pc \in {"off", "verify", "sums"}, PacksCurrent', At("sums")' => packer'.hashed = dist',
             At("sums")' => At("hash") /\ packer'.id = packer.id
      PROVE  AgeInv'
  <2>1. SealsNew' /\ DistIsNewest'
    BY <1>1, <1>2 DEF AgeInv, SealsNew, DistIsNewest, CurrentId, At
  <2>2. Writing' => Writing /\ packer'.id = packer.id /\ (At("zip")' <=> At("zip"))
    BY <1>2 DEF Writing, At
  <2> QED BY <1>1, <1>2, <2>1, <2>2, AgesKept
<1>3. CASE PackFails \/ Verify \/ Crash
  <2>1. packer'.pc = "off"
    BY <1>3, StopGoes DEF PackFails, Verify, Crash
  <2> QED BY <1>2, <2>1 DEF PacksCurrent, WithId, At
<1>4. CASE SkipExisting
  <2>1. packer'.pc = "verify" /\ packer'.id = CurrentId
    BY <1>4, CurrentIdType, IdGoes, Parts DEF SkipExisting, Goes, PackerPcs
  <2> QED BY <1>1, <1>2, <2>1 DEF PacksCurrent, CurrentId, At
<1>5. CASE Hash
  <2>1. packer.pc = "hash" /\ zips[packer.id] = dist /\ dist \in Contents /\ packer.id = CurrentId
    BY <1>5, Parts DEF Hash, At, AgeInv, ZipIsWritten, PacksCurrent, WithId
  <2>2. packer'.pc = "sums" /\ packer'.id = packer.id /\ packer'.hashed = dist
    BY <1>5, <2>1, HashedGoes DEF Hash, Goes, PackerPcs
  <2> QED BY <1>1, <1>2, <2>1, <2>2 DEF PacksCurrent, CurrentId, At
<1> QED BY <1>3, <1>4, <1>5
LEMMA AgesManifest ==
    ASSUME TInv, PInv, AgeInv, WriteManifest
    PROVE  AgeInv'
<1> /\ dist \in Contents /\ packs \in Nat /\ packer \in Locals /\ dist.hashes \in Int
    /\ (\A id \in DOMAIN zips : zips[id].manifest \in Int) /\ \A id \in DOMAIN sums : sums[id].manifest \in Int
  BY Numbers, Parts
<1>1. /\ UNCHANGED <<zips, sums, cleaner, builds, forced>> /\ packs' = packs + 1 /\ Present' = Present
      /\ dist' = [dist EXCEPT !.manifest = packs + 1]
  BY DEF WriteManifest, releases, history, Present
<1>2. /\ dist'.hashes = dist.hashes /\ dist'.report = dist.report /\ dist'.app = dist.app
      /\ dist'.manifest = packs' /\ CurrentId' = CurrentId
  BY <1>1 DEF Contents, CurrentId
<1>3. packer'.pc = "zip" /\ packer'.id = CurrentId
  BY CurrentIdType, IdGoes DEF WriteManifest, Goes, PackerPcs
<1>4. SealsNew' /\ PacksCurrent' /\ DistIsNewest'
  BY <1>1, <1>2, <1>3 DEF AgeInv, SealsNew, PacksCurrent, DistIsNewest, At
<1>5. OnePerBuild' /\ AgesInOrder' /\ ReportsStay' /\ IsFiniteSet(Present)'
  BY <1>1, <1>2 DEF AgeInv, OnePerBuild, AgesInOrder, Ordered, ReportsStay
<1>6. ManifestIsLast'
  BY <1>1, <1>2 DEF AgeInv, ManifestIsLast
<1>7. PlansAreOld' /\ ZipIsWritten'
  BY <1>1, <1>2, <1>3 DEF AgeInv, PlansAreOld, ZipIsWritten, At
<1>8. NewIsIncomplete'
  <2>1. ~forced => ~Complete(CurrentId)
    BY DEF WriteManifest, Existing, PInv, NotForced
  <2> QED BY <1>1, <1>3, <2>1 DEF NewIsIncomplete, Complete
<1> QED BY <1>4, <1>5, <1>6, <1>7, <1>8 DEF AgeInv

\* A file of the pack goes in, under the newest id and later than any other.
Adds(files, new) ==
    /\ DOMAIN new = DOMAIN files \cup {packer.id} /\ new[packer.id] = dist
    /\ \A id \in DOMAIN files : id # packer.id => new[id] = files[id]

LEMMA ZipFacts ==
    ASSUME TInv, AgeInv, WriteZip
    PROVE  /\ Adds(zips, zips') /\ packer.id \in Ids /\ packer.id = CurrentId /\ packer.pc = "zip"
           /\ packer'.pc = "hash" /\ packer'.id = packer.id
           /\ UNCHANGED <<dist, sums, cleaner, builds, packs, crashes, forced>>
<1>1. packer.id \in Ids /\ packer.pc = "zip" /\ packer \in Locals /\ packer.id = CurrentId
  BY Parts DEF WriteZip, At, WithId, AgeInv, PacksCurrent
<1>2. packer'.pc = "hash" /\ packer'.id = packer.id
  BY <1>1, GotoGoes DEF WriteZip, PackerPcs, Goes
<1>3. Adds(zips, zips')
  <2>1. zips' = Put(zips, packer.id, dist)
    BY DEF WriteZip
  <2> QED BY ONLY <2>1 DEF Put, Adds
<1> QED BY <1>1, <1>2, <1>3 DEF WriteZip, counters, history

LEMMA SumsFacts ==
    ASSUME TInv, AgeInv, WriteSums
    PROVE  /\ Adds(sums, sums') /\ packer.id \in Ids /\ packer.id = CurrentId /\ packer.pc = "sums"
           /\ packer.id \in DOMAIN zips /\ zips[packer.id] = dist
           /\ packer'.pc = "verify" /\ packer'.id = packer.id
           /\ UNCHANGED <<dist, zips, cleaner, builds, packs, crashes, forced>>
<1>1. packer.id \in Ids /\ packer.pc = "sums" /\ packer \in Locals /\ packer.id = CurrentId
  BY Parts DEF WriteSums, At, WithId, AgeInv, PacksCurrent
<1>2. packer'.pc = "verify" /\ packer'.id = packer.id
  BY <1>1, GotoGoes DEF WriteSums, PackerPcs, Goes
<1>3. packer.hashed = dist /\ packer.id \in DOMAIN zips /\ zips[packer.id] = dist
  BY <1>1 DEF AgeInv, ZipIsWritten, At
<1>4. Adds(sums, sums')
  <2>1. sums' = Put(sums, packer.id, dist)
    BY <1>3 DEF WriteSums
  <2> QED BY ONLY <2>1 DEF Put, Adds
<1> QED BY <1>1, <1>2, <1>3, <1>4 DEF WriteSums, counters, history

\* Either write keeps one release per build, the newest of them that of dist.
LEMMA NewestWritten ==
    ASSUME TInv, AgeInv, packer.id = CurrentId, packer.pc \in {"zip", "sums"}, Present' = Present \cup {packer.id},
           UNCHANGED <<dist, builds>>, packer'.pc \in {"hash", "verify"}, packer'.id = packer.id
    PROVE  /\ IsFiniteSet(Present)' /\ SealsNew' /\ PacksCurrent' /\ OnePerBuild' /\ DistIsNewest'
           /\ \A id \in Present : packer.id.hashes >= id.hashes
<1> dist.hashes \in Int /\ CurrentId.hashes = dist.hashes
  BY Numbers DEF CurrentId
<1>1. IsFiniteSet(Present)'
  BY FS_AddElement DEF AgeInv
<1>2. SealsNew' /\ PacksCurrent'
  BY DEF AgeInv, SealsNew, PacksCurrent, CurrentId, At, WithId
<1>3. \A id \in Present : id.hashes <= packer.id.hashes /\ (id.hashes = packer.id.hashes => id = packer.id)
  BY DEF AgeInv, DistIsNewest
<1>4. OnePerBuild'
  BY <1>3 DEF AgeInv, OnePerBuild
<1>5. DistIsNewest'
  BY <1>3 DEF DistIsNewest, CurrentId, At
<1>6. \A id \in Present : packer.id.hashes >= id.hashes
  BY <1>3, Numbers
<1> QED BY <1>1, <1>2, <1>4, <1>5, <1>6

\* The order of ages, when the newest file is added on the left, and on the right.
LEMMA OrderedNewest ==
    ASSUME NEW files, NEW others, NEW new, NEW new_id, Ordered(files, others),
           DOMAIN new = DOMAIN files \cup {new_id}, \A id \in DOMAIN files : id # new_id => new[id] = files[id],
           \A other \in DOMAIN others : ~(new_id.hashes < other.hashes)
    PROVE  Ordered(new, others)
BY DEF Ordered

LEMMA OrderedLast ==
    ASSUME NEW files, NEW others, NEW new, NEW new_id, Ordered(files, others),
           DOMAIN new = DOMAIN others \cup {new_id}, \A id \in DOMAIN others : id # new_id => new[id] = others[id],
           \A id \in DOMAIN files : id.hashes < new_id.hashes => files[id].manifest < new[new_id].manifest
    PROVE  Ordered(files, new)
BY DEF Ordered

LEMMA AgesZip ==
    ASSUME TInv, PInv, AgeInv, WriteZip
    PROVE  AgeInv'
<1> /\ packs \in Nat /\ dist.hashes \in Int /\ Present \subseteq Ids /\ \A id \in Ids : id.hashes \in Int
    /\ (\A id \in DOMAIN zips : zips[id].manifest \in Int) /\ \A id \in DOMAIN sums : sums[id].manifest \in Int
  BY Numbers
<1>1. /\ Adds(zips, zips') /\ packer.id \in Ids /\ packer.id = CurrentId /\ packer.pc = "zip"
      /\ packer'.pc = "hash" /\ packer'.id = packer.id
      /\ UNCHANGED <<dist, sums, cleaner, builds, packs, crashes, forced>>
  BY ZipFacts
<1>2. Present' = Present \cup {packer.id}
  BY <1>1 DEF Present, Adds
<1>3. /\ IsFiniteSet(Present)' /\ SealsNew' /\ PacksCurrent' /\ OnePerBuild' /\ DistIsNewest'
      /\ \A id \in Present : packer.id.hashes >= id.hashes
  BY <1>1, <1>2, NewestWritten
<1>4. /\ zips'[packer.id].manifest = packs
      /\ \A id \in DOMAIN zips : zips[id].manifest < packs
      /\ \A id \in DOMAIN sums : sums[id].manifest < packs
  BY <1>1 DEF AgeInv, ManifestIsLast, Adds, Writing, At
<1>5. ManifestIsLast'
  BY <1>1, <1>4 DEF AgeInv, ManifestIsLast, Adds, Writing, At
<1>6. AgesInOrder'
  <2>1. Ordered(zips, zips) /\ Ordered(zips, sums) /\ Ordered(sums, zips) /\ Ordered(sums, sums)
    BY DEF AgeInv, AgesInOrder
  <2>2. Ordered(zips', sums) /\ Ordered(zips', zips)
    BY <1>1, <1>3, <2>1, OrderedNewest DEF Present, Adds
  <2>3. Ordered(zips', zips') /\ Ordered(sums, zips')
    BY <1>1, <1>3, <1>4, <2>1, <2>2, OrderedLast DEF Present, Adds
  <2> QED BY <1>1, <2>1, <2>2, <2>3 DEF AgesInOrder
<1>7. PlansAreOld' /\ ZipIsWritten' /\ NewIsIncomplete'
  BY <1>1 DEF AgeInv, PlansAreOld, ZipIsWritten, NewIsIncomplete, Adds, At
<1>8. ReportsStay'
  BY <1>1 DEF AgeInv, ReportsStay, Adds
<1> QED BY <1>3, <1>5, <1>6, <1>7, <1>8 DEF AgeInv

LEMMA AgesSums ==
    ASSUME TInv, PInv, AgeInv, WriteSums
    PROVE  AgeInv'
<1> /\ packs \in Nat /\ dist.hashes \in Int /\ Present \subseteq Ids /\ \A id \in Ids : id.hashes \in Int
    /\ (\A id \in DOMAIN zips : zips[id].manifest \in Int) /\ \A id \in DOMAIN sums : sums[id].manifest \in Int
  BY Numbers
<1>1. /\ Adds(sums, sums') /\ packer.id \in Ids /\ packer.id = CurrentId /\ packer.pc = "sums"
      /\ packer.id \in DOMAIN zips /\ zips[packer.id] = dist
      /\ packer'.pc = "verify" /\ packer'.id = packer.id
      /\ UNCHANGED <<dist, zips, cleaner, builds, packs, crashes, forced>>
  BY SumsFacts
<1>2. Present' = Present \cup {packer.id}
  BY <1>1 DEF Present, Adds
<1>3. /\ IsFiniteSet(Present)' /\ SealsNew' /\ PacksCurrent' /\ OnePerBuild' /\ DistIsNewest'
      /\ \A id \in Present : packer.id.hashes >= id.hashes
  BY <1>1, <1>2, NewestWritten
<1>4. /\ sums'[packer.id].manifest = packs
      /\ \A id \in DOMAIN zips : zips[id].manifest < packs \/ id = packer.id
      /\ \A id \in DOMAIN sums : sums[id].manifest < packs
  BY <1>1 DEF AgeInv, ManifestIsLast, Adds, Writing, At
<1>5. ManifestIsLast'
  BY <1>1, <1>4 DEF AgeInv, ManifestIsLast, Adds, Writing, At
<1>6. AgesInOrder'
  <2>1. Ordered(zips, zips) /\ Ordered(zips, sums) /\ Ordered(sums, zips) /\ Ordered(sums, sums)
    BY DEF AgeInv, AgesInOrder
  <2>2. Ordered(sums', sums) /\ Ordered(sums', zips)
    BY <1>1, <1>3, <2>1, OrderedNewest DEF Present, Adds
  <2>3. Ordered(sums', sums') /\ Ordered(zips, sums')
    BY <1>1, <1>3, <1>4, <2>1, <2>2, OrderedLast DEF Present, Adds
  <2> QED BY <1>1, <2>1, <2>2, <2>3 DEF AgesInOrder
<1>7. PlansAreOld' /\ ZipIsWritten' /\ NewIsIncomplete' /\ ReportsStay'
  BY <1>1 DEF AgeInv, PlansAreOld, ZipIsWritten, NewIsIncomplete, ReportsStay, At
<1> QED BY <1>3, <1>5, <1>6, <1>7 DEF AgeInv
LEMMA PlanIsOld ==
    ASSUME TInv, AgeInv, NEW id \in Ids, NEW n \in Nat \ {0}, Cardinality(NewerThan(id)) >= n
    PROVE  id.hashes < dist.hashes
<1>1. NewerThan(id) # {}
  BY FS_EmptySet
<1>2. PICK other \in Present : other.hashes > id.hashes
  BY <1>1 DEF NewerThan
<1>3. other.hashes <= dist.hashes /\ other.hashes \in Int /\ id.hashes \in Int /\ dist.hashes \in Int
  BY Numbers DEF AgeInv, DistIsNewest
<1> QED BY <1>2, <1>3

\* A cleaner plans only releases with as many newer builds as are kept.
Plans(plan, kept) == \A file \in plan : file[2] \in Present /\ Cardinality(NewerThan(file[2])) >= kept

LEMMA CleanSplits ==
    ASSUME TInv, AgeInv, Clean
    PROVE  \/ \E c \in Cleaners, plan \in SUBSET Files, kept \in {KeepLast, KeepNewest} :
                  /\ cleaner'[c] = plan /\ Plans(plan, kept)
                  /\ \A other \in Cleaners \ {c} : cleaner'[other] = cleaner[other]
                  /\ UNCHANGED <<dist, zips, sums, packer, builds, packs, crashes, forced>>
           \/ \E c \in Cleaners, id \in Ids, file \in {"zip", "sums"} : Deletes(c, id, file)
           \/ /\ \A c \in Cleaners : cleaner'[c] \subseteq cleaner[c]
              /\ crashes' \in {crashes, crashes + 1}
              /\ UNCHANGED <<dist, zips, sums, packer, builds, packs, forced>>
<1> cleaner \in [Cleaners -> SUBSET Files]
  BY Parts
<1>1. ASSUME NEW c \in Cleaners, NEW plan \in SUBSET Files, NEW kept \in {KeepLast, KeepNewest},
             Plans(plan, kept), StartCleaning(c, plan)
      PROVE  /\ cleaner'[c] = plan /\ Plans(plan, kept)
             /\ \A other \in Cleaners \ {c} : cleaner'[other] = cleaner[other]
             /\ UNCHANGED <<dist, zips, sums, packer, builds, packs, crashes, forced>>
  BY <1>1, StartFacts
<1>2. CASE StartRetention
  <2>1. StartCleaning("retention", RetentionPlan) /\ RetentionPlan \in SUBSET Files /\ Plans(RetentionPlan, KeepLast)
    BY <1>2, PlanType, PlanFacts DEF StartRetention, Plans
  <2>2. "retention" \in Cleaners
    BY DEF Cleaners
  <2> QED BY <1>1, <2>1, <2>2
<1>3. CASE StartHousekeeping
  <2>1. PICK cutoff \in 1..MaxPacks : StartCleaning("housekeeping", {"zip", "sums"} \X Old(cutoff))
    BY <1>3 DEF StartHousekeeping
  <2> DEFINE plan == {"zip", "sums"} \X Old(cutoff)
  <2>2. plan \in SUBSET Files /\ Plans(plan, KeepNewest) /\ "housekeeping" \in Cleaners
    BY PlanType, PlanFacts DEF Plans, Cleaners
  <2> HIDE DEF plan
  <2>3. StartCleaning("housekeeping", plan)
    BY <2>1 DEF plan
  <2> QED BY <1>1, <2>2, <2>3
<1>4. CASE \E c \in Cleaners : CleanerDies(c)
  <2>1. PICK c \in Cleaners : CleanerDies(c)
    BY <1>4
  <2> QED BY <2>1, DiesFacts
<1>5. CASE \E c \in Cleaners : \E id \in Ids : Delete(c, id)
  BY <1>5, DeleteFacts
<1>6. CASE (\E id \in Ids : Pin(id)) \/ UNCHANGED vars
  BY <1>6 DEF Pin, vars, releases, counters, history
<1> QED BY <1>2, <1>3, <1>4, <1>5, <1>6 DEF Clean

LEMMA AgesClean ==
    ASSUME TInv, PInv, AgeInv, Clean, KeepNewest > 0
    PROVE  AgeInv'
<1> /\ dist \in Contents /\ dist.hashes \in Int /\ packer \in Locals /\ cleaner \in [Cleaners -> SUBSET Files]
    /\ Present \subseteq Ids /\ KeepLast \in Nat \ {0} /\ KeepNewest \in Nat \ {0}
  BY Numbers, Parts
<1>1. ASSUME NEW c \in Cleaners, NEW plan \in SUBSET Files, NEW kept \in {KeepLast, KeepNewest},
             cleaner'[c] = plan, Plans(plan, kept),
             \A other \in Cleaners \ {c} : cleaner'[other] = cleaner[other],
             UNCHANGED <<dist, zips, sums, packer, builds, packs, crashes, forced>>
      PROVE  AgeInv'
  <2>1. \A file \in plan : file[2].hashes < dist.hashes
    <3>1. \A file \in plan : file[2] \in Ids
      BY DEF Files
    <3> QED BY <1>1, <3>1, PlanIsOld DEF Plans
  <2>2. PlansAreOld'
    BY <1>1, <2>1 DEF AgeInv, PlansAreOld
  <2>3. Present' = Present
    BY <1>1 DEF Present
  <2>4. OnePerBuild' /\ AgesInOrder' /\ ManifestIsLast' /\ ZipIsWritten' /\ NewIsIncomplete' /\ ReportsStay'
    BY <1>1, <2>3 DEF AgeInv, OnePerBuild, AgesInOrder, Ordered, ManifestIsLast, ZipIsWritten, NewIsIncomplete, ReportsStay,
                      Writing, At, Complete
  <2>5. SealsNew' /\ PacksCurrent' /\ DistIsNewest'
    BY <1>1, <2>3 DEF AgeInv, SealsNew, PacksCurrent, DistIsNewest, At, CurrentId
  <2> QED BY <2>2, <2>3, <2>4, <2>5 DEF AgeInv
<1>2. ASSUME NEW c \in Cleaners, NEW id \in Ids, NEW file \in {"zip", "sums"}, Deletes(c, id, file)
      PROVE  AgeInv'
  <2>1. Present' \subseteq Present /\ IsFiniteSet(Present)'
    <3>1. Present' \subseteq Present
      BY <1>2 DEF Deletes, Present
    <3> QED BY <3>1, FS_Subset DEF AgeInv
  <2>2. \A other \in Cleaners : cleaner'[other] \subseteq cleaner[other]
    BY <1>2 DEF Deletes
  <2>3. OnePerBuild' /\ PlansAreOld'
    BY <1>2, <2>1, <2>2 DEF AgeInv, OnePerBuild, PlansAreOld, Deletes
  <2>4. AgesInOrder' /\ ManifestIsLast' /\ ReportsStay'
    BY <1>2 DEF AgeInv, AgesInOrder, Ordered, ManifestIsLast, ReportsStay, Deletes, Writing, At
  <2>5. SealsNew' /\ PacksCurrent' /\ DistIsNewest'
    BY <1>2, <2>1 DEF AgeInv, SealsNew, PacksCurrent, DistIsNewest, At, CurrentId, Deletes
  <2>6. ZipIsWritten'
    <3>1. packer.pc \in {"hash", "sums"} => id # packer.id
      <4>1. id.hashes < dist.hashes
        BY <1>2 DEF Deletes, AgeInv, PlansAreOld
      <4>2. packer.pc \in {"hash", "sums"} => packer.id.hashes = dist.hashes
        BY DEF AgeInv, PacksCurrent, CurrentId, WithId
      <4> QED BY <4>1, <4>2
    <3> QED BY <1>2, <3>1 DEF AgeInv, ZipIsWritten, Deletes, At
  <2>7. NewIsIncomplete'
    BY <1>2 DEF AgeInv, NewIsIncomplete, Deletes, At, Complete
  <2> QED BY <2>1, <2>3, <2>4, <2>5, <2>6, <2>7 DEF AgeInv
<1>3. CASE /\ \A c \in Cleaners : cleaner'[c] \subseteq cleaner[c]
           /\ UNCHANGED <<dist, zips, sums, packer, builds, packs, forced>>
  <2>1. TInv' /\ Present' = Present
    BY <1>3, CleanTypes DEF Present
  <2>2. SealsNew' /\ PacksCurrent' /\ DistIsNewest'
    BY <1>3, <2>1 DEF AgeInv, SealsNew, PacksCurrent, DistIsNewest, At, CurrentId
  <2>3. At("sums")' => packer'.hashed = dist'
    BY <1>3 DEF AgeInv, ZipIsWritten, At
  <2> QED BY <1>3, <2>1, <2>2, <2>3, AgesKept DEF Writing, At
<1> QED BY <1>1, <1>2, <1>3, CleanSplits

LEMMA AgesStep ==
    ASSUME KeepNewest > 0
    PROVE  TInv /\ PInv /\ AgeInv /\ [Next]_vars => AgeInv'
<1>1. TInv /\ PInv /\ AgeInv /\ (Pipeline \/ Pack) => AgeInv'
  BY AgesPrepare, AgesStay, AgesManifest, AgesZip, AgesSums DEF Pack
<1> QED BY <1>1, AgesClean, NextSplits

LEMMA AgesInit == Init => AgeInv
<1> SUFFICES ASSUME Init PROVE AgeInv
  OBVIOUS
<1>1. /\ packer.pc = "off" /\ DOMAIN zips = {} /\ DOMAIN sums = {} /\ Present = {} /\ dist.hashes = 0 /\ dist.manifest = 0
      /\ \A c \in Cleaners : cleaner[c] = {}
  BY DEF Init, Idle, Nothing, Present
<1>2. builds = 0 /\ packs = 0
  BY DEF Init
<1> QED BY <1>1, <1>2, FS_EmptySet
        DEF AgeInv, SealsNew, PacksCurrent, OnePerBuild, DistIsNewest, AgesInOrder, Ordered, ManifestIsLast, PlansAreOld,
            ZipIsWritten, NewIsIncomplete, ReportsStay, Writing, At, WithId
\* Of the releases that verify, one is the newest.
LEMMA NewestExists ==
    ASSUME TInv, NEW id \in Present, Verifies(id)
    PROVE  \E good \in Present : NewestGood(good)
<1> DEFINE R == {ss \in Nat \X Nat : ss[1] < ss[2]}
           Good == {other \in Present : Verifies(other)}
           T == {MaxBuilds - other.hashes : other \in Good}
<1> Good \subseteq Ids /\ MaxBuilds \in Nat /\ (\A other \in Ids : other.hashes \in 1..MaxBuilds) /\ id \in Good
  BY Numbers
<1>1. IsWellFoundedOn(R, Nat)
  BY NatLessThanWellFounded DEF OpToRel
<1>2. T \subseteq Nat /\ T # {}
  <2> HIDE DEF Good
  <2>1. ASSUME NEW other \in Good PROVE MaxBuilds - other.hashes \in Nat
    <3>1. other.hashes \in 1..MaxBuilds
      OBVIOUS
    <3> QED BY <3>1
  <2>2. T # {}
    OBVIOUS
  <2> QED BY <2>1, <2>2
<1>3. PICK x \in T : \A y \in T : <<y, x>> \notin R
  <2> HIDE DEF R, T, Good
  <2> QED BY <1>1, <1>2, WFMin
<1>4. PICK good \in Good : x = MaxBuilds - good.hashes
  OBVIOUS
<1>5. ASSUME NEW other \in Good PROVE other.hashes <= good.hashes
  <2>1. other.hashes \in 1..MaxBuilds /\ good.hashes \in 1..MaxBuilds
    OBVIOUS
  <2>2. MaxBuilds - other.hashes \in T /\ MaxBuilds - good.hashes \in T
    OBVIOUS
  <2>3. ~(MaxBuilds - other.hashes < MaxBuilds - good.hashes)
    BY <1>2, <1>3, <1>4, <2>2
  <2> HIDE DEF T, R, Good
  <2> QED BY <2>1, <2>3
<1> QED BY <1>4, <1>5 DEF NewestGood

\* While no file changes, the newest good release is the same, and so is what is newer.
LEMMA GoodKept ==
    ASSUME TInv, AgeInv, GoodInv, UNCHANGED <<zips, sums>>, \A c \in Cleaners : cleaner'[c] \subseteq cleaner[c],
           forced => forced', crashes' = crashes \/ crashes' = crashes + 1, crashes' + UnderWay' >= crashes + UnderWay
    PROVE  GoodInv'
<1> crashes \in Nat /\ crashes' \in Nat /\ KeepLast \in Nat /\ KeepNewest \in Nat
  <2>1. crashes \in Nat /\ KeepLast \in Nat /\ KeepNewest \in Nat
    BY Numbers
  <2> QED BY <2>1
<1>1. Present' = Present /\ \A good : NewestGood(good)' <=> NewestGood(good)
  BY DEF Present, NewestGood, Verifies, Complete
<1>2. SUFFICES ASSUME KeepsEnough', NEW good \in Present, NewestGood(good)
               PROVE  /\ Cardinality(NewerThan(good)') <= crashes' + UnderWay'
                      /\ \A c \in Cleaners : \A file \in cleaner'[c] : file[2].hashes < good.hashes
  BY <1>1 DEF GoodInv
<1>3. KeepsEnough
  <2>1. ~forced' /\ KeepLast > crashes' + 1 /\ KeepNewest > crashes' + 1
    BY <1>2 DEF KeepsEnough
  <2>2. KeepLast > crashes + 1 /\ KeepNewest > crashes + 1
    <3>1. \A kept, n, m \in Nat : kept > m + 1 /\ (m = n \/ m = n + 1) => kept > n + 1
      OBVIOUS
    <3> QED BY <2>1, <3>1, Zenon
  <2> QED BY <2>1, <2>2 DEF KeepsEnough
<1>4. Cardinality(NewerThan(good)) <= crashes + UnderWay /\ NewerThan(good)' = NewerThan(good)
  BY <1>1, <1>2, <1>3 DEF GoodInv, NewerThan
<1>5. Cardinality(NewerThan(good)) \in Int
  BY FS_Subset, FS_CardinalityType DEF NewerThan, AgeInv
<1>6. UnderWay \in Nat /\ UnderWay' \in Nat
  BY DEF UnderWay
<1>7. Cardinality(NewerThan(good)) <= crashes' + UnderWay'
  <2> DEFINE n == Cardinality(NewerThan(good))
             before == crashes + UnderWay
             after == crashes' + UnderWay'
  <2>1. n \in Int /\ before \in Int /\ after \in Int
    BY <1>5, <1>6
  <2>2. n <= before /\ before <= after
    BY <1>4
  <2> HIDE DEF n, before, after
  <2>3. n <= after
    BY <2>1, <2>2
  <2> QED BY <2>3 DEF n, after
<1> QED BY <1>2, <1>3, <1>4, <1>7 DEF GoodInv

LEMMA GoodPacker ==
    ASSUME TInv, PInv, AgeInv, GoodInv, Pipeline \/ Pack, ~WriteZip, ~WriteSums
    PROVE  GoodInv' /\ UNCHANGED <<zips, sums>>
<1> packer \in Locals /\ crashes \in Nat
  BY Parts
<1>1. ASSUME UNCHANGED <<zips, sums, cleaner, crashes>>, forced => forced', UnderWay' = UnderWay
      PROVE  GoodInv' /\ UNCHANGED <<zips, sums>>
  BY <1>1, GoodKept DEF UnderWay
<1>2. CASE Pipeline \/ StartPack
  <2>1. UNCHANGED <<zips, sums, cleaner, crashes>> /\ ~Writing /\ ~Writing' /\ (forced => forced')
    BY <1>2, PrepareFacts DEF PInv
  <2> QED BY <1>1, <2>1 DEF UnderWay, Writing
<1>3. CASE PackFails
  <2>1. ~At("hash")
    BY <1>3 DEF PackFails, AgeInv, ZipIsWritten, PInv, WritesDist, Writing, At
  <2>2. packer.pc \in {"pack", "zip"} /\ packer'.pc = "off"
    BY <1>3, <2>1, StopGoes DEF PackFails, At
  <2> QED BY <1>1, <1>3, <2>2 DEF PackFails, UnderWay, releases, counters, history
<1>4. CASE SkipExisting \/ WriteManifest
  <2>1. packer.pc = "pack" /\ \E pc \in {"verify", "zip"} : packer' = [packer EXCEPT !.pc = pc, !.id = CurrentId]
    BY <1>4 DEF SkipExisting, WriteManifest, At
  <2>2. packer'.pc \in {"verify", "zip"}
    BY <2>1 DEF Locals
  <2> QED BY <1>1, <1>4, <2>1, <2>2 DEF SkipExisting, WriteManifest, UnderWay, releases, counters, history
<1>5. CASE Hash
  <2>1. packer.pc = "hash" /\ packer'.pc = "sums"
    BY <1>5 DEF Hash, At, Locals
  <2> QED BY <1>1, <1>5, <2>1 DEF Hash, UnderWay, releases, counters, history
<1>6. CASE Verify
  <2>1. packer.pc = "verify" /\ packer'.pc = "off"
    BY <1>6, StopGoes DEF Verify, At
  <2> QED BY <1>1, <1>6, <2>1 DEF Verify, UnderWay, counters, history
<1>7. CASE Crash
  <2>1. crashes' = crashes + 1 /\ UNCHANGED <<zips, sums, cleaner, forced>>
    BY <1>7 DEF Crash, releases, history
  <2>2. crashes' + UnderWay' >= crashes + UnderWay
    BY <2>1 DEF UnderWay
  <2> QED BY <2>1, <2>2, GoodKept
<1> QED BY <1>2, <1>3, <1>4, <1>5, <1>6, <1>7 DEF Pack

\* The zip of a new pack takes a slot, and verifies with no sums.
LEMMA GoodZip ==
    ASSUME TInv, PInv, AgeInv, GoodInv, WriteZip
    PROVE  GoodInv' /\ (~forced' => \A id : Verifies(id)' <=> Verifies(id))
<1> /\ packs \in Nat /\ crashes \in Nat /\ IsFiniteSet(Present)
    /\ (\A id \in DOMAIN zips : zips[id].manifest \in Int) /\ \A id \in DOMAIN sums : sums[id].manifest \in Int
  BY Numbers DEF AgeInv
<1>1. /\ Adds(zips, zips') /\ packer.pc = "zip" /\ packer'.pc = "hash" /\ packer'.id = packer.id
      /\ UNCHANGED <<dist, sums, cleaner, packs, crashes, forced>>
  BY ZipFacts
<1>2. ~forced => ~Complete(packer.id)
  BY <1>1 DEF AgeInv, NewIsIncomplete, At
<1>3. packer.id \in DOMAIN sums => sums[packer.id] # zips'[packer.id]
  <2>1. zips'[packer.id].manifest = packs
    BY <1>1 DEF Adds, AgeInv, ManifestIsLast
  <2>2. packer.id \in DOMAIN sums => sums[packer.id].manifest < packs
    BY <1>1 DEF AgeInv, ManifestIsLast, Writing
  <2> QED BY <2>1, <2>2
<1>4. ~forced => \A id : Verifies(id)' <=> Verifies(id)
  <2>1. ~forced => \A id : id = packer.id => ~Verifies(id) /\ ~Verifies(id)'
    BY <1>1, <1>2, <1>3 DEF Verifies, Complete
  <2>2. \A id : id # packer.id => (Verifies(id)' <=> Verifies(id))
    BY <1>1 DEF Verifies, Complete, Adds
  <2> QED BY <2>1, <2>2
<1>5. GoodInv'
  <2>1. Present' = Present \cup {packer.id} /\ \A id : Verifies(id) => id \in Present
    BY <1>1 DEF Present, Adds, Verifies, Complete
  <2>2. SUFFICES ASSUME KeepsEnough', NEW good \in Present', NewestGood(good)'
                 PROVE  /\ Cardinality(NewerThan(good)') <= crashes' + UnderWay'
                        /\ \A c \in Cleaners : \A file \in cleaner'[c] : file[2].hashes < good.hashes
    BY DEF GoodInv
  <2>3. KeepsEnough
    BY <1>1, <2>2 DEF KeepsEnough
  <2>4. good \in Present /\ NewestGood(good)
    BY <1>1, <1>4, <2>1, <2>2, <2>3 DEF NewestGood, KeepsEnough
  <2>5. UnderWay = 0 /\ UnderWay' = 1
    BY <1>1 DEF UnderWay
  <2>6. Cardinality(NewerThan(good)) <= crashes
    BY <2>3, <2>4, <2>5 DEF GoodInv
  <2>7. Cardinality(NewerThan(good)') <= crashes + 1
    <3>1. NewerThan(good)' \subseteq NewerThan(good) \cup {packer.id}
      BY <2>1 DEF NewerThan
    <3>2. IsFiniteSet(NewerThan(good)) /\ Cardinality(NewerThan(good)) \in Nat
      BY FS_Subset, FS_CardinalityType DEF NewerThan
    <3>3. /\ IsFiniteSet(NewerThan(good) \cup {packer.id})
          /\ Cardinality(NewerThan(good) \cup {packer.id}) <= Cardinality(NewerThan(good)) + 1
      BY <3>2, FS_AddElement
    <3>4. IsFiniteSet(NewerThan(good)') /\ Cardinality(NewerThan(good)') <= Cardinality(NewerThan(good) \cup {packer.id})
      BY <3>1, <3>3, FS_Subset
    <3>5. Cardinality(NewerThan(good)') \in Nat /\ Cardinality(NewerThan(good) \cup {packer.id}) \in Nat
      BY <3>3, <3>4, FS_CardinalityType
    <3> QED BY <2>6, <3>2, <3>3, <3>4, <3>5
  <2> QED BY <1>1, <2>3, <2>4, <2>5, <2>7 DEF GoodInv
<1> QED BY <1>1, <1>4, <1>5

\* With its sums, the new release is the newest that verifies, if it holds a report; if not, none ever did.
LEMMA GoodSums ==
    ASSUME TInv, PInv, AgeInv, GoodInv, WriteSums
    PROVE  GoodInv' /\ \A id : Verifies(id) => Verifies(id)'
<1> /\ crashes \in Nat /\ dist.hashes \in Int /\ Present \subseteq Ids /\ \A id \in Ids : id.hashes \in Int
  BY Numbers
<1>1. /\ Adds(sums, sums') /\ packer.id \in Ids /\ packer.id = CurrentId /\ packer'.pc = "verify" /\ packer'.id = packer.id
      /\ packer.id \in DOMAIN zips /\ zips[packer.id] = dist
      /\ UNCHANGED <<dist, zips, cleaner, crashes, forced>>
  BY SumsFacts
<1>2. \A id : Verifies(id) => Verifies(id)'
  BY <1>1 DEF Verifies, Complete, Adds
<1>3. GoodInv'
  <2>1. Present' = Present /\ packer.id \in Present /\ packer.id.hashes = dist.hashes
    BY <1>1 DEF Present, Adds, CurrentId
  <2>2. SUFFICES ASSUME KeepsEnough', NEW good \in Present, NewestGood(good)'
                 PROVE  /\ Cardinality(NewerThan(good)') <= crashes' + UnderWay'
                        /\ \A c \in Cleaners : \A file \in cleaner'[c] : file[2].hashes < good.hashes
    BY <2>1 DEF GoodInv
  <2>3. dist.report # 0
    <3>1. good \in DOMAIN zips /\ zips[good].report # 0
      BY <1>1, <2>2 DEF NewestGood, Verifies, Complete
    <3> QED BY <3>1 DEF AgeInv, ReportsStay
  <2>4. \A id : id = packer.id => Verifies(id)'
    BY <1>1, <2>3 DEF Verifies, Complete, Adds
  <2>5. good.hashes >= dist.hashes
    BY <2>1, <2>2, <2>4 DEF NewestGood
  <2>6. \A id \in Present : id.hashes <= dist.hashes
    BY DEF AgeInv, DistIsNewest
  <2>7. NewerThan(good)' = {}
    BY <2>1, <2>5, <2>6 DEF NewerThan
  <2>8. Cardinality(NewerThan(good)') = 0 /\ UnderWay' = 0
    BY <1>1, <2>7, FS_EmptySet DEF UnderWay
  <2>9. \A c \in Cleaners : \A file \in cleaner'[c] : file[2].hashes < good.hashes
    <3>1. \A c \in Cleaners : \A file \in cleaner[c] : file[2].hashes < dist.hashes /\ file[2].hashes \in Int
      <4>1. \A c \in Cleaners : \A file \in cleaner[c] : file[2] \in Ids
        BY Parts DEF Files
      <4> QED BY <4>1 DEF AgeInv, PlansAreOld
    <3> QED BY <1>1, <2>5, <3>1
  <2> QED BY <1>1, <2>8, <2>9
<1> QED BY <1>2, <1>3
\* What is newer than a good release is too little for any of it, or the release itself, to be planned.
LEMMA GoodPlan ==
    ASSUME TInv, AgeInv, GoodInv, KeepsEnough, NEW good \in Present, NewestGood(good), NEW id \in Present,
           NEW kept \in {KeepLast, KeepNewest}, Cardinality(NewerThan(id)) >= kept
    PROVE  id.hashes < good.hashes
<1> /\ crashes \in Nat /\ KeepLast \in Nat /\ KeepNewest \in Nat /\ id.hashes \in Int /\ good.hashes \in Int
    /\ IsFiniteSet(Present) /\ \A other \in Present : other.hashes \in Int
  BY Numbers DEF AgeInv
<1>1. SUFFICES ASSUME id.hashes >= good.hashes PROVE FALSE
  OBVIOUS
<1>2. NewerThan(id) \subseteq NewerThan(good)
  BY <1>1 DEF NewerThan
<1>3. IsFiniteSet(NewerThan(good)) /\ Cardinality(NewerThan(good)) \in Nat /\ Cardinality(NewerThan(id)) \in Nat
  BY FS_Subset, FS_CardinalityType DEF NewerThan
<1>4. Cardinality(NewerThan(id)) <= Cardinality(NewerThan(good))
  BY <1>2, <1>3, FS_Subset
<1>5. Cardinality(NewerThan(good)) <= crashes + UnderWay /\ UnderWay \in {0, 1}
  BY DEF GoodInv, UnderWay
<1>6. kept \in Nat /\ kept > crashes + 1
  BY DEF KeepsEnough
<1> QED BY <1>3, <1>4, <1>5, <1>6

\* The newest good release survives each delete.
LEMMA GoodDeletes ==
    ASSUME TInv, AgeInv, GoodInv, NEW c \in Cleaners, NEW id \in Ids, NEW file \in {"zip", "sums"}, Deletes(c, id, file)
    PROVE  /\ GoodInv'
           /\ KeepsEnough => \A good \in Present : NewestGood(good) => Verifies(good)'
<1> IsFiniteSet(Present) /\ crashes \in Nat /\ Present \subseteq Ids /\ \A other \in Ids : other.hashes \in Int
  BY Numbers DEF AgeInv
<1>1. Present' \subseteq Present /\ \A other : Verifies(other)' => Verifies(other)
  BY DEF Deletes, Present, Verifies, Complete
<1>2. UNCHANGED <<packer, crashes, forced>> /\ \A other \in Cleaners : cleaner'[other] \subseteq cleaner[other]
  BY DEF Deletes
<1>3. ASSUME KeepsEnough, NEW good \in Present, NewestGood(good)
      PROVE  Verifies(good)'
  <2>1. id.hashes < good.hashes
    BY <1>3 DEF GoodInv, Deletes
  <2>2. good # id
    BY <2>1
  <2> QED BY <1>3, <2>2 DEF NewestGood, Verifies, Complete, Deletes
<1>4. GoodInv'
  <2>1. SUFFICES ASSUME KeepsEnough', NEW good \in Present', NewestGood(good)'
                 PROVE  /\ Cardinality(NewerThan(good)') <= crashes' + UnderWay'
                        /\ \A other \in Cleaners : \A planned \in cleaner'[other] : planned[2].hashes < good.hashes
    BY DEF GoodInv
  <2>2. KeepsEnough /\ good \in Present /\ Verifies(good)
    BY <1>1, <1>2, <2>1 DEF KeepsEnough, NewestGood
  <2>3. PICK best \in Present : NewestGood(best)
    BY <2>2, NewestExists
  <2>4. Verifies(best)' /\ best \in Present'
    <3>1. Verifies(best)'
      BY <1>3, <2>2, <2>3
    <3> QED BY <3>1 DEF Verifies, Complete, Present
  <2>5. best.hashes <= good.hashes
    BY <2>1, <2>4 DEF NewestGood
  <2>6. NewestGood(good)
    <3>1. \A other \in Present : Verifies(other) => other.hashes <= best.hashes
      BY <2>3 DEF NewestGood
    <3> QED BY <2>2, <2>5, <3>1 DEF NewestGood
  <2>7. Cardinality(NewerThan(good)) <= crashes + UnderWay
    BY <2>2, <2>6 DEF GoodInv
  <2>8. /\ Cardinality(NewerThan(good)') <= Cardinality(NewerThan(good))
        /\ Cardinality(NewerThan(good)') \in Nat /\ Cardinality(NewerThan(good)) \in Nat
    <3>1. NewerThan(good)' \subseteq NewerThan(good)
      BY <1>1 DEF NewerThan
    <3>2. IsFiniteSet(NewerThan(good))
      BY FS_Subset DEF NewerThan
    <3> QED BY <3>1, <3>2, FS_Subset, FS_CardinalityType
  <2>9. Cardinality(NewerThan(good)') <= crashes' + UnderWay'
    <3>1. UnderWay' = UnderWay /\ UnderWay \in {0, 1}
      BY <1>2 DEF UnderWay
    <3> QED BY <1>2, <2>7, <2>8, <3>1
  <2> QED BY <1>2, <2>2, <2>6, <2>9 DEF GoodInv
<1> QED BY <1>3, <1>4

LEMMA GoodClean ==
    ASSUME TInv, PInv, AgeInv, GoodInv, Clean
    PROVE  GoodInv'
<1>1. ASSUME NEW c \in Cleaners, NEW plan \in SUBSET Files, NEW kept \in {KeepLast, KeepNewest},
             cleaner'[c] = plan, Plans(plan, kept),
             \A other \in Cleaners \ {c} : cleaner'[other] = cleaner[other],
             UNCHANGED <<dist, zips, sums, packer, builds, packs, crashes, forced>>
      PROVE  GoodInv'
  <2>1. /\ Present' = Present /\ (\A good : NewestGood(good)' <=> NewestGood(good)) /\ (KeepsEnough' <=> KeepsEnough)
        /\ UnderWay' = UnderWay /\ \A good : NewerThan(good)' = NewerThan(good)
    BY <1>1 DEF Present, NewestGood, Verifies, Complete, KeepsEnough, UnderWay, NewerThan
  <2>2. ASSUME KeepsEnough, NEW good \in Present, NewestGood(good)
        PROVE  \A file \in plan : file[2].hashes < good.hashes
    BY <1>1, <2>2, GoodPlan DEF Plans
  <2> QED BY <1>1, <2>1, <2>2 DEF GoodInv
<1>2. CASE /\ \A c \in Cleaners : cleaner'[c] \subseteq cleaner[c]
           /\ crashes' \in {crashes, crashes + 1}
           /\ UNCHANGED <<dist, zips, sums, packer, builds, packs, forced>>
  <2>1. crashes' + UnderWay' >= crashes + UnderWay
    <3>1. UnderWay' = UnderWay /\ UnderWay \in Nat /\ crashes \in Nat
      BY <1>2, Numbers DEF UnderWay
    <3> QED BY <1>2, <3>1
  <2> QED BY <1>2, <2>1, GoodKept
<1> QED BY <1>1, <1>2, CleanSplits, GoodDeletes

LEMMA GoodStep == TInv /\ PInv /\ AgeInv /\ GoodInv /\ [Next]_vars => GoodInv'
<1>1. TInv /\ PInv /\ AgeInv /\ GoodInv /\ (Pipeline \/ Pack) => GoodInv'
  BY GoodPacker, GoodZip, GoodSums
<1> QED BY <1>1, GoodClean, NextSplits

LEMMA GoodInit == Init => GoodInv
BY DEF Init, GoodInv, Present

\* With a release that verifies, and enough kept, a step leaves one.
LEMMA GoodSurvives ==
    ASSUME TInv, PInv, AgeInv, GoodInv, [Next]_vars, KeepsEnough', \E id \in Ids : Verifies(id)
    PROVE  \E id \in Ids : Verifies(id)'
<1> ~forced'
  BY DEF KeepsEnough
<1>1. PICK id \in Ids : Verifies(id)
  OBVIOUS
<1>2. CASE UNCHANGED <<zips, sums>>
  BY <1>1, <1>2 DEF Verifies, Complete
<1>3. CASE Pipeline \/ Pack
  BY <1>1, <1>2, <1>3, GoodPacker, GoodZip, GoodSums
<1>4. CASE Clean
  <2>1. ASSUME NEW c \in Cleaners, NEW d \in Ids, NEW file \in {"zip", "sums"}, Deletes(c, d, file)
        PROVE  \E good \in Ids : Verifies(good)'
    <3>1. PICK good \in Present : NewestGood(good)
      BY <1>1, NewestExists DEF Present, Verifies, Complete
    <3>2. KeepsEnough
      BY <2>1 DEF KeepsEnough, Deletes
    <3>3. good \in Ids
      BY Numbers
    <3> QED BY <2>1, <3>1, <3>2, <3>3, GoodDeletes
  <2> QED BY <1>2, <1>4, <2>1, CleanSplits
<1> QED BY <1>3, <1>4, NextSplits

\* No step takes the last release that verifies, as long as no repack is forced and one slot more is kept than
\* processes died, and one for the pack under way.
THEOREM LastGoodStays == Spec => LastGoodSurvives
<1>1. CASE KeepNewest > 0
  <2>1. TInv /\ PInv /\ AgeInv /\ GoodInv /\ [Next]_vars
            => [/\ ~forced' /\ KeepLast > crashes' + 1 /\ KeepNewest > crashes' + 1
                /\ \E id \in Ids : Verifies(id)
                => \E id \in Ids : Verifies(id)']_vars
    BY GoodSurvives DEF KeepsEnough
  <2>2. TInv /\ PInv /\ AgeInv /\ [Next]_vars => AgeInv'
    BY <1>1, AgesStep
  <2> QED BY <2>1, <2>2, TypesInit, TypesStep, PairsInit, PairsStep, AgesInit, GoodInit, GoodStep, PTL
          DEF Spec, LastGoodSurvives
<1>2. CASE ~(KeepNewest > 0)
  <2>1. TInv /\ [Next]_vars
            => [/\ ~forced' /\ KeepLast > crashes' + 1 /\ KeepNewest > crashes' + 1
                /\ \E id \in Ids : Verifies(id)
                => \E id \in Ids : Verifies(id)']_vars
    <3>1. TInv /\ [Next]_vars => crashes' \in Nat
      BY TypesStep, Parts DEF TInv, TypeOK
    <3>2. KeepNewest \in Nat
      BY KeepAssumption
    <3> QED BY <1>2, <3>1, <3>2
  <2> QED BY <2>1, TypesInit, TypesStep, PTL DEF Spec, LastGoodSurvives
<1> QED BY <1>1, <1>2
=============================================================================
