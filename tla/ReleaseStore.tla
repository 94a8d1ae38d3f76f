---------------------------- MODULE ReleaseStore ----------------------------
(***************************************************************************)
(* dist/<product> and dist/releases of one product, and who works on them: *)
(*   the pipeline of scripts/run_factory_app_build_release_v1.ps1          *)
(*     (build_exe_v0, acceptance_gate_v1, release_pack_v0,                 *)
(*     release_verify_v0), or release_pack_v0 on its own;                  *)
(*   retention_v1 and housekeeping_v0, which delete releases.              *)
(* A release is a zip and a hashes file, here "sums", under one id.        *)
(* One process builds and packs at a time (nothing here keeps two apart).  *)
(*                                                                         *)
(* Contents are numbers: a build is numbered, an acceptance report is the  *)
(* number of the build it accepted, a manifest the number of the pack that *)
(* wrote it, which is also the age of the files of that pack.  0 is none;  *)
(* a hashes file has the contents whose hashes it holds.                   *)
(* The id has the numbers that its tag hashes.  Left out: the other files  *)
(* of dist (they go with the app), explicit release ids, the workspace     *)
(* steps, runs and temporary files among what retention deletes.           *)
(***************************************************************************)
EXTENDS Integers, FiniteSetsExt, Functions

CONSTANTS
    KeepLast,   \* keep_last_per_product of the retention policy
    KeepNewest, \* --keep-last of housekeeping
    MaxBuilds, MaxPacks, MaxCrashes, MaxCleanings, MaxPins \* bounds

ASSUME KeepAssumption == KeepLast \in Nat \ {0} /\ KeepNewest \in Nat
ASSUME BoundsAssumption == {MaxBuilds, MaxPacks, MaxCrashes, MaxCleanings, MaxPins} \subseteq Nat

VARIABLES
    dist,      \* dist/<product>
    zips, sums, \* dist/releases, by id: the zips, the hashes files
    pinned,    \* pinned_release_ids of the retention policy
    packer,    \* the locals of the process that builds and packs
    cleaner,   \* what retention and housekeeping have still to delete
    builds, packs, crashes, cleanings, \* counters, of which the last two only bound
    shipped,   \* history: releases that a pipeline with acceptance has verified, still there
    mixed, forced, swept \* history: a packer and a cleaner at once, a forced repack, a housekeeping

releases == <<zips, sums, shipped>>
counters == <<builds, packs, crashes, cleanings>>
history == <<mixed, forced, swept>>
vars == <<dist, zips, sums, pinned, packer, cleaner, builds, packs, crashes, cleanings, shipped,
          mixed, forced, swept>>

Cleaners == {"retention", "housekeeping"}
Ids == [hashes : 1..MaxBuilds, report : 0..MaxBuilds]
Contents == [app : 0..MaxBuilds, hashes : 0..MaxBuilds, report : 0..MaxBuilds, manifest : 0..MaxPacks]
Files == {"zip", "sums"} \X Ids

NoId == [hashes |-> 0, report |-> 0]
Nothing == [app |-> 0, hashes |-> 0, report |-> 0, manifest |-> 0]
Idle == [pc |-> "off", accept |-> FALSE, gated |-> FALSE, force |-> FALSE, id |-> NoId, hashed |-> Nothing]
Packing == packer.pc # "off"
At(pc) == packer.pc = pc
Goto(pc) == packer' = [packer EXCEPT !.pc = pc]
Stop == packer' = Idle
Cleaning(c) == cleaner[c] # {}

Put(files, id, file) == [i \in DOMAIN files \cup {id} |-> IF i = id THEN file ELSE files[i]]
Remove(files, id) == Restrict(files, DOMAIN files \ {id})

-----------------------------------------------------------------------------
(* The pipeline up to the pack.                                            *)

Begin(pc, accept, force) ==
    /\ ~Packing
    /\ packer' = [Idle EXCEPT !.pc = pc, !.accept = accept, !.force = force]
    /\ mixed' = (mixed \/ \E c \in Cleaners : Cleaning(c))
    /\ forced' = (forced \/ force)
    /\ UNCHANGED <<dist, releases, pinned, cleaner, counters, swept>>

StartPipeline == \E accept \in BOOLEAN : Begin("build", accept, FALSE)
StartPack == \E force \in BOOLEAN : Begin("pack", FALSE, force)

\* PyInstaller writes the new app where the old one was.
BuildApp ==
    /\ At("build") /\ builds < MaxBuilds
    /\ builds' = builds + 1
    /\ dist' = [dist EXCEPT !.app = builds + 1]
    /\ Goto("seal")
    /\ UNCHANGED <<releases, pinned, cleaner, packs, crashes, cleanings, history>>

\* A step before PyInstaller fails; PyInstaller does, the old app gone; or the check of the new app.
BuildFails ==
    /\ \/ At("build") /\ dist' \in {dist, [dist EXCEPT !.app = 0]}
       \/ At("seal") /\ dist' = dist
    /\ Stop
    /\ UNCHANGED <<releases, pinned, cleaner, counters, history>>

SealMutant ==
    /\ At("seal")
    /\ dist' = [dist EXCEPT !.hashes = dist.app + 1]
    /\ Goto(IF packer.accept THEN "accept" ELSE "pack")
    /\ UNCHANGED <<releases, pinned, cleaner, counters, history>>

Seal ==
    /\ At("seal")
    /\ dist' = [dist EXCEPT !.hashes = dist.app]
    /\ Goto(IF packer.accept THEN "accept" ELSE "pack")
    /\ UNCHANGED <<releases, pinned, cleaner, counters, history>>

\* verify_release_root, then the report is copied to dist; the script does not mind a copy that fails.
Accept ==
    /\ At("accept")
    /\ dist.app # 0 /\ dist.app = dist.hashes
    /\ \E copied \in BOOLEAN : dist' = IF copied THEN [dist EXCEPT !.report = dist.app] ELSE dist
    /\ packer' = [packer EXCEPT !.pc = "pack", !.gated = TRUE]
    /\ UNCHANGED <<releases, pinned, cleaner, counters, history>>

AcceptFails ==
    /\ At("accept")
    /\ Stop
    /\ UNCHANGED <<dist, releases, pinned, cleaner, counters, history>>

-----------------------------------------------------------------------------
(* release_pack_v0 and release_verify_v0.                                  *)

Complete(id) == id \in DOMAIN zips /\ id \in DOMAIN sums
Packable == dist.app # 0 /\ dist.hashes # 0
CurrentId == [hashes |-> dist.hashes, report |-> dist.report]

\* A required file is missing, or the zip is gone before it is hashed.
PackFails ==
    /\ \/ packer.pc \in {"pack", "zip", "hash"} /\ ~Packable
       \/ At("hash") /\ packer.id \notin DOMAIN zips
    /\ Stop
    /\ UNCHANGED <<dist, releases, pinned, cleaner, counters, history>>

ExistingMutant == ~packer.force /\ Complete(CurrentId) /\ zips[CurrentId].app = dist.app

\* "Idempotent mode (skip) unless forced": what is there is not looked at.
Existing == ~packer.force /\ Complete(CurrentId)

SkipExisting ==
    /\ At("pack") /\ Packable
    /\ Existing
    /\ packer' = [packer EXCEPT !.pc = "verify", !.id = CurrentId]
    /\ UNCHANGED <<dist, releases, pinned, cleaner, counters, history>>

WriteManifest ==
    /\ At("pack") /\ Packable
    /\ ~Existing
    /\ packs < MaxPacks
    /\ packs' = packs + 1
    /\ dist' = [dist EXCEPT !.manifest = packs + 1]
    /\ packer' = [packer EXCEPT !.pc = "zip", !.id = CurrentId]
    /\ UNCHANGED <<releases, pinned, cleaner, builds, crashes, cleanings, history>>

WriteZip ==
    /\ At("zip") /\ Packable
    /\ zips' = Put(zips, packer.id, dist)
    /\ Goto("hash")
    /\ UNCHANGED <<dist, sums, shipped, pinned, cleaner, counters, history>>

HashMutant ==
    /\ At("hash") /\ Packable /\ packer.id \in DOMAIN zips
    /\ packer' = [packer EXCEPT !.pc = "sums", !.hashed = [dist EXCEPT !.manifest = packs - 1]]
    /\ UNCHANGED <<dist, releases, pinned, cleaner, counters, history>>

\* The zip as published, and the files of dist, which nobody changed meanwhile.
Hash ==
    /\ At("hash") /\ Packable /\ packer.id \in DOMAIN zips
    /\ packer' = [packer EXCEPT !.pc = "sums", !.hashed = zips[packer.id]]
    /\ UNCHANGED <<dist, releases, pinned, cleaner, counters, history>>

WriteSums ==
    /\ At("sums")
    /\ sums' = Put(sums, packer.id, packer.hashed)
    /\ Goto("verify")
    /\ UNCHANGED <<dist, zips, shipped, pinned, cleaner, counters, history>>

\* release_verify_v0 with the product standard gate: the contents are compared with the sums, not with
\* hashes.json, and an acceptance report has to be in the zip, of whatever build.
Verifies(id) ==
    /\ Complete(id)
    /\ sums[id] = zips[id]
    /\ zips[id].report # 0

Verify ==
    /\ At("verify")
    /\ shipped' = IF packer.gated /\ Verifies(packer.id) THEN shipped \cup {packer.id} ELSE shipped
    /\ Stop
    /\ UNCHANGED <<dist, zips, sums, pinned, cleaner, counters, history>>

\* The process dies, or an exception ends it, in front of a step.
Crash ==
    /\ Packing /\ crashes < MaxCrashes
    /\ crashes' = crashes + 1
    /\ Stop
    /\ UNCHANGED <<dist, releases, pinned, cleaner, builds, packs, cleanings, history>>

-----------------------------------------------------------------------------
(* retention_v1 and housekeeping_v0.                                       *)

Present == DOMAIN zips \cup DOMAIN sums
Age(id) == Max({zips[i].manifest : i \in {id} \cap DOMAIN zips} \cup {sums[i].manifest : i \in {id} \cap DOMAIN sums})

NewerMutant(id) == {other \in Present : Age(other) < Age(id)}

Newer(id) == {other \in Present : Age(other) > Age(id)}

KeptMutant == {id \in Present : Cardinality(Newer(id)) < KeepLast}

\* plan_dist_releases: the latest ids by the age of any of their files, and the pinned ones.
Kept == pinned \cup {id \in Present : Cardinality(Newer(id)) < KeepLast}

RetentionPlan == {<<"zip", id>> : id \in DOMAIN zips \ Kept} \cup {<<"sums", id>> : id \in DOMAIN sums \ Kept}

\* decide_deletions: among the zips only, the newest kept, of the others those that are old enough.
Old(cutoff) == {id \in DOMAIN zips :
                  /\ Cardinality({other \in DOMAIN zips : zips[other].manifest > zips[id].manifest}) >= KeepNewest
                  /\ zips[id].manifest < cutoff}

StartCleaning(c, plan) ==
    /\ ~Cleaning(c) /\ cleanings < MaxCleanings
    /\ plan # {}
    /\ cleanings' = cleanings + 1
    /\ cleaner' = [cleaner EXCEPT ![c] = plan]
    /\ mixed' = (mixed \/ Packing)
    /\ UNCHANGED <<dist, releases, pinned, packer, builds, packs, crashes, forced>>

\* A pin that is missing a file stops retention.
StartRetention ==
    /\ \A id \in pinned : Complete(id)
    /\ StartCleaning("retention", RetentionPlan)
    /\ UNCHANGED swept

StartHousekeeping ==
    /\ \E cutoff \in 1..MaxPacks : StartCleaning("housekeeping", {"zip", "sums"} \X Old(cutoff))
    /\ swept' = TRUE

\* Of one release retention deletes the sums first (it sorts the names), housekeeping the zip.
First(c) == IF c = "retention" THEN "sums" ELSE "zip"

Delete(c, id) ==
    \E file \in {"zip", "sums"} :
        /\ <<file, id>> \in cleaner[c]
        /\ file = First(c) \/ <<First(c), id>> \notin cleaner[c]
        /\ cleaner' = [cleaner EXCEPT ![c] = cleaner[c] \ {<<file, id>>}]
        /\ zips' = IF file = "zip" THEN Remove(zips, id) ELSE zips
        /\ sums' = IF file = "sums" THEN Remove(sums, id) ELSE sums
        /\ shipped' = shipped \ {id}
        /\ UNCHANGED <<dist, pinned, packer, counters, history>>

CleanerDies(c) ==
    /\ Cleaning(c) /\ crashes < MaxCrashes
    /\ crashes' = crashes + 1
    /\ cleaner' = [cleaner EXCEPT ![c] = {}]
    /\ UNCHANGED <<dist, releases, pinned, packer, builds, packs, cleanings, history>>

\* The operator pins a release, with no retention under way.
Pin(id) ==
    /\ ~Cleaning("retention") /\ Cardinality(pinned) < MaxPins
    /\ Complete(id) /\ id \notin pinned
    /\ pinned' = pinned \cup {id}
    /\ UNCHANGED <<dist, releases, packer, cleaner, counters, history>>

-----------------------------------------------------------------------------

Init ==
    /\ dist = Nothing
    /\ zips = <<>> /\ sums = <<>>
    /\ pinned = {}
    /\ packer = Idle
    /\ cleaner = [c \in Cleaners |-> {}]
    /\ builds = 0 /\ packs = 0 /\ crashes = 0 /\ cleanings = 0
    /\ shipped = {}
    /\ mixed = FALSE /\ forced = FALSE /\ swept = FALSE

Pipeline ==
    \/ StartPipeline \/ BuildApp \/ BuildFails \/ Seal \/ Accept \/ AcceptFails

Pack ==
    \/ StartPack \/ PackFails \/ SkipExisting \/ WriteManifest \/ WriteZip
    \/ Hash \/ WriteSums \/ Verify \/ Crash

Next ==
    \/ Pipeline \/ Pack
    \/ StartRetention \/ StartHousekeeping
    \/ \E c \in Cleaners : CleanerDies(c) \/ \E id \in Ids : Delete(c, id)
    \/ \E id \in Ids : Pin(id)

Spec == Init /\ [][Next]_vars

-----------------------------------------------------------------------------
(* Properties.                                                             *)

PackerPcs == {"off", "build", "seal", "accept", "pack", "zip", "hash", "sums", "verify"}

TypeOK ==
    /\ dist \in Contents
    /\ \A id \in DOMAIN zips : id \in Ids /\ zips[id] \in Contents
    /\ \A id \in DOMAIN sums : id \in Ids /\ sums[id] \in Contents
    /\ pinned \subseteq Ids /\ shipped \subseteq Ids
    /\ packer \in [pc : PackerPcs, accept : BOOLEAN, gated : BOOLEAN, force : BOOLEAN,
                   id : Ids \cup {NoId}, hashed : Contents]
    /\ cleaner \in [Cleaners -> SUBSET Files]
    /\ {builds, packs, crashes, cleanings} \subseteq Nat
    /\ {mixed, forced, swept} \subseteq BOOLEAN

BeingPacked(id) == packer.pc \in {"hash", "sums"} /\ packer.id = id

\* Both writes of a pack are atomic, but not together ("Atomic write: zip", "Atomic write: hashes json",
\* release_pack_v0.py:269,309).  A complete pair that nobody is packing belongs together
\* whenever no process died; and if one did, as long as no repack was forced and nobody packed while
\* somebody deleted.
PairsBelongTogether ==
    (crashes = 0 \/ (crashes = 1 /\ ~forced /\ ~mixed)) =>
        \A id \in DOMAIN zips \cap DOMAIN sums : ~BeingPacked(id) => sums[id] = zips[id]

\* A release that a pipeline with acceptance has shipped holds the app its hashes.json declares, as long
\* as it is there: no later build that failed half-way, no pack of it, no crash and no cleaning changes
\* that, unless a repack is forced.
ShippedHoldsWhatItDeclares ==
    ~forced => \A id \in shipped : zips[id].app = zips[id].hashes

\* Keeping enough releases, no step takes the last one that verifies: one slot more than the processes
\* that died, and one for the pack under way, since half a release takes a slot too.
LastGoodSurvives ==
    [][/\ ~forced'
       /\ KeepLast > crashes' + 1 /\ KeepNewest > crashes' + 1
       /\ \E id \in Ids : Verifies(id)
       => \E id \in Ids : Verifies(id)']_vars

\* What is pinned stays complete, whatever retention deletes and packers replace; housekeeping knows no pins.
PinnedStays == ~swept => \A id \in pinned : Complete(id)
=============================================================================
