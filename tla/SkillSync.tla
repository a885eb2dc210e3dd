----------------------------- MODULE SkillSync -----------------------------
(***************************************************************************)
(* genesis skill-sync (cli/skill_sync.py): a skill that one AI client has   *)
(* is copied to a canonical store and linked, or copied, into the folders   *)
(* of the others; --revert undoes that from a manifest.                     *)
(*                                                                          *)
(* The module follows one skill: the code treats names one by one.  The     *)
(* empty folders an apply makes, and a revert removes, are left out.  The   *)
(* user edits between commands and never during one.  A command can die     *)
(* between any two of its steps, and half way through a copy.               *)
(***************************************************************************)
EXTENDS Integers, SequencesExt, Selection

CONSTANTS
  Rows,   \* the sequence of locations, in the order of default_rows()
  Scans,  \* [location -> locations whose folders its client reads as well]
  Texts   \* what a SKILL.md may say

Locations == ToSet(Rows)

ASSUME SkillSyncAssumption ==
  /\ Rows \in Seq(Locations) /\ IsInjective(Rows)
  /\ Scans \in [Locations -> SUBSET Locations]
  /\ Texts \cap {"none", "nameless", "half"} = {}

VARIABLES
  place,     \* what is at <location>/<skill>
  store,     \* the canonical copy
  manifest,  \* .manifest.json: the entry of this skill
  sync,      \* the running command
  symlinks,  \* whether the platform lets it make symlinks
  mishap     \* history: what deaths and failures kept from the manifest

skillVars == <<place, store, manifest, sync, symlinks, mishap>>

\* "nameless": a SKILL.md whose frontmatter has no name, which nobody reads.
\* "half": a folder without SKILL.md, of a copy half made or half removed.
Text == Texts \cup {"nameless"}
Place == [kind : {"dir"}, text : Text \cup {"half"}]
         \cup {[kind |-> "none"], [kind |-> "link"]}
Nothing == [kind |-> "none"]
Link == [kind |-> "link"]
Folder(text) == [kind |-> "dir", text |-> text]

Manifest == [sha : Texts \cup {"none"}, linked : [Locations -> {"no", "symlink", "copy"}]]
NoManifest == [sha |-> "none", linked |-> [l \in Locations |-> "no"]]

SyncPCs == {"idle", "canon", "copy", "link", "fill", "save", "unlink", "empty", "forget"}
Sync == [pc : SyncPCs, win : Texts \cup {"none"}, todo : Seq(Locations), errors : {"no", "yes"},
         draft : Manifest, last : {"none", "applied", "reverted"}]
NoSync == [pc |-> "idle", win |-> "none", todo |-> <<>>, errors |-> "no",
           draft |-> NoManifest, last |-> "none"]

\* Links that an apply which died left out of the manifest, or that a revert
\* could not remove; whether the canonical copy may have met the same.
Mishap == [links : SUBSET Locations, store : {"no", "yes"}]
NoMishap == [links |-> {}, store |-> "no"]

SkillTypeOK ==
  /\ place \in [Locations -> Place]
  /\ store \in Texts \cup {"none", "half"}
  /\ manifest \in Manifest /\ sync \in Sync /\ symlinks \in {"yes", "no"}
  /\ mishap \in Mishap

SkillInit ==
  /\ place = [l \in Locations |-> Nothing]
  /\ store = "none" /\ manifest = NoManifest
  /\ sync = NoSync /\ symlinks \in {"yes", "no"} /\ mishap = NoMishap

SyncAt(pc) == sync.pc = pc
\* `last`: an apply that reported no error, or a revert, and nothing since.
End(how) == sync' = [NoSync EXCEPT !.last = IF sync.errors = "yes" THEN "none" ELSE how]

-----------------------------------------------------------------------------
(* plan.                                                                    *)

\* inventory: what a client finds in a location, through a link or not.
Read(l) ==
  CASE place[l].kind = "dir"  -> place[l].text
    [] place[l].kind = "link" -> store
    [] place[l].kind = "none" -> "none"
Holds(l) == Read(l) \in Texts

\* Mutant: a location sees who scans it as well.
Closure_BothWays ==
  [l \in Locations |->
     LET near[n \in 0..Len(Rows)] ==
           IF n = 0 THEN {l}
           ELSE {k \in Locations : \E j \in near[n - 1] : k \in {j} \cup Scans[j] \/ j \in Scans[k]}
     IN near[Len(Rows)]]
\* The locations whose content a client at each one sees.
Closure ==
  [l \in Locations |->
     LET near[n \in 0..Len(Rows)] ==
           IF n = 0 THEN {l} ELSE near[n - 1] \cup UNION {Scans[k] : k \in near[n - 1]}
     IN near[Len(Rows)]]
Sees(l) == \E k \in Closure[l] : Holds(k)

\* Every distinct text is taken for its first location's; of those the
\* preferred location wins, then the first.
Occurrences ==
  Select(Rows, {l \in Locations : Holds(l) /\ ~\E i \in DOMAIN Rows :
                  /\ Holds(Rows[i]) /\ Read(Rows[i]) = Read(l)
                  /\ \E j \in DOMAIN Rows : Rows[j] = l /\ i < j})
Winner(prefer) ==
  IF Occurrences = <<>> THEN "none"
  ELSE Read(IF prefer \in ToSet(Occurrences) THEN prefer ELSE Head(Occurrences))

Links == Select(Rows, {l \in Locations : ~Sees(l)})

-----------------------------------------------------------------------------
(* --apply.                                                                 *)

\* Mutant: the manifest is started afresh.
Apply_Afresh ==
  /\ SyncAt("idle")
  /\ \E prefer \in Locations :
       LET win == Winner(prefer) IN
         sync' = [sync EXCEPT !.pc = IF win = "none" THEN "save" ELSE "canon",
                    !.win = win, !.last = "none", !.draft = NoManifest,
                    !.todo = IF win = "none" THEN <<>> ELSE Links]
  /\ UNCHANGED <<place, store, manifest, symlinks, mishap>>
\* The plan is made, and the manifest read.
Apply ==
  /\ SyncAt("idle")
  /\ \E prefer \in Locations :
       LET win == Winner(prefer) IN
         sync' = [sync EXCEPT !.pc = IF win = "none" THEN "save" ELSE "canon",
                    !.win = win, !.last = "none", !.draft = manifest,
                    !.todo = IF win = "none" THEN <<>> ELSE Links]
  /\ UNCHANGED <<place, store, manifest, symlinks, mishap>>

\* The canonical copy is begun unless its folder is there, whatever is in it.
Canon ==
  /\ SyncAt("canon")
  /\ IF store = "none"
     THEN store' = "half" /\ sync' = [sync EXCEPT !.pc = "copy"]
     ELSE /\ sync' = [sync EXCEPT !.pc = "link", !.win = "none", !.draft.sha = sync.win]
          /\ UNCHANGED store
  /\ UNCHANGED <<place, manifest, symlinks, mishap>>

CanonCopy ==
  /\ SyncAt("copy")
  /\ store' = sync.win
  /\ sync' = [sync EXCEPT !.pc = "link", !.win = "none", !.draft.sha = sync.win]
  /\ UNCHANGED <<place, manifest, symlinks, mishap>>

\* An error before the first file, or after any: nothing is taken back.
CanonFails ==
  /\ \/ SyncAt("canon") /\ store = "none" /\ UNCHANGED <<store, mishap>>
     \/ /\ SyncAt("copy") /\ store' \in {store, sync.win}
        /\ mishap' = [mishap EXCEPT !.store = "yes"]
  /\ sync' = [sync EXCEPT !.pc = "link", !.win = "none", !.errors = "yes"]
  /\ UNCHANGED <<place, manifest, symlinks>>

\* One location of the plan gets a link, or a copy where links are not allowed,
\* unless something is there by that name.
PutLink ==
  /\ SyncAt("link") /\ sync.todo # <<>>
  /\ LET l == Head(sync.todo)
         free == place[l].kind = "none"
         linked == free /\ symlinks = "yes"
         copied == free /\ symlinks = "no" /\ store # "none"
     IN /\ place' = [place EXCEPT ![l] = IF linked THEN Link
                                         ELSE IF copied THEN Folder("half") ELSE @]
        /\ sync' = IF copied THEN [sync EXCEPT !.pc = "fill"]
                   ELSE [sync EXCEPT !.todo = Tail(@),
                           !.errors = IF free /\ ~linked THEN "yes" ELSE @,
                           !.draft.linked[l] = IF linked THEN "symlink" ELSE @]
  /\ UNCHANGED <<store, manifest, symlinks, mishap>>

PutCopy ==
  /\ SyncAt("fill")
  /\ LET l == Head(sync.todo) IN
       /\ place' = [place EXCEPT ![l].text = store]
       /\ sync' = [sync EXCEPT !.pc = "link", !.todo = Tail(@), !.draft.linked[l] = "copy"]
  /\ UNCHANGED <<store, manifest, symlinks, mishap>>

\* No folder for the link, or a copy that ended early and is not taken back.
PutFails ==
  /\ sync.todo # <<>>
  /\ \/ SyncAt("link") /\ UNCHANGED place
     \/ /\ SyncAt("fill")
        /\ \E text \in {"half", store} : place' = [place EXCEPT ![Head(sync.todo)].text = text]
  /\ sync' = [sync EXCEPT !.pc = "link", !.todo = Tail(@), !.errors = "yes"]
  /\ UNCHANGED <<store, manifest, symlinks, mishap>>

PutDone ==
  /\ SyncAt("link") /\ sync.todo = <<>>
  /\ sync' = [sync EXCEPT !.pc = "save"]
  /\ UNCHANGED <<place, store, manifest, symlinks, mishap>>

\* The manifest is written last, to a temporary file that is renamed; with an
\* entry in it a revert knows of the canonical copy again.
Save ==
  /\ SyncAt("save")
  /\ manifest' = sync.draft
  /\ mishap' = [mishap EXCEPT !.store = IF sync.draft = NoManifest THEN @ ELSE "no"]
  /\ End("applied")
  /\ UNCHANGED <<place, store, symlinks>>

-----------------------------------------------------------------------------
(* --revert.                                                                *)

\* Without a manifest the steps that follow change nothing, as the code's
\* early return.
Revert ==
  /\ SyncAt("idle")
  /\ sync' = [sync EXCEPT !.pc = "unlink", !.last = "none",
                !.todo = Select(Rows, {l \in Locations : manifest.linked[l] # "no"})]
  /\ UNCHANGED <<place, store, manifest, symlinks, mishap>>

\* A recorded link goes, and a recorded copy whose text is the manifest's.
Ours(l) ==
  \/ place[l].kind = "link"
  \/ /\ place[l].kind = "dir" /\ manifest.linked[l] = "copy"
     /\ place[l].text = manifest.sha
Unlink ==
  /\ SyncAt("unlink")
  /\ IF sync.todo = <<>>
     THEN sync' = [sync EXCEPT !.pc = "empty"] /\ UNCHANGED <<place, mishap>>
     ELSE LET l == Head(sync.todo) IN
            /\ sync' = [sync EXCEPT !.todo = Tail(@)]
            /\ IF Ours(l)
               THEN /\ place' = [place EXCEPT ![l] = Nothing]
                    /\ mishap' = [mishap EXCEPT !.links = @ \ {l}]
               ELSE UNCHANGED <<place, mishap>>
  /\ UNCHANGED <<store, manifest, symlinks>>

\* An error is recorded, or swallowed by _rmtree, and the revert goes on: a
\* link stays, a copy stays or loses some of its files.
UnlinkFails ==
  /\ SyncAt("unlink") /\ sync.todo # <<>>
  /\ LET l == Head(sync.todo) IN
       /\ Ours(l)
       /\ \/ /\ place[l].kind = "link" /\ UNCHANGED place
             /\ mishap' = [mishap EXCEPT !.links = @ \cup {l}]
          \/ /\ place[l].kind = "dir" /\ UNCHANGED mishap
             /\ place' \in {place, [place EXCEPT ![l] = Folder("half")]}
  /\ sync' = [sync EXCEPT !.todo = Tail(@)]
  /\ UNCHANGED <<store, manifest, symlinks>>

\* Then the canonical copy goes, if it has an entry, ...
Empty ==
  /\ SyncAt("empty")
  /\ IF manifest = NoManifest THEN UNCHANGED <<store, mishap>>
     ELSE store' = "none" /\ mishap' = [mishap EXCEPT !.store = "no"]
  /\ sync' = [sync EXCEPT !.pc = "forget"]
  /\ UNCHANGED <<place, manifest, symlinks>>

\* ... or stays, whole or in part, ...
EmptyFails ==
  /\ SyncAt("empty") /\ manifest # NoManifest /\ store # "none"
  /\ store' \in {store, "half"}
  /\ mishap' = [mishap EXCEPT !.store = "yes"]
  /\ sync' = [sync EXCEPT !.pc = "forget"]
  /\ UNCHANGED <<place, manifest, symlinks>>

\* ... and the manifest all the same, unless it cannot be removed either.
Forget ==
  /\ SyncAt("forget")
  /\ manifest' \in {NoManifest, manifest}
  /\ End("reverted")
  /\ UNCHANGED <<place, store, symlinks, mishap>>

\* What an apply has made so far is in no manifest but an earlier one.
Dies ==
  /\ ~SyncAt("idle")
  /\ sync' = NoSync
  /\ IF sync.pc \in {"canon", "copy", "link", "fill", "save"}
     THEN mishap' = [links |-> mishap.links \cup
                       {l \in Locations : place[l].kind = "link" /\ manifest.linked[l] = "no"},
                     store |-> IF store # "none" /\ manifest = NoManifest THEN "yes"
                               ELSE mishap.store]
     ELSE UNCHANGED mishap
  /\ UNCHANGED <<place, store, manifest, symlinks>>

-----------------------------------------------------------------------------
(* The user.                                                                *)

\* Installs a skill of this name, or edits what is there; through a link the
\* edit is of the canonical copy.
Write ==
  /\ SyncAt("idle")
  /\ \E l \in Locations, text \in Text :
       IF place[l].kind = "link" /\ store # "none"
       THEN /\ text \in Texts
            /\ store' = text /\ UNCHANGED <<place, mishap>>
       ELSE /\ place' = [place EXCEPT ![l] = Folder(text)]
            /\ mishap' = [mishap EXCEPT !.links = @ \ {l}]
            /\ UNCHANGED store
  /\ sync' = NoSync
  /\ UNCHANGED <<manifest, symlinks>>

Delete ==
  /\ SyncAt("idle")
  /\ \E l \in Locations :
       /\ place[l].kind # "none" /\ place' = [place EXCEPT ![l] = Nothing]
       /\ mishap' = [mishap EXCEPT !.links = @ \ {l}]
  /\ sync' = NoSync
  /\ UNCHANGED <<store, manifest, symlinks>>

SkillNext ==
  \/ Apply \/ Canon \/ CanonCopy \/ CanonFails
  \/ PutLink \/ PutCopy \/ PutFails \/ PutDone \/ Save
  \/ Revert \/ Unlink \/ UnlinkFails \/ Empty \/ EmptyFails \/ Forget \/ Dies
  \/ Write \/ Delete

SkillSpec == SkillInit /\ [][SkillNext]_skillVars

-----------------------------------------------------------------------------
(* Correctness.                                                             *)

\* "a skill installed for one client becomes visible to all others": after an
\* apply without errors every client finds the skill in its own folder or in one
\* it scans, if there is one, unless what is in its own has no name, or is what
\* a copy or a removal cut short left there: an apply takes these for present.
SyncReachesAll ==
  sync.last = "applied" /\ (\E l \in Locations : Holds(l)) =>
    \A l \in Locations : (\E k \in {l} \cup Scans[l] : Holds(k)) \/ Read(l) \in {"nameless", "half"}

\* "--revert removes exactly what --apply created": after a revert no location
\* holds a link into the store, and the canonical copy is gone, but for links
\* and a copy that this revert or an earlier one failed to remove or that an
\* apply which died, or failed to copy, left out of the manifest.
NoLinkLeft ==
  sync.last = "reverted" =>
    /\ \A l \in Locations : place[l] = Link => l \in mishap.links
    /\ store # "none" => mishap.store = "yes"
=============================================================================
