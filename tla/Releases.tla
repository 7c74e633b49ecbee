------------------------------ MODULE Releases ------------------------------
(***************************************************************************)
(* The releases and assets of one repository.  A release is created under  *)
(* a tag nobody has, its assets are attached and removed under the tag, a  *)
(* download adds one to the counter of an asset, and a release retracted   *)
(* takes its assets with it.  Every request looks for its rows first and   *)
(* commits what it does later.                                             *)
(***************************************************************************)
EXTENDS Naturals, FiniteSets

CONSTANTS Requests,   \* the calls of the operations, numbers
          Tags

VARIABLES releases,   \* the committed release rows
          assets,     \* the committed asset rows
          req         \* the requests

vars == <<releases, assets, req>>

\* Rows; the request that inserted a row stands for its id.
ReleaseRows == [id : Requests, tag : Tags]
AssetRows == [id : Requests, release : Requests, count : Nat]

Kinds == {"create", "retract", "attach", "download", "remove"}

\* release, asset: the ids of the rows it found, or was given.
RequestStates ==
    [kind    : Kinds,
     tag     : Tags,
     asset   : Requests,
     release : Requests,
     pc      : {"idle", "looking", "asset", "writing", "ok", "failed"}]

TypeOK ==
    /\ releases \subseteq ReleaseRows
    /\ assets \subseteq AssetRows
    /\ req \in [Requests -> RequestStates]

\* Stands in a request that has no row in hand.
AnyRequest == CHOOSE r \in Requests : TRUE

Init ==
    /\ releases = {}
    /\ assets = {}
    /\ req = [r \in Requests |-> [kind |-> "create", tag |-> CHOOSE t \in Tags : TRUE,
                                  asset |-> AnyRequest, release |-> AnyRequest, pc |-> "idle"]]

\* Requests are named in the order they begin.
IsNext(r) == req[r].pc = "idle" /\ \A q \in Requests : q < r => req[q].pc # "idle"

\* An asset id the client once got.
Attached == {q \in Requests : req[q].kind = "attach" /\ req[q].pc = "ok"}

Begin(r) ==
    /\ IsNext(r)
    /\ \E tag \in Tags :
          \/ \E kind \in {"create", "retract", "attach"} :
                req' = [req EXCEPT ![r].kind = kind, ![r].tag = tag, ![r].pc = "looking"]
          \/ \E kind \in {"download", "remove"}, a \in Attached :
                req' = [req EXCEPT ![r].kind = kind, ![r].tag = tag, ![r].asset = a, ![r].pc = "looking"]
    /\ UNCHANGED <<releases, assets>>

Refuse(r) ==
    /\ req' = [req EXCEPT ![r].pc = "failed"]
    /\ UNCHANGED <<releases, assets>>

Tagged(tag) == {row \in releases : row.tag = tag}

-----------------------------------------------------------------------------
(* The look-ups. *)

\* _tag_exists.
TagTaken(r) ==
    /\ req[r].pc = "looking" /\ req[r].kind = "create"
    /\ Tagged(req[r].tag) # {}
    /\ Refuse(r)

TagFree(r) ==
    /\ req[r].pc = "looking" /\ req[r].kind = "create"
    /\ Tagged(req[r].tag) = {}
    /\ req' = [req EXCEPT ![r].pc = "writing"]
    /\ UNCHANGED <<releases, assets>>

\* get_release_by_tag; delete_release_by_tag has its own query.
ReleaseMissing(r) ==
    /\ req[r].pc = "looking" /\ req[r].kind # "create"
    /\ Tagged(req[r].tag) = {}
    /\ Refuse(r)

FindRelease(r) ==
    /\ req[r].pc = "looking" /\ req[r].kind # "create"
    /\ \E row \in Tagged(req[r].tag) :
          req' = [req EXCEPT ![r].release = row.id,
                             ![r].pc = IF req[r].kind \in {"retract", "attach"} THEN "writing" ELSE "asset"]
    /\ UNCHANGED <<releases, assets>>

\* get_asset, and whether it is one of the release.
FindAsset(r) ==
    /\ req[r].pc = "asset"
    /\ \E row \in assets :
          /\ row.id = req[r].asset
          /\ row.release = req[r].release
          /\ req' = [req EXCEPT ![r].pc = "writing"]
    /\ UNCHANGED <<releases, assets>>

AssetMissing(r) ==
    /\ req[r].pc = "asset"
    /\ ~\E row \in assets : row.id = req[r].asset /\ row.release = req[r].release
    /\ Refuse(r)

-----------------------------------------------------------------------------
(* The writes, at the commit. *)

Writing(r, kind) == req[r].pc = "writing" /\ req[r].kind = kind

Ok(r) == req' = [req EXCEPT ![r].pc = "ok"]

\* The key (repository, tag) refuses a second release of a tag.
Create(r) ==
    /\ Writing(r, "create")
    /\ Tagged(req[r].tag) = {}
    /\ releases' = releases \cup {[id |-> r, tag |-> req[r].tag]}
    /\ Ok(r)
    /\ UNCHANGED assets

\* The row deleted is the one found, which may be gone; its assets, those
\* attached meanwhile too, go by cascade.
Retract(r) ==
    /\ Writing(r, "retract")
    /\ releases' = {row \in releases : row.id # req[r].release}
    /\ assets' = {row \in assets : row.release # req[r].release}
    /\ Ok(r)

\* Mutant: the asset does not reference its release.
AttachAnywhere(r) ==
    /\ Writing(r, "attach")
    /\ assets' = assets \cup {[id |-> r, release |-> req[r].release, count |-> 0]}
    /\ Ok(r)
    /\ UNCHANGED releases

\* The foreign key refuses an asset of a release that is gone.
Attach(r) ==
    /\ Writing(r, "attach")
    /\ \E row \in releases : row.id = req[r].release
    /\ assets' = assets \cup {[id |-> r, release |-> req[r].release, count |-> 0]}
    /\ Ok(r)
    /\ UNCHANGED releases

\* increment_asset_download_count: one UPDATE; 404 when the row is gone.
Download(r) ==
    /\ Writing(r, "download")
    /\ \E row \in assets : row.id = req[r].asset
    /\ assets' = {IF row.id = req[r].asset THEN [row EXCEPT !.count = @ + 1] ELSE row
                    : row \in assets}
    /\ Ok(r)
    /\ UNCHANGED releases

\* remove_asset: gone already is no error of the route.
Remove(r) ==
    /\ Writing(r, "remove")
    /\ assets' = {row \in assets : row.id # req[r].asset}
    /\ Ok(r)
    /\ UNCHANGED releases

\* A key or foreign key refuses, or any failure before the commit.
Fail(r) == req[r].pc \in {"looking", "asset", "writing"} /\ Refuse(r)

Next ==
    \E r \in Requests :
        \/ Begin(r) \/ TagTaken(r) \/ TagFree(r) \/ ReleaseMissing(r) \/ FindRelease(r)
        \/ FindAsset(r) \/ AssetMissing(r)
        \/ Create(r) \/ Retract(r) \/ Attach(r) \/ Download(r) \/ Remove(r) \/ Fail(r)

Spec == Init /\ [][Next]_vars

-----------------------------------------------------------------------------
Downloads(a) == {r \in Requests : req[r].kind = "download" /\ req[r].asset = a /\ req[r].pc = "ok"}

(***************************************************************************)
(* Releases hold together: a tag names one release and a release's tag may *)
(* be taken again only when it is retracted; no asset outlives its         *)
(* release, though it is attached while the release is retracted; and the  *)
(* counter of an asset is the number of downloads answered, though they    *)
(* run at the same time (musehub_releases.py:697).                         *)
(***************************************************************************)
ReleasesHold ==
    /\ \A a, b \in releases : a.tag = b.tag => a = b
    /\ \A row \in assets :
          /\ \E release \in releases : release.id = row.release
          /\ row.count = Cardinality(Downloads(row.id))
=============================================================================
