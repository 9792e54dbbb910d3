------------------------------ MODULE StorageCheck ------------------------------
(***************************************************************************)
(* The storage check (app/storage_check/service.py): what the database     *)
(* refers to is collected, chunk lists are read and followed to what they  *)
(* need, and every blob is looked up once.  run_check says of each entity  *)
(* what is missing; find_orphans lists the blobs nothing needs.            *)
(*                                                                         *)
(* Uploads, publishes, the conversion of review items and a change of the  *)
(* saved backend go on meanwhile, and a blob may be lost.                  *)
(***************************************************************************)
EXTENDS Naturals, Sequences, FiniteSets

CONSTANTS
  Blobs, NoBlob,
  Shapes,     \* possible contents: per blob whether it is a chunk list, the
              \* chunks, patches and dictionaries it names, its parent lists
  Versions, Reviews, Attachments,  \* rows that may be there
  Opens, Optional, Frames,  \* per row: the delivered file or the original; the
                            \* dedup list of a version; frames of a sequence
  Renders,    \* possible previews of a review item
  Places,                  \* the file system and S3
  MaxLosses, MaxUploads, MaxSwitches   \* bounds

Entities == Versions \union Reviews \union Attachments

ASSUME EntitiesAssumption ==
  /\ Opens \in [Entities -> Blobs] /\ Frames \in [Entities -> SUBSET Blobs]
  /\ Optional \in [Entities -> Blobs \union {NoBlob}]
  /\ Renders \subseteq [proxy : SUBSET Blobs, stills : SUBSET Blobs]
ASSUME ShapesAssumption ==
  Shapes \subseteq [Blobs -> [list : BOOLEAN, chunks : SUBSET Blobs, parents : Seq(Blobs)]]
ASSUME BlobsAssumption == NoBlob \notin Blobs
ASSUME ScanBoundsAssumption == MaxLosses \in Nat /\ MaxUploads \in Nat /\ MaxSwitches \in Nat

VARIABLES
  shape,    \* what the blobs contain
  holds,    \* per backend: the blobs it has
  chosen,   \* the backend the settings name
  records,  \* rows in the database
  media,    \* per review item: is it ready, and the previews its columns name
  scan,     \* the local variables of the check
  losses, uploads, switches

world == <<shape, holds, chosen, records, media, losses, uploads, switches>>
scanVars == <<world, scan>>

NoMedia == [ready |-> FALSE, proxy |-> {}, stills |-> {}]
Rendered(r) == [ready |-> TRUE, proxy |-> r.proxy, stills |-> r.stills]
Media == [ready : BOOLEAN, proxy : SUBSET Blobs, stills : SUBSET Blobs]

NoScan == [phase |-> "new", mode |-> "check", backend |-> NoBlob, todo |-> {}, entity |-> NoBlob,
           queue |-> <<>>, seen |-> {}, want |-> {}, found |-> [b \in Blobs |-> "?"],
           read |-> [b \in Blobs |-> "?"], refs |-> [e \in Entities |-> {}], rows |-> {},
           media |-> [e \in Entities |-> NoMedia], orphans |-> {}]

ScanTypeOK ==
  /\ shape \in Shapes
  /\ holds \in [Places -> SUBSET Blobs]
  /\ chosen \in Places
  /\ records \subseteq Entities
  /\ media \in [Entities -> Media]
  /\ scan \in [phase : {"new", "versions", "reviews", "attachments", "walk", "list", "done", "failed"},
               mode : {"check", "orphans"},
               backend : Places \union {NoBlob}, todo : SUBSET Entities, entity : Entities \union {NoBlob},
               queue : Seq(Blobs \X BOOLEAN), seen : SUBSET Blobs, want : SUBSET Blobs,
               found : [Blobs -> {"?", "yes", "no"}], read : [Blobs -> {"?", "list", "plain"}],
               refs : [Entities -> SUBSET (Blobs \X BOOLEAN)], rows : SUBSET Entities,
               media : [Entities -> Media], orphans : SUBSET Blobs]
  /\ losses \in 0..MaxLosses /\ uploads \in 0..MaxUploads /\ switches \in 0..MaxSwitches

ScanInit ==
  /\ shape \in Shapes
  /\ chosen \in Places
  /\ holds = [b \in Places |-> IF b = chosen THEN Blobs ELSE {}]
  /\ records \in SUBSET Entities
  /\ media \in [Entities -> {NoMedia} \union {Rendered(r) : r \in Renders}]
  /\ \A e \in Entities : e \notin Reviews \intersect records => media[e] = NoMedia
  /\ scan = NoScan
  /\ losses = 0
  /\ uploads = 0
  /\ switches = 0

-----------------------------------------------------------------------------
(* run_check and referenced_blobs look into the backend of the moment.     *)
StartScan(mode) ==
  /\ scan.phase = "new"
  /\ scan' = [NoScan EXCEPT !.phase = "versions", !.mode = mode, !.backend = chosen]
  /\ UNCHANGED world

(* What a row refers to itself, as it was fetched; the previews of a       *)
(* review item only if it was ready.                                       *)
ProxyOnly(m) == IF m.ready THEN m.proxy ELSE {}
Previews(m) == IF m.ready THEN m.proxy \union m.stills ELSE {}
Own(e) == {<<b, TRUE>> : b \in {Opens[e]} \union Frames[e]}
          \union {<<b, FALSE>> : b \in {Optional[e]} \ {NoBlob}}
Direct(e, m) == Own(e) \union {<<b, FALSE>> : b \in Previews(m)}
BlobsOf(refs) == {ref[1] : ref \in refs}

(* _collect: one SELECT per kind of row, with no transaction around them;  *)
(* then everything a row refers to itself is looked up.                    *)
Fetched(kind) ==
  [scan EXCEPT !.rows = @ \union (records \intersect kind),
               !.todo = @ \union (records \intersect kind),
               !.media = [e \in Entities |-> IF e \in kind THEN media[e] ELSE scan.media[e]]]

CollectVersions ==
  /\ scan.phase = "versions"
  /\ scan' = [Fetched(Versions) EXCEPT !.phase = "reviews"]
  /\ UNCHANGED world

CollectReviews ==
  /\ scan.phase = "reviews"
  /\ scan' = [Fetched(Reviews) EXCEPT !.phase = "attachments"]
  /\ UNCHANGED world

DirectBlobs(s) == UNION {BlobsOf(Direct(e, s.media[e])) : e \in s.rows}

CollectAttachments ==
  /\ scan.phase = "attachments"
  /\ scan' = [Fetched(Attachments) EXCEPT !.phase = "walk", !.want = DirectBlobs(Fetched(Attachments))]
  /\ UNCHANGED world

(* check: one lookup; the answer is remembered.                            *)
Pending == {b \in scan.want : scan.found[b] = "?"}

Look(b) ==
  /\ scan.phase = "walk" /\ b \in Pending
  /\ scan' = [scan EXCEPT !.found[b] = IF b \in holds[scan.backend] THEN "yes" ELSE "no"]
  /\ UNCHANGED world

(* _expand of the next entity: only the files of versions are followed.    *)
Roots(e) == IF e \notin Versions THEN <<>>
            ELSE IF Optional[e] = NoBlob THEN <<<<Opens[e], TRUE>>>>
            ELSE <<<<Opens[e], TRUE>>, <<Optional[e], FALSE>>>>

NextEntity(e) ==
  /\ scan.phase = "walk" /\ Pending = {} /\ scan.queue = <<>>
  /\ e \in scan.todo
  /\ scan' = [scan EXCEPT !.entity = e, !.todo = @ \ {e}, !.queue = Roots(e), !.seen = {},
                          !.refs[e] = Direct(e, scan.media[e])]
  /\ UNCHANGED world

(* The last of the queue is taken, and read unless that was done before.   *)
Last == scan.queue[Len(scan.queue)]
Front == SubSeq(scan.queue, 1, Len(scan.queue) - 1)

(* A chunk list that is too long, or that cannot be read or is gone by     *)
(* now, is taken for a plain file.                                         *)
Readings(b) ==
  IF scan.read[b] # "?" THEN {scan.read[b]}
  ELSE {"plain"} \union
       (IF scan.found[b] = "yes" /\ b \in holds[scan.backend] /\ shape[b].list THEN {"list"} ELSE {})
ParentsOf(b) == {shape[b].parents[k] : k \in 1..Len(shape[b].parents)}
Deps(b) == shape[b].chunks \union ParentsOf(b)

Skip ==
  /\ scan.phase = "walk" /\ Pending = {} /\ scan.queue # <<>> /\ Last[1] \in scan.seen
  /\ scan' = [scan EXCEPT !.queue = Front]
  /\ UNCHANGED world

FollowInto(b, required, queue) ==
  /\ scan.phase = "walk" /\ Pending = {} /\ scan.queue # <<>>
  /\ Last = <<b, required>> /\ b \notin scan.seen
  /\ \E as \in Readings(b) :
       scan' = [scan EXCEPT
         !.seen = @ \union {b},
         !.read[b] = as,
         !.want = IF as = "list" THEN Deps(b) ELSE @,
         !.refs[scan.entity] = IF as = "list" THEN @ \union (Deps(b) \X {required}) ELSE @,
         !.queue = IF as = "list" THEN queue ELSE Front]
  /\ UNCHANGED world

WithParents(b, required) ==
  Front \o [k \in 1..Len(shape[b].parents) |-> <<shape[b].parents[k], required>>]

FollowOptionally(b, required) == FollowInto(b, required, WithParents(b, FALSE))
Follow(b, required) == FollowInto(b, required, WithParents(b, required))

Walked ==
  /\ scan.phase = "walk" /\ Pending = {} /\ scan.queue = <<>> /\ scan.todo = {}
  /\ scan' = [scan EXCEPT !.phase = IF scan.mode = "check" THEN "done" ELSE "list"]
  /\ UNCHANGED world

(* find_orphans asks for the backend again and lists what it holds.        *)
Referenced == UNION {BlobsOf(scan.refs[e]) : e \in Entities}

List ==
  /\ scan.phase = "list"
  /\ scan' = [scan EXCEPT !.phase = "done", !.orphans = holds[chosen] \ Referenced]
  /\ UNCHANGED world

(* A query, a lookup or the listing raises: there is no report.            *)
ScanFails ==
  /\ scan.phase \notin {"new", "done", "failed"}
  /\ scan' = [scan EXCEPT !.phase = "failed"]
  /\ UNCHANGED world

ScanStep ==
  \/ \E b \in Blobs : Look(b) \/ \E required \in BOOLEAN : Follow(b, required)
  \/ \E e \in Entities : NextEntity(e)
  \/ Skip \/ Walked \/ List \/ ScanFails

-----------------------------------------------------------------------------
(* A lost blob; a blob that is uploaded (again); a row for stored blobs; a *)
(* change of the saved backend.                                            *)
Lose(b) ==
  /\ losses < MaxLosses
  /\ \E k \in Places : b \in holds[k] /\ holds' = [holds EXCEPT ![k] = @ \ {b}]
  /\ losses' = losses + 1
  /\ UNCHANGED <<shape, chosen, records, media, scan, uploads, switches>>

Upload(b) ==
  /\ b \notin holds[chosen] /\ uploads < MaxUploads
  /\ uploads' = uploads + 1
  /\ holds' = [holds EXCEPT ![chosen] = @ \union {b}]
  /\ UNCHANGED <<shape, chosen, records, media, scan, losses, switches>>

Publish(e) ==
  /\ e \notin records
  /\ BlobsOf(Own(e)) \subseteq holds[chosen]
  /\ records' = records \union {e}
  /\ UNCHANGED <<shape, holds, chosen, media, scan, losses, uploads, switches>>

Switch(k) ==
  /\ k # chosen /\ switches < MaxSwitches
  /\ chosen' = k
  /\ switches' = switches + 1
  /\ UNCHANGED <<shape, holds, records, media, scan, losses, uploads>>

(* A conversion saves the previews it has stored; a new one is requested,  *)
(* begins or fails: the item is not ready, and the columns stay.           *)
Save(e, r) ==
  /\ e \in records \intersect Reviews
  /\ \E k \in Places : r.proxy \union r.stills \subseteq holds[k]
  /\ media' = [media EXCEPT ![e] = Rendered(r)]
  /\ UNCHANGED <<shape, holds, chosen, records, scan, losses, uploads, switches>>

Unready(e) ==
  /\ e \in records \intersect Reviews
  /\ media' = [media EXCEPT ![e].ready = FALSE]
  /\ UNCHANGED <<shape, holds, chosen, records, scan, losses, uploads, switches>>

ScanNext ==
  \/ \E mode \in {"check", "orphans"} : StartScan(mode)
  \/ CollectVersions \/ CollectReviews \/ CollectAttachments \/ ScanStep
  \/ \E b \in Blobs : Lose(b) \/ Upload(b)
  \/ \E e \in Entities : Publish(e) \/ Unready(e) \/ \E r \in Renders : Save(e, r)
  \/ \E k \in Places : Switch(k)

ScanSpec == ScanInit /\ [][ScanNext]_scanVars

-----------------------------------------------------------------------------
(* What a row needs, said without a traversal: the closure of its roots    *)
(* under the parents of the lists among them, with the chunks these name.  *)
ParentsIn(set, lists) == UNION {ParentsOf(b) : b \in set \intersect lists}
Reached(root, lists) == CHOOSE set \in SUBSET Blobs :
  /\ root \in set /\ ParentsIn(set, lists) \subseteq set
  /\ \A s \in SUBSET Blobs : root \in s /\ ParentsIn(s, lists) \subseteq s => set \subseteq s
Named(set, lists) == UNION {Deps(b) : b \in set \intersect lists}

AllLists == {b \in Blobs : shape[b].list}

(* The lists that the check did not take for plain files.                  *)
Legible == {b \in AllLists : scan.read[b] # "plain"}

RootsOf(e) == IF e \in Versions THEN {Opens[e], Optional[e]} \ {NoBlob} ELSE {}
Chained(e, lists) == UNION {Named(Reached(root, lists), lists) : root \in RootsOf(e)}

(* What the row cannot be opened without.                                  *)
Vital(e) == {Opens[e]} \union Frames[e]
Required(e, lists) ==
  Vital(e) \union (IF e \in Versions THEN Named(Reached(Opens[e], lists), lists) ELSE {})

(* What the dedup list leads to; it is followed first, as optional.        *)
Before(e, lists) == IF Optional[e] = NoBlob THEN {} ELSE Reached(Optional[e], lists)
RequiredFirst(e, lists) ==
  Vital(e) \union (IF e \in Versions THEN Named(Reached(Opens[e], lists) \ Before(e, lists), lists) ELSE {})

(* The previews that serialize_item hands out for a row.                   *)
Offered(m) == m.stills \union (IF m.ready THEN m.proxy ELSE {})

(* A stored blob that the report calls an orphan is not among what a row   *)
(* that was fetched refers to itself, nor among what the chunk lists from  *)
(* there need, as far as they could be read; and it is no preview that the *)
(* row offered as ready when it was fetched and still offers.  Rows that   *)
(* are written meanwhile, and previews of items that are not ready, may be *)
(* hit.                                                                    *)
OrphansUnneeded ==
  scan.phase = "done" =>
    \A e \in records \intersect scan.rows :
      LET old == scan.media[e] IN
      /\ scan.orphans \intersect (BlobsOf(Own(e)) \union Chained(e, Legible)) = {}
      /\ old.ready => scan.orphans \intersect Offered(media[e]) \intersect Offered(old) = {}

(* An orphan is what nothing references: not a preview either that is      *)
(* offered for an item that has not changed since it was fetched.          *)
OfferedIsReferenced ==
  scan.phase = "done" =>
    \A e \in records \intersect scan.rows :
      media[e] = scan.media[e] => scan.orphans \intersect Offered(media[e]) = {}

(* run_check's severity.                                                   *)
Missing(refs) == {ref \in refs : scan.found[ref[1]] = "no"}
Broken(e) == \E ref \in Missing(scan.refs[e]) : ref[2]
Problem(e) == Missing(scan.refs[e]) # {}

(* A row is reported as broken only if something it cannot be opened       *)
(* without was missing, and as a problem only if something it refers to    *)
(* was missing, directly (previews: if it was ready) or through its lists. *)
(* Nothing missing is overlooked that can be found through lists that were *)
(* readable; and it is called broken if a file, a frame or a list that     *)
(* only the delivered file leads to needs it: what the dedup list leads to *)
(* as well counts as optional.                                             *)
SeverityExact ==
  scan.phase = "done" =>
    \A e \in scan.rows :
      LET lost(set) == \E b \in set : scan.found[b] = "no"
          own == BlobsOf(Direct(e, scan.media[e])) IN
      /\ Broken(e) => lost(Required(e, AllLists))
      /\ Problem(e) => lost(own \union Chained(e, AllLists))
      /\ lost(own \union Chained(e, Legible)) => Problem(e)
      /\ lost(RequiredFirst(e, Legible)) => Broken(e)
=============================================================================
