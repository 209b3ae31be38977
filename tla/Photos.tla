------------------------------- MODULE Photos -------------------------------
(***************************************************************************)
(* internal/media and the photo part of PATCH /me: one profile's photo     *)
(* rows and the stored files.  Every SQL statement and every call of the   *)
(* store is a step of its own, except that reorder's transaction is one.   *)
(* The three sizes of an image share a name and count as one file, which   *)
(* is there when all three are.                                            *)
(***************************************************************************)
EXTENDS Naturals, Sequences, SequencesExt, FiniteSetsExt

CONSTANTS
    Requests,     \* concurrent requests of the profile's owner
    Images,       \* the bytes of an upload, and the name they are stored under
    NoImage,
    MaxPhotos,    \* maxPhotosPerProfile (6 in the code)
    Shift,        \* how far reorder moves rows out of the way (100)
    MaxPosition,  \* the largest position (a smallint)
    MaxIds,       \* bound: rows ever inserted
    MaxNamed      \* bound: ids or URLs named in one request

ASSUME PhotosAssumption ==
    /\ IsFiniteSet(Requests)
    /\ NoImage \notin Images
    /\ MaxPhotos \in Nat \ {0}
    /\ Shift \in Nat /\ Shift > MaxPhotos
    /\ MaxPosition \in Nat /\ MaxPosition >= Shift
    /\ MaxIds \in Nat /\ MaxNamed \in Nat

VARIABLES
    photos,   \* profile_photos rows
    files,    \* images in the object store
    req,      \* where each request is
    issued,   \* how many rows were ever inserted
    stored    \* history: images that were put into the store more than once

photoVars == <<photos, files, req, issued, stored>>

PhotoIds == 1..MaxIds

Photo == [id : PhotoIds, position : 0..MaxPosition, image : Images]

Request == [pc : {"idle", "counted", "put", "deleting", "unlinking",
                  "closing", "reordering"},
            count : 0..MaxPhotos, image : Images \cup {NoImage},
            todo : Seq(PhotoIds), keep : Seq(PhotoIds)]

Idle == [pc |-> "idle", count |-> 0, image |-> NoImage,
         todo |-> <<>>, keep |-> <<>>]

\* unique (user_id, position) is part of the table's type.
PhotosTypeOK ==
    /\ photos \subseteq Photo
    /\ \A p, q \in photos : p.id = q.id \/ p.position = q.position => p = q
    /\ \A p \in photos : p.id <= issued
    /\ files \subseteq Images
    /\ req \in [Requests -> Request]
    /\ issued \in 0..MaxIds
    /\ stored \in [Images -> {"never", "once", "again"}]

PhotosInit ==
    /\ photos = {}
    /\ files = {}
    /\ req = [r \in Requests |-> Idle]
    /\ issued = 0
    /\ stored = [k \in Images |-> "never"]

----------------------------------------------------------------------------

\* list: the ids in the order of their positions.
Listed ==
    LET rows == SetToSortSeq(photos, LAMBDA p, q : p.position < q.position)
    IN  [n \in DOMAIN rows |-> rows[n].id]

\* A statement that renumbers rows checks the unique positions as it goes, in
\* an order it does not fix: it may fail when it gives a row the position that
\* another row still has.
MayCollide(new(_)) ==
    \E p, q \in photos : p # q /\ new(p) = q.position

Placed(new(_)) == {[p EXCEPT !.position = new(p)] : p \in photos}

\* The deletes of a request, one after the other, then its reorder.
Phase(todo, keep) ==
    [Idle EXCEPT !.pc = IF todo # <<>> THEN "deleting"
                        ELSE IF keep # <<>> THEN "reordering" ELSE "idle",
                 !.todo = todo, !.keep = keep]

\* The request is over, whether it succeeded or failed.
End(r) == req' = [req EXCEPT ![r] = Idle]

----------------------------------------------------------------------------

\* Bug: the limit is compared with the wrong sign of equality.
MutantUpload(r, k) ==
    /\ req[r].pc = "idle"
    /\ Cardinality(photos) <= MaxPhotos
    /\ req' = [req EXCEPT ![r] = [Idle EXCEPT !.pc = "counted", !.image = k,
                                              !.count = Min({Cardinality(photos), MaxPhotos})]]
    /\ UNCHANGED <<photos, files, issued, stored>>

\* handleUpload counts the rows before it processes the image.
Upload(r, k) ==
    /\ req[r].pc = "idle"
    /\ Cardinality(photos) < MaxPhotos
    /\ req' = [req EXCEPT ![r] = [Idle EXCEPT !.pc = "counted", !.image = k,
                                              !.count = Cardinality(photos)]]
    /\ UNCHANGED <<photos, files, issued, stored>>

\* Bug: a failure of the store is ignored, as it is in deletePhoto.
MutantPut(r) ==
    /\ req[r].pc = "counted"
    /\ files' \in {files, files \cup {req[r].image}}
    /\ stored' = [stored EXCEPT ![req[r].image] =
                     IF @ = "never" THEN "once" ELSE "again"]
    /\ req' = [req EXCEPT ![r].pc = "put"]
    /\ UNCHANGED <<photos, issued>>

\* Store bytes before the row.
Put(r) ==
    /\ req[r].pc = "counted"
    /\ files' = files \cup {req[r].image}
    /\ stored' = [stored EXCEPT ![req[r].image] =
                     IF @ = "never" THEN "once" ELSE "again"]
    /\ req' = [req EXCEPT ![r].pc = "put"]
    /\ UNCHANGED <<photos, issued>>

\* The row takes the position that was counted; if another row has it by now,
\* the insert fails and the file stays.
Insert(r) ==
    /\ req[r].pc = "put"
    /\ issued < MaxIds
    /\ IF \E p \in photos : p.position = req[r].count
       THEN UNCHANGED <<photos, issued>>
       ELSE /\ issued' = issued + 1
            /\ photos' = photos \cup {[id |-> issued + 1,
                                       position |-> req[r].count,
                                       image |-> req[r].image]}
    /\ End(r)
    /\ UNCHANGED <<files, stored>>

----------------------------------------------------------------------------

\* The first statement of deletePhoto, which then owns the file's name.
DeleteRow(r, p, todo, keep) ==
    /\ photos' = photos \ {p}
    /\ req' = [req EXCEPT ![r] = [pc |-> "unlinking", count |-> 0,
                                  image |-> p.image,
                                  todo |-> todo, keep |-> keep]]
    /\ UNCHANGED <<files, issued, stored>>

Delete(r) ==
    /\ req[r].pc = "idle"
    /\ \E p \in photos : DeleteRow(r, p, <<>>, <<>>)

\* An error of the store is ignored.
Unlink(r) ==
    /\ req[r].pc = "unlinking"
    /\ files' \in {files, files \ {req[r].image}}
    /\ req' = [req EXCEPT ![r].pc = "closing"]
    /\ UNCHANGED <<photos, issued, stored>>

\* Close the gap the delete left, so positions stay 0..n-1.
Rank(p) == Cardinality({q \in photos : q.position < p.position})

CloseGap(r) ==
    /\ req[r].pc = "closing"
    /\ \/ /\ photos' = Placed(Rank)
          /\ req' = [req EXCEPT ![r] = Phase(@.todo, @.keep)]
       \/ /\ MayCollide(Rank)
          /\ photos' = photos
          /\ End(r)
    /\ UNCHANGED <<files, issued, stored>>

----------------------------------------------------------------------------

Shifted(p) == p.position + Shift

\* Every row moves out of the way, then the listed ones take their places.
Reordered(ids) ==
    LET Place(p) == IF \E n \in DOMAIN ids : ids[n] = p.id
                    THEN Max({n \in DOMAIN ids : ids[n] = p.id}) - 1
                    ELSE Shifted(p)
    IN  Placed(Place)

CanShift == \A p \in photos : Shifted(p) <= MaxPosition

\* PATCH /me/photos/order, with whatever ids the client names: an id twice, only
\* some of the rows, or rows that are gone, which the updates do not find.
Reorder(r, ids) ==
    /\ req[r].pc = "idle"
    /\ CanShift
    /\ photos' = Reordered(ids)
    /\ UNCHANGED <<files, req, issued, stored>>

\* The photo a URL names: names are shared by equal images, and the last row
\* of the list wins.
Named(k) ==
    CHOOSE p \in photos :
        p.image = k /\ \A q \in photos : q.image = k => q.position <= p.position

\* Reconcile reads the list: what the URLs do not name is to be deleted.  A URL
\* that names a photo again is skipped, so no image is given twice.
Save(r, urls) ==
    LET keep == [n \in DOMAIN urls |-> Named(urls[n]).id]
    IN  /\ req[r].pc = "idle"
        /\ Range(urls) \subseteq {p.image : p \in photos}
        /\ req' = [req EXCEPT ![r] =
                      Phase(SelectSeq(Listed, LAMBDA i : i \notin Range(keep)),
                            keep)]
        /\ UNCHANGED <<photos, files, issued, stored>>

\* A photo that is gone already ends the whole save.
DeleteNext(r) ==
    /\ req[r].pc = "deleting"
    /\ IF \E p \in photos : p.id = Head(req[r].todo)
       THEN \E p \in photos :
               /\ p.id = Head(req[r].todo)
               /\ DeleteRow(r, p, Tail(req[r].todo), req[r].keep)
       ELSE End(r) /\ UNCHANGED <<photos, files, issued, stored>>

ReorderKept(r) ==
    /\ req[r].pc = "reordering"
    /\ \/ CanShift /\ photos' = Reordered(req[r].keep)
       \/ (~ CanShift \/ MayCollide(Shifted)) /\ photos' = photos
    /\ End(r)
    /\ UNCHANGED <<files, issued, stored>>

\* The client goes away, the store fails to write, a statement fails or the
\* process stops.
AbortUpload(r) ==
    /\ req[r].pc # "idle"
    /\ End(r)
    /\ UNCHANGED <<photos, files, issued, stored>>

PhotosNext ==
    \E r \in Requests :
        \/ \E k \in Images : Upload(r, k)
        \/ Put(r) \/ Insert(r)
        \/ Delete(r) \/ Unlink(r) \/ CloseGap(r)
        \/ \E ids \in SeqOf(1..issued, MaxNamed) \ {<<>>} : Reorder(r, ids)
        \/ \E urls \in SeqOf(Images, MaxNamed) :
               IsInjective(urls) /\ Save(r, urls)
        \/ DeleteNext(r) \/ ReorderKept(r) \/ AbortUpload(r)

PhotosSpec == PhotosInit /\ [][PhotosNext]_photoVars

----------------------------------------------------------------------------

\* "A row pointing at a missing file is a broken image": a photo whose file is
\* missing shares its name with another upload of the same bytes.  Bytes are
\* stored before their row and deleted after it, whoever fails in between.
BrokenOnlyIfShared ==
    \A p \in photos : p.image \notin files => stored[p.image] = "again"

\* "You can have at most 6 photos": uploads that counted before the limit was
\* reached may still go over it, by one each and no more.
OvershootBounded ==
    LET late == {r \in Requests : req[r].pc \in {"counted", "put"}}
    IN  Cardinality(photos) + Cardinality(late)
            <= MaxPhotos + Cardinality(Requests) - 1

\* "A row pointing at a missing file is a broken image in someone's profile":
\* equal bytes share one stored object, which goes with the first of them.
NoBrokenImage == \A p \in photos : p.image \in files
=============================================================================
