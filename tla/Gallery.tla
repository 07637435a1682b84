-------------------------------- MODULE Gallery --------------------------------
(***************************************************************************)
(* Files of one user in the store (ramupin-server/src/media, the photos of *)
(* chat and the recordings of SOS).  The app asks for addresses, puts the  *)
(* files there itself and then makes posts in several rooms, a message, or *)
(* attaches a recording.  No transaction spans the steps; every request    *)
(* for an address first clears away what was not uploaded within an hour.  *)
(* A retry of the app starts over with new addresses, so an address is     *)
(* used once.  All files are of one size.                                  *)
(***************************************************************************)
EXTENDS Naturals, FiniteSets

CONSTANTS
  Photos,       \* files the app may upload: pictures and videos ...
  Recordings,   \* ... and recordings of an SOS each
  Rooms,        \* rooms the user may post in
  GalleryCalls, \* calls under way at the same time
  Quota         \* files the plan allows, recordings aside

ASSUME GalleryAssumption ==
  /\ Photos \cap Recordings = {}
  /\ Quota \in Nat

VARIABLES
  asset,    \* asset[a]: the row of the file a in media.assets
  old,      \* files whose rows were made an hour ago
  inStore,  \* files that are in the store
  ready,    \* sets of files whose addresses the app holds
  posts,    \* the rows of media.posts that are not hidden, with what media.post_assets has of them
  messages, \* photos that messages show
  attached, \* recordings that SOS rows refer to
  handling  \* handling[c]: how far the call c is

galleryVars == <<asset, old, inStore, ready, posts, messages, attached, handling>>

Files == Photos \cup Recordings

Post(room, of, shown) == [room |-> room, of |-> of, shown |-> shown]

\* files: those of the call; read: what it read before or deleted; rooms: still to do.
Handling(pc, files, read, rooms) == [pc |-> pc, files |-> files, read |-> read, rooms |-> rooms]

NotHandling == Handling("idle", {}, {}, {})

GalleryPcs ==
  {"idle", "sweep", "quota", "insert", "verify", "check", "refuse", "update", "post", "show",
   "mark", "send", "refer"}

GalleryInit ==
  /\ asset = [a \in Files |-> "none"]
  /\ old = {}
  /\ inStore = {}
  /\ ready = {}
  /\ posts = {}
  /\ messages = {}
  /\ attached = {}
  /\ handling = [c \in GalleryCalls |-> NotHandling]

----------------------------------------------------------------------------
(* Steps of the calls.                                                     *)

StartsHandling(c, h) ==
  /\ handling[c] = NotHandling
  /\ handling' = [handling EXCEPT ![c] = h]

Turns(c, from, to) ==
  /\ handling[c].pc = from
  /\ handling' = [handling EXCEPT ![c].pc = to]

Finishes(c, from) ==
  /\ handling[c].pc = from
  /\ handling' = [handling EXCEPT ![c] = NotHandling]

Thy(c) == handling[c].files

\* Deleting rows takes what refers to them along: CASCADE in post_assets, SET NULL in
\* the messages and the SOS rows.
DeleteRows(gone) ==
  /\ asset' = [a \in Files |-> IF a \in gone THEN "gone" ELSE asset[a]]
  /\ posts' = {[p EXCEPT !.shown = @ \ gone] : p \in posts}
  /\ messages' = messages \ gone
  /\ attached' = attached \ gone

Uploaded == {a \in Photos : asset[a] = "uploaded"}

----------------------------------------------------------------------------
(* uploadTargets.                                                          *)

\* Mutation: all rows that are old, whether their files were uploaded or not.
StaleOld(a) == asset[a] \in {"pending", "uploaded"} /\ a \in old

\* Rows an hour old that nobody has marked as uploaded.
Stale(a) == asset[a] = "pending" /\ a \in old

\* For photos, or for a recording.  The call starts with clearing away what is stale.
UploadTargets(c, files) ==
  /\ files \subseteq Photos \/ \E a \in Recordings : files = {a}
  /\ \A a \in files : asset[a] = "none"
  /\ \A d \in GalleryCalls : files \cap handling[d].files = {}
  /\ StartsHandling(c, Handling("sweep", files, {a \in Files : Stale(a)}, {}))
  /\ DeleteRows({a \in Files : Stale(a)})
  /\ UNCHANGED <<old, inStore, ready>>

\* Their files are removed from the store afterwards.
RemoveStale(c) ==
  /\ Turns(c, "sweep", "quota")
  /\ inStore' = inStore \ handling[c].read
  /\ UNCHANGED <<asset, old, ready, posts, messages, attached>>

\* Recordings are not counted.
CheckDeclared(c) ==
  /\ handling[c].pc = "quota"
  /\ handling' = [handling EXCEPT ![c] =
       IF \/ Thy(c) \subseteq Recordings
          \/ Cardinality(Uploaded) + Cardinality(Thy(c)) <= Quota
       THEN Handling("insert", Thy(c), {}, {}) ELSE NotHandling]
  /\ UNCHANGED <<asset, old, inStore, ready, posts, messages, attached>>

InsertTargets(c) ==
  /\ Finishes(c, "insert")
  /\ asset' = [a \in Files |-> IF a \in Thy(c) THEN "pending" ELSE asset[a]]
  /\ ready' = ready \cup {Thy(c)}
  /\ UNCHANGED <<old, inStore, posts, messages, attached>>

\* The app puts a file at its address, which is good for ten minutes only.
PutFile(a) ==
  /\ \E files \in ready : a \in files
  /\ a \notin old
  /\ a \notin inStore
  /\ inStore' = inStore \cup {a}
  /\ UNCHANGED <<asset, old, ready, posts, messages, attached, handling>>

\* An hour is over; the address was no longer used by then.
FileAges(a) ==
  /\ asset[a] \in {"pending", "uploaded"}
  /\ a \notin old
  /\ old' = old \cup {a}
  /\ UNCHANGED <<asset, inStore, ready, posts, messages, attached, handling>>

----------------------------------------------------------------------------
(* createPost.                                                             *)

\* The app has put all files; it asks once.
Uses(files) ==
  /\ files \in ready
  /\ \A a \in files : a \in inStore \/ asset[a] = "gone"
  /\ ready' = ready \ {files}

\* All rows must be there; which of them are new is remembered.
CreatePost(c, files, rooms) ==
  /\ files \subseteq Photos
  /\ Uses(files)
  /\ \A a \in files : asset[a] \in {"pending", "uploaded"}
  /\ StartsHandling(c, Handling("verify", files, {a \in files : asset[a] = "pending"}, rooms))
  /\ UNCHANGED <<asset, old, inStore, posts, messages, attached>>

VerifyUploads(c) ==
  /\ handling[c].pc = "verify"
  /\ handling' = [handling EXCEPT ![c] =
       IF Thy(c) \subseteq inStore THEN [@ EXCEPT !.pc = "check"] ELSE NotHandling]
  /\ UNCHANGED <<asset, old, inStore, ready, posts, messages, attached>>

\* assertQuotaForRealSize: too much, and the new files are deleted again.
CheckReal(c) ==
  LET much == /\ handling[c].read # {}
              /\ Cardinality(Uploaded) + Cardinality(handling[c].read) > Quota
  IN  /\ Turns(c, "check", IF much THEN "refuse" ELSE "update")
      /\ UNCHANGED <<asset, old, inStore, ready, posts, messages, attached>>

RefusePost(c) ==
  /\ Finishes(c, "refuse")
  /\ DeleteRows(handling[c].read)
  /\ inStore' = inStore \ handling[c].read
  /\ UNCHANGED <<old, ready>>

\* The rows that are still there become uploaded.
Marked(files) ==
  [a \in Files |-> IF a \in files /\ asset[a] = "pending" THEN "uploaded" ELSE asset[a]]

MarkUploaded(c) ==
  /\ Turns(c, "update", "post")
  /\ asset' = Marked(Thy(c))
  /\ UNCHANGED <<old, inStore, ready, posts, messages, attached>>

\* A post for one room after the other ...
NextRoom(c) == CHOOSE room \in handling[c].rooms : TRUE

InsertPost(c) ==
  /\ Turns(c, "post", "show")
  /\ posts' = posts \cup {Post(NextRoom(c), Thy(c), {})}
  /\ UNCHANGED <<asset, old, inStore, ready, messages, attached>>

\* ... and its photos, which fails when a file is gone.
ShowPhotos(c) ==
  LET there == \A a \in Thy(c) : asset[a] = "uploaded"
      left == handling[c].rooms \ {NextRoom(c)}
  IN  /\ handling[c].pc = "show"
      /\ posts' = {IF p.room = NextRoom(c) /\ p.of = Thy(c) /\ there
                   THEN [p EXCEPT !.shown = Thy(c)] ELSE p : p \in posts}
      /\ handling' = [handling EXCEPT ![c] =
           IF there /\ left # {} THEN Handling("post", Thy(c), {}, left) ELSE NotHandling]
      /\ UNCHANGED <<asset, old, inStore, ready, messages, attached>>

\* remove: the post is hidden for good; its photos stay where they are.
RemovePost(p) ==
  /\ posts' = posts \ {p}
  /\ UNCHANGED <<asset, old, inStore, ready, messages, attached, handling>>

----------------------------------------------------------------------------
(* A photo in a message (chat.service.ts, send and claimPhoto), and the    *)
(* recording of an SOS (sos.service.ts, attachAudio).                      *)

\* The photo must be there, in the table and in the store.
SendPhoto(c, a) ==
  /\ a \in Photos
  /\ Uses({a})
  /\ asset[a] = "pending" /\ a \in inStore
  /\ StartsHandling(c, Handling("mark", {a}, {}, {}))
  /\ UNCHANGED <<asset, old, inStore, posts, messages, attached>>

MarkPhoto(c) ==
  /\ Turns(c, "mark", "send")
  /\ asset' = Marked(Thy(c))
  /\ UNCHANGED <<old, inStore, ready, posts, messages, attached>>

InsertMessage(c) ==
  /\ Finishes(c, "send")
  /\ messages' = messages \cup {a \in Thy(c) : asset[a] = "uploaded"}
  /\ UNCHANGED <<asset, old, inStore, ready, posts, attached>>

AttachAudio(c, a) ==
  /\ a \in Recordings
  /\ Uses({a})
  /\ asset[a] = "pending"
  /\ StartsHandling(c, Handling("refer", {a}, {}, {}))
  /\ UNCHANGED <<asset, old, inStore, posts, messages, attached>>

ReferRecording(c) ==
  /\ Finishes(c, "refer")
  /\ attached' = attached \cup {a \in Thy(c) : asset[a] = "pending"}
  /\ UNCHANGED <<asset, old, inStore, ready, posts, messages>>

\* A statement or the store fails, or the server dies.
HandlingFails(c) ==
  /\ handling[c] # NotHandling
  /\ handling' = [handling EXCEPT ![c] = NotHandling]
  /\ UNCHANGED <<asset, old, inStore, ready, posts, messages, attached>>

GalleryNext ==
  \/ \E c \in GalleryCalls :
       \/ \E files \in SUBSET Files \ {{}} :
            \/ UploadTargets(c, files)
            \/ \E rooms \in SUBSET Rooms \ {{}} : CreatePost(c, files, rooms)
       \/ \E a \in Files : SendPhoto(c, a) \/ AttachAudio(c, a)
       \/ RemoveStale(c) \/ CheckDeclared(c) \/ InsertTargets(c)
       \/ VerifyUploads(c) \/ CheckReal(c) \/ RefusePost(c) \/ MarkUploaded(c)
       \/ InsertPost(c) \/ ShowPhotos(c) \/ MarkPhoto(c) \/ InsertMessage(c)
       \/ ReferRecording(c) \/ HandlingFails(c)
  \/ \E a \in Files : PutFile(a) \/ FileAges(a)
  \/ \E p \in posts : RemovePost(p)

GallerySpec == GalleryInit /\ [][GalleryNext]_galleryVars

----------------------------------------------------------------------------
(* Properties.                                                             *)

\* Types of the variables.
GalleryTypeOK ==
  /\ asset \in [Files -> {"none", "pending", "uploaded", "gone"}]
  /\ old \subseteq Files /\ inStore \subseteq Files
  /\ ready \subseteq SUBSET Files
  /\ posts \subseteq [room: Rooms, of: SUBSET Files, shown: SUBSET Files]
  /\ messages \subseteq Photos /\ attached \subseteq Recordings
  /\ \A c \in GalleryCalls : handling[c].pc \in GalleryPcs

Shown == messages \cup UNION {p.shown : p \in posts}

\* What a post or a message shows stays, in the store as well, whoever asks for addresses
\* meanwhile and whichever call is refused; and a post shows all of its photos or none
\* (media.module.ts, dropStalePending, assertQuotaForRealSize and createPost).
ShownStays ==
  [][/\ messages \subseteq messages'
     /\ \A p \in posts : posts' = posts \ {p} \/ \E q \in posts' :
          q.room = p.room /\ q.of = p.of /\ q.shown \in {p.shown, p.of}
     /\ Shown' \subseteq inStore']_galleryVars

\* A recording an SOS refers to stays (sos.service.ts:279, a recording that is attached is
\* not changed; media.module.ts:367, only what was not uploaded is cleared away).
RecordingsStay == [][attached \subseteq attached']_galleryVars
=============================================================================
