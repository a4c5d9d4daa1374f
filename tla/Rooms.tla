-------------------------------- MODULE Rooms --------------------------------
(***************************************************************************)
(* The life of rooms: creation, changes of the settings, the deletion by   *)
(* the owner, which only dates the row, and the nightly job that removes   *)
(* rooms deleted for longer than a day, each in three places: the row, the *)
(* directory of uploaded images and the cache of messages.  Who is in a    *)
(* room when it is deleted is in RoomPresence.                             *)
(*                                                                         *)
(* room_summaries refers to the row of its room and, unlike messages and   *)
(* room users, does not go with it: with the foreign keys that             *)
(* "synchronize" creates, MySQL refuses to delete the row of a room that   *)
(* has a summary.                                                          *)
(*                                                                         *)
(* A step is one SQL statement, one Redis command or one operation on      *)
(* files.  No request lasts as long as a day.                              *)
(***************************************************************************)
EXTENDS Naturals

CONSTANTS
    Rooms,      \* ids of rows
    Processes,  \* server processes; each has the cron job
    Changed,    \* bound: rooms whose settings are changed
    Used,       \* bound: rooms that messages and an image are sent to
    MaxFaults,  \* bound on failed or stopped jobs
    NoRoom      \* no room

ASSUME RoomsAssumption ==
    /\ NoRoom \notin Rooms /\ Changed \cup Used \subseteq Rooms
    /\ MaxFaults \in Nat

VARIABLES
    age,        \* the row: does it exist, since when is it deleted?
    summed,     \* rooms with a row in room_summaries
    cached,     \* rooms with a room:messages list
    dirs,       \* rooms with a directory of uploads
    loaded,     \* rooms whose owner's updateRoom has read the row
    nightLock,  \* lock:delete-old-rooms
    job,        \* deleteOldRooms in each process
    image,      \* the upload of an image and its thumbnail
    faults,     \* failures so far
    orphaned    \* history: rooms whose removal was cut short, or had no job

roomsVars == <<age, summed, cached, dirs, loaded, nightLock, job, image, faults, orphaned>>
outside == <<summed, cached, dirs>>

Files == {"file", "thumb"}
Ages == {"new", "live", "deleted", "old", "gone"}

(* at: the room being removed; left: the rooms that find returned.          *)
Job == [pc: {"idle", "find", "row", "files", "cache"}, at: Rooms \cup {NoRoom},
        left: SUBSET Rooms]
Resting == [pc |-> "idle", at |-> NoRoom, left |-> {}]

(* write: of each file; unlink: are the two calls under way? disk: the files *)
(* that exist; answer: to the client; missed: unlink came before the file.  *)
Image == [room: Rooms \cup {NoRoom}, write: [Files -> {"todo", "open", "done", "failed"}],
          unlink: BOOLEAN, disk: SUBSET Files,
          answer: {"none", "names", "sent", "refused"}, missed: BOOLEAN]
NoImage == [room |-> NoRoom, write |-> [f \in Files |-> "todo"], unlink |-> FALSE, disk |-> {},
            answer |-> "none", missed |-> FALSE]

Exists(r) == age[r] \in {"live", "deleted", "old"}
Settled == ~image.unlink /\ \A f \in Files: image.write[f] \in {"done", "failed"}

RoomsInit ==
    /\ age = [r \in Rooms |-> "new"]
    /\ summed = {} /\ cached = {} /\ dirs = {} /\ loaded = {}
    /\ nightLock = FALSE /\ job = [p \in Processes |-> Resting]
    /\ image = NoImage /\ faults = 0 /\ orphaned = {}

-----------------------------------------------------------------------------
(* Requests.                                                                *)

CreateRoom(r) ==
    /\ age[r] = "new"
    /\ age' = [age EXCEPT ![r] = "live"]
    /\ UNCHANGED <<outside, loaded, nightLock, job, image, faults, orphaned>>

(* updateRoom: findOne, which sees no deleted rooms.                        *)
LoadRoom(r) ==
    /\ r \in Changed \ loaded /\ age[r] = "live"
    /\ loaded' = loaded \cup {r}
    /\ UNCHANGED <<age, outside, nightLock, job, image, faults, orphaned>>

(* updateRoom: save writes what differs from the row, deletedAt as well, so  *)
(* that it takes back a deletion from the time of the bcrypt call.          *)
SaveRoom(r) ==
    /\ r \in loaded
    /\ loaded' = loaded \ {r}
    /\ age' = [age EXCEPT ![r] = "live"]
    /\ UNCHANGED <<outside, nightLock, job, image, faults, orphaned>>

(* The change fails. *)
UpdateFails(r) ==
    /\ r \in loaded
    /\ loaded' = loaded \ {r}
    /\ UNCHANGED <<age, outside, nightLock, job, image, faults, orphaned>>

(* softDeleteRoom does not look whether the row is deleted already.         *)
SoftDeleteRoom(r) ==
    /\ Exists(r)
    /\ age' = [age EXCEPT ![r] = "deleted"]
    /\ UNCHANGED <<outside, loaded, nightLock, job, image, faults, orphaned>>

(* The row of the owner is removed and takes the room's with it; there is no *)
(* job for the rest.  Not during an update by the owner.                    *)
OwnerRemoved(r) ==
    /\ Exists(r) /\ r \notin summed /\ r \notin loaded
    /\ age' = [age EXCEPT ![r] = "gone"]
    /\ orphaned' = orphaned \cup {r}
    /\ UNCHANGED <<outside, loaded, nightLock, job, image, faults>>

(* createMessage pushes into the cache of a room whose row it has found.    *)
PostIn(r) ==
    /\ r \in Used /\ age[r] = "live"
    /\ cached' = cached \cup {r}
    /\ UNCHANGED <<age, summed, dirs, loaded, nightLock, job, image, faults, orphaned>>

(* upsert of getAiMessagesSummary, which does not look for the room.        *)
Summarise(r) ==
    /\ Exists(r) /\ r \in cached
    /\ summed' = summed \cup {r}
    /\ UNCHANGED <<age, cached, dirs, loaded, nightLock, job, image, faults, orphaned>>

(* A day has passed: no request of before is under way.                     *)
DayPasses(r) ==
    /\ age[r] = "deleted" /\ r \notin loaded
    /\ image.room = r => Settled
    /\ age' = [age EXCEPT ![r] = "old"]
    /\ UNCHANGED <<outside, loaded, nightLock, job, image, faults, orphaned>>

-----------------------------------------------------------------------------
(* uploadFile: the room is looked up, the directory made, and both files    *)
(* are written at once.                                                     *)
BeginUpload(r) ==
    /\ r \in Used /\ image = NoImage /\ age[r] = "live"
    /\ image' = [NoImage EXCEPT !.room = r]
    /\ dirs' = dirs \cup {r}
    /\ UNCHANGED <<age, summed, cached, loaded, nightLock, job, faults, orphaned>>

(* writeFile creates the file. *)
OpenFile(f) ==
    /\ image.room \in dirs /\ image.write[f] = "todo"
    /\ image' = [image EXCEPT !.write[f] = "open", !.disk = @ \cup {f}]
    /\ UNCHANGED <<age, outside, loaded, nightLock, job, faults, orphaned>>

(* Mutant: the client is answered when the first file is there. *)
FirstIsEnough(w) == \E f \in Files: w[f] = "done"

(* Promise.all is fulfilled. *)
BothWritten(w) == \A f \in Files: w[f] = "done"

FileDone(f) ==
    /\ image.write[f] = "open"
    /\ LET w == [image.write EXCEPT ![f] = "done"] IN
         image' = [image EXCEPT !.write = w,
                     !.answer = IF @ = "none" /\ BothWritten(w) THEN "names" ELSE @]
    /\ UNCHANGED <<age, outside, loaded, nightLock, job, faults, orphaned>>

(* writeFile fails, before or after it has created the file.  The first      *)
(* failure starts both unlinks; the other file may still be on its way.     *)
FileFails(f) ==
    /\ image.room # NoRoom /\ image.write[f] \in {"todo", "open"}
    /\ image' = [image EXCEPT !.write[f] = "failed",
                   !.unlink = @ \/ image.answer = "none",
                   !.answer = IF @ = "none" THEN "refused" ELSE @]
    /\ UNCHANGED <<age, outside, loaded, nightLock, job, faults, orphaned>>

(* handleFileChange: with the names the client sends the message about the   *)
(* image, which createMessage takes while the room is there.                *)
SendImage ==
    /\ image.answer = "names" /\ age[image.room] = "live"
    /\ image' = [image EXCEPT !.answer = "sent"]
    /\ cached' = cached \cup {image.room}
    /\ UNCHANGED <<age, summed, dirs, loaded, nightLock, job, faults, orphaned>>

(* Of the two calls only the one for the file still being written can come   *)
(* too early, so that both are one step.                                    *)
Unlink ==
    /\ image.unlink
    /\ image' = [image EXCEPT !.unlink = FALSE, !.disk = {},
                   !.missed = \E f \in Files: image.write[f] = "todo"]
    /\ UNCHANGED <<age, outside, loaded, nightLock, job, faults, orphaned>>

-----------------------------------------------------------------------------
(* deleteOldRooms in process p.                                             *)

(* 1 a.m.: the job begins with the lock.  The processes need not be there at *)
(* the same moment.                                                         *)
Night(p) ==
    /\ job[p].pc = "idle" /\ ~nightLock
    /\ nightLock' = TRUE
    /\ job' = [job EXCEPT ![p].pc = "find"]
    /\ UNCHANGED <<age, outside, loaded, image, faults, orphaned>>

(* Mutant: the lock has no expiry. *)
LockForever == FALSE

(* The lock is not given back: it expires after 60 seconds, whether the job  *)
(* is done or not.                                                          *)
NightLockExpires ==
    /\ nightLock
    /\ nightLock' = FALSE
    /\ UNCHANGED <<age, outside, loaded, job, image, faults, orphaned>>

(* Mutant: every deleted room is old enough. *)
AnyDeleted == {r \in Rooms: age[r] \in {"deleted", "old"}}

(* LessThan(oneWeekAgo), which is one day ago. *)
Expired == {r \in Rooms: age[r] = "old"}

FindOldRooms(p) ==
    /\ job[p].pc = "find"
    /\ job' = [job EXCEPT ![p] = IF Expired = {} THEN Resting
                                 ELSE [pc |-> "row", at |-> NoRoom, left |-> Expired]]
    /\ UNCHANGED <<age, outside, loaded, nightLock, image, faults, orphaned>>

(* No row of room_summaries refers to the room. *)
CanDelete(r) == r \notin summed

(* DELETE of the next row; where the foreign key forbids it, the error ends  *)
(* the job of this night.  The row may be gone: that is no error.           *)
DeleteRow(p) ==
    \E r \in job[p].left:
        /\ job[p].pc = "row"
        /\ IF Exists(r) /\ ~CanDelete(r)
           THEN job' = [job EXCEPT ![p] = Resting] /\ UNCHANGED age
           ELSE /\ job' = [job EXCEPT ![p] = [pc |-> "files", at |-> r, left |-> @.left \ {r}]]
                /\ age' = [age EXCEPT ![r] = "gone"]
        /\ UNCHANGED <<outside, loaded, nightLock, image, faults, orphaned>>

(* existsSync and rm. *)
RemoveFiles(p) ==
    LET r == job[p].at IN
    /\ job[p].pc = "files"
    /\ dirs' = dirs \ {r}
    /\ image' = IF image.room = r THEN [image EXCEPT !.disk = {}] ELSE image
    /\ job' = [job EXCEPT ![p].pc = "cache"]
    /\ UNCHANGED <<age, summed, cached, loaded, nightLock, faults, orphaned>>

(* rm fails, which is only logged. *)
FilesStay(p) ==
    /\ job[p].pc = "files" /\ job[p].at \in dirs /\ faults < MaxFaults
    /\ job' = [job EXCEPT ![p].pc = "cache"]
    /\ faults' = faults + 1
    /\ orphaned' = orphaned \cup {job[p].at}
    /\ UNCHANGED <<age, outside, loaded, nightLock, image>>

(* Mutant: the cache stays. *)
KeepCache(p) ==
    /\ job[p].pc = "cache"
    /\ job' = [job EXCEPT ![p] = IF @.left = {} THEN Resting
                                 ELSE [pc |-> "row", at |-> NoRoom, left |-> @.left]]
    /\ UNCHANGED <<age, outside, loaded, nightLock, image, faults, orphaned>>

(* delRoomMessageCacheAll, and on to the next room. *)
RemoveCache(p) ==
    /\ job[p].pc = "cache"
    /\ cached' = cached \ {job[p].at}
    /\ job' = [job EXCEPT ![p] = IF @.left = {} THEN Resting
                                 ELSE [pc |-> "row", at |-> NoRoom, left |-> @.left]]
    /\ UNCHANGED <<age, summed, dirs, loaded, nightLock, image, faults, orphaned>>

(* MySQL or Redis does not answer, or the process stops.                    *)
JobStops(p) ==
    /\ job[p].pc # "idle" /\ faults < MaxFaults
    /\ faults' = faults + 1
    /\ job' = [job EXCEPT ![p] = Resting]
    /\ orphaned' = orphaned \cup ({job[p].at} \ {NoRoom})
    /\ UNCHANGED <<age, outside, loaded, nightLock, image>>

-----------------------------------------------------------------------------
JobStep(p) == FindOldRooms(p) \/ DeleteRow(p) \/ RemoveFiles(p) \/ RemoveCache(p)
NightComes == \E p \in Processes: Night(p)

RoomsNext ==
    \/ \E r \in Rooms:
         \/ CreateRoom(r) \/ LoadRoom(r) \/ SaveRoom(r) \/ UpdateFails(r) \/ SoftDeleteRoom(r)
         \/ OwnerRemoved(r) \/ PostIn(r) \/ Summarise(r) \/ DayPasses(r) \/ BeginUpload(r)
    \/ \E f \in Files: OpenFile(f) \/ FileDone(f) \/ FileFails(f)
    \/ SendImage \/ Unlink \/ NightLockExpires
    \/ \E p \in Processes: Night(p) \/ JobStep(p) \/ FilesStay(p) \/ JobStops(p)

RoomsSpec == RoomsInit /\ [][RoomsNext]_roomsVars
-----------------------------------------------------------------------------
(* Types. *)
RoomsTypeOK ==
    /\ age \in [Rooms -> Ages]
    /\ summed \subseteq Rooms /\ cached \subseteq Rooms /\ dirs \subseteq Rooms
    /\ loaded \subseteq Rooms /\ nightLock \in BOOLEAN
    /\ job \in [Processes -> Job] /\ image \in Image
    /\ faults \in 0..MaxFaults /\ orphaned \subseteq Rooms

(* A removed room leaves neither images nor messages behind once no job is   *)
(* at it, whichever processes work on it, unless a job was cut short there. *)
RemovedRoomClean ==
    \A r \in Rooms:
        age[r] = "gone" /\ r \notin orphaned /\ (\A p \in Processes: job[p].at # r)
        => r \notin dirs \cup cached

(* A room that is not deleted is never removed by the job, though the list   *)
(* of rooms to remove is older than the removals, and an update can take a  *)
(* deletion back.                                                           *)
LiveRoomStays ==
    [][\A r \in Rooms: age[r] = "live" /\ age'[r] = "gone" => r \in orphaned']_roomsVars

(* An image that the client was told of, and that a message of the room      *)
(* shows, has both its files as long as the room has a row, deleted or not; *)
(* of a refused one no file is left, unless one was created after its       *)
(* removal.                                                                 *)
ImagesWhole ==
    LET r == image.room IN
    /\ image.answer \in {"names", "sent"} /\ Exists(r) => image.disk = Files
    /\ image.answer = "refused" /\ Settled /\ ~image.missed => image.disk = {}

(* Every night's job does not remove every room: the first one with a        *)
(* summary ends it.  While there is none, old rooms are removed in the end. *)
OldRoomsRemoved ==
    \A r \in Rooms: age[r] = "old" ~> (age[r] # "old" \/ \E q \in summed: age[q] = "old")

RoomsFairness ==
    /\ WF_roomsVars(\E p \in Processes: JobStep(p))
    /\ WF_roomsVars(NightComes)
    /\ WF_roomsVars(NightLockExpires)
=============================================================================
