---------------------------- MODULE SandboxCache ----------------------------
(***************************************************************************)
(* The attachments of the chat api: the rows and objects that upload and   *)
(* remove write (attachment-store.service.ts, attachment.repository.ts),   *)
(* and the cache that puts an object's bytes where a reader process can    *)
(* open them (sandbox-cache.service.ts): one flight per attachment, one    *)
(* byte budget over all sessions, least recently used first, sessions with *)
(* a running reader pinned.                                                *)
(*                                                                         *)
(* A step is one file, storage or database operation with the code that    *)
(* runs when it returns.  A file's bytes are reduced to their length; what *)
(* is on disk under its own name is whole and verified, because it got     *)
(* there by a rename.  Which sessions are released, and when, is the       *)
(* reader sessions' business: any session may be pinned or reaped at any   *)
(* time.                                                                   *)
(***************************************************************************)
EXTENDS Integers, Sequences, FiniteSets, FiniteSetsExt, Queues

CONSTANTS
  Session, Attachment, Caller,
  SessionOf, Bytes,   \* of an attachment
  Stored,             \* attachments uploaded before the first step
  MaxBytes,           \* cache.maxBytes
  MaxFiles, SessionBytes,  \* the session's upload quota
  Removable, Reapable,  \* bound: what is removed, which sessions have readers and are released
  Faulty, Needs,      \* bound: the files whose own rm may fail, what a caller asks for
  NoFile

ASSUME AttachmentAssumption ==
  /\ SessionOf \in [Attachment -> Session] /\ Bytes \in [Attachment -> Nat \ {0}]
  /\ Stored \subseteq Attachment /\ NoFile \notin Attachment

VARIABLES
  rows,       \* chat_attachment: none, live, deleted
  objects,    \* keys in the object store
  upload,     \* new, written, undo, done
  removal,    \* no, evict, unlink, object, done
  pc, want,   \* callers of resolveForTool: what they await, and name
  flight,     \* inflight: none, evicting, staging, fetch, rename
  victim, passed,  \* makeRoom's loop: the file being unlinked, the entries behind it
  entries,    \* keys in the order of the map
  used,
  pinned, lastUsed,
  reap,       \* evictSession: no, closing, unlink
  root,       \* sessions whose readable root exists
  disk, temp, \* files in the readable root; flights whose staging directory exists
  doubtful,   \* history: live rows whose insert committed and was answered with an error
  leftover,   \* history: files without an entry that an rm which failed left
  stranded    \* history: sessions whose removal failed, and not used since

storeVars == <<rows, objects, upload, removal, doubtful>>
callVars == <<pc, want>>
flightVars == <<flight, victim, passed>>
cacheVars == <<entries, used>>
litterVars == <<leftover, stranded>>
dirVars == <<root, disk, temp, litterVars>>
vars == <<storeVars, callVars, flightVars, cacheVars, pinned, lastUsed, reap, dirVars>>

Init ==
  /\ rows = [a \in Attachment |-> IF a \in Stored THEN "live" ELSE "none"]
  /\ objects = Stored
  /\ upload = [a \in Attachment |-> IF a \in Stored THEN "done" ELSE "new"]
  /\ removal = [a \in Attachment |-> "no"]
  /\ pc = [c \in Caller |-> "idle"]
  /\ want = [c \in Caller |-> NoFile]
  /\ flight = [a \in Attachment |-> "none"]
  /\ victim = [a \in Attachment |-> NoFile] /\ passed = [a \in Attachment |-> {}]
  /\ entries = <<>> /\ used = 0
  /\ pinned = {} /\ lastUsed = {} /\ reap = [s \in Session |-> "no"]
  /\ root = {} /\ disk = {} /\ temp = {}
  /\ doubtful = {} /\ leftover = {} /\ stranded = {}

-----------------------------------------------------------------------------
(* Uploads and removals. *)

Total(A) == MapThenSumSet(LAMBDA a : Bytes[a], A)
Of(s) == {a \in Attachment : SessionOf[a] = s}
Live(s) == {a \in Of(s) : rows[a] = "live"}

(* store, past put's gate, which refuses an upload before it does anything. *)
(* The object is written first; a write that fails may have stored it.      *)
PutObject(a) ==
  /\ upload[a] = "new"
  /\ \/ objects' = objects \cup {a} /\ \E u \in {"written", "done"} : upload' = [upload EXCEPT ![a] = u]
     \/ upload' = [upload EXCEPT ![a] = "done"] /\ UNCHANGED objects
  /\ UNCHANGED <<rows, removal, doubtful, callVars, flightVars, cacheVars, pinned, lastUsed,
                 reap, dirVars>>

WithinQuota(a) ==
  LET s == SessionOf[a] IN
  Cardinality(Live(s)) < MaxFiles /\ Total(Live(s)) + Bytes[a] <= SessionBytes

(* createAttachment: one transaction under the session's row lock.  Over    *)
(* the quota, or when the promise rejects, the object is taken back: also   *)
(* when the commit went through and only its answer was lost.               *)
CreateAttachment(a) ==
  /\ upload[a] = "written"
  /\ \/ /\ WithinQuota(a)
        /\ rows' = [rows EXCEPT ![a] = "live"]
        /\ \/ upload' = [upload EXCEPT ![a] = "done"] /\ UNCHANGED doubtful
           \/ upload' = [upload EXCEPT ![a] = "undo"] /\ doubtful' = doubtful \cup {a}
     \/ upload' = [upload EXCEPT ![a] = "undo"] /\ UNCHANGED <<rows, doubtful>>
  /\ UNCHANGED <<objects, removal, callVars, flightVars, cacheVars, pinned, lastUsed,
                 reap, dirVars>>

UndoPut(a) ==
  /\ upload[a] = "undo"
  /\ upload' = [upload EXCEPT ![a] = "done"]
  /\ \/ objects' = objects \ {a}
     \/ UNCHANGED objects
  /\ UNCHANGED <<rows, removal, doubtful, callVars, flightVars, cacheVars, pinned,
                 lastUsed, reap, dirVars>>

(* Mutant: the object goes first and the row second. *)
SoftDeleteObjectFirst(a) ==
  /\ a \in Removable /\ removal[a] = "no" /\ rows[a] = "live"
  /\ objects' = objects \ {a}
  /\ removal' = [removal EXCEPT ![a] = "evict"]
  /\ UNCHANGED <<rows, upload, doubtful, callVars, flightVars, cacheVars, pinned, lastUsed,
                 reap, dirVars>>

(* softDeleteAttachment: of several removals one finds the row live.  It     *)
(* goes no further when the statement's answer is lost.                     *)
SoftDelete(a) ==
  /\ a \in Removable /\ removal[a] = "no" /\ rows[a] = "live"
  /\ rows' = [rows EXCEPT ![a] = "deleted"]
  /\ \E m \in {"evict", "done"} : removal' = [removal EXCEPT ![a] = m]
  /\ doubtful' = doubtful \ {a}
  /\ UNCHANGED <<objects, upload, callVars, flightVars, cacheVars, pinned, lastUsed,
                 reap, dirVars>>

-----------------------------------------------------------------------------
(* The entries: used follows every change of the map in the same step. *)

Has(a) == Contains(entries, a)

(* Mutant: the bytes of a replaced entry are counted again. *)
RememberTwice(a) ==
  /\ entries' = Append(Without(entries, {a}), a)
  /\ used' = used + Bytes[a]

Remember(a) ==
  /\ entries' = Append(Without(entries, {a}), a)
  /\ used' = IF Has(a) THEN used ELSE used + Bytes[a]

Forget(A) ==
  /\ entries' = Without(entries, A)
  /\ used' = Max({0, used - Weight(Bytes, Only(entries, A))})

(* A key set again moves to the end of the map, ahead of every iterator. *)
MovedToEnd(a) == passed' = [f \in Attachment |-> passed[f] \ {a}]

(* evict: nothing to do without an entry. *)
Evict(a) ==
  /\ removal[a] = "evict"
  /\ \/ ~Has(a) /\ removal' = [removal EXCEPT ![a] = "object"] /\ UNCHANGED cacheVars
     \/ Has(a) /\ removal' = [removal EXCEPT ![a] = "unlink"] /\ Forget({a})
  /\ UNCHANGED <<rows, objects, upload, doubtful, callVars, flightVars, pinned,
                 lastUsed, reap, dirVars>>

(* rm of files: they go, or it fails and leaves what nothing has an entry   *)
(* for.                                                                     *)
Removed(A) == disk' = disk \ A /\ leftover' = leftover \ A
Left(A) == leftover' = leftover \cup {a \in A \cap disk : ~Has(a)} /\ UNCHANGED disk

(* When it fails the removal ends there, and its object stays. *)
Unlink(a) ==
  /\ removal[a] = "unlink"
  /\ \/ removal' = [removal EXCEPT ![a] = "object"] /\ Removed({a})
     \/ a \in Faulty /\ removal' = [removal EXCEPT ![a] = "done"] /\ Left({a})
  /\ UNCHANGED <<rows, objects, upload, doubtful, callVars, flightVars, cacheVars,
                 pinned, lastUsed, reap, root, temp, stranded>>

(* objects.remove, which may fail and leave the object behind. *)
RemoveObject(a) ==
  /\ removal[a] = "object"
  /\ removal' = [removal EXCEPT ![a] = "done"]
  /\ \/ objects' = objects \ {a}
     \/ UNCHANGED objects
  /\ UNCHANGED <<rows, upload, doubtful, callVars, flightVars, cacheVars, pinned,
                 lastUsed, reap, dirVars>>

-----------------------------------------------------------------------------
(* Flights. *)

(* The promise of flight a settles, one way or the other: whoever joined it *)
(* is answered, and the key is dropped.                                     *)
Joined(a) == {c \in Caller : pc[c] = "join" /\ want[c] = a}
Answer(C) ==
  /\ pc' = [c \in Caller |-> IF c \in C THEN "idle" ELSE pc[c]]
  /\ want' = [c \in Caller |-> IF c \in C THEN NoFile ELSE want[c]]

Settle(a) ==
  /\ flight' = [flight EXCEPT ![a] = "none"]
  /\ victim' = [victim EXCEPT ![a] = NoFile]
  /\ Answer(Joined(a))

(* makeRoom from where its iterator stands until its next await: the first  *)
(* entry whose session is not pinned goes, unless there is room.            *)
Room(a) == used + Bytes[a] <= MaxBytes
Ahead(a, p) == Without(entries, p)
Evictable(a, p) ==
  {i \in DOMAIN Ahead(a, p) : SessionOf[Ahead(a, p)[i]] \notin pinned}
Refused(a, p) == Bytes[a] > MaxBytes \/ (~Room(a) /\ Evictable(a, p) = {})

MakeRoom(a, p) ==
  IF Room(a)
  THEN /\ flight' = [flight EXCEPT ![a] = "staging"]
       /\ victim' = [victim EXCEPT ![a] = NoFile] /\ passed' = [passed EXCEPT ![a] = {}]
       /\ UNCHANGED cacheVars
  ELSE LET i == Min(Evictable(a, p))  v == Ahead(a, p)[i] IN
       /\ flight' = [flight EXCEPT ![a] = "evicting"]
       /\ victim' = [victim EXCEPT ![a] = v]
       /\ passed' = [passed EXCEPT ![a] = p \cup {Ahead(a, p)[j] : j \in 1 .. i - 1}]
       /\ Forget({v})

(* rm of the victim returns, and the loop goes on; or it fails, and so does *)
(* the flight.                                                              *)
VictimGone(a) ==
  /\ flight[a] = "evicting"
  /\ \/ /\ Removed({victim[a]})
        /\ ~Refused(a, passed[a])
        /\ MakeRoom(a, passed[a]) /\ UNCHANGED callVars
     \/ /\ \/ Removed({victim[a]}) /\ Refused(a, passed[a])
           \/ victim[a] \in Faulty /\ Left({victim[a]})
        /\ Settle(a)
        /\ passed' = [passed EXCEPT ![a] = {}] /\ UNCHANGED cacheVars
  /\ UNCHANGED <<storeVars, pinned, lastUsed, reap, root, temp, stranded>>

(* mkdir makes the session's staging directory, for its other flights too. *)
MakeStaging(a) ==
  /\ flight[a] = "staging"
  /\ flight' = [flight EXCEPT ![a] = "fetch"]
  /\ temp' = temp \cup {f \in Attachment : f = a \/ (flight[f] = "fetch" /\ SessionOf[f] = SessionOf[a])}
  /\ UNCHANGED <<storeVars, callVars, victim, passed, cacheVars, pinned, lastUsed,
                 reap, root, disk, litterVars>>

(* The object streams into the partial file and is verified there.  It      *)
(* fails when the object is gone, the store is down, the bytes differ, or   *)
(* the directory was removed.                                               *)
Fetch(a) ==
  /\ flight[a] = "fetch"
  /\ \/ /\ a \in objects /\ a \in temp
        /\ flight' = [flight EXCEPT ![a] = "rename"]
        /\ UNCHANGED <<callVars, victim, temp>>
     \/ /\ temp' = temp \ {a}
        /\ Settle(a)
  /\ UNCHANGED <<storeVars, passed, cacheVars, pinned, lastUsed, reap, root, disk, litterVars>>

(* Mutant: a rename that fails settles nothing. *)
RenameOrWait(a) ==
  /\ flight[a] = "rename" /\ a \in temp /\ SessionOf[a] \in root
  /\ temp' = temp \ {a} /\ disk' = disk \cup {a} /\ leftover' = leftover \ {a}
  /\ Remember(a) /\ MovedToEnd(a) /\ Settle(a)
  /\ UNCHANGED <<storeVars, pinned, lastUsed, reap, root, stranded>>

Rename(a) ==
  /\ flight[a] = "rename"
  /\ temp' = temp \ {a}
  /\ \/ /\ a \in temp /\ SessionOf[a] \in root
        /\ disk' = disk \cup {a} /\ leftover' = leftover \ {a}
        /\ Remember(a) /\ MovedToEnd(a)
        /\ Settle(a)
     \/ /\ ~(a \in temp /\ SessionOf[a] \in root)
        /\ Settle(a)
        /\ UNCHANGED <<disk, leftover, passed, cacheVars>>
  /\ UNCHANGED <<storeVars, pinned, lastUsed, reap, root, stranded>>

-----------------------------------------------------------------------------
(* Callers. *)

(* resolveForTool finds the row; without one it returns, and the reader     *)
(* misses the file.                                                         *)
Resolve(c, a) ==
  /\ pc[c] = "idle" /\ rows[a] = "live" /\ a \in Needs[c]
  /\ want' = [want EXCEPT ![c] = a] /\ pc' = [pc EXCEPT ![c] = "root"]
  /\ UNCHANGED <<storeVars, flightVars, cacheVars, pinned, lastUsed, reap, dirVars>>

(* Mutant: the session is not touched. *)
MakeRootUntouched(c) ==
  /\ pc[c] = "root"
  /\ pc' = [pc EXCEPT ![c] = "stat"]
  /\ root' = root \cup {SessionOf[want[c]]}
  /\ UNCHANGED <<storeVars, want, flightVars, cacheVars, pinned, lastUsed, reap, disk, temp,
                 litterVars>>

(* readableRootFor *)
UseRoot(s) ==
  /\ root' = root \cup {s} /\ lastUsed' = lastUsed \cup {s}
  /\ stranded' = stranded \ {s}

MakeRoot(c) ==
  /\ pc[c] = "root"
  /\ pc' = [pc EXCEPT ![c] = "stat"]
  /\ UseRoot(SessionOf[want[c]])
  /\ UNCHANGED <<storeVars, want, flightVars, cacheVars, pinned, reap,
                 disk, temp, leftover>>

(* hit, then the flight of the key, joined or begun. *)
Hit(c) ==
  LET a == want[c] IN
  /\ pc[c] = "stat" /\ a \in disk
  /\ Answer({c})
  /\ IF Has(a) THEN entries' = Append(Without(entries, {a}), a) /\ MovedToEnd(a)
               ELSE UNCHANGED <<entries, passed>>
  /\ UNCHANGED <<storeVars, flight, victim, used, pinned, lastUsed, reap,
                 dirVars>>

Join(c) ==
  /\ pc[c] = "stat" /\ want[c] \notin disk /\ flight[want[c]] # "none"
  /\ pc' = [pc EXCEPT ![c] = "join"]
  /\ UNCHANGED <<storeVars, want, flightVars, cacheVars, pinned, lastUsed, reap,
                 dirVars>>

Materialize(c) ==
  LET a == want[c] IN
  /\ pc[c] = "stat" /\ a \notin disk /\ flight[a] = "none"
  /\ \/ /\ Refused(a, {})
        /\ Answer({c})
        /\ UNCHANGED <<flightVars, cacheVars>>
     \/ /\ ~Refused(a, {})
        /\ pc' = [pc EXCEPT ![c] = "join"]
        /\ MakeRoom(a, {}) /\ UNCHANGED want
  /\ UNCHANGED <<storeVars, pinned, lastUsed, reap, dirVars>>

-----------------------------------------------------------------------------
(* Sessions. *)

(* toolsOf starts a reader: the root is made and the session pinned. *)
OpenReader(s) ==
  /\ s \in Reapable /\ s \notin pinned
  /\ pinned' = pinned \cup {s}
  /\ UseRoot(s)
  /\ UNCHANGED <<storeVars, callVars, flightVars, cacheVars, reap, disk, temp, leftover>>

(* release unpins and closes the readers; evictSession follows. *)
Release(s) ==
  /\ s \in Reapable /\ reap[s] = "no" /\ s \in lastUsed
  /\ reap' = [reap EXCEPT ![s] = "closing"]
  /\ pinned' = pinned \ {s}
  /\ UNCHANGED <<storeVars, callVars, flightVars, cacheVars, lastUsed, dirVars>>

ForgetSession(s) ==
  /\ reap[s] = "closing"
  /\ reap' = [reap EXCEPT ![s] = "unlink"]
  /\ Forget(Of(s))
  /\ lastUsed' = lastUsed \ {s}
  /\ UNCHANGED <<storeVars, callVars, flightVars, pinned, dirVars>>

(* rm -r takes the files, the two directories and the session's own one by   *)
(* one, while readers and flights go on.                                    *)
RemoveFile(s, a) ==
  /\ reap[s] = "unlink" /\ a \in Of(s) \cap disk
  /\ Removed({a})
  /\ UNCHANGED <<storeVars, callVars, flightVars, cacheVars, pinned, lastUsed,
                 reap, root, temp, stranded>>

RemoveStaging(s) ==
  /\ reap[s] = "unlink" /\ Of(s) \cap temp # {}
  /\ temp' = temp \ Of(s)
  /\ UNCHANGED <<storeVars, callVars, flightVars, cacheVars, pinned, lastUsed,
                 reap, root, disk, litterVars>>

RemoveRoot(s) ==
  /\ reap[s] = "unlink" /\ s \in root /\ Of(s) \cap disk = {}
  /\ root' = root \ {s}
  /\ UNCHANGED <<storeVars, callVars, flightVars, cacheVars, pinned, lastUsed,
                 reap, disk, temp, litterVars>>

(* It fails on a directory that is not empty, a file renamed into it by a   *)
(* flight included, and for the file system's own reasons.  Nothing tries   *)
(* again.                                                                   *)
RemovalEnds(s) ==
  /\ reap[s] = "unlink"
  /\ reap' = [reap EXCEPT ![s] = "no"]
  /\ Left(Of(s))
  /\ stranded' = IF s \in root \ lastUsed THEN stranded \cup {s} ELSE stranded
  /\ UNCHANGED <<storeVars, callVars, flightVars, cacheVars, pinned, lastUsed, root, temp>>

(* The process dies; the next one empties the cache root before it serves.  *)
Crash ==
  /\ upload' = [a \in Attachment |-> IF upload[a] = "new" THEN "new" ELSE "done"]
  /\ removal' = [a \in Attachment |-> IF removal[a] = "no" THEN "no" ELSE "done"]
  /\ Answer(Caller)
  /\ flight' = [a \in Attachment |-> "none"]
  /\ victim' = [a \in Attachment |-> NoFile] /\ passed' = [a \in Attachment |-> {}]
  /\ entries' = <<>> /\ used' = 0
  /\ pinned' = {} /\ lastUsed' = {} /\ reap' = [s \in Session |-> "no"]
  /\ root' = {} /\ disk' = {} /\ temp' = {}
  /\ leftover' = {} /\ stranded' = {}
  /\ UNCHANGED <<rows, objects, doubtful>>

-----------------------------------------------------------------------------
FlightStep(a) == VictimGone(a) \/ MakeStaging(a) \/ Fetch(a) \/ Rename(a)
CallerStep(c) == MakeRoot(c) \/ Hit(c) \/ Join(c) \/ Materialize(c)

Next ==
  \/ \E a \in Attachment :
       \/ PutObject(a) \/ CreateAttachment(a) \/ UndoPut(a)
       \/ SoftDelete(a) \/ Evict(a) \/ Unlink(a) \/ RemoveObject(a)
       \/ FlightStep(a)
  \/ \E c \in Caller : CallerStep(c) \/ \E a \in Attachment : Resolve(c, a)
  \/ \E s \in Session :
       \/ OpenReader(s) \/ Release(s) \/ ForgetSession(s)
       \/ RemoveStaging(s) \/ RemoveRoot(s) \/ RemovalEnds(s)
       \/ \E a \in Attachment : RemoveFile(s, a)
  \/ Crash

Spec == Init /\ [][Next]_vars

(* File operations return and downloads end, one way or the other. *)
FairSpec ==
  /\ Spec
  /\ \A a \in Attachment : WF_vars(FlightStep(a))
  /\ \A c \in Caller : WF_vars(CallerStep(c))

-----------------------------------------------------------------------------
(* Every variable keeps its type. *)
TypeOK ==
  /\ rows \in [Attachment -> {"none", "live", "deleted"}]
  /\ objects \subseteq Attachment
  /\ upload \in [Attachment -> {"new", "written", "undo", "done"}]
  /\ removal \in [Attachment -> {"no", "evict", "unlink", "object", "done"}]
  /\ pc \in [Caller -> {"idle", "root", "stat", "join"}]
  /\ want \in [Caller -> Attachment \cup {NoFile}]
  /\ flight \in [Attachment -> {"none", "evicting", "staging", "fetch", "rename"}]
  /\ victim \in [Attachment -> Attachment \cup {NoFile}]
  /\ passed \in [Attachment -> SUBSET Attachment]
  /\ entries \in Seq(Attachment) /\ used \in Nat
  /\ pinned \subseteq Session /\ lastUsed \subseteq Session
  /\ reap \in [Session -> {"no", "closing", "unlink"}]
  /\ root \subseteq Session
  /\ disk \subseteq Attachment /\ temp \subseteq Attachment
  /\ doubtful \subseteq Attachment /\ leftover \subseteq Attachment
  /\ stranded \subseteq Session

(* "One orphan is litter, the other is poison": a row that can be listed    *)
(* names an object that exists, through failed inserts, failed removals and *)
(* crashes between any two steps of an upload or a removal.  The only rows  *)
(* without one are those whose insert committed but was answered with an    *)
(* error, which the upload takes for an insert that did not happen.         *)
RowNamesObject ==
  \A a \in Attachment : rows[a] = "live" /\ a \notin objects => a \in doubtful

(* The byte count is the sum of the entries, each attachment once, however  *)
(* evictions, releases and replaced files interleave with flights.          *)
UsedAccounting == used = Weight(Bytes, entries) /\ IsInjective(entries)

(* Every file in a readable root can be reclaimed: it has an entry the      *)
(* budget can evict, or an unlink of it is under way; and its session is    *)
(* one the sweep still knows, or is being removed.  Only an rm that failed  *)
(* leaves more: a file without an entry, until its session goes, and a      *)
(* session the sweep does not know, until the session is used again.        *)
FilesReclaimable ==
  \A a \in disk :
    /\ \/ Has(a) \/ removal[a] = "unlink"
       \/ \E f \in Attachment : victim[f] = a
       \/ reap[SessionOf[a]] = "unlink"
       \/ a \in leftover
    /\ SessionOf[a] \in lastUsed \cup stranded \/ reap[SessionOf[a]] = "unlink"

(* When calls stop coming, every one of them is answered: no flight that    *)
(* failed, lost its directory or was overtaken by a release keeps a caller. *)
Arrives == \E c \in Caller : pc[c] = "idle" /\ pc'[c] # "idle"
EnsureAnswered ==
  <>[][~Arrives]_vars => <>[](\A c \in Caller : pc[c] = "idle")
=============================================================================
