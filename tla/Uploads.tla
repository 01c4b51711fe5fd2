------------------------------ MODULE Uploads ------------------------------
(***************************************************************************)
(* The upload routes of the web server (web/uploads.py): POST /api/uploads *)
(* streams one file of a source to data/uploads/<id>/<name>, POST .../label *)
(* says which of two files it is, and a bounded registry in memory keeps   *)
(* the sets.                                                               *)
(*                                                                         *)
(* post_upload is a coroutine: it runs alone up to each read of a chunk,   *)
(* and other uploads run in between.  post_label runs in a thread of its   *)
(* own, between any two critical sections.  A file on disk is an inode: an *)
(* upload keeps writing to the one it opened, whatever name that has now.  *)
(***************************************************************************)
EXTENDS Naturals, Sequences, SequencesExt, FiniteSets

CONSTANTS
  Sets,        \* upload ids
  Names,       \* sanitized file names
  Requests,    \* POST /api/uploads requests; an inode is named by the one that created it
  Labels,      \* VALID_LABELS
  Keys,        \* values of the Idempotency-Key header
  MaxSets, MaxKeys, MaxFiles,
  Chunks,      \* chunks of every file
  None

ASSUME BoundAssumption == {MaxSets, MaxKeys, MaxFiles, Chunks} \subseteq Nat \ {0}
ASSUME NoneAssumption == None \notin Sets \cup Requests \cup Labels \cup Keys

VARIABLES
  sets,        \* the registry: upload ids, oldest first
  files,       \* UploadSet.files: the label of each recorded file
  cached,      \* _idempotency: keys with the set of their response, oldest first
  dirs,        \* the directories under data/uploads
  part,        \* the inode behind <name>.part
  final,       \* the inode behind <name>
  content,     \* of an inode: who wrote each chunk
  request,     \* what each upload is at
  subject,     \* history: the content the label of a file was given to
  overlapped   \* history: <<set, name, name of an upload that was under way then>>

disk == <<dirs, part, final, content>>
vars == <<sets, files, cached, disk, request, subject, overlapped>>

Inode == Requests \cup {None}
Bytes == [1..Chunks -> Inode]
Blank == [c \in 1..Chunks |-> None]

Request == [pc : {"idle", "writing", "renamed", "recorded", "done"},
            set : Sets \cup {None}, name : Names \cup {None}, label : Labels \cup {None},
            key : Keys \cup {None}, inode : Inode, chunk : 0..Chunks]
Idle == [pc |-> "idle", set |-> None, name |-> None, label |-> None, key |-> None,
         inode |-> None, chunk |-> 0]
Done == [Idle EXCEPT !.pc = "done"]

TypeOK ==
  /\ sets \in Seq(dirs) /\ dirs \subseteq Sets
  /\ \A s \in Sets : DOMAIN files[s] \subseteq Names /\ \A n \in DOMAIN files[s] : files[s][n] \in Labels \cup {None}
  /\ cached \in Seq([key : Keys, set : Sets])
  /\ {part, final} \subseteq [Sets -> [Names -> Inode]]
  /\ content \in [Requests -> Bytes]
  /\ request \in [Requests -> Request]
  /\ subject \in [Sets -> [Names -> Bytes]]
  /\ overlapped \subseteq Sets \X Names \X Names

Init ==
  /\ sets = <<>> /\ files = [s \in Sets |-> <<>>] /\ cached = <<>>
  /\ dirs = {}
  /\ part = [s \in Sets |-> [n \in Names |-> None]] /\ final = part
  /\ content = [r \in Requests |-> Blank]
  /\ request = [r \in Requests |-> Idle]
  /\ subject = [s \in Sets |-> [n \in Names |-> Blank]]
  /\ overlapped = {}

At(r, pc) == request[r].pc = pc
Responses == {cached[i].key : i \in DOMAIN cached}

\* What OrderedDict.popitem(last=False) leaves of a dict that is over its limit.
Youngest(entries, limit) ==
  IF Len(entries) > limit THEN SubSeq(entries, Len(entries) - limit + 1, Len(entries)) ELSE entries

-----------------------------------------------------------------------------
(* POST /api/uploads, up to the first chunk *)

UnderWay(s) == {r \in Requests : request[r].pc \in {"writing", "renamed", "recorded"} /\ request[r].set = s}

\* _write_upload opens the .part file: a new inode, or the one that is there, truncated.
Open(r, s, n, label, key) ==
  LET inode == IF part[s][n] = None THEN r ELSE part[s][n]
  IN /\ part' = [part EXCEPT ![s][n] = inode]
     /\ content' = [content EXCEPT ![inode] = Blank]
     /\ request' = [request EXCEPT ![r] = [pc |-> "writing", set |-> s, name |-> n, label |-> label,
                                           key |-> key, inode |-> inode, chunk |-> 0]]
     /\ overlapped' = overlapped \cup {<<s, n, request[q].name>> : q \in UnderWay(s)}

\* The key of an earlier response: nothing is written.
PostAgain(r) ==
  /\ At(r, "idle") /\ Responses # {}
  /\ request' = [request EXCEPT ![r] = Done]
  /\ UNCHANGED <<sets, files, cached, disk, subject, overlapped>>

\* A file without an upload_id: create_set, which may evict the oldest set's record.  (What
\* is refused after it, an unknown label, leaves the set empty, as Abort does.)
PostNew(r, s, n, label, key) ==
  /\ At(r, "idle") /\ key \notin Responses
  /\ s \notin dirs
  /\ dirs' = dirs \cup {s}
  /\ sets' = Youngest(Append(sets, s), MaxSets)
  /\ files' = [t \in Sets |-> IF t \in Range(sets') THEN files[t] ELSE <<>>]
  /\ subject' = [t \in Sets |-> IF t \in Range(sets') THEN subject[t] ELSE [x \in Names |-> Blank]]
  /\ Open(r, s, n, label, key)
  /\ UNCHANGED <<cached, final>>

\* Not a further file of a set that is full.
HasRoom(s, n) == n \in DOMAIN files[s] \/ Cardinality(DOMAIN files[s]) < MaxFiles

\* A file for a set the registry knows.
PostInto(r, s, n, label, key) ==
  /\ At(r, "idle") /\ key \notin Responses
  /\ s \in Range(sets) /\ HasRoom(s, n)
  /\ Open(r, s, n, label, key)
  /\ UNCHANGED <<sets, files, cached, dirs, final, subject>>

-----------------------------------------------------------------------------
(* The rest of it *)

WriteChunk(r) ==
  /\ At(r, "writing") /\ request[r].chunk < Chunks
  /\ content' = [content EXCEPT ![request[r].inode][request[r].chunk + 1] = r]
  /\ request' = [request EXCEPT ![r].chunk = @ + 1]
  /\ UNCHANGED <<sets, files, cached, dirs, part, final, subject, overlapped>>

\* Too large, or the client is gone: whatever is at <name>.part is unlinked.
Abort(r) ==
  /\ At(r, "writing")
  /\ part' = [part EXCEPT ![request[r].set][request[r].name] = None]
  /\ request' = [request EXCEPT ![r] = Done]
  /\ UNCHANGED <<sets, files, cached, dirs, final, content, subject, overlapped>>

\* Mutant of Rename: an upload that was cut short is kept as well.
RenameCutShort(r) ==
  /\ At(r, "writing") /\ part[request[r].set][request[r].name] # None
  /\ final' = [final EXCEPT ![request[r].set][request[r].name] = part[request[r].set][request[r].name]]
  /\ part' = [part EXCEPT ![request[r].set][request[r].name] = None]
  /\ request' = [request EXCEPT ![r].pc = "renamed"]
  /\ UNCHANGED <<sets, files, cached, dirs, content, subject, overlapped>>

\* part_path.replace(final_path), whoever's .part it is by now; without one it raises.
Rename(r) ==
  /\ At(r, "writing") /\ request[r].chunk = Chunks
  /\ LET s == request[r].set
         n == request[r].name
     IN IF part[s][n] = None
        THEN request' = [request EXCEPT ![r] = Done] /\ UNCHANGED <<part, final>>
        ELSE /\ final' = [final EXCEPT ![s][n] = part[s][n]]
             /\ part' = [part EXCEPT ![s][n] = None]
             /\ request' = [request EXCEPT ![r].pc = "renamed"]
  /\ UNCHANGED <<sets, files, cached, dirs, content, subject, overlapped>>

\* cache_response, and the response
Respond(r) ==
  /\ request' = [request EXCEPT ![r] = Done]
  /\ cached' = IF request[r].key = None THEN cached
               ELSE Youngest(Append(SelectSeq(cached, LAMBDA e : e.key # request[r].key),
                                    [key |-> request[r].key, set |-> request[r].set]), MaxKeys)

\* Mutant of Recorded: a file that is uploaded again keeps its label.
RecordedKeepingLabel(s, n) ==
  [x \in DOMAIN files[s] \cup {n} |-> IF x \in DOMAIN files[s] THEN files[s][x] ELSE None]

\* The set's files with a fresh record: a file that is uploaded again has no label.
Recorded(s, n) == [x \in DOMAIN files[s] \cup {n} |-> IF x = n THEN None ELSE files[s][x]]

\* record_file; the set may have been evicted meanwhile.
RecordFile(r) ==
  /\ At(r, "renamed")
  /\ LET s == request[r].set
     IN IF s \in Range(sets)
        THEN /\ files' = [files EXCEPT ![s] = Recorded(s, request[r].name)]
             /\ subject' = [subject EXCEPT ![s][request[r].name] = Blank]
             /\ IF request[r].label = None THEN Respond(r)
                ELSE request' = [request EXCEPT ![r].pc = "recorded"] /\ UNCHANGED cached
        ELSE request' = [request EXCEPT ![r] = Done] /\ UNCHANGED <<files, cached, subject>>
  /\ UNCHANGED <<sets, disk, overlapped>>

\* set_label's conditions, under the lock.
IsFree(s, n, label) ==
  /\ s \in Range(sets) /\ n \in DOMAIN files[s]
  /\ \A x \in DOMAIN files[s] \ {n} : files[s][x] # label

SetLabel(s, n, label) ==
  /\ files' = [files EXCEPT ![s][n] = label]
  /\ subject' = [subject EXCEPT ![s][n] = content[final[s][n]]]

\* The label that came with the file; a label that is taken is a 400, and the file stays.
LabelInline(r) ==
  /\ At(r, "recorded")
  /\ IF IsFree(request[r].set, request[r].name, request[r].label)
     THEN SetLabel(request[r].set, request[r].name, request[r].label) /\ Respond(r)
     ELSE request' = [request EXCEPT ![r] = Done] /\ UNCHANGED <<files, subject, cached>>
  /\ UNCHANGED <<sets, disk, overlapped>>

\* POST /api/uploads/{id}/label
PostLabel(s, n, label) ==
  /\ IsFree(s, n, label)
  /\ SetLabel(s, n, label)
  /\ UNCHANGED <<sets, cached, disk, request, overlapped>>

\* The server is restarted: the registry is empty, the directories stay.
Restart ==
  /\ sets # <<>>
  /\ sets' = <<>> /\ files' = [s \in Sets |-> <<>>] /\ cached' = <<>>
  /\ request' = [r \in Requests |-> IF At(r, "idle") THEN Idle ELSE Done]
  /\ subject' = [s \in Sets |-> [n \in Names |-> Blank]]
  /\ UNCHANGED <<disk, overlapped>>

Next ==
  \/ \E r \in Requests :
       \/ PostAgain(r) \/ WriteChunk(r) \/ Abort(r) \/ Rename(r) \/ RecordFile(r) \/ LabelInline(r)
       \/ \E s \in Sets, n \in Names, label \in Labels \cup {None}, key \in Keys \cup {None} :
            PostNew(r, s, n, label, key) \/ PostInto(r, s, n, label, key)
  \/ \E s \in Sets, n \in Names, label \in Labels : PostLabel(s, n, label)
  \/ Restart

Spec == Init /\ [][Next]_vars

-----------------------------------------------------------------------------
(* Properties *)

Untouched(s, n) == <<s, n, n>> \notin overlapped

\* "a concurrent reader must see either nothing or the complete file, never a partial
\* one" (_write_upload): what a directory shows under a name is one client's whole
\* file, through aborted uploads, evictions and restarts.  Two uploads of one name that
\* overlap share the .part file, and only they can break it.
WholeFileOrNone ==
  \A s \in Sets, n \in Names : final[s][n] # None /\ Untouched(s, n) =>
    \E r \in Requests : content[final[s][n]] = [c \in 1..Chunks |-> r]

\* A set in the registry is one source as a human described it: a label stands for the
\* file it was given to, not for one uploaded over it later, and never for two files
\* (record_file, set_label); and there is a third file only if uploads into the set
\* overlapped, each counting the files before the other was recorded.
SetIsOneSource ==
  \A s \in Range(sets) :
    /\ \A n \in DOMAIN files[s] : files[s][n] # None =>
         /\ \A m \in DOMAIN files[s] \ {n} : files[s][m] # files[s][n]
         /\ \/ subject[s][n] = content[final[s][n]]
            \/ ~Untouched(s, n)
            \/ \E r \in Requests : At(r, "renamed") /\ request[r].set = s /\ request[r].name = n
    /\ Cardinality(DOMAIN files[s]) > MaxFiles => \E n, m \in Names : <<s, n, m>> \in overlapped

=============================================================================
