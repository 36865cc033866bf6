---------------------------- MODULE EvidenceFile ----------------------------
(***************************************************************************)
(* Uploading the file of a piece of evidence: the handler puts the file    *)
(* into the S3 bucket under a new key and then writes the key, the content *)
(* type and the size to the evidence row, which the middleware commits.    *)
(* The bucket takes no part in the transaction, a task may die between the *)
(* two, and S3 may fail with or without having stored the file.  PATCH of  *)
(* the row runs beside the uploads.                                        *)
(***************************************************************************)
EXTENDS Integers

CONSTANTS Requests,     \* the requests clients send
          Evidence,     \* the evidence on file
          EvidenceIds,  \* the evidence ids a client may name
          Types,        \* the content types that are allowed
          SentTypes,    \* the content types of the files clients send
          MaxSize,      \* _MAX_UPLOAD_BYTES, the largest file allowed
          Sizes,        \* the sizes of the files clients send
          Notes,        \* descriptions
          Keys,         \* the keys evidence/<id>/<uuid>.<ext>, which never repeat
          KeyOf,        \* the key upload_evidence_file draws for a request
          SeedKey,      \* the key of the file each evidence starts with, or Nil
          SeedFile,     \* the files the bucket starts with, by key
          Nil           \* NULL

ASSUME EvidenceAssumption == Evidence \subseteq EvidenceIds
ASSUME TypesAssumption == Types \subseteq SentTypes
ASSUME SizesAssumption == MaxSize \in Nat /\ Sizes \subseteq Nat
ASSUME KeysAssumption ==
    /\ KeyOf \in [Requests -> Keys]
    /\ SeedKey \in [Evidence -> Keys \cup {Nil}]
    /\ Nil \notin Keys
    /\ \A r, q \in Requests : KeyOf[r] = KeyOf[q] => r = q
    /\ \A r \in Requests, e \in Evidence : KeyOf[r] # SeedKey[e]

-----------------------------------------------------------------------------
File == [type : SentTypes, size : Nat]

ASSUME SeedAssumption == SeedFile \in [{SeedKey[e] : e \in Evidence} \ {Nil} -> File]

NoFile == [type |-> Nil, size |-> Nil]

\* The columns of an evidence row that the endpoints of evidence.py write.
Row == [key : Keys \cup {Nil}, type : SentTypes \cup {Nil}, size : Nat \cup {Nil},
        note : Notes \cup {Nil}]

Upload == [op : {"upload"}, evidence : EvidenceIds,
           file : [type : SentTypes, size : Sizes], note : {Nil}]
Edit   == [op : {"edit"}, evidence : EvidenceIds, file : {NoFile}, note : Notes]
Request == Upload \cup Edit

VARIABLES row,      \* the committed evidence rows
          bucket,   \* the files in S3, by key
          req, pc,  \* each request and how far it has got
          loaded,   \* the row the handler loaded
          content,  \* the size of what the handler read of the upload
          wrote     \* the columns it wrote, uncommitted: a partial row

vars == <<row, bucket, req, pc, loaded, content, wrote>>

Working  == {"check", "read", "put", "fetch", "write", "commit"}
Outcomes == {"done", "not_found", "unsupported", "too_large", "server_error", "lost"}

NoFields == [f \in {} |-> Nil]
NullRow  == [key |-> Nil, type |-> Nil, size |-> Nil, note |-> Nil]

TypeOK ==
    /\ row \in [Evidence -> Row]
    /\ DOMAIN bucket \subseteq Keys
    /\ \A k \in DOMAIN bucket : bucket[k] \in File
    /\ req \in [Requests -> Request]
    /\ pc \in [Requests -> Working \cup Outcomes]
    /\ loaded \in [Requests -> Row]
    /\ content \in [Requests -> 0 .. MaxSize + 1]
    /\ \A r \in Requests : DOMAIN wrote[r] \subseteq {"key", "type", "size", "note"}

Init ==
    /\ row = [e \in Evidence |->
                LET file == IF SeedKey[e] = Nil THEN NoFile ELSE SeedFile[SeedKey[e]] IN
                [key |-> SeedKey[e], type |-> file.type, size |-> file.size, note |-> Nil]]
    /\ bucket = SeedFile
    /\ req \in [Requests -> Request]
    /\ pc = [r \in Requests |-> "check"]
    /\ loaded = [r \in Requests |-> NullRow]
    /\ content = [r \in Requests |-> 0]
    /\ wrote = [r \in Requests |-> NoFields]
-----------------------------------------------------------------------------
Goto(r, stage) == pc' = [pc EXCEPT ![r] = stage]

OnlyMoves(r, stage) ==
    Goto(r, stage) /\ UNCHANGED <<row, bucket, req, loaded, content, wrote>>

\* The row with the columns of w set.
Set(old, w) == [f \in DOMAIN old |-> IF f \in DOMAIN w THEN w[f] ELSE old[f]]

\* The middleware rolls the session back.
RolledBack(r, outcome) ==
    /\ Goto(r, outcome)
    /\ wrote' = [wrote EXCEPT ![r] = NoFields]

\* upload_evidence_file_endpoint: is there such evidence, and is the type of the
\* file allowed; update_evidence starts with fetching the row.
Check(r) ==
    /\ pc[r] = "check"
    /\ OnlyMoves(r, IF req[r].op = "edit" THEN "fetch"
                    ELSE IF req[r].evidence \notin Evidence THEN "not_found"
                    ELSE IF req[r].file.type \notin Types THEN "unsupported"
                    ELSE "read")

\* Mutant: the upload is read to its end.
ReadFileWhole(r) ==
    /\ pc[r] = "read"
    /\ content' = [content EXCEPT ![r] = req[r].file.size]
    /\ Goto(r, IF req[r].file.size > MaxSize THEN "too_large" ELSE "put")
    /\ UNCHANGED <<row, bucket, req, loaded, wrote>>

\* At most one byte beyond the limit is read, enough to see that there is one.
ReadFile(r) ==
    /\ pc[r] = "read"
    /\ LET n == IF req[r].file.size < MaxSize + 1 THEN req[r].file.size ELSE MaxSize + 1 IN
       /\ content' = [content EXCEPT ![r] = n]
       /\ Goto(r, IF n > MaxSize THEN "too_large" ELSE "put")
    /\ UNCHANGED <<row, bucket, req, loaded, wrote>>

\* Mutant: the key is the same for every upload of one piece of evidence.
KeyWithoutUuid(r) == KeyOf[CHOOSE q \in Requests : req[q].evidence = req[r].evidence]

Key(r) == KeyOf[r]

Stored(r) ==
    [k \in DOMAIN bucket \cup {Key(r)} |->
       IF k = Key(r) THEN [type |-> req[r].file.type, size |-> content[r]] ELSE bucket[k]]

\* put_object succeeds.
PutObject(r) ==
    /\ pc[r] = "put"
    /\ bucket' = Stored(r)
    /\ Goto(r, "fetch")
    /\ UNCHANGED <<row, req, loaded, content, wrote>>

\* put_object raises, though the file may have been stored: 500.
PutFails(r) ==
    /\ pc[r] = "put"
    /\ bucket' \in {bucket, Stored(r)}
    /\ RolledBack(r, "server_error")
    /\ UNCHANGED <<row, req, loaded, content>>

\* _fetch_evidence in attach_evidence_file or in update_evidence.
FetchEvidence(r) ==
    /\ pc[r] = "fetch"
    /\ IF req[r].evidence \in Evidence
       THEN /\ loaded' = [loaded EXCEPT ![r] = row[req[r].evidence]]
            /\ Goto(r, "write")
            /\ UNCHANGED <<row, bucket, req, content, wrote>>
       ELSE OnlyMoves(r, "not_found")

\* The row as the handler leaves it.
Target(r) ==
    IF req[r].op = "edit" THEN [loaded[r] EXCEPT !.note = req[r].note]
    ELSE [loaded[r] EXCEPT !.key = Key(r), !.type = req[r].file.type, !.size = content[r]]

\* Mutant: the UPDATE writes the whole row.
SentWholeRow(r) == Target(r)

\* The columns the flush sends: those that differ from the loaded ones.
Sent(r) ==
    LET cols == {f \in DOMAIN loaded[r] : Target(r)[f] # loaded[r][f]}
    IN  [f \in cols |-> Target(r)[f]]

\* The flush waits for the row lock.
WriteRow(r) ==
    /\ pc[r] = "write"
    /\ Sent(r) # NoFields =>
          \A q \in Requests \ {r} : wrote[q] # NoFields => req[q].evidence # req[r].evidence
    /\ wrote' = [wrote EXCEPT ![r] = Sent(r)]
    /\ Goto(r, "commit")
    /\ UNCHANGED <<row, bucket, req, loaded, content>>

Commit(r) ==
    /\ pc[r] = "commit"
    /\ row' = [row EXCEPT ![req[r].evidence] = Set(@, wrote[r])]
    /\ RolledBack(r, "done")
    /\ UNCHANGED <<bucket, req, loaded, content>>

\* The task that serves r dies; S3 may be left with the file it was sending.
Crash(r) ==
    /\ pc[r] \in Working
    /\ bucket' \in {bucket} \cup (IF pc[r] = "put" THEN {Stored(r)} ELSE {})
    /\ RolledBack(r, "lost")
    /\ UNCHANGED <<row, req, loaded, content>>

Next ==
    \E r \in Requests :
        \/ Check(r)         \/ ReadFile(r) \/ PutObject(r) \/ PutFails(r)
        \/ FetchEvidence(r) \/ WriteRow(r) \/ Commit(r)    \/ Crash(r)

Spec == Init /\ [][Next]_vars
-----------------------------------------------------------------------------

\* The file a row leads to is the one it started with or the file, whole and
\* within the limit, of an upload that was answered with success.  An upload
\* that failed never shows, not even when S3 kept its file.
FileOfAnsweredUpload ==
    \A e \in Evidence :
        \/ row[e].key = Nil
        \/ row[e].key = SeedKey[e] /\ bucket[row[e].key] = SeedFile[row[e].key]
        \/ \E r \in Requests :
              /\ pc[r] = "done" /\ req[r].op = "upload" /\ req[r].evidence = e
              /\ bucket[row[e].key] = req[r].file
              /\ req[r].file.size =< MaxSize

\* An upload that was answered with success is the one its row leads to, unless
\* another upload to the same evidence succeeded too: a PATCH of the row beside
\* it, which read the row before the upload, does not drop the file.
UploadStands ==
    \A r \in Requests : pc[r] = "done" /\ req[r].op = "upload" =>
        \/ row[req[r].evidence].key = Key(r)
        \/ \E q \in Requests \ {r} :
              pc[q] = "done" /\ req[q].op = "upload" /\ req[q].evidence = req[r].evidence

\* The content type and the size on a row are those of the file its key names
\* (evidence.py:10: the key, content type and size of the uploaded file).
RowDescribesFile ==
    \A e \in Evidence :
        row[e].key \in DOMAIN bucket =>
            bucket[row[e].key] = [type |-> row[e].type, size |-> row[e].size]
=============================================================================
