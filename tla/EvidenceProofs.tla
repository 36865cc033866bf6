---------------------------- MODULE EvidenceProofs ----------------------------
(***************************************************************************)
(* Theorems about evidence and its file, as the service keeps them         *)
(* (EvidenceFile), and as the dialogs that send them tell it               *)
(* (ClientSession).                                                        *)
(*                                                                         *)
(* EvidenceFile, for any requests, evidence, files and limit: the key of   *)
(* an upload is new, so the row the handler loaded can not show it: its    *)
(* UPDATE always carries the key, and by then the file is in the bucket    *)
(* under it, where nobody writes again.                                    *)
(*                                                                         *)
(* ClientSession, for any sessions and presses: there is one request at    *)
(* most for each part of a press on its way, and none once that part is    *)
(* written; for a call is sent again only after an answer that says that   *)
(* the service did not carry it out.                                       *)
(***************************************************************************)
EXTENDS EvidenceFile, ClientSession, SequenceTheorems, TLAPS

-----------------------------------------------------------------------------
\* EvidenceFile.

Cols == {"key", "type", "size", "note"}

\* The stages after the file of an upload is stored.
Later == {"fetch", "write", "commit", "done"}

\* r has been through its upload.
Uploaded(r) == pc[r] = "done" /\ req[r].op = "upload"

\* The file of r, whole and within the limit, is in the bucket under its key.
FileStored(r) ==
    /\ Key(r) \in DOMAIN bucket /\ bucket[Key(r)] = req[r].file
    /\ req[r].file.size =< MaxSize

StageOK(r) ==
    /\ pc[r] \in {"read", "put"} => req[r].op = "upload"
    /\ pc[r] \in {"write", "commit", "done"} => req[r].evidence \in Evidence
    /\ pc[r] = "put" => content[r] = req[r].file.size /\ content[r] =< MaxSize
    /\ pc[r] \in Later /\ req[r].op = "upload" => content[r] = req[r].file.size /\ FileStored(r)
    /\ pc[r] \in {"write", "commit"} => loaded[r].key # Key(r)
    /\ wrote[r] = IF pc[r] = "commit" THEN Sent(r) ELSE NoFields

\* The key on a row is its first one or that of an answered upload to it.
KeyOK(e) ==
    row[e].key \in {Nil, SeedKey[e]} \cup {Key(r) : r \in {q \in Requests : Uploaded(q) /\ req[q].evidence = e}}

\* The files the bucket started with are still there.
SeedStays == \A k \in DOMAIN SeedFile : k \in DOMAIN bucket /\ bucket[k] = SeedFile[k]

IInv ==
    /\ TypeOK /\ DOMAIN wrote = Requests /\ SeedStays
    /\ \A r \in Requests : StageOK(r)
    /\ \A e \in Evidence : KeyOK(e)
    /\ UploadStands
-----------------------------------------------------------------------------
LEMMA RowShape ==
    ASSUME NEW old \in Row
    PROVE  /\ DOMAIN old = Cols
           /\ old.key \in Keys \cup {Nil} /\ old.type \in SentTypes \cup {Nil}
           /\ old.size \in Nat \cup {Nil} /\ old.note \in Notes \cup {Nil}
<1> QED
  BY DEF Row, Cols

LEMMA RowFromColumns ==
    ASSUME NEW new, new = [f \in Cols |-> new[f]],
           new.key \in Keys \cup {Nil}, new.type \in SentTypes \cup {Nil},
           new.size \in Nat \cup {Nil}, new.note \in Notes \cup {Nil}
    PROVE  new \in Row
<1> QED
  BY DEF Row, Cols

LEMMA RequestType ==
    ASSUME NEW q \in Request
    PROVE  /\ q.op \in {"upload", "edit"} /\ q.evidence \in EvidenceIds
           /\ q.op = "upload" =>
                /\ q.file.type \in SentTypes /\ q.file.size \in Nat
                /\ q.file = [type |-> q.file.type, size |-> q.file.size]
           /\ q.op = "edit" => q.note \in Notes
<1>1. CASE q \in Upload
  <2>1. q.file \in [type : SentTypes, size : Sizes]
    BY <1>1 DEF Upload
  <2> QED
    BY <1>1, <2>1, SizesAssumption DEF Upload
<1>2. CASE q \in Edit
  BY <1>2 DEF Edit
<1> QED
  BY <1>1, <1>2 DEF Request

\* No two uploads have a key in common, and none has that of a file of the seed.
LEMMA KeysDiffer ==
    /\ \A r, q \in Requests : Key(r) = Key(q) => r = q
    /\ \A r \in Requests : Key(r) \in Keys /\ Key(r) # Nil /\ Key(r) \notin DOMAIN SeedFile
    /\ \A r \in Requests : \A e \in Evidence : Key(r) # SeedKey[e]
    /\ DOMAIN SeedFile \subseteq Keys
<1> QED
  BY KeysAssumption, SeedAssumption DEF Key

LEMMA TargetType ==
    ASSUME NEW r \in Requests, loaded[r] \in Row, req[r] \in Request, content[r] \in Nat
    PROVE  /\ Target(r) \in Row
           /\ req[r].op = "edit" =>
                Target(r).key = loaded[r].key
           /\ req[r].op = "upload" => Target(r).key = Key(r)
<1>1. CASE req[r].op = "edit"
  <2>1. req[r].note \in Notes
    BY <1>1, RequestType
  <2> QED
    BY <1>1, <2>1 DEF Target, Row
<1>2. CASE req[r].op = "upload"
  <2>1. req[r].file.type \in SentTypes
    BY <1>2, RequestType
  <2> QED
    BY <1>2, <2>1, KeysDiffer DEF Target, Row
<1> QED
  BY <1>1, <1>2, RequestType

\* The UPDATE of an upload carries its key, that of a PATCH carries none.
LEMMA SentColumns ==
    ASSUME NEW r \in Requests, loaded[r] \in Row, req[r] \in Request, content[r] \in Nat,
           loaded[r].key # Key(r)
    PROVE  /\ DOMAIN Sent(r) \subseteq Cols
           /\ \A f \in DOMAIN Sent(r) : Sent(r)[f] = Target(r)[f]
           /\ "key" \in DOMAIN Sent(r) <=> req[r].op = "upload"
<1>1. DOMAIN loaded[r] = Cols
  BY RowShape
<1>2. /\ DOMAIN Sent(r) = {f \in Cols : Target(r)[f] # loaded[r][f]}
      /\ \A f \in DOMAIN Sent(r) : Sent(r)[f] = Target(r)[f]
  BY <1>1 DEF Sent
<1> QED
  BY <1>2, TargetType, RequestType DEF Cols

LEMMA SetType ==
    ASSUME NEW old \in Row, NEW new \in Row, NEW w, DOMAIN w \subseteq Cols,
           \A f \in DOMAIN w : w[f] = new[f]
    PROVE  /\ Set(old, w) \in Row
           /\ Set(old, w).key = IF "key" \in DOMAIN w THEN new.key ELSE old.key
<1>1. /\ Set(old, w) = [f \in Cols |-> IF f \in DOMAIN w THEN new[f] ELSE old[f]]
  BY RowShape DEF Set
<1>2. Set(old, w) = [f \in Cols |-> Set(old, w)[f]]
  BY <1>1
<1>3. \A f \in Cols : Set(old, w)[f] = new[f] \/ Set(old, w)[f] = old[f]
  BY <1>1
<1>4. /\ Set(old, w).key \in Keys \cup {Nil} /\ Set(old, w).type \in SentTypes \cup {Nil}
      /\ Set(old, w).size \in Nat \cup {Nil} /\ Set(old, w).note \in Notes \cup {Nil}
  BY <1>3, RowShape DEF Cols
<1>5. Set(old, w).key = IF "key" \in DOMAIN w THEN new.key ELSE old.key
  BY <1>1 DEF Cols
<1> QED
  BY <1>2, <1>4, <1>5, RowFromColumns
-----------------------------------------------------------------------------
LEMMA InitIInv == Init => IInv
<1> SUFFICES ASSUME Init PROVE IInv
  OBVIOUS
<1> USE DEF Init
<1>1. ASSUME NEW e \in Evidence PROVE row[e] \in Row /\ row[e].key = SeedKey[e]
  <2> DEFINE file == IF SeedKey[e] = Nil THEN NoFile ELSE SeedFile[SeedKey[e]]
  <2>1. row[e] = [key |-> SeedKey[e], type |-> file.type, size |-> file.size, note |-> Nil]
    OBVIOUS
  <2>2. SeedKey[e] \in Keys \cup {Nil}
    BY KeysAssumption
  <2>3. file.type \in SentTypes \cup {Nil} /\ file.size \in Nat \cup {Nil}
    <3>1. CASE SeedKey[e] = Nil
      BY <3>1 DEF NoFile
    <3>2. CASE SeedKey[e] # Nil
      <4>1. file \in File
        BY <3>2, SeedAssumption
      <4> QED
        BY <4>1 DEF File
    <3> QED
      BY <3>1, <3>2
  <2> HIDE DEF file
  <2> QED
    BY <2>1, <2>2, <2>3 DEF Row
<1>2. TypeOK /\ DOMAIN wrote = Requests
  <2>1. row \in [Evidence -> Row]
    BY <1>1
  <2>2. DOMAIN bucket \subseteq Keys /\ \A k \in DOMAIN bucket : bucket[k] \in File
    BY KeysDiffer, SeedAssumption
  <2>3. NullRow \in Row /\ 0 \in 0 .. MaxSize + 1
    BY SizesAssumption DEF NullRow, Row
  <2> QED
    BY <2>1, <2>2, <2>3 DEF TypeOK, Working, NoFields
<1>3. SeedStays
  BY DEF SeedStays
<1>4. (\A r \in Requests : StageOK(r)) /\ UploadStands
  BY DEF StageOK, Later, UploadStands
<1>5. \A e \in Evidence : KeyOK(e)
  BY <1>1 DEF KeyOK
<1> QED
  BY <1>2, <1>3, <1>4, <1>5 DEF IInv

LEMMA StageFacts ==
    ASSUME IInv, NEW r \in Requests
    PROVE  /\ req[r] \in Request /\ loaded[r] \in Row /\ StageOK(r)
           /\ content[r] \in Nat /\ MaxSize \in Nat
           /\ r \in DOMAIN pc /\ r \in DOMAIN loaded /\ r \in DOMAIN content /\ r \in DOMAIN wrote
<1> QED
  BY SizesAssumption DEF IInv, TypeOK

\* What everybody but r has is left alone, their files included.
Others(r) ==
    \A q \in Requests \ {r} :
        /\ pc'[q] = pc[q] /\ loaded'[q] = loaded[q]
        /\ content'[q] = content[q] /\ wrote'[q] = wrote[q]
        /\ Key(q) \in DOMAIN bucket => Key(q) \in DOMAIN bucket' /\ bucket'[Key(q)] = bucket[Key(q)]

LEMMA StageKept ==
    ASSUME NEW r, NEW q \in Requests \ {r}, Others(r), req' = req, StageOK(q)
    PROVE  StageOK(q)'
<1>1. Sent(q)' = Sent(q)
  BY DEF Others, Sent, Target, Key
<1>2. Key(q)' = Key(q)
  BY DEF Key
<1> QED
  BY <1>1, <1>2 DEF StageOK, Others, FileStored

\* A step that does not commit and that changes the bucket under the key of r
\* at most.
LEMMA QuietStep ==
    ASSUME IInv, NEW r \in Requests, row' = row, req' = req, Others(r), DOMAIN wrote' = Requests,
           pc[r] # "done", pc'[r] # "done",
           \A k \in DOMAIN bucket \ {Key(r)} : k \in DOMAIN bucket' /\ bucket'[k] = bucket[k],
           TypeOK', StageOK(r)'
    PROVE  IInv'
<1> USE DEF IInv
<1>1. \A q \in Requests : Uploaded(q)' <=> Uploaded(q)
  BY DEF Uploaded, Others
<1>2. ASSUME NEW q \in Requests PROVE StageOK(q)'
  BY StageKept
<1>3. SeedStays'
  BY KeysDiffer DEF SeedStays
<1>4. ASSUME NEW e \in Evidence PROVE KeyOK(e)'
  BY <1>1 DEF KeyOK, Key
<1>5. UploadStands'
  BY DEF UploadStands, Others, Key
<1> QED
  BY <1>2, <1>3, <1>4, <1>5
-----------------------------------------------------------------------------
\* A step of r that changes no more than how far it has got.
LEMMA MoveStep ==
    ASSUME IInv, NEW r \in Requests, NEW stage \in (Working \cup Outcomes) \ {"done", "commit"},
           OnlyMoves(r, stage), pc[r] \notin {"commit", "done"}, StageOK(r)'
    PROVE  IInv'
<1> USE DEF IInv, OnlyMoves, Goto
<1>1. Others(r) /\ pc'[r] = stage
  BY StageFacts DEF Others
<1>2. TypeOK'
  BY DEF TypeOK
<1> QED
  BY <1>1, <1>2, QuietStep

LEMMA CheckStep ==
    ASSUME IInv, NEW r \in Requests, Check(r)
    PROVE  IInv'
<1> DEFINE stage == IF req[r].op = "edit" THEN "fetch"
                    ELSE IF req[r].evidence \notin Evidence THEN "not_found"
                    ELSE IF req[r].file.type \notin Types THEN "unsupported"
                    ELSE "read"
<1>1. pc[r] = "check" /\ OnlyMoves(r, stage)
  BY DEF Check
<1>2. /\ stage \in {"fetch", "not_found", "unsupported", "read"}
      /\ stage = "fetch" <=> req[r].op = "edit"
  OBVIOUS
<1> HIDE DEF stage
<1>3. pc'[r] = stage /\ UNCHANGED <<req, loaded, content, wrote, bucket>>
  BY <1>1, StageFacts DEF OnlyMoves, Goto
<1>4. req[r].op \in {"upload", "edit"} /\ wrote[r] = NoFields
  BY <1>1, StageFacts, RequestType DEF StageOK
<1>5. StageOK(r)'
  BY <1>2, <1>3, <1>4 DEF StageOK, Later
<1> QED
  BY <1>1, <1>2, <1>5, MoveStep DEF Working, Outcomes

LEMMA ReadFileStep ==
    ASSUME IInv, NEW r \in Requests, ReadFile(r)
    PROVE  IInv'
<1> USE DEF IInv
<1> DEFINE n == IF req[r].file.size < MaxSize + 1 THEN req[r].file.size ELSE MaxSize + 1
           stage == IF n > MaxSize THEN "too_large" ELSE "put"
<1>1. /\ pc[r] = "read" /\ req[r].op = "upload" /\ wrote[r] = NoFields
      /\ req[r].file.size \in Nat /\ MaxSize \in Nat
  BY StageFacts, RequestType DEF ReadFile, StageOK
<1>2. /\ content' = [content EXCEPT ![r] = n] /\ pc' = [pc EXCEPT ![r] = stage]
      /\ UNCHANGED <<row, bucket, req, loaded, wrote>>
  BY DEF ReadFile, Goto
<1>3. /\ n \in 0 .. MaxSize + 1 /\ stage \in {"too_large", "put"}
      /\ stage = "put" => n = req[r].file.size /\ n =< MaxSize
  BY <1>1
<1> HIDE DEF n, stage
<1>4. Others(r) /\ pc'[r] = stage /\ content'[r] = n
  BY <1>2, StageFacts DEF Others
<1>5. TypeOK'
  BY <1>2, <1>3 DEF TypeOK, Working, Outcomes
<1>6. StageOK(r)'
  BY <1>1, <1>2, <1>3, <1>4 DEF StageOK, Later
<1> QED
  BY <1>1, <1>2, <1>3, <1>4, <1>5, <1>6, QuietStep

\* What storing the file of r makes of the bucket.
LEMMA StoredFile ==
    ASSUME IInv, NEW r \in Requests, pc[r] = "put"
    PROVE  /\ DOMAIN Stored(r) = DOMAIN bucket \cup {Key(r)} /\ DOMAIN Stored(r) \subseteq Keys
           /\ \A k \in DOMAIN Stored(r) : Stored(r)[k] \in File
           /\ \A k \in DOMAIN bucket \ {Key(r)} : Stored(r)[k] = bucket[k]
           /\ Stored(r)[Key(r)] = req[r].file /\ req[r].file.size =< MaxSize
           /\ req[r].op = "upload" /\ wrote[r] = NoFields
<1>1. /\ req[r].op = "upload" /\ content[r] = req[r].file.size /\ content[r] =< MaxSize
      /\ wrote[r] = NoFields
  BY StageFacts DEF StageOK
<1>2. /\ req[r].file.type \in SentTypes /\ req[r].file.size \in Nat
      /\ req[r].file = [type |-> req[r].file.type, size |-> req[r].file.size]
  BY <1>1, StageFacts, RequestType
<1>3. [type |-> req[r].file.type, size |-> content[r]] = req[r].file
  BY <1>1, <1>2
<1>4. req[r].file \in File
  BY <1>2 DEF File
<1>5. /\ DOMAIN Stored(r) = DOMAIN bucket \cup {Key(r)}
      /\ \A k \in DOMAIN bucket \ {Key(r)} : Stored(r)[k] = bucket[k]
      /\ Stored(r)[Key(r)] = req[r].file
  BY <1>3 DEF Stored
<1> QED
  BY <1>1, <1>4, <1>5, KeysDiffer DEF IInv, TypeOK

LEMMA PutObjectStep ==
    ASSUME IInv, NEW r \in Requests, PutObject(r)
    PROVE  IInv'
<1> USE DEF IInv
<1>1. /\ pc[r] = "put" /\ bucket' = Stored(r) /\ pc' = [pc EXCEPT ![r] = "fetch"]
      /\ UNCHANGED <<row, req, loaded, content, wrote>>
  BY DEF PutObject, Goto
<1>2. Others(r) /\ pc'[r] = "fetch"
  BY <1>1, StageFacts, StoredFile, KeysDiffer DEF Others
<1>3. TypeOK'
  <2>1. DOMAIN bucket' \subseteq Keys /\ \A k \in DOMAIN bucket' : bucket'[k] \in File
    BY <1>1, StoredFile
  <2> QED
    BY <1>1, <2>1 DEF TypeOK, Working
<1>4. StageOK(r)'
  BY <1>1, <1>2, StageFacts, StoredFile DEF StageOK, Later, FileStored, Key
<1> QED
  BY <1>1, <1>2, <1>3, <1>4, StoredFile, QuietStep

\* r ends without success, whether S3 has its file or not.
LEMMA FailStep ==
    ASSUME IInv, NEW r \in Requests, NEW o \in Outcomes \ {"done"}, RolledBack(r, o),
           pc[r] # "done", UNCHANGED <<row, req, loaded, content>>,
           bucket' = bucket \/ (pc[r] = "put" /\ bucket' = Stored(r))
    PROVE  IInv'
<1> USE DEF IInv, RolledBack, Goto
<1>1. DOMAIN wrote' = Requests /\ pc'[r] = o /\ wrote'[r] = NoFields
  BY StageFacts
<1>2. \A k \in DOMAIN bucket \ {Key(r)} : k \in DOMAIN bucket' /\ bucket'[k] = bucket[k]
  BY StoredFile
<1>3. Others(r)
  BY <1>2, StageFacts, KeysDiffer DEF Others
<1>4. TypeOK'
  <2>1. DOMAIN bucket' \subseteq Keys /\ \A k \in DOMAIN bucket' : bucket'[k] \in File
    BY StoredFile DEF TypeOK
  <2>2. \A q \in Requests : DOMAIN wrote'[q] \subseteq {"key", "type", "size", "note"}
    BY <1>1 DEF TypeOK, NoFields
  <2> QED
    BY <2>1, <2>2 DEF TypeOK
<1>5. StageOK(r)'
  BY <1>1 DEF StageOK, Later, Outcomes
<1> QED
  BY <1>1, <1>2, <1>3, <1>4, <1>5, QuietStep DEF Outcomes

LEMMA FetchEvidenceStep ==
    ASSUME IInv, NEW r \in Requests, FetchEvidence(r)
    PROVE  IInv'
<1> USE DEF IInv
<1> pc[r] = "fetch" /\ wrote[r] = NoFields
  BY StageFacts DEF FetchEvidence, StageOK
<1>1. CASE req[r].evidence \notin Evidence
  <2>1. OnlyMoves(r, "not_found") /\ pc'[r] = "not_found"
    BY <1>1, StageFacts DEF FetchEvidence, OnlyMoves, Goto
  <2>2. StageOK(r)'
    BY <2>1 DEF OnlyMoves, StageOK, Later
  <2> QED
    BY <2>1, <2>2, MoveStep DEF Outcomes
<1>2. CASE req[r].evidence \in Evidence
  <2> DEFINE e == req[r].evidence
  <2>1. /\ loaded' = [loaded EXCEPT ![r] = row[e]] /\ pc' = [pc EXCEPT ![r] = "write"]
        /\ UNCHANGED <<row, bucket, req, content, wrote>>
    BY <1>2 DEF FetchEvidence, Goto
  <2>2. Others(r) /\ pc'[r] = "write" /\ loaded'[r] = row[e]
    BY <2>1, StageFacts DEF Others
  <2>3. TypeOK'
    BY <1>2, <2>1 DEF TypeOK, Working
  <2>4. row[e].key # Key(r)
    BY <1>2, KeysDiffer DEF KeyOK, Uploaded
  <2>5. StageOK(r)'
    BY <1>2, <2>1, <2>2, <2>4, StageFacts DEF StageOK, Later, FileStored, Key
  <2> QED
    BY <2>1, <2>2, <2>3, <2>5, QuietStep
<1> QED
  BY <1>1, <1>2

LEMMA WriteRowStep ==
    ASSUME IInv, NEW r \in Requests, WriteRow(r)
    PROVE  IInv'
<1> USE DEF IInv
<1>1. /\ pc[r] = "write" /\ wrote' = [wrote EXCEPT ![r] = Sent(r)]
      /\ pc' = [pc EXCEPT ![r] = "commit"]
      /\ UNCHANGED <<row, bucket, req, loaded, content>>
  BY DEF WriteRow, Goto
<1>2. Others(r) /\ pc'[r] = "commit" /\ wrote'[r] = Sent(r) /\ DOMAIN wrote' = Requests
  BY <1>1, StageFacts DEF Others
<1>3. DOMAIN Sent(r) \subseteq Cols
  BY <1>1, StageFacts, SentColumns DEF StageOK
<1>4. TypeOK'
  <2>1. \A q \in Requests : DOMAIN wrote'[q] \subseteq {"key", "type", "size", "note"}
    BY <1>2, <1>3 DEF TypeOK, Others, Cols
  <2> QED
    BY <1>1, <2>1 DEF TypeOK, Working
<1>5. StageOK(r)'
  <2>1. Sent(r)' = Sent(r)
    BY <1>1 DEF Sent, Target, Key
  <2> QED
    BY <1>1, <1>2, <2>1, StageFacts DEF StageOK, Later, FileStored, Key
<1> QED
  BY <1>1, <1>2, <1>4, <1>5, QuietStep

LEMMA CommitStep ==
    ASSUME IInv, NEW r \in Requests, Commit(r)
    PROVE  IInv'
<1> USE DEF IInv
<1> DEFINE e == req[r].evidence
<1>1. /\ pc[r] = "commit" /\ row' = [row EXCEPT ![e] = Set(row[e], wrote[r])]
      /\ pc' = [pc EXCEPT ![r] = "done"] /\ wrote' = [wrote EXCEPT ![r] = NoFields]
      /\ UNCHANGED <<bucket, req, loaded, content>>
  BY DEF Commit, RolledBack, Goto
<1>2. /\ Others(r) /\ pc'[r] = "done" /\ wrote'[r] = NoFields /\ DOMAIN wrote' = Requests
  BY <1>1, StageFacts DEF Others
<1>3. /\ e \in Evidence /\ wrote[r] = Sent(r) /\ loaded[r].key # Key(r)
      /\ req[r].op \in {"upload", "edit"}
  BY <1>1, StageFacts, RequestType DEF StageOK
<1>4. /\ DOMAIN wrote[r] \subseteq Cols /\ \A f \in DOMAIN wrote[r] : wrote[r][f] = Target(r)[f]
      /\ "key" \in DOMAIN wrote[r] <=> req[r].op = "upload"
  BY <1>3, StageFacts, SentColumns
<1>5. /\ row' \in [Evidence -> Row]
      /\ \A c \in Evidence : row'[c].key = IF c = e /\ req[r].op = "upload" THEN Key(r) ELSE row[c].key
  <2>1. row[e] \in Row /\ Target(r) \in Row /\ (req[r].op = "upload" => Target(r).key = Key(r))
    BY <1>3, StageFacts, TargetType DEF TypeOK
  <2>2. /\ Set(row[e], wrote[r]) \in Row
        /\ Set(row[e], wrote[r]).key = IF req[r].op = "upload" THEN Key(r) ELSE row[e].key
    BY <1>4, <2>1, SetType
  <2> QED
    BY <1>1, <1>3, <2>2 DEF TypeOK
<1>6. TypeOK'
  <2>1. \A q \in Requests : DOMAIN wrote'[q] \subseteq {"key", "type", "size", "note"}
    BY <1>2 DEF TypeOK, Others, NoFields
  <2> QED
    BY <1>1, <1>5, <2>1 DEF TypeOK, Outcomes
<1>7. SeedStays'
  BY <1>1 DEF SeedStays
<1>8. StageOK(r)'
  BY <1>1, <1>2, StageFacts DEF StageOK, Later, FileStored, Key
<1>9. \A q \in Requests : StageOK(q)'
  BY <1>1, <1>2, <1>8, StageKept
<1>10. \A q \in Requests : Uploaded(q)' <=> Uploaded(q) \/ (q = r /\ req[r].op = "upload")
  BY <1>1, <1>2 DEF Uploaded, Others
<1>11. ASSUME NEW c \in Evidence PROVE KeyOK(c)'
  BY <1>1, <1>5, <1>10 DEF KeyOK, Key
<1>12. UploadStands'
  <2> DEFINE Now(p) == Uploaded(p) \/ (p = r /\ req[r].op = "upload")
  <2> SUFFICES ASSUME NEW q \in Requests, Now(q)
               PROVE  \/ row'[req[q].evidence].key = Key(q)
                      \/ \E p \in Requests \ {q} : Now(p) /\ req[p].evidence = req[q].evidence
    BY <1>1, <1>2 DEF UploadStands, Uploaded, Key, Others
  <2>1. CASE q = r
    BY <1>3, <1>5, <2>1 DEF Uploaded
  <2>2. CASE q # r
    <3>1. \/ row[req[q].evidence].key = Key(q)
          \/ \E p \in Requests \ {q} : Uploaded(p) /\ req[p].evidence = req[q].evidence
      BY <2>2 DEF UploadStands, Uploaded
    <3>2. req[q].evidence \in Evidence
      BY <2>2, StageFacts DEF StageOK, Uploaded
    <3> QED
      BY <1>5, <2>2, <3>1, <3>2
  <2> QED
    BY <2>1, <2>2
<1> QED
  BY <1>2, <1>6, <1>7, <1>9, <1>11, <1>12

LEMMA Inductive == IInv /\ [Next]_vars => IInv'
<1> SUFFICES ASSUME IInv, [Next]_vars PROVE IInv'
  OBVIOUS
<1>1. CASE UNCHANGED vars
  <2>1. (TypeOK /\ DOMAIN wrote = Requests /\ SeedStays /\ UploadStands)'
    BY <1>1 DEF vars, IInv, TypeOK, SeedStays, UploadStands, Key
  <2>2. ASSUME NEW r \in Requests PROVE StageOK(r)'
    <3>1. Sent(r)' = Sent(r)
      BY <1>1 DEF vars, Sent, Target, Key
    <3> QED
      BY <1>1, <3>1 DEF vars, IInv, StageOK, FileStored, Key
  <2>3. ASSUME NEW e \in Evidence PROVE KeyOK(e)'
    BY <1>1 DEF vars, IInv, KeyOK, Uploaded, Key
  <2> QED
    BY <2>1, <2>2, <2>3 DEF IInv
<1>2. ASSUME NEW r \in Requests, PutFails(r)
      PROVE  IInv'
  BY <1>2, FailStep DEF PutFails, Outcomes
<1>3. ASSUME NEW r \in Requests, Crash(r)
      PROVE  IInv'
  BY <1>3, FailStep DEF Crash, Outcomes, Working
<1> QED
  BY <1>1, <1>2, <1>3, CheckStep, ReadFileStep, PutObjectStep, FetchEvidenceStep, WriteRowStep,
     CommitStep DEF Next

LEMMA Invariance == Spec => []IInv
<1> QED
  BY InitIInv, Inductive, PTL DEF Spec
-----------------------------------------------------------------------------
\* The state keeps its type: what is kept of an upload is one byte beyond the
\* limit at most.
THEOREM TypeCorrect == Spec => []TypeOK
<1>1. IInv => TypeOK
  BY DEF IInv
<1> QED
  BY <1>1, Invariance, PTL

\* The file a row leads to is its first one or the file, whole and within the
\* limit, of an upload that was answered with success: never one of an upload
\* that failed or died between S3 and the commit.
THEOREM RowsLeadToAnsweredFiles == Spec => []FileOfAnsweredUpload
<1>1. ASSUME IInv, NEW e \in Evidence
      PROVE  \/ row[e].key = Nil
             \/ row[e].key = SeedKey[e] /\ bucket[row[e].key] = SeedFile[row[e].key]
             \/ \E r \in Requests :
                   /\ pc[r] = "done" /\ req[r].op = "upload" /\ req[r].evidence = e
                   /\ bucket[row[e].key] = req[r].file
                   /\ req[r].file.size =< MaxSize
  <2>1. CASE row[e].key = SeedKey[e] /\ SeedKey[e] # Nil
    <3>1. SeedKey[e] \in DOMAIN SeedFile
      BY <2>1, SeedAssumption
    <3> QED
      BY <1>1, <2>1, <3>1 DEF IInv, SeedStays
  <2>2. ASSUME NEW r \in Requests, Uploaded(r), req[r].evidence = e, row[e].key = Key(r)
        PROVE  bucket[row[e].key] = req[r].file /\ req[r].file.size =< MaxSize
    BY <1>1, <2>2 DEF IInv, StageOK, Uploaded, Later, FileStored
  <2> QED
    BY <1>1, <2>1, <2>2 DEF IInv, KeyOK, Uploaded
<1>2. IInv => FileOfAnsweredUpload
  BY <1>1 DEF FileOfAnsweredUpload
<1> QED
  BY <1>2, Invariance, PTL

\* An answered upload is the one its row leads to, unless another one to the
\* same evidence was answered too.
THEOREM UploadsStand == Spec => []UploadStands
<1>1. IInv => UploadStands
  BY DEF IInv
<1> QED
  BY <1>1, Invariance, PTL

-----------------------------------------------------------------------------
\* ClientSession.

About(sent, p, part) == \E m \in sent : m.press = p /\ m.part = part
Wired(p, part) == About(wire, p, part)

\* The parts a dialog sends.
Fits(p, part) ==
    \/ dialog[p] = "new_person" /\ part = "person"
    \/ dialog[p] \in {"add_evidence", "add_evidence_with_file"} /\ part = "evidence"
    \/ dialog[p] = "add_evidence_with_file" /\ part = "file"

\* The call of a session: its press has no answer yet, the file follows the
\* evidence, and a call to be sent again is neither on its way nor carried out.
CallOK(s) ==
    /\ phase[s] = "idle" <=> call[s] = NoCall
    /\ call[s] # NoCall =>
          LET p == call[s].press
              part == call[s].part
          IN  /\ Fits(p, part) /\ told[p] = "nothing"
              /\ part = "evidence" => ~ Wired(p, "file") /\ ~ Written(p, "file")
              /\ part = "file" => Written(p, "evidence")
              /\ phase[s] = "refreshing" => ~ Wired(p, part) /\ ~ Written(p, part)
              /\ \A t \in Sessions \ {s} : call[t].press # p

\* What is on its way is one of its kind, and is not yet written.
MessageOK(m) ==
    /\ Fits(m.press, m.part) /\ ~ Written(m.press, m.part)
    /\ m.again = m.fresh
    /\ \A n \in wire : n.press = m.press /\ n.part = m.part => n = m

\* What a user has been told.
PressOK(p) ==
    /\ dialog[p] = "none" => told[p] = "nothing"
    /\ \A part \in Parts : Written(p, part) => Fits(p, part)
    /\ told[p] = "added" =>
          /\ Written(p, IF dialog[p] = "new_person" THEN "person" ELSE "evidence")
          /\ dialog[p] = "add_evidence_with_file" => Written(p, "file")
    /\ told[p] = "half" => Written(p, "evidence")
    /\ told[p] \in {"refused", "unauthorized"} =>
          \A part \in Parts : ~ Written(p, part) /\ ~ Wired(p, part)

SessionInv ==
    /\ SessionTypeOK /\ WrittenOnce
    /\ \A s \in Sessions : CallOK(s)
    /\ \A m \in wire : MessageOK(m)
    /\ \A p \in Presses : PressOK(p)

\* Of the requests on their way only those in rest stay, and what is written is
\* what was, and parts of requests that have arrived.
Carries(rest) ==
    /\ rest \subseteq wire /\ WrittenOnce'
    /\ \A p, part : /\ Written(p, part) => Written(p, part)'
                    /\ Written(p, part)' => \/ Written(p, part)
                                            \/ Wired(p, part) /\ ~ About(rest, p, part)
-----------------------------------------------------------------------------
LEMMA Unserved ==
    ASSUME SessionInv, NEW rest, rest \subseteq wire, log' = log
    PROVE  Carries(rest)
BY DEF SessionInv, Carries, Written, WrittenOnce

LEMMA LogGrows ==
    ASSUME log \in Seq(Presses \X Parts), NEW e \in Presses \X Parts, log' = Append(log, e)
    PROVE  /\ log' \in Seq(Presses \X Parts) /\ Len(log') = Len(log) + 1
           /\ DOMAIN log = 1 .. Len(log) /\ DOMAIN log' = 1 .. Len(log) + 1 /\ Len(log) \in Nat
           /\ \A i \in 1 .. Len(log) : log'[i] = log[i]
           /\ log'[Len(log) + 1] = e
BY AppendProperties, LenProperties

LEMMA Served ==
    ASSUME SessionInv, NEW m \in wire, log' = Append(log, <<m.press, m.part>>)
    PROVE  /\ Carries(wire \ {m}) /\ Written(m.press, m.part)'
           /\ log' \in Seq(Presses \X Parts) /\ Len(log') = Len(log) + 1 /\ Len(log) \in Nat
<1> DEFINE e == <<m.press, m.part>>
           n == Len(log)
<1>1. m \in Message /\ MessageOK(m) /\ log \in Seq(Presses \X Parts) /\ WrittenOnce
  BY DEF SessionInv, SessionTypeOK
<1>2. e \in Presses \X Parts
  BY <1>1 DEF Message
<1> HIDE DEF e
<1>3. /\ log' \in Seq(Presses \X Parts) /\ Len(log') = n + 1 /\ n \in Nat
      /\ DOMAIN log = 1 .. n /\ DOMAIN log' = 1 .. n + 1
      /\ \A i \in 1 .. n : log'[i] = log[i]
      /\ log'[n + 1] = e
  BY <1>1, <1>2, LogGrows DEF e
<1> HIDE DEF n
<1>4. /\ \A i \in 1 .. n + 1 : i \in 1 .. n \/ i = n + 1
      /\ \A i \in 1 .. n : i \in 1 .. n + 1
      /\ n + 1 \in 1 .. n + 1
  BY <1>3
<1>5. \A i \in 1 .. n : log[i] # e
  BY <1>1, <1>3 DEF MessageOK, Written, e
<1>6. WrittenOnce'
  <2>1. ASSUME NEW i \in 1 .. n + 1, NEW j \in 1 .. n + 1, log'[i] = log'[j]
        PROVE  i = j
    <3>1. CASE i \in 1 .. n /\ j \in 1 .. n
      <4>1. log[i] = log[j] /\ i \in DOMAIN log /\ j \in DOMAIN log
        BY <1>3, <2>1, <3>1
      <4> QED
        BY <1>1, <4>1 DEF WrittenOnce
    <3>2. CASE i = n + 1 \/ j = n + 1
      BY <1>3, <1>4, <1>5, <2>1, <3>2
    <3> QED
      BY <1>4, <3>1, <3>2
  <2>2. \A i, j \in DOMAIN log' : log'[i] = log'[j] => i = j
    BY <1>3, <2>1
  <2> QED
    BY <2>2 DEF WrittenOnce
<1>7. ASSUME NEW p, NEW part
      PROVE  /\ Written(p, part) => Written(p, part)'
             /\ Written(p, part)' => Written(p, part) \/ <<p, part>> = e
  BY <1>3, <1>4 DEF Written
<1>8. Written(m.press, m.part)'
  BY <1>3, <1>4 DEF Written, e
<1>9. ASSUME NEW p, NEW part, <<p, part>> = e
      PROVE  Wired(p, part) /\ ~ About(wire \ {m}, p, part)
  <2>1. p = m.press /\ part = m.part
    BY <1>9 DEF e
  <2> QED
    BY <1>1, <2>1 DEF Wired, About, MessageOK
<1> QED
  BY <1>3, <1>6, <1>7, <1>8, <1>9 DEF Carries, n
-----------------------------------------------------------------------------
\* A session that is not concerned by a step.
LEMMA CallKept ==
    ASSUME SessionInv, NEW t \in Sessions, call'[t] = call[t], phase'[t] = phase[t],
           NEW rest, Carries(rest),
           call[t] # NoCall =>
              /\ dialog'[call[t].press] = dialog[call[t].press]
              /\ told'[call[t].press] = told[call[t].press]
              /\ \A part : About(wire', call[t].press, part) => About(rest, call[t].press, part)
              /\ \A u \in Sessions \ {t} : call'[u].press # call[t].press
    PROVE  CallOK(t)'
<1> SUFFICES ASSUME call[t] # NoCall PROVE CallOK(t)'
  BY DEF SessionInv, CallOK
<1> DEFINE p == call[t].press
<1>1. \A part : Wired(p, part)' => Wired(p, part)
  BY DEF Carries, Wired, About
<1>2. /\ Written(p, "file")' => Written(p, "file") \/ Wired(p, "file")
      /\ Written(p, call[t].part)' => Written(p, call[t].part) \/ Wired(p, call[t].part)
      /\ Written(p, "evidence") => Written(p, "evidence")'
  BY DEF Carries
<1>3. CallOK(t)
  BY DEF SessionInv
<1>4. Fits(p, call[t].part)'
  BY <1>3 DEF CallOK, Fits
<1> QED
  BY <1>1, <1>2, <1>3, <1>4 DEF CallOK

LEMMA MessageKept ==
    ASSUME SessionInv, NEW rest, Carries(rest), NEW m \in rest,
           dialog'[m.press] = dialog[m.press],
           \A n \in wire' : n \in rest \/ n.press # m.press \/ n.part # m.part
    PROVE  MessageOK(m)'
<1>1. MessageOK(m) /\ m \in wire /\ rest \subseteq wire
  BY DEF SessionInv, Carries
<1>2. About(rest, m.press, m.part)
  BY DEF About
<1>3. ~ Written(m.press, m.part)'
  BY <1>1, <1>2 DEF Carries, MessageOK
<1>4. Fits(m.press, m.part)'
  BY <1>1 DEF MessageOK, Fits
<1> QED
  BY <1>1, <1>3, <1>4 DEF MessageOK

LEMMA PressKept ==
    ASSUME SessionInv, NEW rest, Carries(rest), NEW p \in Presses,
           dialog'[p] = dialog[p], told'[p] = told[p],
           told[p] # "nothing" => \A part : About(wire', p, part) => About(rest, p, part)
    PROVE  PressOK(p)'
<1>1. PressOK(p)
  BY DEF SessionInv
<1>2. ASSUME NEW part, Wired(p, part) PROVE Fits(p, part)
  BY <1>2 DEF SessionInv, MessageOK, Wired, About
<1>3. \A part : Fits(p, part)' <=> Fits(p, part)
  BY DEF Fits
<1>4. \A part \in Parts : Written(p, part)' => Fits(p, part)'
  BY <1>1, <1>2, <1>3 DEF PressOK, Carries
<1>5. told[p] \in {"refused", "unauthorized"} =>
         \A part \in Parts : ~ Written(p, part)' /\ ~ Wired(p, part)'
  BY <1>1 DEF PressOK, Carries, Wired, About
<1>6. \A part : Written(p, part) => Written(p, part)'
  BY DEF Carries
<1> QED
  BY <1>1, <1>4, <1>5, <1>6 DEF PressOK
-----------------------------------------------------------------------------
\* What the sessions see and the replica has, by type.
PageOK ==
    /\ log \in Seq(Presses \X Parts)
    /\ applied \in 0 .. Len(log)
    /\ loggedIn \subseteq Sessions /\ cached \subseteq Sessions
    /\ listed \in [Sessions -> 0 .. applied]

LEMMA CallFields ==
    ASSUME SessionInv, NEW s \in Sessions
    PROVE  /\ NoCall \notin [press : Presses, part : Parts]
           /\ NoCall.press = 0 /\ 0 \notin Presses
           /\ call[s] # NoCall =>
                /\ call[s].press \in Presses /\ call[s].part \in Parts
                /\ call[s] = [press |-> call[s].press, part |-> call[s].part]
                /\ \A t \in Sessions \ {s} : call[t].press # call[s].press
<1>1. NoCall.press = 0 /\ 0 \notin Presses
  BY MaxPressesAssumption DEF NoCall, Presses
<1>2. NoCall \notin [press : Presses, part : Parts]
  BY <1>1
<1>3. call[s] \in [press : Presses, part : Parts] \cup {NoCall} /\ CallOK(s)
  BY DEF SessionInv, SessionTypeOK
<1> QED
  BY <1>1, <1>2, <1>3 DEF CallOK

\* Requests are served, refused or lost, and no session hears of it.
LEMMA UnheardStep ==
    ASSUME SessionInv, NEW rest, Carries(rest), wire' = rest,
           UNCHANGED <<dialog, told, phase, call>>, PageOK'
    PROVE  SessionInv'
<1>1. SessionTypeOK'
  BY DEF SessionInv, SessionTypeOK, PageOK, Carries
<1>2. WrittenOnce'
  BY DEF Carries
<1>3. ASSUME NEW t \in Sessions PROVE CallOK(t)'
  <2>1. call[t] # NoCall => \A u \in Sessions \ {t} : call'[u].press # call[t].press
    BY CallFields
  <2> QED
    BY <2>1, CallKept
<1>4. ASSUME NEW m \in rest PROVE MessageOK(m)'
  BY MessageKept
<1>5. ASSUME NEW p \in Presses PROVE PressOK(p)'
  BY PressKept
<1> QED
  BY <1>1, <1>2, <1>3, <1>4, <1>5 DEF SessionInv

\* A dialog ends with a message that is so.
LEMMA TellStep ==
    ASSUME SessionInv, NEW s \in Sessions, call[s] # NoCall, NEW p, p = call[s].press,
           NEW message \in Told, NEW rest, Carries(rest), Tell(s, message, rest),
           dialog' = dialog, PageOK',
           message = "added" =>
              /\ Written(p, IF dialog[p] = "new_person" THEN "person" ELSE "evidence")'
              /\ dialog[p] = "add_evidence_with_file" => Written(p, "file")',
           message = "half" => Written(p, "evidence")',
           message \in {"refused", "unauthorized"} =>
              \A part \in Parts : ~ Written(p, part)' /\ ~ About(rest, p, part)
    PROVE  SessionInv'
<1>1. /\ p \in Presses /\ SessionTypeOK
      /\ \A t \in Sessions \ {s} : call[t].press # p
  BY CallFields DEF SessionInv
<1>2. /\ wire' = rest /\ rest \subseteq wire
      /\ told' = [told EXCEPT ![p] = message]
      /\ call' = [call EXCEPT ![s] = NoCall] /\ phase' = [phase EXCEPT ![s] = "idle"]
  BY DEF Tell, Carries
<1>3. SessionTypeOK'
  BY <1>1, <1>2 DEF SessionTypeOK, PageOK
<1>4. WrittenOnce'
  BY DEF Carries
<1>5. ASSUME NEW t \in Sessions PROVE CallOK(t)'
  <2>1. CASE t = s
    BY <1>1, <1>2, <2>1 DEF CallOK, SessionTypeOK
  <2>2. CASE t # s
    <3>1. call'[t] = call[t] /\ phase'[t] = phase[t]
      BY <1>1, <1>2, <2>2 DEF SessionTypeOK
    <3>2. call[t] # NoCall => told'[call[t].press] = told[call[t].press]
      BY <1>1, <1>2, <2>2, CallFields DEF SessionTypeOK
    <3>3. call[t] # NoCall => \A u \in Sessions \ {t} : call'[u].press # call[t].press
      BY <1>1, <1>2, CallFields DEF SessionTypeOK
    <3> QED
      BY <1>2, <3>1, <3>2, <3>3, CallKept
  <2> QED
    BY <2>1, <2>2
<1>6. ASSUME NEW m \in rest PROVE MessageOK(m)'
  BY <1>2, MessageKept
<1>7. ASSUME NEW q \in Presses PROVE PressOK(q)'
  <2>1. CASE q = p
    <3>1. told'[p] = message
      BY <1>1, <1>2 DEF SessionTypeOK
    <3>2. dialog'[p] # "none"
      BY DEF SessionInv, CallOK, Fits
    <3>3. \A part \in Parts : Written(p, part)' => Fits(p, part)'
      <4>1. ASSUME NEW part, Wired(p, part) PROVE Fits(p, part)
        BY <4>1 DEF SessionInv, MessageOK, Wired, About
      <4>2. \A part : Fits(p, part)' <=> Fits(p, part)
        BY DEF Fits
      <4>3. \A part \in Parts : Written(p, part) => Fits(p, part)
        BY <1>1 DEF SessionInv, PressOK
      <4> QED
        BY <4>1, <4>2, <4>3 DEF Carries
    <3>4. \A part \in Parts : Wired(p, part)' <=> About(rest, p, part)
      BY <1>2 DEF Wired, About
    <3> QED
      BY <2>1, <3>1, <3>2, <3>3, <3>4 DEF PressOK
  <2>2. CASE q # p
    <3>1. told'[q] = told[q]
      BY <1>1, <1>2, <2>2 DEF SessionTypeOK
    <3> QED
      BY <1>2, <3>1, PressKept
  <2> QED
    BY <2>1, <2>2
<1> QED
  BY <1>2, <1>3, <1>4, <1>5, <1>6, <1>7 DEF SessionInv

\* A session sends a part that is neither on its way nor written.
LEMMA SendStep ==
    ASSUME SessionInv, NEW s \in Sessions, NEW p \in Presses, NEW part \in Parts,
           NEW next \in {"first", "again"}, NEW rest, Carries(rest),
           Send(s, p, part, next, rest), told' = told, PageOK',
           dialog' \in [Presses -> Dialogs \cup {"none"}],
           dialog' = dialog \/ dialog[p] = "none",
           \A q \in Presses \ {p} : dialog'[q] = dialog[q],
           Fits(p, part)', told[p] = "nothing",
           ~ Written(p, part)', ~ About(rest, p, part),
           part = "evidence" => ~ Written(p, "file")' /\ ~ About(rest, p, "file"),
           part = "file" => Written(p, "evidence")',
           \A t \in Sessions \ {s} : call[t].press # p
    PROVE  SessionInv'
<1> DEFINE new == [session |-> s, press |-> p, part |-> part,
                   again |-> next = "again", fresh |-> next = "again"]
<1>1. /\ wire' = rest \cup {new} /\ rest \subseteq wire /\ SessionTypeOK
      /\ call' = [call EXCEPT ![s] = [press |-> p, part |-> part]]
      /\ phase' = [phase EXCEPT ![s] = next]
  BY DEF Send, Carries, SessionInv
<1>2. /\ new \in Message /\ new.press = p /\ new.part = part /\ new.again = new.fresh
  BY DEF Message
<1> HIDE DEF new
<1>3. SessionTypeOK'
  BY <1>1, <1>2 DEF SessionTypeOK, PageOK
<1>4. WrittenOnce'
  BY DEF Carries
<1>5. /\ \A q, x : About(wire', q, x) => About(rest, q, x) \/ (q = p /\ x = part)
      /\ \A q, x : About(rest, q, x) => Fits(q, x) /\ dialog[q] # "none"
  BY <1>1, <1>2 DEF About, SessionInv, MessageOK, Fits
<1>6. ASSUME NEW t \in Sessions PROVE CallOK(t)'
  <2>1. CASE t = s
    <3>1. call'[s] = [press |-> p, part |-> part] /\ phase'[s] = next
      BY <1>1 DEF SessionTypeOK
    <3>2. call'[s].press = p /\ call'[s].part = part /\ call'[s] # NoCall
      <4>1. call'[s].press = p /\ call'[s].part = part
        BY <3>1
      <4>2. NoCall.press # p
        BY CallFields
      <4> QED
        BY <4>1, <4>2
    <3>3. \A u \in Sessions \ {s} : call'[u].press # p
      BY <1>1 DEF SessionTypeOK
    <3>4. part = "evidence" => ~ About(wire', p, "file")
      BY <1>5
    <3>5. phase'[s] # "idle" /\ phase'[s] # "refreshing"
      BY <3>1
    <3>6. /\ Fits(call[s].press, call[s].part)'
          /\ part = "file" => Written(call[s].press, "evidence")'
          /\ part = "evidence" => ~ Wired(call[s].press, "file")' /\ ~ Written(call[s].press, "file")'
      BY <3>2, <3>4 DEF Fits, Written, Wired, About
    <3> QED
      BY <2>1, <3>2, <3>3, <3>5, <3>6 DEF CallOK
  <2>2. CASE t # s
    <3>1. call'[t] = call[t] /\ phase'[t] = phase[t] /\ call[t].press # p
      BY <1>1, <2>2 DEF SessionTypeOK
    <3>2. call[t] # NoCall => dialog'[call[t].press] = dialog[call[t].press]
      BY <3>1, CallFields
    <3>3. call[t] # NoCall => \A u \in Sessions \ {t} : call'[u].press # call[t].press
      BY <1>1, <3>1, CallFields DEF SessionTypeOK
    <3> QED
      BY <1>5, <3>1, <3>2, <3>3, CallKept
  <2> QED
    BY <2>1, <2>2
<1>7. ASSUME NEW m \in rest PROVE MessageOK(m)'
  <2>1. About(rest, m.press, m.part)
    BY DEF About
  <2>2. m.press \in Presses
    BY <1>1 DEF SessionTypeOK, Message
  <2>3. dialog'[m.press] = dialog[m.press]
    BY <1>5, <2>1, <2>2
  <2>4. \A n \in wire' : n \in rest \/ n.press # m.press \/ n.part # m.part
    BY <1>1, <1>2, <2>1
  <2> QED
    BY <2>3, <2>4, MessageKept
<1>8. MessageOK(new)'
  <2>1. \A n \in rest : n.press # p \/ n.part # part
    BY DEF About
  <2> QED
    BY <1>1, <1>2, <2>1 DEF MessageOK
<1>9. ASSUME NEW q \in Presses PROVE PressOK(q)'
  <2>1. CASE dialog'[q] = dialog[q]
    <3>1. told[q] # "nothing" => q # p
      OBVIOUS
    <3> QED
      BY <1>5, <2>1, <3>1, PressKept
  <2>2. CASE dialog'[q] # dialog[q]
    <3>1. q = p /\ dialog[p] = "none" /\ told'[p] = "nothing"
      BY <2>2
    <3>2. \A x : ~ Fits(p, x)
      BY <3>1 DEF Fits
    <3>3. \A x : ~ Wired(p, x)
      BY <3>2 DEF Wired, About, SessionInv, MessageOK
    <3>4. \A x \in Parts : ~ Written(p, x)
      BY <3>2 DEF SessionInv, PressOK
    <3>5. \A x \in Parts : ~ Written(p, x)'
      BY <3>3, <3>4 DEF Carries
    <3> QED
      BY <3>1, <3>5 DEF PressOK
  <2> QED
    BY <2>1, <2>2
<1> QED
  BY <1>1, <1>3, <1>4, <1>6, <1>7, <1>8, <1>9 DEF SessionInv

\* A session is told that its token has run out: its request is gone, and was not
\* carried out.
LEMMA ExpiredStep ==
    ASSUME SessionInv, NEW m \in wire, Awaits(m), log' = log, wire' = wire \ {m},
           phase' = [phase EXCEPT ![m.session] = "refreshing"],
           UNCHANGED <<dialog, told, call>>, PageOK'
    PROVE  SessionInv'
<1> DEFINE rest == wire \ {m}
           s == m.session
<1>1. SessionTypeOK /\ m \in Message /\ MessageOK(m) /\ s \in Sessions
  BY DEF SessionInv, SessionTypeOK, Message
<1>2. call[s] = [press |-> m.press, part |-> m.part] /\ phase[s] # "idle" /\ call[s] # NoCall
  BY <1>1 DEF Awaits, SessionInv, CallOK
<1>3. Carries(rest)
  BY Unserved
<1>4. SessionTypeOK'
  BY <1>1 DEF SessionTypeOK, PageOK
<1>5. ASSUME NEW t \in Sessions PROVE CallOK(t)'
  <2>1. CASE t = s
    <3>1. CallOK(s) /\ call'[s] = call[s] /\ phase'[s] = "refreshing"
      BY <1>1 DEF SessionInv, SessionTypeOK
    <3>2. ~ Wired(m.press, m.part)' /\ ~ Written(m.press, m.part)'
      BY <1>1 DEF MessageOK, Wired, About, Written
    <3>3. \A p, part : /\ Wired(p, part)' => Wired(p, part)
                       /\ Written(p, part)' <=> Written(p, part)
                       /\ Fits(p, part)' <=> Fits(p, part)
      BY DEF Wired, About, Written, Fits
    <3> QED
      BY <1>2, <2>1, <3>1, <3>2, <3>3 DEF CallOK
  <2>2. CASE t # s
    <3>1. call[t] # NoCall => \A u \in Sessions \ {t} : call'[u].press # call[t].press
      BY CallFields
    <3>2. call'[t] = call[t] /\ phase'[t] = phase[t]
      BY <1>1, <2>2 DEF SessionTypeOK
    <3> QED
      BY <1>3, <3>1, <3>2, CallKept
  <2> QED
    BY <2>1, <2>2
<1>6. ASSUME NEW n \in rest PROVE MessageOK(n)'
  BY <1>3, MessageKept
<1>7. ASSUME NEW p \in Presses PROVE PressOK(p)'
  BY <1>3, PressKept
<1> QED
  BY <1>3, <1>4, <1>5, <1>6, <1>7 DEF SessionInv, Carries
-----------------------------------------------------------------------------
\* What is known of a call.
LEMMA CallFacts ==
    ASSUME SessionInv, NEW s \in Sessions, phase[s] # "idle"
    PROVE  /\ call[s] # NoCall /\ call[s].press \in Presses /\ call[s].part \in Parts
           /\ Fits(call[s].press, call[s].part) /\ told[call[s].press] = "nothing"
           /\ call[s].part = "evidence" =>
                 ~ Wired(call[s].press, "file") /\ ~ Written(call[s].press, "file")
           /\ call[s].part = "file" => Written(call[s].press, "evidence")
           /\ phase[s] = "refreshing" =>
                 ~ Wired(call[s].press, call[s].part) /\ ~ Written(call[s].press, call[s].part)
           /\ \A t \in Sessions \ {s} : call[t].press # call[s].press
BY CallFields DEF SessionInv, CallOK

\* Nothing is on its way or written that the dialog does not send.
LEMMA OnlyFitting ==
    ASSUME SessionInv, NEW p \in Presses, NEW part \in Parts, Wired(p, part) \/ Written(p, part)
    PROVE  Fits(p, part)
BY DEF SessionInv, MessageOK, PressOK, Wired, About

\* The call whose answer arrives.
LEMMA AwaitedCall ==
    ASSUME SessionInv, NEW m \in wire, Awaits(m)
    PROVE  /\ m.session \in Sessions /\ phase[m.session] # "idle" /\ MessageOK(m)
           /\ call[m.session].press = m.press /\ call[m.session].part = m.part
           /\ ~ About(wire \ {m}, m.press, m.part)
<1>1. m \in Message /\ MessageOK(m)
  BY DEF SessionInv, SessionTypeOK
<1> QED
  BY <1>1 DEF Awaits, MessageOK, Message, About

LEMMA ServeStep ==
    ASSUME SessionInv, NEW m \in wire, Serve(m)
    PROVE  SessionInv'
<1> DEFINE rest == wire \ {m}
           s == m.session
<1>1. SessionTypeOK /\ log' = Append(log, <<m.press, m.part>>) /\ Answer(m, "ok")
  BY DEF SessionInv, Serve
<1>2. /\ Carries(rest) /\ Written(m.press, m.part)'
      /\ log' \in Seq(Presses \X Parts) /\ Len(log') = Len(log) + 1 /\ Len(log) \in Nat
  BY <1>1, Served
<1>3. dialog' = dialog /\ PageOK'
  BY <1>1, <1>2 DEF Answer, page, SessionTypeOK, PageOK
<1>4. CASE wire' = rest /\ UNCHANGED <<phase, call, told>>
  BY <1>2, <1>3, <1>4, UnheardStep
<1>5. CASE Awaits(m) /\ Hear(s, "ok", rest)
  <2> DEFINE p == m.press
  <2>1. /\ s \in Sessions /\ phase[s] # "idle" /\ MessageOK(m)
        /\ call[s].press = p /\ call[s].part = m.part /\ p \in Presses
    BY <1>5, AwaitedCall, CallFacts
  <2> HIDE DEF rest, s, p
  <2>2. CASE call[s].part = "evidence" /\ HasFile(s) /\ Send(s, p, "file", "first", rest) /\ told' = told
    <3>1. Fits(p, "file")'
      BY <1>3, <2>1, <2>2 DEF HasFile, Fits
    <3>2. ~ Wired(p, "file") /\ ~ Written(p, "file") /\ told[p] = "nothing"
      BY <2>1, <2>2, CallFacts
    <3>3. ~ About(rest, p, "file") /\ ~ Written(p, "file")'
      BY <1>2, <3>2 DEF Carries, Wired, About
    <3>4. Written(p, "evidence")'
      BY <1>2, <2>1, <2>2 DEF p
    <3>5. \A t \in Sessions \ {s} : call[t].press # p
      BY <2>1, CallFacts
    <3>6. dialog' \in [Presses -> Dialogs \cup {"none"}]
      BY <1>1, <1>3 DEF SessionTypeOK
    <3>7. "file" \in Parts
      BY DEF Parts
    <3> QED
      BY <1>2, <1>3, <2>1, <2>2, <3>1, <3>2, <3>3, <3>4, <3>5, <3>6, <3>7, SendStep
  <2>3. CASE ~ (call[s].part = "evidence" /\ HasFile(s)) /\ Tell(s, "added", rest)
    <3>1. /\ call[s] # NoCall /\ Fits(p, m.part)
          /\ m.part = "file" => Written(p, "evidence")
      BY <2>1, CallFacts
    <3>2. /\ Written(p, "evidence") => Written(p, "evidence")'
          /\ Written(p, m.part)'
      BY <1>2 DEF Carries, p
    <3>3. /\ Written(p, IF dialog[p] = "new_person" THEN "person" ELSE "evidence")'
          /\ dialog[p] = "add_evidence_with_file" => Written(p, "file")'
      BY <1>3, <2>1, <2>3, <3>1, <3>2 DEF Fits, HasFile
    <3>4. "added" \in Told
      BY DEF Told
    <3> QED
      BY <1>2, <1>3, <2>1, <2>3, <3>1, <3>3, <3>4, TellStep
  <2> QED
    BY <1>5, <2>1, <2>2, <2>3 DEF Hear
<1> QED
  BY <1>1, <1>4, <1>5 DEF Answer

LEMMA UnauthorizedStep ==
    ASSUME SessionInv, NEW m \in wire, Unauthorized(m)
    PROVE  SessionInv'
<1> DEFINE rest == wire \ {m}
           s == m.session
<1>1. ~ m.fresh /\ Answer(m, "unauthorized") /\ log' = log /\ SessionTypeOK
  BY DEF Unauthorized, SessionInv
<1>2. dialog' = dialog /\ PageOK'
  BY <1>1 DEF Answer, page, SessionTypeOK, PageOK
<1>3. CASE wire' = rest /\ UNCHANGED <<phase, call, told>>
  BY <1>1, <1>2, <1>3, Unserved, UnheardStep
<1>4. CASE Awaits(m) /\ Hear(s, "unauthorized", rest)
  <2>1. phase[s] # "again"
    BY <1>1, <1>4, AwaitedCall DEF MessageOK, Awaits
  <2>2. phase' = [phase EXCEPT ![s] = "refreshing"] /\ wire' = rest /\ UNCHANGED <<call, told>>
    BY <1>4, <2>1 DEF Hear
  <2> QED
    BY <1>1, <1>2, <1>4, <2>2, ExpiredStep
<1> QED
  BY <1>1, <1>3, <1>4 DEF Answer

LEMMA RefuseStep ==
    ASSUME SessionInv, NEW m \in wire, Refuse(m)
    PROVE  SessionInv'
<1> DEFINE rest == wire \ {m}
           s == m.session
<1>1. Answer(m, "refused") /\ log' = log /\ SessionTypeOK
  BY DEF Refuse, SessionInv
<1>2. dialog' = dialog /\ PageOK' /\ Carries(rest)
  BY <1>1, Unserved DEF Answer, page, SessionTypeOK, PageOK
<1>3. CASE wire' = rest /\ UNCHANGED <<phase, call, told>>
  BY <1>2, <1>3, UnheardStep
<1>4. CASE Awaits(m) /\ Hear(s, "refused", rest)
  <2> DEFINE p == m.press
             message == Failure(s, "refused")
  <2>1. /\ s \in Sessions /\ phase[s] # "idle" /\ MessageOK(m)
        /\ call[s].press = p /\ call[s].part = m.part
        /\ ~ About(rest, p, m.part)
    BY <1>4, AwaitedCall
  <2>2. /\ call[s] # NoCall /\ Fits(p, m.part) /\ p \in Presses
        /\ m.part = "evidence" => ~ Wired(p, "file") /\ ~ Written(p, "file")
        /\ m.part = "file" => Written(p, "evidence")
    BY <2>1, CallFacts
  <2>3. Tell(s, message, rest)
    BY <1>4 DEF Hear
  <2>4. ~ Written(p, m.part)
    BY <2>1 DEF MessageOK
  <2>5. rest \subseteq wire
    OBVIOUS
  <2> HIDE DEF rest, s, p
  <2>6. /\ message \in {"half", "refused"} /\ message \in Told
        /\ message = "half" <=> m.part = "file"
    BY <2>1 DEF Failure, Told
  <2> HIDE DEF message
  <2>7. \A part : Written(p, part)' <=> Written(p, part)
    BY <1>1 DEF Written
  <2>8. ASSUME message = "refused", NEW part \in Parts
        PROVE  ~ Written(p, part)' /\ ~ About(rest, p, part)
    <3>1. m.part # "file"
      BY <2>6, <2>8
    <3>2. CASE part = m.part
      BY <2>1, <2>4, <2>7, <3>2
    <3>3. CASE part # m.part
      <4>1. Fits(p, part) => m.part = "evidence" /\ part = "file"
        BY <2>2, <3>1, <3>3 DEF Fits
      <4>2. About(rest, p, part) => Wired(p, part)
        BY <2>5 DEF About, Wired
      <4> QED
        BY <2>2, <2>7, <4>1, <4>2, OnlyFitting
    <3> QED
      BY <3>2, <3>3
  <2>9. message = "half" => Written(p, "evidence")'
    BY <2>2, <2>6, <2>7
  <2>10. message # "added" /\ message # "unauthorized"
    BY <2>6
  <2> QED
    BY <1>2, <2>1, <2>2, <2>3, <2>6, <2>8, <2>9, <2>10, TellStep
<1> QED
  BY <1>1, <1>3, <1>4 DEF Answer

\* A call is given up, which says nothing of what becomes of it.
LEMMA GiveUpStep ==
    ASSUME SessionInv, NEW s \in Sessions, phase[s] # "idle", log' = log, dialog' = dialog, PageOK',
           NEW message \in {"half", "unreachable", "dropped"}, Tell(s, message, wire),
           message = "half" => call[s].part = "file"
    PROVE  SessionInv'
<1> DEFINE p == call[s].press
<1>1. call[s] # NoCall /\ (message = "half" => Written(p, "evidence"))
  BY CallFacts
<1>2. Carries(wire)
  BY Unserved
<1>3. PICK q : q = p
  OBVIOUS
<1>4. message = "half" => Written(q, "evidence")'
  BY <1>1, <1>3 DEF Written
<1>5. message \in Told /\ message \notin {"added", "refused", "unauthorized"}
  BY DEF Told
<1> HIDE DEF p
<1> QED
  BY <1>1, <1>2, <1>3, <1>4, <1>5, TellStep DEF p

LEMMA TimeoutStep ==
    ASSUME SessionInv, NEW s \in Sessions, Timeout(s)
    PROVE  SessionInv'
<1>1. phase[s] # "idle" /\ log' = log /\ dialog' = dialog /\ PageOK'
  BY DEF Timeout, page, SessionInv, SessionTypeOK, PageOK
<1>2. /\ Tell(s, Failure(s, "unreachable"), wire)
      /\ Failure(s, "unreachable") \in {"half", "unreachable", "dropped"}
      /\ Failure(s, "unreachable") = "half" => call[s].part = "file"
  BY DEF Timeout, Failure
<1> QED
  BY <1>1, <1>2, GiveUpStep

LEMMA RefreshFailsStep ==
    ASSUME SessionInv, NEW s \in Sessions, RefreshFails(s)
    PROVE  SessionInv'
<1>1. phase[s] # "idle" /\ log' = log /\ dialog' = dialog /\ PageOK'
  BY DEF RefreshFails, Forget, SessionInv, SessionTypeOK, PageOK
<1>2. Tell(s, "dropped", wire)
  BY DEF RefreshFails
<1> QED
  BY <1>1, <1>2, GiveUpStep

LEMMA RefreshStep ==
    ASSUME SessionInv, NEW s \in Sessions, Refresh(s)
    PROVE  SessionInv'
<1>1. PICK p \in Presses, part \in Parts : call[s].press = p /\ call[s].part = part
  BY CallFacts DEF Refresh
<1>2. /\ Fits(p, part) /\ told[p] = "nothing" /\ ~ Wired(p, part) /\ ~ Written(p, part)
      /\ part = "evidence" => ~ Wired(p, "file") /\ ~ Written(p, "file")
      /\ part = "file" => Written(p, "evidence")
      /\ \A t \in Sessions \ {s} : call[t].press # p
  BY <1>1, CallFacts DEF Refresh
<1>3. /\ Send(s, p, part, "again", wire) /\ told' = told /\ log' = log /\ dialog' = dialog
      /\ dialog \in [Presses -> Dialogs \cup {"none"}] /\ PageOK'
  BY <1>1 DEF Refresh, Forget, SessionInv, SessionTypeOK, PageOK
<1>4. /\ \A x : Written(p, x)' <=> Written(p, x)
      /\ Fits(p, part)'
  BY <1>2, <1>3 DEF Written, Fits
<1>5. Carries(wire)
  BY <1>3, Unserved
<1> QED
  BY <1>2, <1>3, <1>4, <1>5, SendStep DEF Wired

LEMMA PressStep ==
    ASSUME SessionInv, NEW s \in Sessions, NEW d \in Dialogs, Press(s, d)
    PROVE  SessionInv'
<1> DEFINE part == IF d = "new_person" THEN "person" ELSE "evidence"
<1>1. PICK p \in Presses :
        /\ dialog[p] = "none" /\ dialog' = [dialog EXCEPT ![p] = d]
        /\ Send(s, p, part, "first", wire)
  BY DEF Press
<1>2. SessionTypeOK /\ log' = log /\ told' = told /\ PageOK'
  BY DEF Press, page, SessionInv, SessionTypeOK, PageOK
<1>3. part \in {"person", "evidence"} /\ part \in Parts
  BY DEF Parts
<1>4. /\ dialog'[p] = d /\ dialog' \in [Presses -> Dialogs \cup {"none"}]
      /\ \A q \in Presses \ {p} : dialog'[q] = dialog[q]
  BY <1>1, <1>2 DEF SessionTypeOK
<1>5. Fits(p, part)'
  BY <1>4 DEF Fits, Dialogs
<1>6. \A x : ~ Fits(p, x)
  BY <1>1 DEF Fits
<1>7. \A x \in Parts : ~ Wired(p, x) /\ ~ Written(p, x)
  BY <1>6, OnlyFitting
<1>8. ~ About(wire, p, part) /\ ~ About(wire, p, "file") /\ ~ Written(p, part)' /\ ~ Written(p, "file")'
  BY <1>2, <1>3, <1>7 DEF Wired, Written, Parts
<1>9. told[p] = "nothing"
  BY <1>1 DEF SessionInv, PressOK
<1>10. \A t \in Sessions \ {s} : call[t].press # p
  <2> SUFFICES ASSUME NEW t \in Sessions, call[t].press = p PROVE FALSE
    OBVIOUS
  <2>1. call[t] # NoCall
    BY CallFields
  <2> QED
    BY <1>6, <2>1 DEF SessionInv, CallOK
<1>11. Carries(wire)
  BY <1>2, Unserved
<1> HIDE DEF part
<1> QED
  BY <1>1, <1>2, <1>3, <1>4, <1>5, <1>8, <1>9, <1>10, <1>11, SendStep

\* Signing in, the replica and the searches touch no call.
LEMMA PageStep ==
    ASSUME SessionInv, UNCHANGED <<log, wire, dialog, told, phase, call>>, PageOK'
    PROVE  SessionInv'
BY Unserved, UnheardStep

LEMMA ReadStep ==
    ASSUME SessionInv,
           \/ Replicate
           \/ \E s \in Sessions :
                 Login(s) \/ Search(s) \/ SearchFails(s) \/ SearchDrops(s) \/ Expire(s)
    PROVE  SessionInv'
<1>1. SessionTypeOK
  BY DEF SessionInv
<1>2. CASE Replicate
  <2>1. UNCHANGED <<log, wire, dialog, told, phase, call>> /\ PageOK'
    <3>1. Len(log) \in Nat
      BY <1>1, LenProperties DEF SessionTypeOK
    <3> QED
      BY <1>1, <1>2, <3>1 DEF Replicate, page, SessionTypeOK, PageOK
  <2> QED
    BY <2>1, PageStep
<1>3. ASSUME NEW s \in Sessions,
             Login(s) \/ Search(s) \/ SearchFails(s) \/ SearchDrops(s) \/ Expire(s)
      PROVE  SessionInv'
  <2>1. UNCHANGED <<log, wire, dialog, told, phase, call>>
    BY <1>3 DEF Login, Search, SearchFails, SearchDrops, Expire
  <2>2. /\ applied' = applied /\ loggedIn' \subseteq Sessions /\ cached' \subseteq Sessions
        /\ listed' \in [Sessions -> 0 .. applied]
    <3>1. applied \in 0 .. applied /\ 0 \in 0 .. applied
      BY <1>1, LenProperties DEF SessionTypeOK
    <3> QED
      BY <1>1, <1>3, <3>1 DEF Login, Search, SearchFails, SearchDrops, Expire, Forget, SessionTypeOK
  <2>3. PageOK'
    BY <1>1, <2>1, <2>2 DEF SessionTypeOK, PageOK
  <2> QED
    BY <2>1, <2>3, PageStep
<1> QED
  BY <1>2, <1>3

LEMMA SessionInitInv == SessionInit => SessionInv
<1> SUFFICES ASSUME SessionInit PROVE SessionInv
  OBVIOUS
<1>1. log = << >> /\ DOMAIN log = {} /\ log \in Seq(Presses \X Parts) /\ Len(log) = 0
  BY EmptySeq DEF SessionInit
<1>2. SessionTypeOK
  BY <1>1 DEF SessionInit, SessionTypeOK, Told
<1>3. WrittenOnce /\ \A p, part : ~ Written(p, part)
  BY <1>1 DEF WrittenOnce, Written
<1>4. \A s \in Sessions : CallOK(s)
  BY DEF SessionInit, CallOK
<1>5. \A m \in wire : MessageOK(m)
  BY DEF SessionInit
<1>6. \A p \in Presses : PressOK(p)
  BY <1>3 DEF SessionInit, PressOK
<1> QED
  BY <1>2, <1>3, <1>4, <1>5, <1>6 DEF SessionInv

LEMMA SessionInductive == SessionInv /\ [SessionNext]_sessionVars => SessionInv'
<1> SUFFICES ASSUME SessionInv, [SessionNext]_sessionVars PROVE SessionInv'
  OBVIOUS
<1>1. ASSUME NEW s \in Sessions, NEW d \in Dialogs, Press(s, d) PROVE SessionInv'
  BY <1>1, PressStep
<1>2. ASSUME NEW s \in Sessions, Timeout(s) \/ Refresh(s) \/ RefreshFails(s) PROVE SessionInv'
  BY <1>2, TimeoutStep, RefreshStep, RefreshFailsStep
<1>3. ASSUME NEW m \in wire, Serve(m) \/ Unauthorized(m) \/ Refuse(m) PROVE SessionInv'
  BY <1>3, ServeStep, UnauthorizedStep, RefuseStep
<1>4. CASE UNCHANGED sessionVars
  <2>1. UNCHANGED <<log, wire, dialog, told, phase, call>> /\ PageOK'
    BY <1>4 DEF sessionVars, SessionInv, SessionTypeOK, PageOK
  <2> QED
    BY <2>1, PageStep
<1> QED
  BY <1>1, <1>2, <1>3, <1>4, ReadStep DEF SessionNext

LEMMA SessionInvariance == SessionSpec => []SessionInv
BY SessionInitInv, SessionInductive, PTL DEF SessionSpec

\* Types, of the frontend and what it talks to.
THEOREM SessionTypeCorrect == SessionSpec => []SessionTypeOK
BY SessionInvariance, PTL DEF SessionInv

\* A press of a button writes no part twice, for any number of sessions and
\* presses: the resend of _request, and calls carried out after they were given
\* up, come to the same single write.
THEOREM PressesWriteOnce == SessionSpec => []WrittenOnce
BY SessionInvariance, PTL DEF SessionInv

\* "Added", "created but its file failed" and an error of the service are true
\* when they are told, and stay so, whatever is still on its way.
THEOREM DialogsTellTheTruth == SessionSpec => []MessageIsTrue
<1>1. SessionInv => MessageIsTrue
  BY DEF SessionInv, PressOK, MessageIsTrue
<1> QED
  BY <1>1, SessionInvariance, PTL
==============================================================================
