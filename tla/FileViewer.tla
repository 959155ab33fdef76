---------------------------- MODULE FileViewer ----------------------------
(***************************************************************************)
(* Files of the viewer: an upload spills its bytes to a temporary file,     *)
(* renames it to the path of its hash and then finds or inserts a metadata  *)
(* row; deletion is soft and keeps the bytes.  A second part pages through  *)
(* a profile's files, and a third parses the Range header.                  *)
(***************************************************************************)
EXTENDS Integers, Sequences, FiniteSets

CONSTANTS
    FileHashes, FileOwners, FileUploads,
    MaxFileRows,     \* rows ever inserted
    MaxUploads,      \* uploads ever begun
    FileSorts,       \* sort orders of a listing
    FilePage,
    MaxFileSize      \* of the Range part

ASSUME FilesAssumption ==
    /\ IsFiniteSet(FileUploads)
    /\ MaxFileRows \in Nat /\ MaxUploads \in Nat /\ MaxFileSize \in Nat

VARIABLES
    content,         \* hash -> "none", "part" or "whole": the file at its path
    spill,           \* temporary files left in tmp/
    frows,           \* the rows, in the order of their ids
    upload,          \* upload -> where it stands
    uploads,         \* uploads begun
    paging,          \* a listing: its sort, the cursor, the ids it showed
    streamed         \* the last stream: its header, the file's size, the answer

uploadVars == <<content, spill, frows, upload, uploads, paging>>
fileVars == <<content, spill, frows, upload, uploads, paging, streamed>>

NoBound == -1
Headers == [first : NoBound .. MaxFileSize, last : NoBound .. MaxFileSize]
RangeRefused(code) == [code |-> code, start |-> 0, end |-> 0]
NothingStreamed == [header |-> [first |-> NoBound, last |-> NoBound], size |-> 0, answer |-> RangeRefused("none"), bytes |-> {}]

IdleUpload == [at |-> "idle", owner |-> "", hash |-> "", row |-> 0]
Quiet == [sort |-> "none", cursor |-> 0, shown |-> {}, must |-> {}, done |-> FALSE]

FileInit ==
    /\ content = [x \in FileHashes |-> "none"] /\ spill = 0
    /\ frows = <<>> /\ uploads = 0
    /\ upload = [u \in FileUploads |-> IdleUpload]
    /\ paging = Quiet /\ streamed = NothingStreamed

-----------------------------------------------------------------------------
(* Uploading *)

LiveRows(owner, x) == {i \in DOMAIN frows : frows[i].live /\ frows[i].owner = owner /\ frows[i].hash = x}

GotoUpload(u, at) == upload' = [upload EXCEPT ![u].at = at]

\* The multipart form names the file; the acting profile exists.  The bytes go
\* to a temporary file of their own.
ResolveByUpload(u, owner, x) ==
    /\ upload[u].at = "idle" /\ uploads < MaxUploads
    /\ upload' = [upload EXCEPT ![u] = [at |-> "spilled", owner |-> owner, hash |-> x, row |-> 0]]
    /\ uploads' = uploads + 1 /\ spill' = spill + 1
    /\ UNCHANGED <<content, frows, paging, streamed>>

\* An empty or too large upload, or a broken stream, removes the temporary file.
SpillRefused(u) ==
    /\ upload[u].at = "spilled" /\ upload' = [upload EXCEPT ![u] = IdleUpload] /\ spill' = spill - 1
    /\ UNCHANGED <<content, frows, uploads, paging, streamed>>

\* Mutant of Store: the bytes are written to the path of the hash in place.
StoreInPlace(u) ==
    LET x == upload[u].hash
    IN  /\ upload[u].at = "spilled"
        /\ \/ content[x] = "none" /\ content' = [content EXCEPT ![x] = "part"] /\ UNCHANGED <<spill, upload>>
           \/ content[x] # "none" /\ content' = [content EXCEPT ![x] = "whole"] /\ spill' = spill - 1 /\ GotoUpload(u, "stored")
        /\ UNCHANGED <<frows, uploads, paging, streamed>>

\* The spilled file is renamed, unless the hash is there already.
Store(u) ==
    /\ upload[u].at = "spilled"
    /\ content' = [content EXCEPT ![upload[u].hash] = "whole"] /\ spill' = spill - 1
    /\ GotoUpload(u, "stored")
    /\ UNCHANGED <<frows, uploads, paging, streamed>>

\* GetByProfileAndHash.  After a duplicate (at = "again") a missing row is an
\* error; else it is inserted next.
GetByProfileAndHash(u) ==
    LET rows == LiveRows(upload[u].owner, upload[u].hash)
    IN  /\ upload[u].at \in {"stored", "again"}
        /\ IF rows # {}
           THEN upload' = [upload EXCEPT ![u].at = "bump", ![u].row = CHOOSE i \in rows : TRUE]
           ELSE upload' = IF upload[u].at = "again" THEN [upload EXCEPT ![u] = IdleUpload] ELSE [upload EXCEPT ![u].at = "insert"]
        /\ UNCHANGED <<content, spill, frows, uploads, paging, streamed>>

\* INSERT; the unique index of live rows turns a race into a duplicate.
InsertFile(u) ==
    /\ upload[u].at = "insert"
    /\ IF LiveRows(upload[u].owner, upload[u].hash) # {}
       THEN GotoUpload(u, "again") /\ UNCHANGED frows
       ELSE /\ Len(frows) < MaxFileRows
            /\ frows' = Append(frows, [owner |-> upload[u].owner, hash |-> upload[u].hash, live |-> TRUE, refs |-> 1, held |-> 1])
            /\ upload' = [upload EXCEPT ![u] = IdleUpload]
    /\ UNCHANGED <<content, spill, uploads, paging, streamed>>

\* Mutant of bumpRefCount: the count that was read is written.
BumpLost(u) ==
    LET i == upload[u].row
    IN  /\ upload[u].at = "bump"
        /\ frows' = [frows EXCEPT ![i].refs = 2, ![i].held = @ + 1]
        /\ upload' = [upload EXCEPT ![u] = IdleUpload]
        /\ UNCHANGED <<content, spill, uploads, paging, streamed>>

\* One more reference, in one statement; a row deleted meanwhile is an error.
bumpRefCount(u) ==
    LET i == upload[u].row
    IN  /\ upload[u].at = "bump"
        /\ frows' = IF frows[i].live THEN [frows EXCEPT ![i].refs = @ + 1, ![i].held = @ + 1] ELSE frows
        /\ upload' = [upload EXCEPT ![u] = IdleUpload]
        /\ UNCHANGED <<content, spill, uploads, paging, streamed>>

SoftDelete(i) ==
    /\ frows[i].live /\ frows' = [frows EXCEPT ![i].live = FALSE]
    /\ UNCHANGED <<content, spill, upload, uploads, paging, streamed>>

\* The process dies: uploads are gone, their temporary files stay.
FileCrash ==
    /\ \E u \in FileUploads : upload[u].at = "spilled"
    /\ upload' = [u \in FileUploads |-> IdleUpload]
    /\ UNCHANGED <<content, spill, frows, uploads, paging, streamed>>

-----------------------------------------------------------------------------
(* Listing *)

\* Mutant of listFiles: the row after the cursor is passed over.
ListSkips(sort, cursor) ==
    LET rows == {i \in DOMAIN frows : frows[i].live /\ i > cursor + (IF cursor > 0 THEN 1 ELSE 0)}
    IN  {i \in rows : Cardinality({j \in rows : j < i}) < FilePage}

\* The ids of the page after the cursor: live rows with a larger id, in the
\* order of the sort, as many as the limit.
listFiles(sort, cursor) ==
    LET rows == {i \in DOMAIN frows : frows[i].live /\ i > cursor}
        ahead(i) == {j \in rows : IF sort = "created_asc" THEN j < i ELSE j > i}
    IN  {i \in rows : Cardinality(ahead(i)) < FilePage}

\* The last id of the page.
NextCursor(sort, page) == CHOOSE i \in page : \A j \in page : IF sort = "created_asc" THEN i >= j ELSE i <= j

ListFiles(sort) ==
    LET begun == paging.sort # "none"
        page == listFiles(sort, paging.cursor)
        must == IF begun THEN paging.must \cap {i \in DOMAIN frows : frows[i].live} ELSE {i \in DOMAIN frows : frows[i].live}
    IN  /\ ~paging.done /\ (begun => sort = paging.sort)
        /\ paging' = [sort |-> sort, shown |-> paging.shown \cup page, must |-> must,
                      cursor |-> IF page = {} THEN paging.cursor ELSE NextCursor(sort, page),
                      done |-> Cardinality(page) < FilePage]
        /\ UNCHANGED <<content, spill, frows, upload, uploads, streamed>>

-----------------------------------------------------------------------------
(* Streaming *)

\* Mutant of parseRangeHeader: the suffix length is taken for a position.
ParseRangeShifted(header, size) ==
    IF header.first = NoBound /\ header.last > 0 /\ header.last <= size
    THEN [code |-> "range", start |-> size - header.last - (IF header.last < size THEN 1 ELSE 0), end |-> size - 1]
    ELSE RangeRefused("unsatisfiable")

\* "first-last", "first-" or "-last", the last being a length then.  Anything
\* past the end is refused rather than cut off.
parseRangeHeader(header, size) ==
    LET suffix == header.first = NoBound
        toEnd == suffix \/ header.last = NoBound
        malformed == IF suffix THEN header.last <= 0 ELSE ~toEnd /\ header.last < header.first
        outside == IF suffix THEN header.last > size
                   ELSE header.first >= size \/ header.last >= size
    IN  IF malformed THEN RangeRefused("invalid")
        ELSE IF outside THEN RangeRefused("unsatisfiable")
        ELSE [code |-> "range", start |-> IF suffix THEN size - header.last ELSE header.first,
              end |-> IF toEnd THEN size - 1 ELSE header.last]

\* StreamFile of a live row: the range is sought and as many bytes copied as it
\* is long.
StreamFile(header, size) ==
    LET br == parseRangeHeader(header, size)
    IN  /\ streamed' = [header |-> header, size |-> size, answer |-> br,
                        bytes |-> IF br.code = "range" THEN br.start .. br.start + (br.end - br.start) ELSE {}]
        /\ UNCHANGED uploadVars

RangeStep == \E header \in Headers, size \in 1 .. MaxFileSize : StreamFile(header, size)

UploadStep ==
    \/ \E u \in FileUploads :
        \/ \E owner \in FileOwners, x \in FileHashes : ResolveByUpload(u, owner, x)
        \/ SpillRefused(u) \/ Store(u) \/ GetByProfileAndHash(u) \/ InsertFile(u) \/ bumpRefCount(u)
    \/ \E i \in DOMAIN frows : SoftDelete(i)
    \/ FileCrash
    \/ \E sort \in FileSorts : ListFiles(sort)

FileNext == UploadStep \/ RangeStep

FileSpec == FileInit /\ [][FileNext]_fileVars

-----------------------------------------------------------------------------
FileTypeOK ==
    /\ \A x \in FileHashes : content[x] \in {"none", "part", "whole"}
    /\ spill \in 0 .. MaxUploads /\ Len(frows) <= MaxFileRows
    /\ paging.shown \subseteq 1 .. MaxFileRows

\* Every live row can be streamed: its bytes are on disk, complete, whatever
\* uploads of the same bytes, deletions and crashes came between.
RowsHaveContent ==
    /\ \A i \in DOMAIN frows : content[frows[i].hash] = "whole"
    /\ \A x \in FileHashes : content[x] # "part"

\* A profile has one live row per hash, and its reference count is the number
\* of uploads that were given it.
ReferencesCounted ==
    /\ \A i, j \in DOMAIN frows : frows[i].live /\ frows[j].live /\ frows[i].owner = frows[j].owner /\ frows[i].hash = frows[j].hash => i = j
    /\ \A i \in DOMAIN frows : frows[i].refs = frows[i].held

\* A listing in id order that has come to its end has shown every file that
\* was there from its beginning to its end, although files came and went.
ListingComplete == paging.done => paging.must \subseteq paging.shown

\* The bytes of an answered range are the ones the header names: all after the
\* first, up to the last, or as many as asked for from the end.
RangeExact ==
    LET h == streamed.header size == streamed.size
    IN  streamed.answer.code = "range" => streamed.bytes = {b \in 0 .. size - 1 :
            IF h.first = NoBound THEN b >= size - h.last ELSE b >= h.first /\ (h.last # NoBound => b <= h.last)}
=============================================================================
