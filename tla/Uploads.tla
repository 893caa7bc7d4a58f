------------------------------ MODULE Uploads ------------------------------
(***************************************************************************)
(* Upload (upload.ts): requests that store files in one directory.  Each   *)
(* file is checked, given a name, compared with what the directory holds,  *)
(* read (the await), and written.  The content of a file is the number of  *)
(* the upload that wrote it; a file is described by what the checks read.  *)
(***************************************************************************)
EXTENDS Naturals, SequencesExt

CONSTANTS
    Uploaders,           \* requests in flight
    Fields,              \* what a form may hold: sequences of files
    UploadOptions,       \* option records
    DangerousExtensions,
    DangerousMimeTypes,
    MaxUploads,          \* bound: files taken up
    MaxInstant           \* bound: Date.now()

UploadFile ==
    [name : STRING, extension : STRING, mime : STRING, size : Nat, separators : BOOLEAN]

ASSUME UploadsAssumption ==
    /\ {MaxUploads, MaxInstant} \subseteq Nat
    /\ Fields \subseteq Seq(UploadFile)

VARIABLES
    directory, \* uploadDir: what each name holds; 0 is a torn file
    htaccess,  \* the .htaccess next to it is there
    upload,    \* the call of each request
    uploads,   \* files taken up so far
    instant,   \* Date.now()
    promised,  \* history: names a successful result told of, and the content
    coincided, \* history: names that two requests found free at once
    clobbered  \* history: names whose promised content another upload replaced

uploadVars == <<directory, htaccess, upload, uploads, instant, promised, coincided, clobbered>>

NoUpload == [pc |-> "idle"]

UploadResult(success) == [pc |-> "answered", success |-> success]

Keeping(map, name, id) == [n \in DOMAIN map \cup {name} |-> IF n = name THEN id ELSE map[n]]

Dropping(map, name) == [n \in DOMAIN map \ {name} |-> map[n]]

Options(u) == upload[u].options

File(u) == Head(upload[u].left)

IsIn(x, list) == list = {} \/ x \in list

\* processFile(): the first check that refuses the file, or "none".  An empty
\* list of allowed types or extensions allows all; maxSize 0 allows any size.
Refusal(f, o) ==
    IF f.extension \in DangerousExtensions THEN "extension"
    ELSE IF f.mime \in DangerousMimeTypes THEN "mime"
    ELSE IF f.separators THEN "name"
    ELSE IF ~ IsIn(f.mime, o.allowedMimeTypes) THEN "mime not allowed"
    ELSE IF ~ IsIn(f.extension, o.allowedExtensions) THEN "extension not allowed"
    ELSE IF o.maxSize # 0 /\ f.size > o.maxSize THEN "size" ELSE "none"

\* generateFileName(): random in two cases, and by the clock in one.
FileName(f, naming) ==
    CASE naming = "original" -> <<"original", 0, f.name>>
      [] naming = "timestamp" -> <<"timestamp", instant, f.name>>
      [] naming = "hash" -> <<"hash", uploads + 1, f.name>>
      [] OTHER -> <<"uuid", uploads + 1>>

\* save() and saveMany() up to the body of the request.
saves(u, fields, options, many) ==
    /\ upload[u].pc \in {"idle", "answered"}
    /\ upload' = [upload EXCEPT ![u] =
          [pc |-> "parsing", left |-> IF many \/ fields = <<>> THEN fields ELSE <<Head(fields)>>,
           options |-> options, name |-> <<>>, id |-> 0, refused |-> FALSE]]
    /\ UNCHANGED <<directory, htaccess, uploads, instant, promised, coincided, clobbered>>

\* formData() resolves or rejects; a rejection leaves nothing to process.
parsed(u) ==
    /\ upload[u].pc = "parsing"
    /\ \E left \in {upload[u].left, <<>>} :
          upload' = [upload EXCEPT ![u] = IF left = <<>> THEN UploadResult(FALSE)
                                          ELSE [upload[u] EXCEPT !.pc = "processing", !.left = left]]
    /\ UNCHANGED <<directory, htaccess, uploads, instant, promised, coincided, clobbered>>

\* The result of one file; with the last one the call answers, with success if
\* no file was refused.
Result(u, refusal) ==
    LET left == Tail(upload[u].left)
        refused == upload[u].refused \/ refusal # "none"
    IN upload' = [upload EXCEPT ![u] =
                    IF left = <<>> THEN UploadResult(~ refused)
                    ELSE [upload[u] EXCEPT !.pc = "processing", !.left = left, !.name = <<>>, !.id = 0,
                                   !.refused = refused]]

ReadingSame(u, name) == \E v \in Uploaders \ {u} : upload[v].pc = "reading" /\ upload[v].name = name

\* With the option taken the other way round.
TakenInverted(name, o) == o.overwrite /\ name \in DOMAIN directory

\* The check of a file that is there already, left out when it may be replaced.
Taken(name, o) == ~ o.overwrite /\ name \in DOMAIN directory

\* processFile() up to file.arrayBuffer().
processes(u) ==
    LET f == File(u)  o == Options(u)  name == FileName(f, o.naming) IN
    /\ upload[u].pc = "processing" /\ uploads < MaxUploads
    /\ uploads' = uploads + 1
    /\ IF Refusal(f, o) # "none"
       THEN Result(u, Refusal(f, o)) /\ UNCHANGED coincided
       ELSE IF Taken(name, o)
       THEN Result(u, "exists") /\ UNCHANGED coincided
       ELSE /\ upload' = [upload EXCEPT ![u] = [upload[u] EXCEPT !.pc = "reading", !.name = name,
                                                               !.id = uploads + 1]]
            /\ coincided' = IF ReadingSame(u, name) THEN coincided \cup {name} ELSE coincided
    /\ UNCHANGED <<directory, htaccess, instant, promised, clobbered>>

\* arrayBuffer() resolved: the file and the .htaccess are written, the latter
\* only where there is none, and its failure is ignored.
writes(u) ==
    LET name == upload[u].name IN
    /\ upload[u].pc = "reading"
    /\ directory' = Keeping(directory, name, upload[u].id)
    /\ htaccess' \in {htaccess, TRUE}
    /\ Result(u, "none")
    /\ promised' = Keeping(promised, name, upload[u].id)
    /\ clobbered' = IF name \in DOMAIN promised /\ ~ Options(u).overwrite
                    THEN clobbered \cup {name} ELSE clobbered
    /\ UNCHANGED <<uploads, instant, coincided>>

\* arrayBuffer() rejected, or writeFileSync() threw and may have begun.
fails(u) ==
    LET name == upload[u].name IN
    /\ upload[u].pc = "reading"
    /\ \/ directory' = directory /\ UNCHANGED <<promised, clobbered>>
       \/ /\ directory' = Keeping(directory, name, 0)
          /\ clobbered' = IF name \in DOMAIN promised /\ ~ Options(u).overwrite
                          THEN clobbered \cup {name} ELSE clobbered
          /\ promised' = Dropping(promised, name)
    /\ Result(u, "failed")
    /\ UNCHANGED <<htaccess, uploads, instant, coincided>>

\* delete().
deletesFile(name) ==
    /\ name \in DOMAIN directory
    /\ directory' = Dropping(directory, name)
    /\ promised' = Dropping(promised, name)
    /\ UNCHANGED <<htaccess, upload, uploads, instant, coincided, clobbered>>

passInstant ==
    /\ instant < MaxInstant
    /\ instant' = instant + 1
    /\ UNCHANGED <<directory, htaccess, upload, uploads, promised, coincided, clobbered>>

UploadsInit ==
    /\ directory = <<>> /\ htaccess = FALSE /\ uploads = 0 /\ instant = 0
    /\ upload = [u \in Uploaders |-> NoUpload]
    /\ promised = <<>> /\ coincided = {} /\ clobbered = {}

UploadsNext ==
    \/ \E u \in Uploaders :
          \/ \E f \in Fields, o \in UploadOptions, many \in BOOLEAN : saves(u, f, o, many)
          \/ parsed(u) \/ processes(u) \/ writes(u) \/ fails(u)
    \/ \E name \in DOMAIN directory : deletesFile(name)
    \/ passInstant

UploadsSpec == UploadsInit /\ [][UploadsNext]_uploadVars

FileNames ==
    ({"original", "timestamp", "hash"} \X Nat \X STRING) \cup ({"uuid"} \X Nat)

UploadCall ==
    [pc : {"parsing", "processing", "reading"}, left : Seq(UploadFile), options : UploadOptions,
     name : FileNames \cup {<<>>}, id : 0 .. MaxUploads, refused : BOOLEAN]

UploadsTypeOK ==
    /\ \A n \in DOMAIN directory : directory[n] \in 0 .. MaxUploads
    /\ htaccess \in BOOLEAN /\ uploads \in 0 .. MaxUploads /\ instant \in 0 .. MaxInstant
    /\ upload \in [Uploaders -> {NoUpload} \cup {UploadResult(b) : b \in BOOLEAN} \cup UploadCall]
    /\ Range(promised) \subseteq 1 .. uploads

\* What a result told its caller is stored, is there with its own content until
\* somebody deletes it or replaces it with overwrite; without overwrite only two
\* requests that found the name free at once replace one another
\* (processFile: existsSync, await arrayBuffer, writeFileSync).
StoredAsTold ==
    /\ \A n \in DOMAIN promised : n \in DOMAIN directory /\ directory[n] = promised[n]
    /\ clobbered \subseteq coincided

-----------------------------------------------------------------------------
(* The inductive invariant behind StoredAsTold.                            *)

ReadsFile(u) == upload[u].pc = "reading"

\* Requests that read files of one name found it free at once, and so did one that
\* reads a file whose name has been promised meanwhile.
FoundFree ==
    \A u \in Uploaders : ReadsFile(u) =>
       /\ \A v \in Uploaders \ {u} :
             ReadsFile(v) /\ upload[v].name = upload[u].name => upload[u].name \in coincided
       /\ ~ Options(u).overwrite /\ upload[u].name \in DOMAIN promised =>
             upload[u].name \in coincided

\* A request that has files to process holds the next one, and reads one it took up.
HoldsFile ==
    \A u \in Uploaders :
       /\ upload[u].pc \in {"processing", "reading"} => upload[u].left # <<>>
       /\ ReadsFile(u) => upload[u].id \in 1 .. uploads

UploadsInv == UploadsTypeOK /\ HoldsFile /\ FoundFree /\ StoredAsTold

=============================================================================
