-------------------------------- MODULE Backup --------------------------------
(***************************************************************************)
(* The backup demonstration (src/sing/network/backup): clients upload a    *)
(* file in chunks, then compare its size, its checksum and what is         *)
(* streamed back; the agent serves each in a thread of its own, over files *)
(* that it does not lock.  The checksum is ideal: equal for equal contents *)
(* only.  The counters of get_progress() are left out.                     *)
(***************************************************************************)
EXTENDS Integers, Sequences

CONSTANTS
  Clients,        \* backup clients
  FileNames,      \* remote names: the local file's own name
  LocalContents,  \* what the local files may hold: sequences of bytes
  Earlier,        \* what files of an earlier time on the agent may hold
  ChunkSize,      \* kUploadChunkSize
  StreamChunk,    \* kStreamChunkSize
  SumPiece,       \* what an ifstream reads at once for the checksum
  MaxUploads, MaxFiles  \* bounds on the uploads, and on the files there ever were

VARIABLES
  dir,       \* the names under the agent's root, and the file each denotes
  disk,      \* the contents of the files, those that lost their name included
  client,    \* per client: the upload, where it is, and its verdict
  uploads    \* uploads begun

backupVars == <<dir, disk, client, uploads>>

NoFile == 0
NoUpload == [at |-> "idle", name |-> "", local |-> <<>>, offset |-> 0, exists |-> FALSE,
             file |-> NoFile, back |-> <<>>, before |-> <<>>,
             alone |-> TRUE, was |-> FALSE, calm |-> TRUE, seen |-> {}]

\* The agent may find files of an earlier time.
BackupInit ==
  /\ \E old \in {<<>>} \cup {<<content>> : content \in Earlier} :
       /\ disk = old
       /\ dir \in IF old = <<>> THEN {[n \in {} |-> 1]} ELSE {[n \in {m} |-> 1] : m \in FileNames}
  /\ client = [c \in Clients |-> NoUpload]
  /\ uploads = 0

-----------------------------------------------------------------------------
Exists(name) == name \in DOMAIN dir
Remote(name) == IF Exists(name) THEN disk[dir[name]] ELSE <<>>
At(c, place) == client[c].at = place

\* The bytes of its local file that the file a client reads holds, in its state
\* after the step.
Right(u) ==
  {i \in DOMAIN u.local : i <= Len(disk'[u.file]) /\ disk'[u.file][i] = u.local[i]}

\* What an upload remembers of the others (history): while its checksum is read,
\* the bytes that were right in the file (seen), whether they were so all at once
\* and no more (was), and whether the file stayed as it was (calm).
Noted(u) ==
  IF u.at # "sum" THEN u
  ELSE [u EXCEPT !.seen = @ \cup Right(u),
                 !.was = @ \/ disk'[u.file] = u.local,
                 !.calm = @ /\ disk'[u.file] = disk[u.file]]

Ended(u) == u.at \in {"idle", "passed", "failed"}

\* The client's next state; the others at the name are no longer alone there.
Step(c, upload) ==
  client' = [d \in Clients |->
    IF d = c THEN Noted(upload)
    ELSE IF Ended(client[d]) THEN client[d]
    ELSE [Noted(client[d]) EXCEPT !.alone = @ /\ client[d].name # upload.name]]

SameFiles == UNCHANGED <<dir, disk>>
Create(name) ==
  /\ dir' = [n \in DOMAIN dir \cup {name} |-> IF n = name THEN Len(disk) + 1 ELSE dir[n]]
  /\ disk' = Append(disk, <<>>)
Overwrite(file, content) == disk' = [disk EXCEPT ![file] = content] /\ UNCHANGED dir

\* Zero stands for the bytes of a hole.
Written(content, offset, data) ==
  [i \in 1..(IF Len(content) > offset + Len(data) THEN Len(content) ELSE offset + Len(data)) |->
     IF i > offset /\ i <= offset + Len(data) THEN data[i - offset]
     ELSE IF i <= Len(content) THEN content[i] ELSE 0]

Least(a, b) == IF a < b THEN a ELSE b
Chunk(c) ==
  LET u == client[c] IN SubSeq(u.local, u.offset + 1, Least(u.offset + ChunkSize, Len(u.local)))
Final(c) == client[c].offset + Len(Chunk(c)) >= Len(client[c].local)

-----------------------------------------------------------------------------
(* Upload: upload_file calls receive_chunk for each chunk                  *)

BeginUpload(c, name, local) ==
  /\ Ended(client[c]) /\ uploads < MaxUploads
  /\ uploads' = uploads + 1
  /\ SameFiles
  /\ LET others == \E d \in Clients \ {c} : client[d].name = name /\ ~Ended(client[d])
     IN Step(c, [NoUpload EXCEPT !.at = IF local = <<>> THEN "size" ELSE "check", !.name = name,
                                 !.local = local, !.before = Remote(name), !.alone = ~others])

\* receive_chunk looks whether the file exists ...
Check(c) ==
  /\ At(c, "check")
  /\ SameFiles /\ UNCHANGED uploads
  /\ Step(c, [client[c] EXCEPT !.at = "open", !.exists = Exists(client[c].name)])

\* The client goes on to its next file, and forgets all but the verdict.
FailedUpload(c) ==
  LET u == client[c]
  IN [NoUpload EXCEPT !.at = "failed", !.name = u.name, !.local = u.local,
                      !.before = u.before, !.alone = u.alone]

\* Mutant: an existing file is never truncated.
TruncatesNever(c) == ~client[c].exists

\* What did not exist is created, and emptied if it is there after all; so is a
\* file for a chunk that is all of it.
Truncates(c) == ~client[c].exists \/ (client[c].offset = 0 /\ Final(c))

\* ... opens it, which fails when it should exist and was deleted since ...
OpenFile(c) ==
  /\ At(c, "open")
  /\ LET name == client[c].name
         opened == Step(c, [client[c] EXCEPT !.at = "write", !.exists = FALSE,
                                              !.file = dir'[name]])
     IN \/ /\ Truncates(c) /\ Exists(name)
           /\ Overwrite(dir[name], <<>>) /\ opened
        \/ /\ Truncates(c) /\ ~Exists(name)
           /\ Create(name) /\ opened
        \/ /\ ~Truncates(c) /\ Exists(name)
           /\ SameFiles /\ opened
        \/ /\ ~Truncates(c) /\ ~Exists(name)
           /\ SameFiles /\ Step(c, FailedUpload(c))
  /\ UNCHANGED uploads

\* ... and writes the chunk, to a file that may have lost its name: then
\* file_size() throws, unless another has the name by now.
WriteChunk(c) ==
  /\ At(c, "write")
  /\ LET u == client[c] IN
     /\ Overwrite(u.file, Written(disk[u.file], u.offset, Chunk(c)))
     /\ IF Exists(u.name)
        THEN /\ Step(c, IF Final(c)
                        THEN [u EXCEPT !.offset = 0, !.file = NoFile, !.at = "size"]
                        ELSE [u EXCEPT !.offset = @ + Len(Chunk(c)), !.file = NoFile,
                                       !.at = "check"])
        ELSE Step(c, FailedUpload(c))
  /\ UNCHANGED uploads

-----------------------------------------------------------------------------
(* Verification                                                            *)

\* get_file_info: a file that is not there has size 0.
VerifySize(c) ==
  /\ At(c, "size")
  /\ SameFiles /\ UNCHANGED uploads
  /\ Step(c, IF Len(Remote(client[c].name)) = Len(client[c].local)
             THEN [client[c] EXCEPT !.at = "summing"] ELSE FailedUpload(c))

\* compute_checksum opens the file; the checksum of none is never the local one.
OpenSum(c) ==
  /\ At(c, "summing")
  /\ SameFiles /\ UNCHANGED uploads
  /\ LET name == client[c].name
     IN Step(c, IF Exists(name) THEN [client[c] EXCEPT !.at = "sum", !.file = dir[name]]
                ELSE FailedUpload(c))

Opened(c) == IF client[c].file = NoFile THEN <<>> ELSE disk[client[c].file]
AtEnd(c) == Len(client[c].back) >= Len(Opened(c))

\* A piece of the open file, which others write, empty and delete meanwhile.
ReadPiece(c, size) ==
  /\ ~AtEnd(c)
  /\ SameFiles /\ UNCHANGED uploads
  /\ LET at == Len(client[c].back)
         end == Least(at + size, Len(Opened(c)))
     IN Step(c, [client[c] EXCEPT !.back = @ \o SubSeq(Opened(c), at + 1, end)])

ReadSum(c) == At(c, "sum") /\ ReadPiece(c, SumPiece)

\* Mutant: the checksums are not compared.
CompareSumNever(c) ==
  /\ At(c, "sum") /\ AtEnd(c)
  /\ SameFiles /\ UNCHANGED uploads
  /\ Step(c, [client[c] EXCEPT !.at = "stream", !.file = NoFile, !.back = <<>>])

\* The checksum of what was read, compared with the local one.
CompareSum(c) ==
  /\ At(c, "sum") /\ AtEnd(c)
  /\ SameFiles /\ UNCHANGED uploads
  /\ Step(c, IF client[c].back = client[c].local
             THEN [client[c] EXCEPT !.at = "stream", !.file = NoFile, !.back = <<>>]
             ELSE FailedUpload(c))

\* stream_file opens the file; it streams nothing when there is none ...
OpenStream(c) ==
  /\ At(c, "stream")
  /\ SameFiles /\ UNCHANGED uploads
  /\ LET name == client[c].name
     IN Step(c, [client[c] EXCEPT !.at = "back",
                                  !.file = IF Exists(name) THEN dir[name] ELSE NoFile])

\* ... and reads a chunk at a time.
StreamBack(c) == At(c, "back") /\ ReadPiece(c, StreamChunk)

\* The end of the stream; what came is compared with the local file.
Compare(c) ==
  /\ At(c, "back") /\ AtEnd(c)
  /\ SameFiles /\ UNCHANGED uploads
  /\ Step(c, IF client[c].back = client[c].local
             THEN [client[c] EXCEPT !.at = "passed", !.file = NoFile, !.back = <<>>]
             ELSE FailedUpload(c))

\* delete_file, by any client.
DeleteFile(name) ==
  /\ Exists(name) /\ Len(disk) < MaxFiles
  /\ dir' = [n \in DOMAIN dir \ {name} |-> dir[n]]
  /\ client' = [c \in Clients |->
       IF Ended(client[c]) THEN client[c]
       ELSE [client[c] EXCEPT !.alone = @ /\ client[c].name # name]]
  /\ UNCHANGED <<disk, uploads>>

BackupNext ==
  \/ \E c \in Clients :
       \/ \E name \in FileNames, local \in LocalContents : BeginUpload(c, name, local)
       \/ Check(c) \/ OpenFile(c) \/ WriteChunk(c) \/ VerifySize(c)
       \/ OpenSum(c) \/ ReadSum(c) \/ CompareSum(c) \/ OpenStream(c) \/ StreamBack(c) \/ Compare(c)
  \/ \E name \in FileNames : DeleteFile(name)

BackupSpec == BackupInit /\ [][BackupNext]_backupVars

-----------------------------------------------------------------------------
\* What the verdict PASSED shows: the file whose checksum was compared held every
\* byte of the local file, at its place, at some moment while it was read; and if
\* nobody wrote to it while it was read, the remote file was the local one.  The
\* bytes need not have been there together: compute_checksum reads without a lock
\* (backup_service.cpp:262), and another upload may write behind it.
PassedWasThere == \A c \in Clients : At(c, "passed") =>
  /\ DOMAIN client[c].local \subseteq client[c].seen
  /\ client[c].calm => client[c].was

\* An upload nobody interferes with passes, but for two kinds of file: an empty
\* one where there was none or a longer one, and one of several chunks over a
\* longer one, whose old end stays.
LoneUploadPasses == \A c \in Clients :
  At(c, "failed") /\ client[c].alone =>
    \/ client[c].local = <<>>
    \/ Len(client[c].local) > ChunkSize /\ Len(client[c].before) > Len(client[c].local)
==============================================================================
