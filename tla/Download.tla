------------------------------ MODULE Download ------------------------------
(***************************************************************************)
(* The download of an export's result over HTTP, while accounts are erased *)
(* and artifacts expire.  The handler looks the job up, then the artifact  *)
(* row, then opens the chunks, each with a statement of its own; only then *)
(* does it send the head (200 with the artifact's size as Content-Length)  *)
(* and copy the chunks through a reader that checks size and digest.       *)
(*                                                                         *)
(* The error of the copy is dropped, for the head is out: all a client can *)
(* tell is whether it got as many bytes as the head announced.  Every      *)
(* chunk counts one byte here; chunks are never empty.                     *)
(***************************************************************************)
EXTENDS SubjectErasure, Sequences

CONSTANT Readers   \* requests for downloads

VARIABLES
    expired,   \* the jobs whose artifact's expires_at has passed
    stream     \* stream[d]: how far the handler of d is

dvars == <<expired, stream>>

\* job: the job asked for; sha: the digest in the artifact row; rest: the
\* rows the query on the chunks returns; length: the announced
\* Content-Length; got: what has been sent.
NoStream == [at |-> "idle", job |-> NoJob, sha |-> NoSha, rest |-> << >>,
             length |-> 0, got |-> << >>]

Size(content) == Cardinality(DOMAIN content)

\* An error status, before any content.
Refused(d) == stream' = [stream EXCEPT ![d] = [NoStream EXCEPT !.at = "refused"]]

\* The store answers with the handler's job, its artifact and its chunks;
\* nothing of the tables changes.
Reading == UNCHANGED <<allvars, expired>>

-----------------------------------------------------------------------------
\* JobForAction: only a completed export is worth going on.
RequestDownload(d, j) ==
    /\ stream[d].at \in {"idle", "refused", "ended"}
    /\ jobs[j].status # "absent"
    /\ IF jobs[j].status = "completed"
       THEN stream' = [stream EXCEPT ![d] = [NoStream EXCEPT !.at = "job", !.job = j]]
       ELSE Refused(d)
    /\ Reading

\* Artifact: the artifact row of a job that is still completed.  An expired
\* one comes with a content that only fails; the handler refuses it.
OpenArtifact(d) ==
    LET j == stream[d].job
        found == {a \in ArtifactsOf(j) : jobs[j].status = "completed"}
    IN  /\ stream[d].at = "job"
        /\ IF found = {} \/ j \in expired
           THEN Refused(d)
           ELSE \E a \in found :
                   stream' = [stream EXCEPT ![d].at = "artifact", ![d].sha = a.sha]
        /\ Reading

\* Chunks: one query, so the rows it returns are those of one moment.
OpenChunks(d) ==
    /\ stream[d].at = "artifact"
    /\ stream' = [stream EXCEPT ![d].at = "chunks",
                                ![d].rest = chunks[stream[d].job]]
    /\ Reading

\* Mutant of SendHead: the length is counted over the rows that were found.
SendHeadCounted(d) ==
    /\ stream[d].at = "chunks"
    /\ IF stream[d].job \in expired
       THEN Refused(d)
       ELSE stream' = [stream EXCEPT ![d].at = "send",
                                     ![d].length = Size(stream[d].rest)]
    /\ Reading

SendHead(d) ==
    /\ stream[d].at = "chunks"
    /\ IF stream[d].job \in expired
       THEN Refused(d)
       ELSE stream' = [stream EXCEPT ![d].at = "send",
                                     ![d].length = Size(stream[d].sha)]
    /\ Reading

\* verifyingReadCloser.Read: a chunk goes out; more than the artifact's size
\* is an error and ends the copy.
SendChunk(d) ==
    LET x == stream[d]
        n == Len(x.got)
    IN  /\ x.at = "send"
        /\ n \in DOMAIN x.rest
        /\ stream' = [stream EXCEPT ![d].got = Append(@, x.rest[n]),
                                    ![d].at = IF n + 1 > Size(x.sha) THEN "ended"
                                                                     ELSE "send"]
        /\ Reading

\* The end of the rows, whatever the check of size and digest says of it, or
\* an error of the query, the server or the client on the way.
EndStream(d) ==
    /\ stream[d].at = "send"
    /\ stream' = [stream EXCEPT ![d].at = "ended"]
    /\ Reading

\* expires_at of the artifact of j passes.
Expire(j) ==
    /\ j \notin expired /\ ArtifactsOf(j) # {}
    /\ expired' = expired \cup {j}
    /\ UNCHANGED <<allvars, stream>>

-----------------------------------------------------------------------------
DownloadInit ==
    /\ ErasureInit
    /\ expired = {}
    /\ stream = [d \in Readers |-> NoStream]

DownloadNext ==
    \/ ErasureNext /\ UNCHANGED dvars
    \/ \E d \in Readers :
          \/ \E j \in Jobs : RequestDownload(d, j)
          \/ OpenArtifact(d) \/ OpenChunks(d)
          \/ SendHead(d) \/ SendChunk(d) \/ EndStream(d)
    \/ \E j \in Jobs : Expire(j)

DownloadSpec == DownloadInit /\ [][DownloadNext]_<<allvars, dvars>>

-----------------------------------------------------------------------------
\* A client that got as many bytes as the head announced has the whole
\* result, every page once and in order: an erasure between the statements
\* of the handler, or an expiry, can break a download off but never pass a
\* part of the file, or none of it, for the whole.
DownloadWhole ==
    \A d \in Readers :
        LET x == stream[d]
            sent == {x.got[i] : i \in DOMAIN x.got}
        IN  x.at = "ended" /\ Len(x.got) = x.length =>
               /\ sent = ContentPages
               /\ \A i, k \in DOMAIN x.got : i < k => x.got[i] < x.got[k]
=============================================================================
