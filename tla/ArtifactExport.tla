--------------------------- MODULE ArtifactExport ---------------------------
(***************************************************************************)
(* An export job whose provider builds the whole artifact as a stream of   *)
(* bytes.  Every claim has the artifact built anew; the worker commits it  *)
(* in chunks of ChunkSize bytes, with the byte offset reached as cursor,   *)
(* and a later claim goes on at that offset if the bytes before it have    *)
(* not changed.  The empty cursor (0) with chunks marks a complete stream. *)
(*                                                                         *)
(* The provider (external) may build any of Builds, another one each time. *)
(***************************************************************************)
EXTENDS ExportResult, Sequences, SequencesExt

CONSTANTS
    Builds,      \* the artifacts the provider may build: sequences of bytes
    ChunkSize    \* bytes per result chunk

ASSUME ArtifactAssumption ==
    /\ ChunkSize \in Nat \ {0}
    /\ Builds \subseteq Seq(0 .. 255)

VARIABLES
    build,    \* build[w]: the content BuildExportArtifact returned to w
    built     \* built[j]: every content built for j, as a history

bvars == <<build, built>>
allvars == <<vars, bvars>>

\* The bytes of a result, as Chunks streams them.
Bytes(c) == FlattenSeq([i \in 1 .. Cardinality(DOMAIN c) |-> c[i - 1]])

-----------------------------------------------------------------------------
(***************************************************************************)
(* processExportArtifact.                                                  *)
(***************************************************************************)

\* Where the worker goes with the locals it resumes with.
AfterBuild(m) ==
    CASE m.cursor > 0                -> "resume"
      [] m.cursor = 0 /\ m.seq = 0   -> "read"
      [] m.cursor = 0 /\ m.seq # 0   -> "identity"

\* The provider builds the artifact; its Records go with the content.
BuildExportArtifact(w, content) ==
    /\ pc[w] = "process" /\ step[w] = "build"
    /\ build' = [build EXCEPT ![w] = content]
    /\ built' = [built EXCEPT ![item[w].job] = @ \cup {content}]
    /\ mem' = [mem EXCEPT ![w].total = Len(content)]
    /\ step' = [step EXCEPT ![w] = AfterBuild(mem[w])]
    /\ UNCHANGED <<qvars, chunks, artifacts, sha, completions>>

\* Mutant of PrefixKept: only the size is compared.
PrefixSized(w) ==
    LET done == Bytes(chunks[item[w].job])
    IN  Len(done) = mem[w].cursor /\ Len(build[w]) >= Len(done)

\* The committed bytes reach to the cursor and are the first of the build.
PrefixKept(w) ==
    LET done == Bytes(chunks[item[w].job])
    IN  Len(done) = mem[w].cursor /\ IsPrefix(done, build[w])

ResumeArtifact(w) ==
    /\ Processing(w) /\ step[w] = "resume"
    /\ IF PrefixKept(w)
       THEN step' = [step EXCEPT ![w] = "read"] /\ UNCHANGED qvars
       ELSE ProcessError(w) /\ UNCHANGED step
    /\ UNCHANGED <<chunks, artifacts, mem, sha, completions, bvars>>

\* Mutant of CommitChunk: the stream counts as ended when less than a full
\* chunk follows.
CommitChunkEndsEarly(w) ==
    LET m == mem[w]
        j == item[w].job
        end == IF m.cursor + ChunkSize < Len(build[w])
               THEN m.cursor + ChunkSize ELSE Len(build[w])
    IN  /\ step[w] = "read" /\ m.cursor < Len(build[w])
        /\ ChunkFree(j, m.seq)
        /\ Progress(w, m.total,
                    IF end + ChunkSize <= Len(build[w]) THEN end ELSE 0, m.seq + 1)
        /\ chunks' = [chunks EXCEPT ![j] =
                        AddChunk(@, m.seq, SubSeq(build[w], m.cursor + 1, end))]
        /\ mem' = [mem EXCEPT ![w].cursor = end, ![w].seq = @ + 1]
        /\ UNCHANGED <<artifacts, sha, step, completions, bvars>>

\* One round of the read loop: the next ChunkSize bytes, or what is left,
\* and CommitResultPage; the cursor is empty when nothing follows.
CommitChunk(w) ==
    LET m == mem[w]
        j == item[w].job
        end == IF m.cursor + ChunkSize < Len(build[w])
               THEN m.cursor + ChunkSize ELSE Len(build[w])
    IN  /\ step[w] = "read" /\ m.cursor < Len(build[w])
        /\ ChunkFree(j, m.seq)
        /\ Progress(w, m.total, IF end < Len(build[w]) THEN end ELSE 0, m.seq + 1)
        /\ chunks' = [chunks EXCEPT ![j] =
                        AddChunk(@, m.seq, SubSeq(build[w], m.cursor + 1, end))]
        /\ mem' = [mem EXCEPT ![w].cursor = end, ![w].seq = @ + 1]
        /\ UNCHANGED <<artifacts, sha, step, completions, bvars>>

\* The stream is at its end.
EndOfContent(w) ==
    /\ pc[w] = "process" /\ step[w] = "read"
    /\ mem[w].cursor = Len(build[w])
    /\ step' = [step EXCEPT ![w] = "identity"]
    /\ UNCHANGED <<qvars, chunks, artifacts, mem, sha, completions, bvars>>

-----------------------------------------------------------------------------
ArtifactClaimUpdate(w) ==
    /\ ClaimUpdate(w)
    /\ step' = [step EXCEPT ![w] = "build"]
    /\ UNCHANGED <<chunks, artifacts, mem, sha, completions, bvars>>

\* The steps that a paged export takes as well.
Shared(w) ==
    \/ \E j \in Jobs : ExportClaimSelect(w, j)
    \/ ResultIdentity(w)
    \/ CompleteExport(w)
    \/ \E ack \in BOOLEAN : CompleteJob(w, ack)
    \/ GiveUp(w)
    \/ QueueOnly(w)

ArtifactWorker(w) ==
    \/ ArtifactClaimUpdate(w)
    \/ \E content \in Builds : BuildExportArtifact(w, content)
    \/ ResumeArtifact(w)
    \/ CommitChunk(w)
    \/ EndOfContent(w)
    \/ /\ Shared(w)
       /\ build' = IF pc'[w] = "idle" THEN [build EXCEPT ![w] = << >>] ELSE build
       /\ UNCHANGED built

ArtifactInit ==
    /\ ResultInit
    /\ build = [w \in Workers |-> << >>]
    /\ built = [j \in Jobs |-> {}]

ArtifactNext ==
    \/ \E j \in Jobs : (Submit(j) \/ Cancel(j)) /\ UNCHANGED <<evars, bvars>>
    \/ \E w \in Workers : ArtifactWorker(w)
    \/ Tick /\ UNCHANGED <<evars, bvars>>

ArtifactSpec == ArtifactInit /\ [][ArtifactNext]_allvars

-----------------------------------------------------------------------------
(***************************************************************************)
(* Properties.                                                             *)
(***************************************************************************)

\* The variables stay in their types: the queue's, and chunks that are never
\* empty nor longer than ChunkSize.
ArtifactTypeOK ==
    /\ QueueTypeOK
    /\ \A j \in Jobs : \A s \in DOMAIN chunks[j] :
          Len(chunks[j][s]) \in 1 .. ChunkSize
    /\ mem \in [Workers -> [cursor: Nat, seq: Nat, total: Nat]]
    /\ \A w \in Workers : build[w] \in Builds \cup {<< >>}

\* What is published is one artifact as the provider built it, from the
\* first byte to the last, although several claims contributed chunks of
\* several builds: never the head of one with the tail of another (the prefix
\* check and the terminal cursor of processExportArtifact).  It may be a part
\* of a build only where the provider also built an empty one for the job: a
\* claim that read the row before the first chunk of another was committed
\* finds nothing to read in its empty build, and publishes what is there.
PublishedIsABuild ==
    \A a \in artifacts :
        /\ a.sha = chunks[a.job]
        /\ \E b \in built[a.job] :
              /\ IsPrefix(Bytes(chunks[a.job]), b)
              /\ Bytes(chunks[a.job]) = b \/ << >> \in built[a.job]

\* The stored cursor tells the truth about the chunks: an offset is the
\* number of bytes committed, and the empty cursor with chunks says that a
\* whole build is in.
CursorTruthful ==
    \A j \in Jobs :
        /\ jobs[j].cursor > 0 => Len(Bytes(chunks[j])) = jobs[j].cursor
        /\ jobs[j].cursor = 0 /\ jobs[j].chunks > 0 =>
              Bytes(chunks[j]) \in built[j]
=============================================================================
