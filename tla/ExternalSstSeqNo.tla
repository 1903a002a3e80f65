--------------------------- MODULE ExternalSstSeqNo ---------------------------
(***************************************************************************)
(* crocksdb_set_external_sst_file_global_seq_no and ExternalSstFileModifier *)
(* of src/librocksdb_sys/crocksdb/c.cc: open an external SST file, check   *)
(* its version and global-seqno properties, and overwrite the 8-byte       *)
(* global sequence number field in place.                                  *)
(*                                                                         *)
(* The file is its table properties (version, whether the seqno property   *)
(* exists, the field's offset, 0 when unknown) and its content, reduced    *)
(* to the header the table reader checks and the seqno field.  The content *)
(* exists twice: in the page cache, which every read and write sees, and   *)
(* on disk.  The operating system writes the cache back at any time; a     *)
(* crash drops whatever was not written back.  Env calls may fail.         *)
(***************************************************************************)
EXTENDS Naturals

CONSTANTS
  SeqNos,       \* the sequence numbers a file may carry or a caller may ask for
  Versions      \* the values the version property may hold

VARIABLES
  props,    \* the file's table properties, fixed by the writer of the file
  cache,    \* content seen through the page cache: [header, seqno]
  disk,     \* content on disk
  last      \* the result of the last call: [seq, status, pre]; status "none"
            \* when no call returned since the process started

vars == <<props, cache, disk, last>>

Offsets == {0, 1}   \* 0: external_sst_file_global_seqno_offset unknown

Props == [hasVersion : BOOLEAN, version : Versions, hasSeqno : BOOLEAN, offset : Offsets]

NoResult == [seq |-> 0, status |-> "none", pre |-> 0]

Content == [header : {"ok", "corrupt"}, seqno : SeqNos]

\* Env calls of the wrapper that may fail, in call order: GetFileSize,
\* NewRandomAccessFile, NewTableReader, NewRandomRWFile, RandomRWFile::Write.
EnvFailures == {"none", "size", "open", "reader", "rwfile", "write"}

-----------------------------------------------------------------------------
(* Mutant form: the file is reopened for writing with truncation.         *)
WriteAtTruncates(c, off, s) == [seqno |-> s]

\* rwfile->Write(offset, PutFixed64(seq_no)): offset 0 is the start of the
\* file, whose header it overwrites.
WriteAt(c, off, s) ==
  IF off = 0 THEN [c EXCEPT !.header = "corrupt"] ELSE [c EXCEPT !.seqno = s]

Result(st, pre, w) == [status |-> st, pre |-> pre, write |-> w]

(* Mutant form: the offset == 0 check is missing.                          *)
OutcomeNoOffsetCheck(s, fail) ==
  LET pre == cache.seqno IN
  CASE fail \in {"size", "open", "reader"} -> {Result("ioerror", 0, FALSE)}
    [] ~props.hasVersion -> {Result("corruption", 0, FALSE)}
    [] props.version # 2 -> {Result("notsupported", 0, FALSE)}
    [] ~props.hasSeqno -> {Result("corruption", 0, FALSE)}
    [] pre = s -> {Result("ok", pre, FALSE)}
    [] fail = "rwfile" -> {Result("ioerror", pre, FALSE)}
    [] fail = "write" -> {Result("ioerror", pre, w) : w \in BOOLEAN}
    [] OTHER -> {Result("ok", pre, TRUE)}

(* Mutant form: the already-correct test is inverted.                      *)
OutcomeSkipInverted(s, fail) ==
  LET pre == cache.seqno IN
  CASE fail \in {"size", "open", "reader"} -> {Result("ioerror", 0, FALSE)}
    [] ~props.hasVersion -> {Result("corruption", 0, FALSE)}
    [] props.version # 2 -> {Result("notsupported", 0, FALSE)}
    [] ~props.hasSeqno -> {Result("corruption", 0, FALSE)}
    [] props.offset = 0 -> {Result("corruption", pre, FALSE)}
    [] pre # s -> {Result("ok", pre, FALSE)}
    [] fail = "rwfile" -> {Result("ioerror", pre, FALSE)}
    [] fail = "write" -> {Result("ioerror", pre, w) : w \in BOOLEAN}
    [] OTHER -> {Result("ok", pre, TRUE)}

\* The possible results of one call asking for seq_no s when the Env call
\* named by fail fails: Open's three Env calls, then SetGlobalSeqNo's early
\* returns in code order.  pre_seq_no stays 0 until the seqno property is
\* decoded (from the table reader, which reads through the page cache).  A
\* failed Write may or may not have reached the cache.  (SetGlobalSeqNo's
\* table_reader_ == nullptr test cannot fail after a successful Open.)
Outcome(s, fail) ==
  LET pre == cache.seqno IN
  CASE fail \in {"size", "open", "reader"} -> {Result("ioerror", 0, FALSE)}
    [] ~props.hasVersion -> {Result("corruption", 0, FALSE)}
    [] props.version # 2 -> {Result("notsupported", 0, FALSE)}
    [] ~props.hasSeqno -> {Result("corruption", 0, FALSE)}
    [] props.offset = 0 -> {Result("corruption", pre, FALSE)}
    [] pre = s -> {Result("ok", pre, FALSE)}
    [] fail = "rwfile" -> {Result("ioerror", pre, FALSE)}
    [] fail = "write" -> {Result("ioerror", pre, w) : w \in BOOLEAN}
    [] OTHER -> {Result("ok", pre, TRUE)}

\* crocksdb_set_external_sst_file_global_seq_no(file, s): Open, then
\* SetGlobalSeqNo; a failure is reported through SaveError, pre_seq_no is
\* returned either way.  Nothing is synced.
SetGlobalSeqNoCall ==
  \E s \in SeqNos, fail \in EnvFailures :
    \E r \in Outcome(s, fail) :
      /\ cache' = IF r.write THEN WriteAt(cache, props.offset, s) ELSE cache
      /\ last' = [seq |-> s, status |-> r.status, pre |-> r.pre]
      /\ UNCHANGED <<props, disk>>

\* The kernel writes the dirty page back.
Writeback ==
  /\ disk # cache
  /\ disk' = cache
  /\ UNCHANGED <<props, cache, last>>

\* The machine crashes: the page cache is lost, the process restarts.
Crash ==
  /\ cache' = disk
  /\ last' = NoResult
  /\ UNCHANGED <<props, disk>>

-----------------------------------------------------------------------------
\* Any file the caller may name: a finished SST file, synced by its writer.
Init ==
  /\ props \in Props
  /\ cache \in {c \in Content : c.header = "ok"}
  /\ disk = cache
  /\ last = NoResult

Next == SetGlobalSeqNoCall \/ Writeback \/ Crash

Spec == Init /\ [][Next]_vars

-----------------------------------------------------------------------------
Statuses == {"none", "ok", "ioerror", "corruption", "notsupported"}

TypeOK ==
  /\ props \in Props
  /\ cache \in Content /\ disk \in Content
  /\ last \in [seq : SeqNos \cup {0}, status : Statuses, pre : SeqNos \cup {0}]

\* A call (a step that leaves a result; a crash leaves none) changes the
\* file only in its global seqno field, only to the sequence number it was
\* asked for, and only when the file is a version 2 external file whose
\* seqno field was located (offset # 0).  The
\* validation chain of SetGlobalSeqNo is what keeps the in-place write from
\* landing anywhere else in a file it did not fully check.
WritesOnlySeqnoField ==
  [][last'.status # "none" /\ cache' # cache =>
       /\ cache'.header = cache.header
       /\ cache'.seqno = last'.seq
       /\ props.hasVersion /\ props.version = 2
       /\ props.hasSeqno /\ props.offset # 0]_vars

\* While no crash intervened, a call that returned OK leaves the file (as
\* the engine's next read sees it) carrying the sequence number it was
\* asked for, including when the file already had it and nothing was
\* written.
OkMeansSet ==
  last.status = "ok" => cache.seqno = last.seq
====
