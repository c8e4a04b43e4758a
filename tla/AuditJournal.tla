---------------------------- MODULE AuditJournal ----------------------------
(***************************************************************************)
(* FilesystemAuditJournal: append-only segments of hash-chained lines and  *)
(* a manifest of the last line, in adapters/persistence/audit.py.          *)
(*                                                                         *)
(* Every operation runs under one interprocess lock that the kernel drops  *)
(* when its holder dies, so an operation of any process is one action.  An *)
(* append that fails or crashes leaves a prefix of its durable effects: a  *)
(* line cut short, a line without its manifest, a checkpoint without the   *)
(* record it was written for.                                              *)
(*                                                                         *)
(* A line's hash commits to every line before it, so a manifest, which     *)
(* holds the last hash, is modelled as the chain it commits to.            *)
(***************************************************************************)
EXTENDS SequencesExt, Integers

CONSTANTS
  Drafts,         \* what the writers append
  Once,           \* the drafts appended with deduplicate=True
  Checkpoint,     \* the draft of a ROTATION_CHECKPOINT
  MaxPerSegment,  \* max_records_per_segment
  Limit,          \* AuditQuery.limit of the reader
  Wanted,         \* the drafts the reader's filters match
  MaxLines,       \* bound of the model: lines ever written
  MaxLosses       \* bound of the model: files lost from the directory

ASSUME JournalAssumption ==
  /\ Once \subseteq Drafts /\ Checkpoint \notin Drafts
  /\ MaxPerSegment \in Nat /\ MaxPerSegment >= 2
  /\ Limit \in Nat \ {0} /\ MaxLines \in Nat /\ MaxLosses \in Nat

VARIABLES
  lines,      \* the complete lines on disk, in the order of segment and line
  torn,       \* does a line cut short end the last segment?
  manifest,   \* <<>> when absent, else <<the chain it commits to>>
  confirmed,  \* history: the records whose append returned
  reply,      \* the last operation and its answer
  reader,     \* a paged query: its cursor and what it has read so far
  losses      \* files lost so far

files == <<lines, torn, manifest>>
allVars == <<files, confirmed, reply, reader, losses>>

Absent == <<>>
Line == [draft: Drafts \cup {Checkpoint}, segment: Nat, sequence: Nat]
NewReader == [at |-> 0, got |-> <<>>, more |-> TRUE]

InSegment(s) == {i \in DOMAIN lines : lines[i].segment = s}
LastSegment == IF lines = <<>> THEN 1 ELSE Last(lines).segment

\* No segment holds more lines than max_records_per_segment.
TypeOK ==
  /\ lines \in Seq(Line) /\ torn \in BOOLEAN
  /\ \A i \in DOMAIN lines : Cardinality(InSegment(lines[i].segment)) <= MaxPerSegment
  /\ manifest = Absent \/ (Len(manifest) = 1 /\ manifest[1] \in Seq(Line))
  /\ confirmed \subseteq Line /\ reader.at \in Nat /\ reader.got \in Seq(Line)

Init ==
  /\ lines = <<>> /\ torn = FALSE /\ manifest = Absent
  /\ confirmed = {} /\ reply = <<"none", "none">> /\ reader = NewReader /\ losses = 0

-----------------------------------------------------------------------------
(* Reading the chain. *)

\* _read_all: complete lines numbered from 1, segments numbered from 1, and a
\* checkpoint at the head of every segment but the first and nowhere else.
Sound ==
  /\ ~torn
  /\ \A i \in DOMAIN lines :
       LET before == IF i = 1 THEN 1 ELSE lines[i - 1].segment IN
       /\ lines[i].sequence = i
       /\ lines[i].segment \in {before, before + 1} /\ (i = 1 => lines[i].segment = 1)
       /\ lines[i].draft = Checkpoint <=> lines[i].segment # before

\* A faulty check: the manifest is not compared.
CurrentByChain == Sound

\* _verify_manifest
Current == Sound /\ manifest = <<lines>>

\* _recover_and_read: a manifest behind the chain must be on the chain.
Recoverable == Sound /\ manifest # Absent /\ IsPrefix(manifest[1], lines)

\* The lines of s that hold one of the drafts, in their order.
Holding(s, drafts) ==
  LET upTo[n \in 0..Len(s)] ==
        IF n = 0 THEN <<>>
        ELSE IF s[n].draft \in drafts THEN Append(upTo[n - 1], s[n]) ELSE upTo[n - 1] IN
  upTo[Len(s)]

Matching == Holding(lines, Wanted)

-----------------------------------------------------------------------------
(* Operations. *)

KeepHistory == UNCHANGED <<confirmed, reader, losses>>

\* __init__ writes a manifest for a journal without files, and nothing else.
Open ==
  /\ UNCHANGED <<lines, torn>> /\ KeepHistory
  /\ IF manifest = Absent /\ lines = <<>> /\ ~torn
       THEN \/ manifest' = <<lines>> /\ reply' = <<"open", "done">>
            \/ manifest' \in {manifest, <<lines>>} /\ reply' = <<"open", "failed">>
       ELSE UNCHANGED manifest /\ reply' = <<"open", "done">>

\* A faulty rotation: the checkpoint is not counted.
AddedUncounted(d) ==
  LET counted == {i \in InSegment(LastSegment) : lines[i].draft # Checkpoint}
      full == Cardinality(counted) >= MaxPerSegment
      seg == IF full THEN LastSegment + 1 ELSE LastSegment
      Next1(x, n) == [draft |-> x, segment |-> seg, sequence |-> Len(lines) + n] IN
  IF full THEN <<Next1(Checkpoint, 1), Next1(d, 2)>> ELSE <<Next1(d, 1)>>

\* The lines an append adds: the draft and, when its segment is full, the
\* checkpoint of the next segment before it.
Added(d) ==
  LET full == Cardinality(InSegment(LastSegment)) >= MaxPerSegment
      seg == IF full THEN LastSegment + 1 ELSE LastSegment
      New(x, n) == [draft |-> x, segment |-> seg, sequence |-> Len(lines) + n] IN
  IF full THEN <<New(Checkpoint, 1), New(d, 2)>> ELSE <<New(d, 1)>>

\* A faulty deduplication: only the segment being written is searched.
KnownHere(d) == {i \in InSegment(LastSegment) : d \in Once /\ lines[i].draft = d}

\* deduplicate: the records that hold the same draft already.
Known(d) == {i \in DOMAIN lines : d \in Once /\ lines[i].draft = d}

\* A faulty append: the manifest is written before the line it names.
ManifestFirst(d) ==
  LET added == Added(d) IN
  \E n \in 0..Len(added) :
    /\ lines' = lines \o SubSeq(added, 1, n)
    /\ manifest' \in {<<lines \o SubSeq(added, 1, m)>> : m \in {n, Min({n + 1, Len(added)})}}
    /\ torn' \in {FALSE, n < Len(added)}
    /\ \/ reply' = <<"append", "failed">> /\ UNCHANGED confirmed
       \/ /\ n = Len(added) /\ ~torn' /\ reply' = <<"append", "done">>
          /\ confirmed' = confirmed \cup {Last(added)}

\* n lines were written and the manifest is at the last of them, or at the one
\* before; the next line may have been cut short.  Only a whole append returns.
Extend(d) ==
  LET added == Added(d) IN
  \E n \in 0..Len(added) :
    /\ lines' = lines \o SubSeq(added, 1, n)
    /\ \/ manifest' = <<lines'>> /\ torn' \in {FALSE, n < Len(added)}
       \/ n = 0 /\ UNCHANGED <<manifest, torn>>
       \/ n > 0 /\ manifest' = <<Front(lines')>> /\ torn' = FALSE
    /\ \/ reply' = <<"append", "failed">> /\ UNCHANGED confirmed
       \/ /\ n = Len(added) /\ manifest' = <<lines'>> /\ reply' = <<"append", "done">>
          /\ confirmed' = confirmed \cup {Last(added)}

AppendDraft(d) ==
  /\ Len(lines) + Len(Added(d)) <= MaxLines /\ UNCHANGED <<reader, losses>>
  /\ IF ~Recoverable
       THEN UNCHANGED <<files, confirmed>> /\ reply' = <<"append", "failed">>
     ELSE IF Known(d) # {}
       THEN \E first \in Known(d) :
              /\ \A i \in Known(d) : first <= i
              /\ UNCHANGED <<lines, torn>>
              /\ \/ /\ manifest' = <<lines>> /\ reply' = <<"append", "done">>
                    /\ confirmed' = confirmed \cup {lines[first]}
                 \/ /\ manifest' \in {manifest, <<lines>>} /\ reply' = <<"append", "failed">>
                    /\ UNCHANGED confirmed
     ELSE Extend(d)

Verify ==
  /\ UNCHANGED files /\ KeepHistory
  /\ reply' = <<"verify", IF Current THEN "valid" ELSE "invalid">>

Inspect(record) ==
  /\ UNCHANGED files /\ KeepHistory
  /\ reply' = <<"inspect", IF ~Current THEN "failed"
                           ELSE IF record \in ToSet(lines) THEN "found" ELSE "missing">>

\* A faulty cursor: it counts the lines the filters left out too.
PageByLine ==
  LET end == Min({reader.at + Limit, Len(lines)})
      all == reader.got \o Holding(SubSeq(lines, reader.at + 1, end), Wanted) IN
  /\ reader' = [at |-> Len(all), got |-> all, more |-> end < Len(lines)]
  /\ reply' = <<"query", "page">>

\* One page of the matching records, from the cursor's offset among them on.
Page ==
  LET end == Min({reader.at + Limit, Len(Matching)}) IN
  /\ reader' = [at |-> end, more |-> end < Len(Matching),
                got |-> reader.got \o SubSeq(Matching, reader.at + 1, end)]
  /\ reply' = <<"query", "page">>

\* A query that failed is repeated with the same cursor; the last page has none.
Query ==
  /\ reader.more /\ UNCHANGED <<files, confirmed, losses>>
  /\ IF Current THEN Page ELSE reply' = <<"query", "failed">> /\ UNCHANGED reader

NewQuery ==
  /\ reader # NewReader /\ reader' = NewReader
  /\ reply' = <<"query", "new">> /\ UNCHANGED <<files, confirmed, losses>>

\* A segment file, or the manifest, disappears from the directory.
Lose ==
  /\ losses < MaxLosses /\ losses' = losses + 1
  /\ reply' = <<"none", "none">> /\ UNCHANGED <<confirmed, reader>>
  /\ \/ \E first, last \in DOMAIN lines :
          /\ InSegment(lines[first].segment) = first..last
          /\ lines' = SubSeq(lines, 1, first - 1) \o SubSeq(lines, last + 1, Len(lines))
          /\ torn' = (torn /\ last # Len(lines)) /\ UNCHANGED manifest
     \/ manifest # Absent /\ manifest' = Absent /\ UNCHANGED <<lines, torn>>

Next ==
  \/ Open \/ Verify \/ Query \/ NewQuery \/ Lose
  \/ \E d \in Drafts : AppendDraft(d)
  \/ \E record \in confirmed : Inspect(record)

Spec == Init /\ [][Next]_allVars

-----------------------------------------------------------------------------
(* Properties. *)

\* Wherever an append fails or crashes, short of cutting a line, the next append can
\* go on: the chain reads back and the manifest is at most one line behind it.
CrashIsRecoverable ==
  losses = 0 /\ ~torn /\ manifest # Absent =>
    Recoverable /\ Len(manifest[1]) >= Len(lines) - 1

\* A journal that verifies, or that an inspection finds not to be there yet, has kept
\* every record whose append returned, although a file may have been lost.
NothingConfirmedIsLost ==
  [][reply' \in {<<"verify", "valid">>, <<"inspect", "missing">>} =>
       confirmed \subseteq ToSet(lines)]_allVars

\* A query read in pages returns the matching records in their order, each once, while
\* appends go on between the pages, and its last page ends with the last of them.
PagesAreExact ==
  [][reply' = <<"query", "page">> =>
       IF reader'.more THEN IsPrefix(reader'.got, Matching) ELSE reader'.got = Matching]_allVars

\* The journal implements the log its writers rely on.
Kept == IF losses > 0 THEN <<>> ELSE Holding(lines, Drafts)
Log ==
  INSTANCE AuditLog WITH
    intact <- losses = 0,
    log <- [i \in DOMAIN Kept |-> Kept[i].draft],
    confirmed <- {i \in DOMAIN Kept : Kept[i] \in confirmed}

\* Segments, checkpoints, manifests, failed and crashed appends change nothing in what
\* is retained and in which order; a deduplicated draft is retained once.
ImplementsAuditLog == Log!Spec
=============================================================================
